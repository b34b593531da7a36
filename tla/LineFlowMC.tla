---------------------------- MODULE LineFlowMC ----------------------------
(* Instances of LineFlow for TLC: what one read() of a socket may hold.     *)
EXTENDS LineFlow

\* Up to two server lines in one read, one of them possibly an MCP line.
TwoLineReads == {<<>>, <<"regular">>, <<"regular", "regular">>, <<"mcp">>}

\* One command or line of text; a /quit with what the user typed behind it.
AllCommands ==
    {<<>>, <<"text">>, <<"mcp">>, <<"recall">>, <<"ace">>, <<"forget">>, <<"quit", "text">>}
=============================================================================
