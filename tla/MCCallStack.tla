---------------------------- MODULE MCCallStack ----------------------------
(* CallStack with two programs and a return stack of three levels.          *)
EXTENDS CallStack

MCPrgms == {0, 1}
MCMaxRtnLevel == 3
=============================================================================
