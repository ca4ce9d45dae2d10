------------------------------- MODULE MCPush -------------------------------
(***************************************************************************)
(* Small instances of PushDispatch for TLC.                                 *)
(***************************************************************************)
EXTENDS PushDispatch

AllToOne == [n \in Notices |-> CHOOSE w \in Workers : TRUE]
=============================================================================
