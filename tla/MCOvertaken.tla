---------------------------- MODULE MCOvertaken ----------------------------
(***************************************************************************)
(* A small instance of OvertakenWatch for TLC.                              *)
(***************************************************************************)
EXTENDS OvertakenWatch

OneClose ==
    {[regular |-> 1, notify |-> 1, break |-> 0, breakAfter |-> 1, roundUp |-> 0,
      autoClose |-> TRUE]}
=============================================================================
