---------------------------- MODULE MCFieldWork ----------------------------
(***************************************************************************)
(* Small instances of FieldWork for TLC.                                    *)
(***************************************************************************)
EXTENDS FieldWork, TLC

OwnersOf(workers) == [p \in Phones |-> CHOOSE w \in workers : TRUE]
OneOwner == OwnersOf(Workers)

NoClose ==
    {[regular |-> 1, notify |-> 2, break |-> 0, breakAfter |-> 1, roundUp |-> 0,
      autoClose |-> FALSE]}
=============================================================================
