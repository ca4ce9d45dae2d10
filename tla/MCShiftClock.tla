---------------------------- MODULE MCShiftClock ----------------------------
(***************************************************************************)
(* Every small set of shift rules; every limit is reached by the horizon.   *)
(***************************************************************************)
EXTENDS ShiftClock

SmallRules ==
    [regular: 1..3, notify: 1..4, break: 0..1, breakAfter: 0..3,
     roundUp: 0..1, autoClose: BOOLEAN]

SmallLimits == 1..4

\* The horizon is what VerdictIsTrue asks of it.
ASSUME InstanceAssumption == LongEnough
=============================================================================
