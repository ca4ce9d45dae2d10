--------------------------- MODULE MCOnboarding ---------------------------
(* Instances of Onboarding for TLC. *)
EXTENDS Onboarding, TLC

OneItem == {1}
TwoItems == {1, 2}
==========================================================================
