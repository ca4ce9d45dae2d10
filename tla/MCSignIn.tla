------------------------------ MODULE MCSignIn ------------------------------
(* A small deployment for TLC: a head administrator with records, the developer, and a number that is
   free. *)
EXTENDS SignIn, TLC

Row(role, person) ==
    [role |-> role, status |-> "active", version |-> 0, password |-> "first", boss |-> Nobody,
     person |-> person]

CONSTANTS p1, p2, p3, r1, r2

First == 1 :> Row("head_admin", p1) @@ 2 :> Row(Developer, p2) @@ 3 :> Absent
Symmetry == Permutations(Requests)
=============================================================================
