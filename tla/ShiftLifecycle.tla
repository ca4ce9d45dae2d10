--------------------------- MODULE ShiftLifecycle ---------------------------
(***************************************************************************)
(* What attendance promises, without rows, requests or scans: a worker is    *)
(* off, travelling to a place not yet named, or working; a shift ends once,   *)
(* at somebody's hand and with one record, and once ended stays ended.  A    *)
(* trip that has reached no place is ended without one by an administrator   *)
(* only, and never by the system.                                           *)
(***************************************************************************)
EXTENDS Integers

CONSTANT Workers

VARIABLES
    phase,      \* where each worker's open shift stands
    current,    \* the number of that shift
    ended       \* one record per shift that is over

lifecycleVars == <<phase, current, ended>>

NoShift == -1
Hands == {"worker", "administrator", "system"}

Over(w, n) == \E e \in ended : e.worker = w /\ e.shift = n

Init ==
    /\ phase = [w \in Workers |-> "off"]
    /\ current = [w \in Workers |-> NoShift]
    /\ ended = {}

\* A worker starts a shift nobody has ended before
Start(w, to) ==
    /\ phase[w] = "off"
    /\ phase' = [phase EXCEPT ![w] = to]
    /\ current' = [current EXCEPT ![w] = current'[w]]
    /\ current'[w] \in Nat
    /\ ~Over(w, current'[w])
    /\ UNCHANGED ended

Reach(w) ==
    /\ phase[w] = "travelling"
    /\ phase' = [phase EXCEPT ![w] = "working"]
    /\ UNCHANGED <<current, ended>>

\* A record of a shift that is open now.  "placed" says whether it names a site.
Closes(e, who, hand) ==
    /\ e.worker \in who
    /\ e.shift = current[e.worker]
    /\ e.by = hand
    /\ e.placed \/ (phase[e.worker] = "travelling" /\ hand = "administrator")

\* Some workers' shifts end in one step, each with exactly one record
End(who, hand) ==
    LET fresh == ended' \ ended IN
    /\ who # {}
    /\ \A w \in who :
          /\ phase[w] # "off"
          /\ phase[w] = "travelling" => hand # "system"
          /\ ~Over(w, current[w])
          /\ \E e \in fresh : e.worker = w
    /\ \A e \in fresh : Closes(e, who, hand)
    /\ \A e, f \in fresh : e.worker = f.worker => e = f
    /\ ended \subseteq ended'
    /\ phase' = [w \in Workers |-> IF w \in who THEN "off" ELSE phase[w]]
    /\ current' = [w \in Workers |-> IF w \in who THEN NoShift ELSE current[w]]

Next ==
    \/ \E w \in Workers, to \in {"travelling", "working"} : Start(w, to)
    \/ \E w \in Workers : Reach(w)
    \/ \E who \in SUBSET Workers, hand \in Hands : End(who, hand)

Spec == Init /\ [][Next]_lifecycleVars
=============================================================================
