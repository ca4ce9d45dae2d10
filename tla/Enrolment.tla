----------------------------- MODULE Enrolment -----------------------------
(***************************************************************************)
(* Requests that end with a face on file: an application by the public form   *)
(* (registrations.submit_registration), an enrolment at the desk              *)
(* (main.enroll_worker) and one by an invitation link                         *)
(* (enrollment.submit_enrollment).                                           *)
(*                                                                          *)
(* Each is let in, awaits the face models, and then writes.  The template is  *)
(* filed under the biometric id of whoever holds the number by then           *)
(* (biometrics.write_reference): the form and the desk do so on a thread, in   *)
(* two steps between which the event loop goes on; a link does so on the loop.  *)
(*                                                                          *)
(* A request may stop after any step, as it does when the server does: no      *)
(* fairness is assumed of requests.                                         *)
(***************************************************************************)
EXTENDS Accounts

CONSTANTS
    Slots,          \* enrolments that may be in flight at once
    NoLink          \* the desk

ASSUME SlotsAssumption ==
    /\ IsFiniteSet(Slots) /\ Slots \cap People = {} /\ NoLink \notin Links

VARIABLE work       \* each person's application, and each enrolment in flight

Stages == {"idle", "scoring", "resolving", "filing", "done"}
Idle == [stage |-> "idle", number |-> 0, face |-> Nobody, bid |-> Nobody, link |-> NoLink]
Task ==
    [stage: Stages, number: 0 .. Ceiling, face: People \cup {Nobody}, bid: People \cup {Nobody},
     link: Links \cup {NoLink}]

WorkInit == work = [t \in People \cup Slots |-> Idle]

Moves(t, stage) == work' = [work EXCEPT ![t].stage = stage]

\* A person has one account at most; a slot is used again
Ends(t) == work' = [work EXCEPT ![t] = IF t \in People THEN [Idle EXCEPT !.stage = "done"] ELSE Idle]

-----------------------------------------------------------------------------
(* The public form                                                          *)

Submit(p) ==
    /\ work[p] = Idle
    /\ work' = [work EXCEPT ![p] = [Idle EXCEPT !.stage = "scoring", !.face = p]]
    /\ UNCHANGED accountVars

\* The form is closed, the photograph refused, the engine busy, the queue or the band full: it may
\* be sent again.
RefuseSubmission(p) ==
    /\ work[p].stage = "scoring"
    /\ work' = [work EXCEPT ![p] = Idle]
    /\ UNCHANGED accountVars

Insert(p) ==
    /\ work[p].stage = "scoring"
    /\ \E n \in FreeNumbers :
           /\ InsertApplicant(p, n)
           /\ work' = [work EXCEPT ![p].stage = "resolving", ![p].number = n]

\* The console's way to an account
Hire(p, n) ==
    /\ work[p] = Idle
    /\ AddUser(n, p) \/ CreateUser(n, p)
    /\ Ends(p)

-----------------------------------------------------------------------------
(* The desk and the links                                                   *)

\* The photograph is of whoever holds the number when the request is let in
StartAtDesk(s, n) ==
    /\ work[s] = Idle /\ Taken(n)
    /\ work' = [work EXCEPT ![s] =
                    [Idle EXCEPT !.stage = "scoring", !.number = n, !.face = users[n].of]]
    /\ UNCHANGED accountVars

\* ... or of the person the link was sent to
OpenLink(s, l) ==
    /\ work[s] = Idle /\ Usable(l)
    /\ work' = [work EXCEPT ![s] = [Idle EXCEPT !.stage = "scoring", !.number = links[l].number,
                                                !.face = links[l].face, !.link = l]]
    /\ UNCHANGED accountVars

RefuseFace(s) ==
    /\ work[s].stage = "scoring"
    /\ Ends(s)
    /\ UNCHANGED accountVars

JudgeAtDesk(s) ==
    /\ work[s].stage = "scoring" /\ work[s].link = NoLink
    /\ Moves(s, "resolving")
    /\ UNCHANGED accountVars

\* The link's use is counted after the file is there, and is not looked at again
FileByLink(s) ==
    /\ work[s].stage = "scoring" /\ work[s].link # NoLink
    /\ Taken(work[s].number)
    /\ templates' = [templates EXCEPT ![users[work[s].number].of] = work[s].face]
    /\ links' = [links EXCEPT ![work[s].link].uses = @ + 1]
    /\ Ends(s)
    /\ UNCHANGED <<users, waiting, refused>>

-----------------------------------------------------------------------------
(* biometrics.write_reference on a thread                                   *)

FindId(t) ==
    /\ work[t].stage = "resolving" /\ Taken(work[t].number)
    /\ work' = [work EXCEPT ![t].stage = "filing", ![t].bid = users[work[t].number].of]
    /\ UNCHANGED accountVars

\* No row, no id: the caller is told, or the administrators are
NoIdFound(t) ==
    /\ work[t].stage \in {"resolving", "scoring"}
    /\ work[t].stage = "scoring" => t \in Slots /\ work[t].link # NoLink
    /\ ~Taken(work[t].number)
    /\ Ends(t)
    /\ UNCHANGED accountVars

FileFace(t) ==
    /\ work[t].stage = "filing"
    /\ templates' = [templates EXCEPT ![work[t].bid] = work[t].face]
    /\ Ends(t)
    /\ UNCHANGED <<users, waiting, refused, links>>

RequestStep ==
    \/ \E p \in People :
           \/ Submit(p) \/ RefuseSubmission(p) \/ Insert(p)
           \/ \E n \in Numbers : Hire(p, n)
    \/ \E s \in Slots :
           \/ RefuseFace(s) \/ JudgeAtDesk(s) \/ FileByLink(s)
           \/ \E n \in Numbers : StartAtDesk(s, n)
           \/ \E l \in Links : OpenLink(s, l)
    \/ \E t \in People \cup Slots : FindId(t) \/ NoIdFound(t) \/ FileFace(t)
=============================================================================
