------------------------------ MODULE Accounts ------------------------------
(***************************************************************************)
(* Accounts of the workforce band, the faces filed under them and the links  *)
(* that file them (backend/registrations.py, biometrics.py, enrollment.py,   *)
(* the account desk of main.py, the face residue of retention.py).           *)
(*                                                                          *)
(* A number is reused, a biometric id never: it is minted for one account     *)
(* (biometrics.new_account_id).  The model gives each person one account at   *)
(* most and names that account's biometric id after the person, so that        *)
(* templates[p] is the file under p's id and its value the person it shows.    *)
(*                                                                          *)
(* The desk's handlers await nothing between their transaction and the files  *)
(* they remove, so each is one action; a refused request changes nothing.      *)
(***************************************************************************)
EXTENDS Naturals, FiniteSets, FiniteSetsExt

CONSTANTS
    People,         \* who may come to have an account
    Nobody,         \* no person
    Ceiling,        \* WORKFORCE_ID_CEILING
    Cap,            \* settings.registration_pending_cap
    Links,          \* enrollment_invites that may be issued
    MaxUses         \* settings.enrollment_token_max_uses

ASSUME AccountsAssumption ==
    /\ IsFiniteSet(People) /\ Nobody \notin People
    /\ Ceiling \in Nat /\ Cap \in Nat /\ MaxUses \in Nat \ {0}

VARIABLES
    users,          \* the users rows of the band, by number
    templates,      \* the file under each biometric id: whose face it is
    waiting,        \* "awaiting approval" notices by dedupe key: about whom
    refused,        \* the audit trail of refused applicants
    links           \* enrollment_invites
accountVars == <<users, templates, waiting, refused, links>>

-----------------------------------------------------------------------------
(* Rows                                                                     *)

Numbers == 1 .. Ceiling
Waiting == "pending_approval"
Statuses == {Waiting, "active", "inactive"}

Free == [status |-> "free", of |-> Nobody]      \* no row
Account == [status: Statuses, of: People] \cup {Free}

\* Whom a link was issued for, how often it was used, and whether it was revoked or deleted
Unissued == [number |-> 0, face |-> Nobody, uses |-> 0, live |-> FALSE]
Usable(l) == links[l].live /\ links[l].uses < MaxUses    \* _invite_status

AccountsInit ==
    /\ users = [n \in Numbers |-> Free]
    /\ templates = [p \in People |-> Nobody]
    /\ waiting = [n \in Numbers |-> Nobody]
    /\ refused = {}
    /\ links = [l \in Links |-> Unissued]

Taken(n) == users[n] # Free
Holds(p, status) == \E n \in Numbers : users[n] = [status |-> status, of |-> p]
HasAccount(p) == \E n \in Numbers : users[n].of = p

-----------------------------------------------------------------------------
(* Registration                                                             *)

\* Also a deactivated account holds its number
FreeNumbers == {n \in Numbers : ~Taken(n)}

Applications == {n \in Numbers : users[n].status = Waiting}

HasRoom == Cardinality(Applications) < Cap

\* The insert of submit_registration: cap, lowest free number, row and notice, in one
\* BEGIN IMMEDIATE.  The notice's key names the number, so one that stands is kept.
InsertApplicant(p, n) ==
    /\ HasRoom
    /\ FreeNumbers # {} /\ n = Min(FreeNumbers)
    /\ users' = [users EXCEPT ![n] = [status |-> Waiting, of |-> p]]
    /\ waiting' = [waiting EXCEPT ![n] = IF @ = Nobody THEN p ELSE @]
    /\ UNCHANGED <<templates, refused, links>>

\* The notice stays: it is history once the account works
ApproveRegistration(n) ==
    /\ users[n].status = Waiting
    /\ users' = [users EXCEPT ![n].status = "active"]
    /\ UNCHANGED <<templates, waiting, refused, links>>

\* Broken on purpose, for the mutation checks: the refused applicant's notice is left standing.
RejectKeepingNotice(n) ==
    /\ users[n].status = Waiting
    /\ users' = [users EXCEPT ![n] = Free]
    /\ refused' = refused \cup {users[n].of}
    /\ templates' = [templates EXCEPT ![users[n].of] = Nobody]
    /\ UNCHANGED <<waiting, links>>

\* The row and the notice go, then the files under the id that was read before.  The links
\* issued to the applicant are not touched.
RejectRegistration(n) ==
    /\ users[n].status = Waiting
    /\ users' = [users EXCEPT ![n] = Free]
    /\ waiting' = [waiting EXCEPT ![n] = Nobody]
    /\ refused' = refused \cup {users[n].of}
    /\ templates' = [templates EXCEPT ![users[n].of] = Nobody]
    /\ UNCHANGED links

-----------------------------------------------------------------------------
(* The account desk                                                         *)

\* POST /admin/users/add: the number is the administrator's choice and the primary key decides
AddUser(n, p) ==
    /\ ~Taken(n)
    /\ users' = [users EXCEPT ![n] = [status |-> "active", of |-> p]]
    /\ UNCHANGED <<templates, waiting, refused, links>>

\* POST /admin/users/create with a photograph, whose face is filed right after the insert
CreateUser(n, p) ==
    /\ ~Taken(n)
    /\ users' = [users EXCEPT ![n] = [status |-> "active", of |-> p]]
    /\ templates' = [templates EXCEPT ![p] = p]
    /\ UNCHANGED <<waiting, refused, links>>

LinksDead(n) == [l \in Links |-> [links[l] EXCEPT !.live = @ /\ links[l].number # n]]

\* set_user_status: access and face go, the row and its number stay; also the way a worker with
\* records closes an own account.
Deactivate(n) ==
    /\ users[n].status = "active"
    /\ users' = [users EXCEPT ![n].status = "inactive"]
    /\ links' = LinksDead(n)
    /\ templates' = [templates EXCEPT ![users[n].of] = Nobody]
    /\ UNCHANGED <<waiting, refused>>

\* Whatever is not active is made active, an applicant too
Reactivate(n) ==
    /\ Taken(n) /\ users[n].status # "active"
    /\ users' = [users EXCEPT ![n].status = "active"]
    /\ UNCHANGED <<templates, waiting, refused, links>>

\* Broken on purpose, for the mutation checks: the links of a deleted account live on.
DeleteUserOnly(n) ==
    /\ Taken(n)
    /\ users' = [users EXCEPT ![n] = Free]
    /\ UNCHANGED <<templates, waiting, refused, links>>

\* delete_user, and a worker without records who closes an own account.  The files are looked for
\* after the row is gone, so the biometric id cannot be found any more (biometrics.id_for) and
\* the template stays.
DeleteUser(n) ==
    /\ Taken(n)
    /\ users' = [users EXCEPT ![n] = Free]
    /\ links' = LinksDead(n)
    /\ UNCHANGED <<templates, waiting, refused>>

CreateInvite(l, n) ==
    /\ links[l] = Unissued /\ Taken(n)
    /\ links' = [links EXCEPT ![l] =
                     [number |-> n, face |-> users[n].of, uses |-> 0, live |-> TRUE]]
    /\ UNCHANGED <<users, templates, waiting, refused>>

RevokeInvite(l) ==
    /\ links[l].live
    /\ links' = [links EXCEPT ![l].live = FALSE]
    /\ UNCHANGED <<users, templates, waiting, refused>>

-----------------------------------------------------------------------------
(* The face residue of the retention sweep                                  *)

\* A file is kept while its account is active.  A file of an account with any other status goes
\* at once, one without an account when it is old enough.
Live == {p \in People : Holds(p, "active")}
Orphans == {p \in People : ~HasAccount(p)}

\* Broken on purpose, for the mutation checks: files are matched by number, and no file is named by one.
ResidueOfTheRest(aged) == {p \in People : templates[p] # Nobody /\ (HasAccount(p) \/ p \in aged)}

\* Broken on purpose, for the mutation checks: only what belongs to an account is swept.
ResidueOfAccounts(aged) == {p \in People : templates[p] # Nobody /\ p \notin Live /\ HasAccount(p)}

Residue(aged) ==
    {p \in People : templates[p] # Nobody /\ p \notin Live /\ (HasAccount(p) \/ p \in aged)}

SweepFaces(aged) ==
    /\ Residue(aged) # {}
    /\ templates' = [p \in People |-> IF p \in Residue(aged) THEN Nobody ELSE templates[p]]
    /\ UNCHANGED <<users, waiting, refused, links>>

DeskStep ==
    \/ \E n \in Numbers :
           \/ ApproveRegistration(n) \/ RejectRegistration(n)
           \/ Deactivate(n) \/ Reactivate(n) \/ DeleteUser(n)
           \/ \E l \in Links : CreateInvite(l, n)
    \/ \E l \in Links : RevokeInvite(l)
    \/ \E aged \in SUBSET Orphans : SweepFaces(aged)
=============================================================================
