-------------------------- MODULE OnboardingProofs --------------------------
(***************************************************************************)
(* For every number of people, numbers, links, requests and runners: types,    *)
(* and what the accounts, the faces and the links owe each other.              *)
(***************************************************************************)
EXTENDS Onboarding, FiniteSetTheorems, WellFoundedInduction, TLAPS

-----------------------------------------------------------------------------
(* Types                                                                    *)

LinkRow == [number: 0 .. Ceiling, face: People \cup {Nobody}, uses: Nat, live: BOOLEAN]

AccountTypes ==
    /\ users \in [Numbers -> Account]
    /\ templates \in [People -> People \cup {Nobody}]
    /\ waiting \in [Numbers -> People \cup {Nobody}]
    /\ refused \subseteq People
    /\ links \in [Links -> LinkRow]
    /\ \A l \in Links : links[l].live => links[l].number \in Numbers /\ links[l].face \in People

\* A request knows whose face it has as soon as it is let in, the number it is about when it
\* looks for the id, and the id when it writes.
TaskOK(t, row) ==
    /\ row \in Task
    /\ row.stage \in {"scoring", "resolving", "filing"} => row.face \in People
    /\ row.stage = "resolving" \/ (t \in Slots /\ row.stage = "scoring") => row.number \in Numbers
    /\ row.stage = "filing" => row.bid \in People

WorkTypes ==
    /\ work \in [People \cup Slots -> Task]
    /\ \A t \in People \cup Slots : TaskOK(t, work[t])

Busy == {"scoring", "resolving", "filing", "recording", "counting"}

\* A runner works on a roster that was uploaded, whose photographs are of people.
BulkTypes ==
    /\ job \in Job /\ items \in [Items -> Item] /\ runner \in [Runners -> Runner]
    /\ crashes \in Nat
    /\ job.status # "none" =>
           \A i \in Items : items[i].number \in Numbers /\ items[i].face \in People
    /\ \A r \in Runners :
           /\ runner[r].at # "off" => job.status # "none"
           /\ runner[r].at \in Busy => runner[r].item \in Items
           /\ runner[r].at = "filing" => runner[r].bid \in People

\* A number that is taken is somebody's, and a person's account is theirs.
LEMMA TakenIsSomebodys ==
    ASSUME AccountTypes, NEW n \in Numbers
    PROVE  /\ Taken(n) => users[n].of \in People /\ users[n].status \in Statuses
           /\ ~Taken(n) => users[n].of = Nobody /\ users[n].status = "free"
BY DEF AccountTypes, Account, Taken, Free

\* A row of a status and a person is an account.
LEMMA RowType ==
    ASSUME NEW st \in Statuses, NEW p \in People
    PROVE  [status |-> st, of |-> p] \in Account
BY DEF Account

\* The rows of the band, after one of them was given, or changed its status, or was deleted.
LEMMA UsersType ==
    ASSUME AccountTypes, NEW n \in Numbers
    PROVE  /\ \A st \in Statuses, p \in People :
                  [users EXCEPT ![n] = [status |-> st, of |-> p]] \in [Numbers -> Account]
           /\ \A st \in Statuses : Taken(n) => [users EXCEPT ![n].status = st] \in [Numbers -> Account]
           /\ [users EXCEPT ![n] = Free] \in [Numbers -> Account]
<1>1. users \in [Numbers -> Account] /\ Free \in Account
  BY DEF AccountTypes, Account
<1>2. ASSUME NEW st \in Statuses, Taken(n)
      PROVE  [users[n] EXCEPT !.status = st] \in Account
  <2>1. users[n] \in [status: Statuses, of: People]
    BY <1>1, <1>2 DEF Account, Taken
  <2>. QED  BY <2>1 DEF Account
<1>. QED  BY <1>1, <1>2, RowType

\* The links of a deleted or deactivated account are dead, and are links.
LEMMA DeadLinksType ==
    ASSUME AccountTypes, NEW n \in Numbers
    PROVE  /\ LinksDead(n) \in [Links -> LinkRow]
           /\ \A l \in Links :
                  /\ LinksDead(n)[l].live => links[l].live /\ links[l].number # n
                  /\ LinksDead(n)[l].number = links[l].number
                  /\ LinksDead(n)[l].face = links[l].face
<1>. SUFFICES ASSUME NEW l \in Links
     PROVE  /\ [links[l] EXCEPT !.live = @ /\ links[l].number # n] \in LinkRow
            /\ LinksDead(n)[l] = [links[l] EXCEPT !.live = @ /\ links[l].number # n]
            /\ LinksDead(n)[l].live => links[l].live /\ links[l].number # n
            /\ LinksDead(n)[l].number = links[l].number
            /\ LinksDead(n)[l].face = links[l].face
  BY Zenon DEF LinksDead
<1>1. links[l] \in LinkRow
  BY DEF AccountTypes
<1>2. LinksDead(n)[l] = [links[l] EXCEPT !.live = @ /\ links[l].number # n]
  BY DEF LinksDead
<1>3. [links[l] EXCEPT !.live = @ /\ links[l].number # n] \in LinkRow
  BY <1>1, Zenon DEF LinkRow
<1>4. /\ LinksDead(n)[l].live = (links[l].live /\ links[l].number # n)
      /\ LinksDead(n)[l].number = links[l].number
      /\ LinksDead(n)[l].face = links[l].face
  BY <1>1, <1>2, Zenon DEF LinkRow
<1>. QED  BY <1>2, <1>3, <1>4, Zenon

\* A link that is issued, revoked or used once more is a link.
LEMMA LinkType ==
    ASSUME AccountTypes, NEW l \in Links
    PROVE  /\ \A n \in Numbers, p \in People :
                  [number |-> n, face |-> p, uses |-> 0, live |-> TRUE] \in LinkRow
           /\ [links[l] EXCEPT !.live = FALSE] \in LinkRow
           /\ [links[l] EXCEPT !.uses = @ + 1] \in LinkRow
           /\ Unissued \in LinkRow
<1>1. links[l] \in LinkRow
  BY DEF AccountTypes
<1>2. links[l].uses + 1 \in Nat
  BY <1>1 DEF LinkRow
<1>3. \A n \in Numbers : n \in 0 .. Ceiling
  BY AccountsAssumption DEF Numbers
<1>4. 0 \in 0 .. Ceiling /\ 0 \in Nat
  BY AccountsAssumption
<1>5. [links[l] EXCEPT !.uses = @ + 1] \in LinkRow
  BY <1>1, <1>2, Zenon DEF LinkRow
<1>6. [links[l] EXCEPT !.live = FALSE] \in LinkRow
  BY <1>1, Zenon DEF LinkRow
<1>7. Unissued \in LinkRow
  BY <1>4, Zenon DEF LinkRow, Unissued
<1>8. \A n \in Numbers, p \in People :
          [number |-> n, face |-> p, uses |-> 0, live |-> TRUE] \in LinkRow
  BY <1>3, <1>4, Zenon DEF LinkRow
<1>. QED  BY <1>5, <1>6, <1>7, <1>8

-----------------------------------------------------------------------------
(* Types, step by step: the desk                                            *)

\* Every operation of the desk, and the sweep, keep the accounts typed.
LEMMA DeskKeepsTypes ==
    ASSUME AccountTypes, DeskStep
    PROVE  AccountTypes'
<1>1. ASSUME NEW n \in Numbers, ApproveRegistration(n) \/ Reactivate(n)
      PROVE  AccountTypes'
  <2>1. Taken(n) /\ "active" \in Statuses
    BY <1>1 DEF ApproveRegistration, Reactivate, Taken, Free, Waiting, Statuses
  <2>2. users' \in [Numbers -> Account]
    BY <1>1, <2>1, UsersType DEF ApproveRegistration, Reactivate
  <2>. QED  BY <1>1, <2>2 DEF AccountTypes, ApproveRegistration, Reactivate
<1>2. ASSUME NEW n \in Numbers, RejectRegistration(n)
      PROVE  AccountTypes'
  <2>1. users[n].of \in People
    BY <1>2, TakenIsSomebodys DEF RejectRegistration, Taken, Free, Waiting
  <2>2. users' \in [Numbers -> Account]
    BY <1>2, UsersType DEF RejectRegistration
  <2>3. /\ templates' \in [People -> People \cup {Nobody}]
        /\ waiting' \in [Numbers -> People \cup {Nobody}]
        /\ refused' \subseteq People
    BY <1>2, <2>1 DEF AccountTypes, RejectRegistration
  <2>. QED  BY <1>2, <2>2, <2>3 DEF AccountTypes, RejectRegistration
<1>3. ASSUME NEW n \in Numbers, Deactivate(n)
      PROVE  AccountTypes'
  <2>1. Taken(n) /\ "inactive" \in Statuses
    BY <1>3 DEF Deactivate, Taken, Free, Statuses
  <2>2. users' \in [Numbers -> Account]
    BY <1>3, <2>1, UsersType DEF Deactivate
  <2>3. templates' \in [People -> People \cup {Nobody}]
    BY <1>3 DEF AccountTypes, Deactivate
  <2>4. links' = LinksDead(n)
    BY <1>3 DEF Deactivate
  <2>. QED  BY <1>3, <2>2, <2>3, <2>4, DeadLinksType DEF AccountTypes, Deactivate
<1>4. ASSUME NEW n \in Numbers, DeleteUser(n)
      PROVE  AccountTypes'
  <2>1. users' \in [Numbers -> Account] /\ links' = LinksDead(n)
    BY <1>4, UsersType DEF DeleteUser
  <2>. QED  BY <1>4, <2>1, DeadLinksType DEF AccountTypes, DeleteUser
<1>5. ASSUME NEW n \in Numbers, NEW l \in Links, CreateInvite(l, n)
      PROVE  AccountTypes'
  <2>. DEFINE row == [number |-> n, face |-> users[n].of, uses |-> 0, live |-> TRUE]
  <2>1. users[n].of \in People
    BY <1>5, TakenIsSomebodys DEF CreateInvite
  <2>2. row \in LinkRow /\ row.number = n /\ row.face = users[n].of
    BY <2>1, LinkType
  <2>3. links' = [links EXCEPT ![l] = row]
    BY <1>5 DEF CreateInvite
  <2>. HIDE DEF row
  <2>4. /\ links' \in [Links -> LinkRow]
        /\ \A k \in Links : links'[k].live => links'[k].number \in Numbers /\ links'[k].face \in People
    BY <2>1, <2>2, <2>3 DEF AccountTypes
  <2>. QED  BY <1>5, <2>4 DEF AccountTypes, CreateInvite
<1>6. ASSUME NEW l \in Links, RevokeInvite(l)
      PROVE  AccountTypes'
  <2>. DEFINE row == [links[l] EXCEPT !.live = FALSE]
  <2>1. row \in LinkRow /\ ~row.live
    BY LinkType, Zenon DEF AccountTypes, LinkRow
  <2>2. links' = [links EXCEPT ![l] = row]
    BY <1>6 DEF RevokeInvite
  <2>. HIDE DEF row
  <2>3. /\ links' \in [Links -> LinkRow]
        /\ \A k \in Links : links'[k].live => links'[k].number \in Numbers /\ links'[k].face \in People
    BY <2>1, <2>2 DEF AccountTypes
  <2>. QED  BY <1>6, <2>3 DEF AccountTypes, RevokeInvite
<1>7. ASSUME NEW aged \in SUBSET Orphans, SweepFaces(aged)
      PROVE  AccountTypes'
  <2>1. templates' \in [People -> People \cup {Nobody}]
    BY <1>7 DEF AccountTypes, SweepFaces
  <2>. QED  BY <1>7, <2>1 DEF AccountTypes, SweepFaces
<1>. QED  BY <1>1, <1>2, <1>3, <1>4, <1>5, <1>6, <1>7 DEF DeskStep

-----------------------------------------------------------------------------
(* Types, step by step: requests                                            *)

\* A request's row may be replaced by any that is in order.
LEMMA WorkStep ==
    ASSUME WorkTypes, NEW t \in People \cup Slots, NEW row, TaskOK(t, row),
           work' = [work EXCEPT ![t] = row]
    PROVE  WorkTypes'
<1>1. row \in Task
  BY DEF TaskOK
<1>. QED  BY <1>1 DEF WorkTypes

\* A request that is over is in order.
LEMMA EndKeepsTypes ==
    ASSUME WorkTypes, NEW t \in People \cup Slots, Ends(t)
    PROVE  WorkTypes'
<1>1. Idle \in Task /\ [Idle EXCEPT !.stage = "done"] \in Task
  BY AccountsAssumption DEF Idle, Task, Stages
<1>2. TaskOK(t, Idle) /\ TaskOK(t, [Idle EXCEPT !.stage = "done"])
  BY <1>1 DEF TaskOK, Idle
<1>3. CASE t \in People
  <2>1. work' = [work EXCEPT ![t] = [Idle EXCEPT !.stage = "done"]]
    BY <1>3 DEF Ends
  <2>. QED  BY <1>2, <2>1, WorkStep
<1>4. CASE t \notin People
  <2>1. work' = [work EXCEPT ![t] = Idle]
    BY <1>4 DEF Ends
  <2>. QED  BY <1>2, <2>1, WorkStep
<1>. QED  BY <1>3, <1>4

\* The public form and the console's way to an account keep the types.
LEMMA FormKeepsTypes ==
    ASSUME AccountTypes, WorkTypes, NEW p \in People,
           \/ Submit(p) \/ RefuseSubmission(p) \/ Insert(p)
           \/ \E n \in Numbers : Hire(p, n)
    PROVE  AccountTypes' /\ WorkTypes'
<1>0. work[p] \in Task /\ p \notin Slots /\ p # Nobody
  BY AccountsAssumption, SlotsAssumption DEF WorkTypes
<1>1. CASE Submit(p)
  <2>. DEFINE row == [Idle EXCEPT !.stage = "scoring", !.face = p]
  <2>0. Idle \in Task
    BY AccountsAssumption DEF Task, Idle, Stages
  <2>1. row \in Task
    BY <2>0 DEF Task, Stages
  <2>2. TaskOK(p, row)
    BY <1>0, <2>1 DEF TaskOK, Idle
  <2>3. work' = [work EXCEPT ![p] = row]
    BY <1>1 DEF Submit
  <2>. HIDE DEF row
  <2>4. WorkTypes'
    BY <2>2, <2>3, WorkStep
  <2>. QED  BY <1>1, <2>4 DEF Submit, AccountTypes, accountVars
<1>2. CASE RefuseSubmission(p)
  <2>1. TaskOK(p, Idle)
    BY AccountsAssumption DEF TaskOK, Idle, Task, Stages
  <2>2. work' = [work EXCEPT ![p] = Idle]
    BY <1>2 DEF RefuseSubmission
  <2>3. WorkTypes'
    BY <2>1, <2>2, WorkStep
  <2>. QED  BY <1>2, <2>3 DEF RefuseSubmission, AccountTypes, accountVars
<1>3. CASE Insert(p)
  <2>1. PICK n \in FreeNumbers :
            /\ InsertApplicant(p, n)
            /\ work' = [work EXCEPT ![p].stage = "resolving", ![p].number = n]
    BY <1>3 DEF Insert
  <2>2. n \in Numbers /\ n \in 0 .. Ceiling /\ Waiting \in Statuses
    BY AccountsAssumption DEF FreeNumbers, Numbers, Statuses
  <2>3. users' \in [Numbers -> Account]
    BY <2>1, <2>2, UsersType DEF InsertApplicant
  <2>4. waiting' \in [Numbers -> People \cup {Nobody}]
    BY <2>1, <2>2 DEF InsertApplicant, AccountTypes
  <2>5. AccountTypes'
    BY <2>1, <2>3, <2>4 DEF InsertApplicant, AccountTypes
  <2>. DEFINE row == [work[p] EXCEPT !.stage = "resolving", !.number = n]
  <2>6. work[p].stage = "scoring" /\ work[p].face \in People
    BY <1>3 DEF Insert, WorkTypes, TaskOK
  <2>7. row \in Task
    BY <1>0, <2>2 DEF Task, Stages
  <2>8. TaskOK(p, row)
    BY <1>0, <2>2, <2>6, <2>7 DEF TaskOK, Task
  <2>9. work' = [work EXCEPT ![p] = row]
    BY <2>1 DEF WorkTypes
  <2>. HIDE DEF row
  <2>10. WorkTypes'
    BY <2>8, <2>9, WorkStep
  <2>. QED  BY <2>5, <2>10
<1>4. ASSUME NEW n \in Numbers, Hire(p, n)
      PROVE  AccountTypes' /\ WorkTypes'
  <2>1. WorkTypes'
    BY <1>4, EndKeepsTypes DEF Hire
  <2>0. "active" \in Statuses /\ users' = [users EXCEPT ![n] = [status |-> "active", of |-> p]]
    BY <1>4 DEF Hire, AddUser, CreateUser, Statuses
  <2>2. users' \in [Numbers -> Account]
    BY <2>0, UsersType
  <2>3. templates' \in [People -> People \cup {Nobody}]
    BY <1>4 DEF Hire, AddUser, CreateUser, AccountTypes
  <2>. QED  BY <1>4, <2>1, <2>2, <2>3 DEF Hire, AddUser, CreateUser, AccountTypes
<1>. QED  BY <1>1, <1>2, <1>3, <1>4

\* The desk's enrolments and those by a link keep the types.
LEMMA EnrolmentKeepsTypes ==
    ASSUME AccountTypes, WorkTypes, NEW s \in Slots,
           \/ RefuseFace(s) \/ JudgeAtDesk(s) \/ FileByLink(s)
           \/ \E n \in Numbers : StartAtDesk(s, n)
           \/ \E l \in Links : OpenLink(s, l)
    PROVE  AccountTypes' /\ WorkTypes'
<1>0. work[s] \in Task /\ TaskOK(s, work[s]) /\ \A n \in Numbers : n \in 0 .. Ceiling
  BY AccountsAssumption DEF WorkTypes, Numbers
<1>1. CASE RefuseFace(s)
  BY <1>1, EndKeepsTypes DEF RefuseFace, AccountTypes, accountVars
<1>2. CASE JudgeAtDesk(s)
  <2>. DEFINE row == [work[s] EXCEPT !.stage = "resolving"]
  <2>1. work[s].stage = "scoring" /\ work[s].face \in People /\ work[s].number \in Numbers
    BY <1>0, <1>2 DEF JudgeAtDesk, TaskOK
  <2>2. row \in Task
    BY <1>0 DEF Task, Stages
  <2>3. TaskOK(s, row)
    BY <1>0, <2>1, <2>2 DEF TaskOK, Task
  <2>4. work' = [work EXCEPT ![s] = row]
    BY <1>2 DEF JudgeAtDesk, Moves
  <2>. HIDE DEF row
  <2>5. WorkTypes'
    BY <2>3, <2>4, WorkStep
  <2>. QED  BY <1>2, <2>5 DEF JudgeAtDesk, AccountTypes, accountVars
<1>3. CASE FileByLink(s)
  <2>. DEFINE l == work[s].link
              row == [links[l] EXCEPT !.uses = @ + 1]
  <2>1. /\ work[s].stage = "scoring" /\ l \in Links
        /\ work[s].number \in Numbers /\ work[s].face \in People
    BY <1>0, <1>3 DEF FileByLink, TaskOK, Task
  <2>2. templates' \in [People -> People \cup {Nobody}]
    BY <1>3, <2>1 DEF FileByLink, AccountTypes
  <2>3. /\ row \in LinkRow /\ row.live = links[l].live
        /\ row.number = links[l].number /\ row.face = links[l].face
    <3>1. row \in LinkRow
      BY <2>1, LinkType
    <3>2. links[l] \in LinkRow
      BY <2>1 DEF AccountTypes
    <3>3. row.live = links[l].live /\ row.number = links[l].number /\ row.face = links[l].face
      BY <3>2, Zenon DEF LinkRow
    <3>. QED  BY <3>1, <3>3
  <2>4. links' = [links EXCEPT ![l] = row]
    BY <1>3 DEF FileByLink
  <2>. HIDE DEF row, l
  <2>5. /\ links' \in [Links -> LinkRow]
        /\ \A k \in Links : links'[k].live => links'[k].number \in Numbers /\ links'[k].face \in People
    BY <2>1, <2>3, <2>4 DEF AccountTypes
  <2>6. WorkTypes'
    BY <1>3, EndKeepsTypes DEF FileByLink
  <2>. QED  BY <1>3, <2>2, <2>5, <2>6 DEF FileByLink, AccountTypes
<1>4. ASSUME NEW n \in Numbers, StartAtDesk(s, n)
      PROVE  AccountTypes' /\ WorkTypes'
  <2>. DEFINE row == [Idle EXCEPT !.stage = "scoring", !.number = n, !.face = users[n].of]
  <2>1. users[n].of \in People
    BY <1>4, TakenIsSomebodys DEF StartAtDesk
  <2>2. row \in Task
    BY <1>0, <2>1 DEF Task, Idle, Stages
  <2>3. TaskOK(s, row)
    BY <2>1, <2>2 DEF TaskOK, Idle
  <2>4. work' = [work EXCEPT ![s] = row]
    BY <1>4 DEF StartAtDesk
  <2>. HIDE DEF row
  <2>5. WorkTypes'
    BY <2>3, <2>4, WorkStep
  <2>. QED  BY <1>4, <2>5 DEF StartAtDesk, AccountTypes, accountVars
<1>5. ASSUME NEW l \in Links, OpenLink(s, l)
      PROVE  AccountTypes' /\ WorkTypes'
  <2>. DEFINE row == [Idle EXCEPT !.stage = "scoring", !.number = links[l].number,
                                  !.face = links[l].face, !.link = l]
  <2>1. links[l].number \in Numbers /\ links[l].face \in People
    BY <1>5 DEF OpenLink, Usable, AccountTypes
  <2>2. row \in Task
    BY <1>0, <2>1 DEF Task, Idle, Stages
  <2>3. TaskOK(s, row)
    BY <2>1, <2>2 DEF TaskOK, Idle
  <2>4. work' = [work EXCEPT ![s] = row]
    BY <1>5 DEF OpenLink
  <2>. HIDE DEF row
  <2>5. WorkTypes'
    BY <2>3, <2>4, WorkStep
  <2>. QED  BY <1>5, <2>5 DEF OpenLink, AccountTypes, accountVars
<1>. QED  BY <1>1, <1>2, <1>3, <1>4, <1>5

\* Filing a face on a thread keeps the types.
LEMMA ThreadKeepsTypes ==
    ASSUME AccountTypes, WorkTypes, NEW t \in People \cup Slots,
           FindId(t) \/ NoIdFound(t) \/ FileFace(t)
    PROVE  AccountTypes' /\ WorkTypes'
<1>0. work[t] \in Task /\ TaskOK(t, work[t])
  BY DEF WorkTypes
<1>1. CASE FindId(t)
  <2>. DEFINE bid == users[work[t].number].of
              row == [work[t] EXCEPT !.stage = "filing", !.bid = bid]
  <2>1. work[t].face \in People /\ work[t].number \in Numbers
    BY <1>0, <1>1 DEF FindId, TaskOK
  <2>2. bid \in People
    BY <1>1, <2>1, TakenIsSomebodys DEF FindId
  <2>3. work' = [work EXCEPT ![t] = row]
    BY <1>1 DEF FindId, WorkTypes
  <2>. HIDE DEF bid
  <2>4. row \in Task
    BY <1>0, <2>2 DEF Task, Stages
  <2>5. TaskOK(t, row)
    BY <1>0, <2>1, <2>2, <2>4 DEF TaskOK, Task
  <2>. HIDE DEF row
  <2>6. WorkTypes'
    BY <2>3, <2>5, WorkStep
  <2>. QED  BY <1>1, <2>6 DEF FindId, AccountTypes, accountVars
<1>2. CASE NoIdFound(t)
  BY <1>2, EndKeepsTypes DEF NoIdFound, AccountTypes, accountVars
<1>3. CASE FileFace(t)
  <2>1. work[t].bid \in People /\ work[t].face \in People
    BY <1>0, <1>3 DEF FileFace, TaskOK
  <2>2. templates' \in [People -> People \cup {Nobody}]
    BY <1>3, <2>1 DEF FileFace, AccountTypes
  <2>3. WorkTypes'
    BY <1>3, EndKeepsTypes DEF FileFace
  <2>. QED  BY <1>3, <2>2, <2>3 DEF FileFace, AccountTypes
<1>. QED  BY <1>1, <1>2, <1>3

-----------------------------------------------------------------------------
(* Types, step by step: the background job                                  *)

\* Of some numbers one is the least: the item a runner takes next is one of those it has left.
LEMMA LeastExists ==
    ASSUME NEW S, S \subseteq Nat, S # {}
    PROVE  \E x \in S : \A y \in S : x <= y
<1>. DEFINE R == OpToRel(<, Nat)
<1>1. \E x \in S : \A y \in S : ~(<<y, x>> \in R)
  <2>. HIDE DEF R
  <2>1. IsWellFoundedOn(R, Nat)
    BY NatLessThanWellFounded DEF R
  <2>. QED  BY <2>1, WFMin
<1>2. \A x, y \in Nat : <<y, x>> \in R <=> y < x
  BY DEF OpToRel
<1>. HIDE DEF R
<1>3. \A x, y \in Nat : ~(y < x) => x <= y
  OBVIOUS
<1>. QED  BY <1>1, <1>2, <1>3

\* What a runner may have in its memory once there is a roster.
RunnerOK(row) ==
    /\ row \in Runner
    /\ row.at \in Busy => row.item \in Items
    /\ row.at = "filing" => row.bid \in People

\* The job's rows after the upload.
RosterOK == \A i \in Items : items[i].number \in Numbers /\ items[i].face \in People

\* A runner that works may have anything in its memory that is in order.
LEMMA RunnerMoves ==
    ASSUME BulkTypes, NEW r \in Runners, NEW row, RunnerOK(row),
           runner' = [runner EXCEPT ![r] = row],
           job' \in Job, crashes' \in Nat,
           (job.status # "none" /\ job'.status # "none") \/ job' = job,
           row.at = "off" \/ job.status # "none",
           items' \in [Items -> Item],
           \A i \in Items : items'[i].number = items[i].number /\ items'[i].face = items[i].face
    PROVE  BulkTypes'
<1>1. row \in Runner
  BY DEF RunnerOK
<1>2. runner' \in [Runners -> Runner]
  BY <1>1 DEF BulkTypes
<1>3. \A q \in Runners : /\ runner'[q].at # "off" => job'.status # "none"
                         /\ runner'[q].at \in Busy => runner'[q].item \in Items
                         /\ runner'[q].at = "filing" => runner'[q].bid \in People
  BY DEF BulkTypes, RunnerOK
<1>. QED  BY <1>2, <1>3 DEF BulkTypes

\* An item's outcome is an item.
LEMMA ItemType ==
    ASSUME BulkTypes, NEW i \in Items
    PROVE  \A st \in Outcomes \cup {"processing"} :
               LET row == [items[i] EXCEPT !.status = st]
               IN  row \in Item /\ row.number = items[i].number /\ row.face = items[i].face
<1>1. items[i] \in Item
  BY DEF BulkTypes
<1>. QED  BY <1>1 DEF Item, Outcomes

\* The memory of a runner that starts, stops or goes on is in order.
LEMMA RunnerRows ==
    ASSUME BulkTypes, NEW r \in Runners
    PROVE  /\ RunnerOK(Off)
           /\ RunnerOK([runner[r] EXCEPT !.at = "claimed"])
           /\ runner[r].at \in Busy =>
                 \A st \in {"resolving", "recording", "counting"} :
                     RunnerOK([runner[r] EXCEPT !.at = st])
           /\ \A todo \in SUBSET Items :
                  /\ RunnerOK([runner[r] EXCEPT !.at = "next", !.todo = todo])
                  /\ RunnerOK([Off EXCEPT !.at = "next", !.todo = todo])
           /\ \A i \in Items : RunnerOK([runner[r] EXCEPT !.at = "scoring", !.item = i])
           /\ runner[r].at \in Busy =>
                 \A p \in People : RunnerOK([runner[r] EXCEPT !.at = "filing", !.bid = p])
<1>1. runner[r] \in Runner /\ (runner[r].at \in Busy => runner[r].item \in Items)
  BY DEF BulkTypes
<1>2. Off \in Runner
  BY DEF Off, Runner
<1>3. RunnerOK(Off)
  BY <1>2 DEF RunnerOK, Off, Busy
<1>4. RunnerOK([runner[r] EXCEPT !.at = "claimed"])
  BY <1>1 DEF RunnerOK, Runner, Busy
<1>5. ASSUME runner[r].at \in Busy, NEW st \in {"resolving", "recording", "counting"}
      PROVE  RunnerOK([runner[r] EXCEPT !.at = st])
  BY <1>1, <1>5 DEF RunnerOK, Runner, Busy
<1>6. ASSUME NEW todo \in SUBSET Items
      PROVE  RunnerOK([runner[r] EXCEPT !.at = "next", !.todo = todo])
  BY <1>1 DEF RunnerOK, Runner, Busy
<1>7. ASSUME NEW todo \in SUBSET Items
      PROVE  RunnerOK([Off EXCEPT !.at = "next", !.todo = todo])
  BY <1>2 DEF RunnerOK, Runner, Busy
<1>8. ASSUME NEW i \in Items
      PROVE  RunnerOK([runner[r] EXCEPT !.at = "scoring", !.item = i])
  BY <1>1 DEF RunnerOK, Runner, Busy
<1>9. ASSUME runner[r].at \in Busy, NEW p \in People
      PROVE  RunnerOK([runner[r] EXCEPT !.at = "filing", !.bid = p])
  BY <1>1, <1>9 DEF RunnerOK, Runner, Busy
<1>. QED  BY <1>3, <1>4, <1>5, <1>6, <1>7, <1>8, <1>9

\* Uploading a roster, and every step of a runner, keep the types.
LEMMA BulkKeepsTypes ==
    ASSUME AccountTypes, BulkTypes, BulkStep
    PROVE  AccountTypes' /\ BulkTypes'
<1>1. CASE Upload
  <2>1. PICK numbers \in [Items -> Numbers] :
            /\ \A i \in Items : Taken(numbers[i])
            /\ items' = [i \in Items |->
                   [status |-> "queued", number |-> numbers[i], face |-> users[numbers[i]].of]]
    BY <1>1 DEF Upload
  <2>2. \A i \in Items : /\ numbers[i] \in Numbers /\ numbers[i] \in 0 .. Ceiling
                         /\ users[numbers[i]].of \in People
    BY <2>1, TakenIsSomebodys, AccountsAssumption DEF Numbers
  <2>3. items' \in [Items -> Item]
    BY <2>1, <2>2 DEF Item
  <2>4. \A i \in Items : items'[i].number \in Numbers /\ items'[i].face \in People
    BY <2>1, <2>2
  <2>5. job' \in Job /\ runner' = runner /\ crashes' = crashes
    BY <1>1 DEF Upload, BulkTypes, Job
  <2>6. \A r \in Runners : runner[r].at = "off"
    BY <1>1 DEF Upload, BulkTypes
  <2>7. BulkTypes'
    BY <2>3, <2>4, <2>5, <2>6 DEF BulkTypes, Busy
  <2>. QED  BY <1>1, <2>7 DEF Upload, AccountTypes, accountVars
<1>. SUFFICES ASSUME NEW r \in Runners, Claim(r) \/ RunnerStep(r) \/ RunnerDies(r)
              PROVE  AccountTypes' /\ BulkTypes'
  BY <1>1 DEF BulkStep
<1>0. /\ job \in Job /\ items \in [Items -> Item] /\ runner \in [Runners -> Runner]
      /\ runner[r] \in Runner /\ crashes \in Nat
      /\ runner[r].at # "off" => job.status # "none"
      /\ runner[r].at \in Busy => runner[r].item \in Items
  BY DEF BulkTypes
<1>2. CASE Claim(r)
  <2>1. /\ job.status # "none" /\ job' = [job EXCEPT !.status = "running"]
        /\ runner' = [runner EXCEPT ![r] = [runner[r] EXCEPT !.at = "claimed"]]
        /\ crashes' = crashes
    BY <1>2 DEF Claim
  <2>2. job' \in Job /\ job'.status # "none"
    BY <1>0, <2>1 DEF Job
  <2>3. \A i \in Items :
            /\ items'[i] \in Item
            /\ items'[i].number = items[i].number /\ items'[i].face = items[i].face
    BY <1>0, <1>2, ItemType DEF Claim
  <2>4. items' \in [Items -> Item]
    BY <1>2, <2>3 DEF Claim
  <2>5. BulkTypes'
    BY <1>0, <2>1, <2>2, <2>3, <2>4, RunnerRows, RunnerMoves
  <2>. QED  BY <1>2, <2>5 DEF Claim, AccountTypes, accountVars
<1>3. CASE ReadItems(r)
  <2>. DEFINE todo == {i \in Items : items[i].status = "processing"}
  <2>1. /\ job' = job /\ items' = items /\ crashes' = crashes /\ runner[r].at = "claimed"
        /\ runner' = [runner EXCEPT ![r] = [runner[r] EXCEPT !.at = "next", !.todo = todo]]
    BY <1>0, <1>3 DEF ReadItems
  <2>2. RunnerOK([runner[r] EXCEPT !.at = "next", !.todo = todo])
    BY RunnerRows
  <2>3. BulkTypes'
    BY <1>0, <2>1, <2>2, RunnerMoves
  <2>. QED  BY <1>3, <2>3 DEF ReadItems, AccountTypes, accountVars
<1>4. CASE NextItem(r)
  <2>. DEFINE i == Min(runner[r].todo)
  <2>1. /\ job' = job /\ items' = items /\ crashes' = crashes /\ runner[r].at = "next"
        /\ runner' = [runner EXCEPT ![r] = [runner[r] EXCEPT !.at = "scoring", !.item = i]]
    BY <1>0, <1>4 DEF NextItem
  <2>2. i \in Items
    <3>1. runner[r].todo \subseteq Items /\ runner[r].todo # {}
      BY <1>0, <1>4 DEF NextItem, Runner
    <3>2. runner[r].todo \subseteq Nat
      BY <3>1, BulkAssumption
    <3>3. \E x \in runner[r].todo : \A y \in runner[r].todo : x <= y
      BY <3>1, <3>2, LeastExists
    <3>. QED  BY <3>1, <3>3 DEF Min
  <2>3. BulkTypes'
    BY <1>0, <2>1, <2>2, RunnerRows, RunnerMoves
  <2>. QED  BY <1>4, <2>3 DEF NextItem, AccountTypes, accountVars
<1>5. ASSUME NEW outcome \in Outcomes, runner[r].at \in Busy, Decide(r, outcome)
      PROVE  AccountTypes' /\ BulkTypes'
  <2>. DEFINE i == runner[r].item
  <2>1. /\ job' = job /\ crashes' = crashes /\ i \in Items
        /\ runner' = [runner EXCEPT ![r] = [runner[r] EXCEPT !.at = "counting"]]
        /\ items' = [items EXCEPT ![i] = [items[i] EXCEPT !.status = outcome]]
    BY <1>0, <1>5 DEF Decide, Goes
  <2>2. /\ items' \in [Items -> Item]
        /\ \A k \in Items : items'[k].number = items[k].number /\ items'[k].face = items[k].face
    BY <1>0, <2>1, ItemType
  <2>3. RunnerOK([runner[r] EXCEPT !.at = "counting"])
    BY <1>5, RunnerRows
  <2>4. job.status # "none"
    BY <1>0, <1>5 DEF Busy
  <2>5. BulkTypes'
    BY <1>0, <2>1, <2>2, <2>3, <2>4, RunnerMoves
  <2>. QED  BY <1>5, <2>5 DEF Decide, AccountTypes, accountVars
<1>6. CASE Embed(r)
  <2>1. /\ job' = job /\ items' = items /\ crashes' = crashes /\ runner[r].at = "scoring"
        /\ runner' = [runner EXCEPT ![r] = [runner[r] EXCEPT !.at = "resolving"]]
    BY <1>6 DEF Embed, Goes
  <2>2. RunnerOK([runner[r] EXCEPT !.at = "resolving"])
    BY <2>1, RunnerRows DEF Busy
  <2>3. BulkTypes'
    BY <1>0, <2>1, <2>2, RunnerMoves
  <2>. QED  BY <1>6, <2>3 DEF Embed, AccountTypes, accountVars
<1>7. CASE FindTheirId(r)
  <2>. DEFINE bid == users[Number(r)].of
  <2>1. /\ job' = job /\ items' = items /\ crashes' = crashes /\ runner[r].at = "resolving"
        /\ runner' = [runner EXCEPT ![r] = [runner[r] EXCEPT !.at = "filing", !.bid = bid]]
    BY <1>0, <1>7 DEF FindTheirId
  <2>2. Number(r) \in Numbers
    BY <1>0, <2>1 DEF BulkTypes, Number, Busy
  <2>3. bid \in People
    BY <1>7, <2>2, TakenIsSomebodys DEF FindTheirId
  <2>. HIDE DEF bid
  <2>4. RunnerOK([runner[r] EXCEPT !.at = "filing", !.bid = bid])
    BY <2>1, <2>3, RunnerRows DEF Busy
  <2>5. BulkTypes'
    BY <1>0, <2>1, <2>4, RunnerMoves
  <2>. QED  BY <1>7, <2>5 DEF FindTheirId, AccountTypes, accountVars
<1>8. CASE AccountWent(r) \/ GoesWrong(r)
  <2>1. /\ job' = [job EXCEPT !.status = "failed"] /\ items' = items /\ crashes' = crashes
        /\ runner' = [runner EXCEPT ![r] = Off] /\ UNCHANGED accountVars
        /\ runner[r].at # "off"
    BY <1>8 DEF AccountWent, GoesWrong, BreakOff
  <2>2. job' \in Job /\ job'.status # "none"
    BY <1>0, <2>1 DEF Job
  <2>3. BulkTypes'
    BY <1>0, <2>1, <2>2, RunnerRows, RunnerMoves
  <2>. QED  BY <2>1, <2>3 DEF AccountTypes, accountVars
<1>9. CASE FileTheirFace(r)
  <2>1. /\ job' = job /\ items' = items /\ crashes' = crashes /\ runner[r].at = "filing"
        /\ runner' = [runner EXCEPT ![r] = [runner[r] EXCEPT !.at = "recording"]]
    BY <1>9 DEF FileTheirFace, Goes
  <2>2. RunnerOK([runner[r] EXCEPT !.at = "recording"])
    BY <2>1, RunnerRows DEF Busy
  <2>3. BulkTypes'
    BY <1>0, <2>1, <2>2, RunnerMoves
  <2>4. items[runner[r].item].face \in People /\ runner[r].bid \in People
    BY <1>0, <2>1 DEF BulkTypes, Busy
  <2>5. templates' \in [People -> People \cup {Nobody}]
    BY <1>9, <2>4 DEF FileTheirFace, AccountTypes
  <2>. QED  BY <1>9, <2>3, <2>5 DEF FileTheirFace, AccountTypes
<1>10. CASE Count(r)
  <2>. DEFINE todo == runner[r].todo \ {runner[r].item}
  <2>1. /\ items' = items /\ crashes' = crashes /\ runner[r].at = "counting"
        /\ runner' = [runner EXCEPT ![r] = [Off EXCEPT !.at = "next", !.todo = todo]]
        /\ job' = [job EXCEPT !.processed = @ + 1,
                              !.errors = IF items[runner[r].item].status = "failed" THEN @ + 1 ELSE @]
    BY <1>10 DEF Count
  <2>2. job.processed + 1 \in Nat /\ job.errors + 1 \in Nat /\ job.errors \in Nat
    BY <1>0 DEF Job
  <2>3. job' \in Job /\ job'.status = job.status
    BY <1>0, <2>1, <2>2, Zenon DEF Job
  <2>4. todo \subseteq Items
    BY <1>0 DEF Runner
  <2>. HIDE DEF todo
  <2>5. BulkTypes'
    BY <1>0, <2>1, <2>3, <2>4, RunnerRows, RunnerMoves
  <2>. QED  BY <1>10, <2>5 DEF Count, AccountTypes, accountVars
<1>11. CASE FinishJob(r)
  <2>1. /\ items' = items /\ crashes' = crashes /\ runner[r].at = "next"
        /\ runner' = [runner EXCEPT ![r] = Off]
        /\ \/ job' = [job EXCEPT !.status = "done"]
           \/ job' = [job EXCEPT !.status = "done_with_errors"]
    BY <1>11 DEF FinishJob
  <2>2. job' \in Job /\ job'.status # "none"
    BY <1>0, <2>1 DEF Job, Over
  <2>3. BulkTypes'
    BY <1>0, <2>1, <2>2, RunnerRows, RunnerMoves
  <2>. QED  BY <1>11, <2>3 DEF FinishJob, AccountTypes, accountVars
<1>12. CASE RunnerDies(r)
  <2>1. /\ job' = job /\ items' = items /\ crashes' \in Nat
        /\ runner' = [runner EXCEPT ![r] = Off] /\ Off.at = "off"
    BY <1>0, <1>12 DEF RunnerDies, Off
  <2>2. BulkTypes'
    BY <1>0, <2>1, RunnerRows, RunnerMoves
  <2>. QED  BY <1>12, <2>2 DEF RunnerDies, AccountTypes, accountVars
<1>13. ASSUME TurnDown(r) \/ Succeed(r)
       PROVE  AccountTypes' /\ BulkTypes'
  <2>1. PICK outcome \in Outcomes : Decide(r, outcome) /\ runner[r].at \in Busy
    BY <1>13 DEF TurnDown, Succeed, Outcomes, Busy
  <2>. QED  BY <1>5, <2>1
<1>. QED
  BY <1>2, <1>3, <1>4, <1>6, <1>7, <1>8, <1>9, <1>10, <1>11, <1>12, <1>13 DEF RunnerStep

-----------------------------------------------------------------------------
(* Types of the whole                                                       *)

Types == AccountTypes /\ WorkTypes /\ BulkTypes

\* Every step leaves typed what it leaves alone, and what it changes.
LEMMA StepKeepsTypes ==
    ASSUME Types, [Next]_vars
    PROVE  Types'
<1>1. ASSUME UNCHANGED bulkVars PROVE BulkTypes'
  BY <1>1 DEF Types, BulkTypes, bulkVars
<1>2. CASE DeskStep /\ UNCHANGED work /\ UNCHANGED bulkVars
  <2>1. AccountTypes'
    BY <1>2, DeskKeepsTypes DEF Types
  <2>2. WorkTypes'
    BY <1>2 DEF Types, WorkTypes
  <2>. QED  BY <1>1, <1>2, <2>1, <2>2 DEF Types
<1>3. CASE RequestStep /\ UNCHANGED bulkVars
  <2>1. AccountTypes' /\ WorkTypes'
    BY <1>3, FormKeepsTypes, EnrolmentKeepsTypes, ThreadKeepsTypes DEF Types, RequestStep
  <2>. QED  BY <1>1, <1>3, <2>1 DEF Types
<1>4. CASE BulkStep /\ UNCHANGED work
  <2>1. AccountTypes' /\ BulkTypes'
    BY <1>4, BulkKeepsTypes DEF Types
  <2>2. WorkTypes'
    BY <1>4 DEF Types, WorkTypes
  <2>. QED  BY <2>1, <2>2 DEF Types
<1>5. CASE UNCHANGED vars
  BY <1>5 DEF vars, Types, AccountTypes, WorkTypes, BulkTypes
<1>. QED  BY <1>2, <1>3, <1>4, <1>5 DEF Next

\* The first state is typed.
LEMMA InitTypes == Init => Types
<1>. SUFFICES ASSUME Init PROVE Types
  OBVIOUS
<1>1. AccountTypes
  <2>0. 0 \in 0 .. Ceiling /\ 0 \in Nat
    BY AccountsAssumption
  <2>1. Unissued \in LinkRow /\ ~Unissued.live
    BY <2>0, Zenon DEF Unissued, LinkRow
  <2>2. links \in [Links -> LinkRow] /\ \A l \in Links : ~links[l].live
    BY <2>1 DEF Init, AccountsInit
  <2>3. users \in [Numbers -> Account]
    BY DEF Init, AccountsInit, Account
  <2>. QED  BY <2>2, <2>3 DEF Init, AccountsInit, AccountTypes
<1>2. WorkTypes
  <2>1. Idle \in Task /\ Idle.stage = "idle"
    BY AccountsAssumption DEF Idle, Task, Stages
  <2>2. \A t \in People \cup Slots : TaskOK(t, Idle)
    BY <2>1 DEF TaskOK
  <2>. QED  BY <2>1, <2>2 DEF Init, WorkInit, WorkTypes
<1>3. BulkTypes
  <2>1. /\ [status |-> "none", processed |-> 0, errors |-> 0] \in Job
        /\ [status |-> "queued", number |-> 0, face |-> Nobody] \in Item
        /\ Off \in Runner /\ Off.at = "off"
    BY AccountsAssumption DEF Job, Item, Off, Runner
  <2>2. job \in Job /\ job.status = "none" /\ items \in [Items -> Item]
    BY <2>1 DEF Init, BulkInit
  <2>3. runner \in [Runners -> Runner] /\ \A r \in Runners : runner[r].at = "off"
    BY <2>1 DEF Init, BulkInit
  <2>. QED  BY <2>2, <2>3 DEF Init, BulkInit, BulkTypes, Busy
<1>. QED  BY <1>1, <1>2, <1>3 DEF Types

\* The types of the accounts, the requests and the job, for any number of each.
THEOREM TypesHold == Spec => []Types
BY InitTypes, StepKeepsTypes, PTL DEF Spec

-----------------------------------------------------------------------------
(* One account each                                                         *)

Spent(p) == work[p].stage \notin {"idle", "scoring"}

\* A person who has, had or was refused an account does not get another; no two numbers are one
\* person's; and the notice about a person stands under the number they had.
OneAccountEach ==
    /\ \A n \in Numbers : users[n].of \in People => Spent(users[n].of)
    /\ \A n, m \in Numbers : users[n].of \in People /\ users[n].of = users[m].of => n = m
    /\ \A n \in Numbers : waiting[n] \in People => Spent(waiting[n])
    /\ \A n, m \in Numbers : users[n].of \in People /\ waiting[m] = users[n].of => m = n
    /\ \A p \in refused : Spent(p)
    /\ \A n \in Numbers : waiting[n] \notin refused
    /\ \A n \in Applications : waiting[n] # Nobody

\* A link that still opens is its account's, unless its account was refused.
LinksFollow ==
    \A l \in Links : links[l].live =>
        users[links[l].number].of = links[l].face \/ links[l].face \in refused

IInv == Types /\ OneAccountEach /\ LinksFollow

\* What is said of the accounts only grows truer while requests go on without touching them.
LEMMA QuietKeepsAccounts ==
    ASSUME OneAccountEach, LinksFollow,
           users' = users, waiting' = waiting, refused' = refused,
           \A l \in Links : /\ links'[l].live => links[l].live
                            /\ links'[l].number = links[l].number /\ links'[l].face = links[l].face,
           \A p \in People : Spent(p) => Spent(p)',
           Types
    PROVE  OneAccountEach' /\ LinksFollow'
<1>1. refused \subseteq People
  BY DEF Types, AccountTypes
<1>2. OneAccountEach'
  BY <1>1 DEF OneAccountEach, Applications
<1>3. LinksFollow'
  BY DEF LinksFollow
<1>. QED  BY <1>2, <1>3

\* Nobody loses what they spent by a request's end or its next stage.
LEMMA EndsSpent ==
    ASSUME Types, NEW t \in People \cup Slots, Ends(t)
    PROVE  \A p \in People : Spent(p) => Spent(p)'
<1>1. work \in [People \cup Slots -> Task]
  BY DEF Types, WorkTypes
<1>2. ASSUME NEW p \in People, Spent(p) PROVE Spent(p)'
  <2>1. CASE p # t
    BY <1>1, <1>2, <2>1 DEF Ends, Spent
  <2>2. CASE p = t
    <3>1. work'[p].stage = "done"
      BY <1>1, <2>2 DEF Ends, Idle
    <3>. QED  BY <3>1 DEF Spent
  <2>. QED  BY <2>1, <2>2
<1>. QED  BY <1>2

\* A change of status leaves everybody their number.
LEMMA StatusOnly ==
    ASSUME AccountTypes, NEW n \in Numbers, Taken(n), NEW st,
           users' = [users EXCEPT ![n].status = st]
    PROVE  /\ \A m \in Numbers : users'[m].of = users[m].of
           /\ \A m \in Numbers \ {n} : users'[m] = users[m]
           /\ users'[n].status = st
<1>1. users \in [Numbers -> Account]
  BY DEF AccountTypes
<1>2. users[n] \in [status: Statuses, of: People]
  BY <1>1 DEF Account, Taken
<1>3. users'[n] = [users[n] EXCEPT !.status = st]
  BY <1>1
<1>4. users'[n].of = users[n].of /\ users'[n].status = st
  BY <1>2, <1>3
<1>5. \A m \in Numbers \ {n} : users'[m] = users[m]
  BY <1>1
<1>. QED  BY <1>4, <1>5

\* The desk's operations leave one account to each, and its links with it.
LEMMA DeskKeepsAccounts ==
    ASSUME IInv, DeskStep, work' = work
    PROVE  OneAccountEach' /\ LinksFollow'
<1>0. /\ users \in [Numbers -> Account] /\ refused \subseteq People /\ Nobody \notin People
      /\ waiting \in [Numbers -> People \cup {Nobody}]
      /\ links \in [Links -> LinkRow]
      /\ \A l \in Links : links[l].live => links[l].number \in Numbers /\ links[l].face \in People
      /\ \A n \in Numbers : /\ Taken(n) => users[n].of \in People
                            /\ ~Taken(n) => users[n].of = Nobody /\ users[n].status = "free"
  BY AccountsAssumption, TakenIsSomebodys DEF IInv, Types, AccountTypes
<1>. DEFINE Kept == \A p \in People : Spent(p) => Spent(p)'
<1>00. Kept
  BY DEF Spent
<1>1. ASSUME NEW n \in Numbers, ApproveRegistration(n) \/ Reactivate(n)
      PROVE  OneAccountEach' /\ LinksFollow'
  <2>0. /\ \A m \in Numbers : users'[m].of = users[m].of
        /\ \A m \in Numbers \ {n} : users'[m] = users[m]
        /\ users'[n].status = "active"
    BY <1>1, StatusOnly DEF ApproveRegistration, Reactivate, Taken, Free, Waiting, IInv, Types
  <2>1. \A m \in Numbers : users'[m].of = users[m].of
    BY <2>0
  <2>2. Applications' \subseteq Applications
    BY <2>0 DEF Applications, Waiting
  <2>3. waiting' = waiting /\ refused' = refused /\ links' = links
    BY <1>1 DEF ApproveRegistration, Reactivate
  <2>4. OneAccountEach'
    BY <1>0, <1>00, <2>1, <2>2, <2>3 DEF IInv, OneAccountEach
  <2>. QED  BY <1>0, <2>1, <2>3, <2>4 DEF IInv, LinksFollow
<1>2. ASSUME NEW n \in Numbers, RejectRegistration(n)
      PROVE  OneAccountEach' /\ LinksFollow'
  <2>. DEFINE p == users[n].of
  <2>1. p \in People /\ Spent(p)
    BY <1>0, <1>2 DEF RejectRegistration, Waiting, IInv, OneAccountEach
  <2>2. /\ \A m \in Numbers \ {n} : users'[m] = users[m] /\ waiting'[m] = waiting[m]
        /\ users'[n].of = Nobody /\ users'[n].status = "free" /\ waiting'[n] = Nobody
        /\ refused' = refused \cup {p} /\ links' = links
    BY <1>0, <1>2 DEF RejectRegistration, Free
  <2>3. \A m \in Numbers \ {n} : waiting[m] # p
    BY <2>1 DEF IInv, OneAccountEach
  <2>4. Applications' \subseteq Applications /\ n \notin Applications'
    BY <2>2 DEF Applications, Waiting
  <2>5. OneAccountEach'
    <3>1. \A m \in Numbers : /\ users'[m].of \in People => users'[m].of = users[m].of /\ m # n
                             /\ waiting'[m] \in People => waiting'[m] = waiting[m] /\ m # n
      BY <1>0, <2>2
    <3>2. \A m \in Numbers : waiting'[m] \notin refused'
      BY <1>0, <2>1, <2>2, <2>3 DEF IInv, OneAccountEach
    <3>3. \A m \in Applications' : waiting'[m] # Nobody
      BY <2>2, <2>4 DEF IInv, OneAccountEach, Applications
    <3>4. \A q \in refused' : Spent(q)'
      BY <1>0, <1>00, <2>1, <2>2 DEF IInv, OneAccountEach
    <3>5. (\A m \in Numbers : users[m].of \in People => Spent(users[m].of))'
      BY <1>00, <3>1 DEF IInv, OneAccountEach, Spent
    <3>6. (\A m \in Numbers : waiting[m] \in People => Spent(waiting[m]))'
      BY <1>00, <3>1 DEF IInv, OneAccountEach, Spent
    <3>7. \A k, m \in Numbers : users'[k].of \in People /\ users'[k].of = users'[m].of => k = m
      BY <3>1 DEF IInv, OneAccountEach
    <3>8. \A k, m \in Numbers : users'[k].of \in People /\ waiting'[m] = users'[k].of => m = k
      BY <3>1 DEF IInv, OneAccountEach
    <3>. QED  BY <3>2, <3>3, <3>4, <3>5, <3>6, <3>7, <3>8 DEF OneAccountEach
  <2>6. LinksFollow'
    BY <1>0, <2>2 DEF IInv, LinksFollow
  <2>. QED  BY <2>5, <2>6
<1>3. ASSUME NEW n \in Numbers, Deactivate(n)
      PROVE  OneAccountEach' /\ LinksFollow'
  <2>1. \A m \in Numbers : users'[m].of = users[m].of
    BY <1>0, <1>3 DEF Deactivate
  <2>2. Applications' \subseteq Applications
    BY <1>0, <1>3 DEF Deactivate, Applications, Waiting
  <2>3. waiting' = waiting /\ refused' = refused /\ links' = LinksDead(n)
    BY <1>3 DEF Deactivate
  <2>4. OneAccountEach'
    BY <1>0, <1>00, <2>1, <2>2, <2>3 DEF IInv, OneAccountEach
  <2>5. LinksFollow'
    BY <1>0, <2>1, <2>3, DeadLinksType DEF IInv, Types, LinksFollow
  <2>. QED  BY <2>4, <2>5
<1>4. ASSUME NEW n \in Numbers, DeleteUser(n)
      PROVE  OneAccountEach' /\ LinksFollow'
  <2>1. /\ \A m \in Numbers \ {n} : users'[m] = users[m]
        /\ users'[n].of = Nobody /\ users'[n].status = "free"
        /\ waiting' = waiting /\ refused' = refused /\ links' = LinksDead(n)
    BY <1>0, <1>4 DEF DeleteUser, Free
  <2>2. Applications' \subseteq Applications
    BY <2>1 DEF Applications, Waiting
  <2>3. OneAccountEach'
    BY <1>0, <1>00, <2>1, <2>2 DEF IInv, OneAccountEach
  <2>4. LinksFollow'
    BY <1>0, <2>1, DeadLinksType DEF IInv, Types, LinksFollow
  <2>. QED  BY <2>3, <2>4
<1>5. ASSUME NEW n \in Numbers, NEW l \in Links, CreateInvite(l, n)
      PROVE  OneAccountEach' /\ LinksFollow'
  <2>1. /\ users' = users /\ waiting' = waiting /\ refused' = refused
        /\ links' = [links EXCEPT ![l] =
               [number |-> n, face |-> users[n].of, uses |-> 0, live |-> TRUE]]
    BY <1>5 DEF CreateInvite
  <2>2. /\ \A k \in Links \ {l} : links'[k] = links[k]
        /\ links'[l].number = n /\ links'[l].face = users[n].of
    BY <1>0, <2>1
  <2>3. LinksFollow'
    BY <2>1, <2>2 DEF IInv, LinksFollow
  <2>4. OneAccountEach'
    BY <1>00, <1>0, <2>1 DEF IInv, OneAccountEach, Applications
  <2>. QED  BY <2>3, <2>4
<1>6. ASSUME NEW l \in Links, RevokeInvite(l)
      PROVE  OneAccountEach' /\ LinksFollow'
  <2>1. /\ users' = users /\ waiting' = waiting /\ refused' = refused
        /\ \A k \in Links \ {l} : links'[k] = links[k]
        /\ links'[l] = [links[l] EXCEPT !.live = FALSE]
    BY <1>0, <1>6 DEF RevokeInvite
  <2>2. links[l] \in LinkRow /\ links[l].live
    BY <1>0, <1>6 DEF RevokeInvite
  <2>3. links'[l].number = links[l].number /\ links'[l].face = links[l].face
    BY <2>1, <2>2, Zenon DEF LinkRow
  <2>. QED  BY <1>00, <2>1, <2>2, <2>3, QuietKeepsAccounts DEF IInv
<1>7. ASSUME NEW aged \in SUBSET Orphans, SweepFaces(aged)
      PROVE  OneAccountEach' /\ LinksFollow'
  BY <1>00, <1>7, QuietKeepsAccounts DEF SweepFaces, IInv
<1>. QED  BY <1>1, <1>2, <1>3, <1>4, <1>5, <1>6, <1>7 DEF DeskStep

\* A new account is its person's first, and takes a number nobody holds.
LEMMA NewAccount ==
    ASSUME IInv, NEW p \in People, ~Spent(p), Spent(p)', NEW n \in Numbers, ~Taken(n),
           NEW st \in Statuses,
           users' = [users EXCEPT ![n] = [status |-> st, of |-> p]],
           refused' = refused, links' = links,
           \/ st # Waiting /\ waiting' = waiting
           \/ waiting' = [waiting EXCEPT ![n] = IF @ = Nobody THEN p ELSE @],
           \A q \in People : Spent(q) => Spent(q)'
    PROVE  OneAccountEach' /\ LinksFollow'
<1>0. /\ users \in [Numbers -> Account] /\ refused \subseteq People /\ Nobody \notin People
      /\ waiting \in [Numbers -> People \cup {Nobody}] /\ users[n].of = Nobody
      /\ \A l \in Links : links[l].live => links[l].number \in Numbers /\ links[l].face \in People
  BY AccountsAssumption, TakenIsSomebodys DEF IInv, Types, AccountTypes
<1>1. /\ \A m \in Numbers \ {n} : users'[m] = users[m] /\ waiting'[m] = waiting[m]
      /\ users'[n].of = p /\ users'[n].status = st
  BY <1>0
<1>2. /\ waiting'[n] = waiting[n] \/ (waiting[n] = Nobody /\ waiting'[n] = p)
      /\ st = Waiting => waiting'[n] # Nobody
  BY <1>0
<1>3. /\ \A m \in Numbers : users[m].of # p /\ waiting[m] # p
      /\ p \notin refused
  BY DEF IInv, OneAccountEach
<1>4. \A m \in Applications' : m \in Applications \/ (m = n /\ st = Waiting)
  BY <1>1 DEF Applications
<1>5. OneAccountEach'
  <2>1. (\A m \in Numbers : users[m].of \in People => Spent(users[m].of))'
    BY <1>1 DEF IInv, OneAccountEach, Spent
  <2>2. \A k, m \in Numbers : users'[k].of \in People /\ users'[k].of = users'[m].of => k = m
    BY <1>1, <1>3 DEF IInv, OneAccountEach
  <2>3. (\A m \in Numbers : waiting[m] \in People => Spent(waiting[m]))'
    BY <1>1, <1>2 DEF IInv, OneAccountEach, Spent
  <2>4. \A k, m \in Numbers : users'[k].of \in People /\ waiting'[m] = users'[k].of => m = k
    BY <1>1, <1>2, <1>3 DEF IInv, OneAccountEach
  <2>5. \A q \in refused' : Spent(q)'
    BY <1>0 DEF IInv, OneAccountEach
  <2>6. \A m \in Numbers : waiting'[m] \notin refused'
    BY <1>1, <1>2, <1>3 DEF IInv, OneAccountEach
  <2>7. \A m \in Applications' : waiting'[m] # Nobody
    <3>1. ASSUME NEW m \in Applications', m \in Applications, m # n
          PROVE  waiting'[m] # Nobody
      BY <1>1, <3>1 DEF IInv, OneAccountEach, Applications
    <3>2. n \in Applications' => waiting'[n] # Nobody
      BY <1>1, <1>2 DEF Applications
    <3>. QED  BY <1>4, <3>1, <3>2
  <2>. QED  BY <2>1, <2>2, <2>3, <2>4, <2>5, <2>6, <2>7 DEF OneAccountEach
<1>6. LinksFollow'
  BY <1>0, <1>1 DEF IInv, LinksFollow
<1>. QED  BY <1>5, <1>6

\* So do the requests: an application or a hire is the person's first and only account.
LEMMA RequestKeepsAccounts ==
    ASSUME IInv, RequestStep
    PROVE  OneAccountEach' /\ LinksFollow'
<1>. DEFINE Kept == \A p \in People : Spent(p) => Spent(p)'
<1>0. /\ work \in [People \cup Slots -> Task] /\ links \in [Links -> LinkRow]
      /\ Slots \cap People = {}
  BY SlotsAssumption DEF IInv, Types, WorkTypes, AccountTypes
<1>1. ASSUME Kept, UNCHANGED accountVars
      PROVE  OneAccountEach' /\ LinksFollow'
  BY <1>1, QuietKeepsAccounts DEF IInv, accountVars
<1>2. ASSUME NEW p \in People, Submit(p) \/ RefuseSubmission(p)
      PROVE  OneAccountEach' /\ LinksFollow'
  <2>1. ~Spent(p)
    BY <1>2 DEF Submit, RefuseSubmission, Spent, Idle
  <2>2. Kept
    BY <1>0, <1>2, <2>1 DEF Submit, RefuseSubmission, Spent
  <2>. QED  BY <1>1, <1>2, <2>2 DEF Submit, RefuseSubmission
<1>3. ASSUME NEW p \in People, Insert(p)
      PROVE  OneAccountEach' /\ LinksFollow'
  <2>1. PICK n \in FreeNumbers :
            /\ InsertApplicant(p, n)
            /\ work' = [work EXCEPT ![p].stage = "resolving", ![p].number = n]
    BY <1>3 DEF Insert
  <2>2. n \in Numbers /\ ~Taken(n) /\ Waiting \in Statuses
    BY <2>1 DEF FreeNumbers, Statuses
  <2>3. work[p].stage = "scoring" /\ work'[p].stage = "resolving"
    BY <1>0, <1>3, <2>1 DEF Insert, Task
  <2>4. \A q \in People : q # p => work'[q] = work[q]
    BY <1>0, <2>1
  <2>5. ~Spent(p) /\ Spent(p)' /\ Kept
    BY <2>3, <2>4 DEF Spent
  <2>. QED  BY <2>1, <2>2, <2>5, NewAccount DEF InsertApplicant
<1>4. ASSUME NEW p \in People, NEW n \in Numbers, Hire(p, n)
      PROVE  OneAccountEach' /\ LinksFollow'
  <2>1. work[p].stage = "idle" /\ work'[p].stage = "done" /\ Kept
    <3>1. work[p].stage = "idle" /\ work'[p].stage = "done"
      BY <1>0, <1>4 DEF Hire, Ends, Idle
    <3>2. Kept
      BY <1>4, EndsSpent DEF Hire, IInv
    <3>. QED  BY <3>1, <3>2
  <2>2. ~Spent(p) /\ Spent(p)'
    BY <2>1 DEF Spent
  <2>3. /\ "active" \in Statuses /\ "active" # Waiting /\ ~Taken(n)
        /\ users' = [users EXCEPT ![n] = [status |-> "active", of |-> p]]
        /\ waiting' = waiting /\ refused' = refused /\ links' = links
    BY <1>4 DEF Hire, AddUser, CreateUser, Statuses, Waiting
  <2>. QED  BY <2>1, <2>2, <2>3, NewAccount
<1>5. ASSUME NEW s \in Slots,
             \/ JudgeAtDesk(s)
             \/ \E n \in Numbers : StartAtDesk(s, n)
             \/ \E l \in Links : OpenLink(s, l)
      PROVE  OneAccountEach' /\ LinksFollow'
  <2>1. \A p \in People : p # s
    BY <1>0
  <2>2. \A p \in People : work'[p] = work[p]
    BY <1>0, <1>5, <2>1 DEF JudgeAtDesk, Moves, StartAtDesk, OpenLink
  <2>3. Kept
    BY <2>2 DEF Spent
  <2>. QED  BY <1>1, <1>5, <2>3 DEF JudgeAtDesk, StartAtDesk, OpenLink
<1>6. ASSUME NEW s \in Slots, FileByLink(s)
      PROVE  OneAccountEach' /\ LinksFollow'
  <2>. DEFINE l == work[s].link
  <2>1. l \in Links
    <3>1. work[s] \in Task
      BY <1>0
    <3>. QED  BY <1>6, <3>1 DEF FileByLink, Task
  <2>2. /\ \A k \in Links \ {l} : links'[k] = links[k]
        /\ links'[l] = [links[l] EXCEPT !.uses = @ + 1]
        /\ users' = users /\ waiting' = waiting /\ refused' = refused
    BY <1>0, <1>6, <2>1 DEF FileByLink
  <2>3. links[l] \in LinkRow
    BY <1>0, <2>1
  <2>4. /\ links'[l].number = links[l].number /\ links'[l].face = links[l].face
        /\ links'[l].live = links[l].live
    BY <2>2, <2>3, Zenon DEF LinkRow
  <2>5. Kept
    BY <1>6, EndsSpent DEF FileByLink, IInv
  <2>. HIDE DEF l
  <2>. QED  BY <2>2, <2>4, <2>5, QuietKeepsAccounts DEF IInv
<1>7. ASSUME NEW s \in Slots, RefuseFace(s)
      PROVE  OneAccountEach' /\ LinksFollow'
  <2>1. Kept
    BY <1>7, EndsSpent DEF RefuseFace, IInv
  <2>. QED  BY <1>1, <1>7, <2>1 DEF RefuseFace
<1>8. ASSUME NEW t \in People \cup Slots, FindId(t)
      PROVE  OneAccountEach' /\ LinksFollow'
  <2>1. work'[t].stage = "filing" /\ \A q \in (People \cup Slots) \ {t} : work'[q] = work[q]
    <3>1. work[t] \in Task
      BY <1>0
    <3>. QED  BY <1>0, <1>8, <3>1 DEF FindId, Task
  <2>2. Kept
    BY <2>1 DEF Spent
  <2>. QED  BY <1>1, <1>8, <2>2 DEF FindId
<1>9. ASSUME NEW t \in People \cup Slots, NoIdFound(t) \/ FileFace(t)
      PROVE  OneAccountEach' /\ LinksFollow'
  <2>1. Kept
    BY <1>9, EndsSpent DEF NoIdFound, FileFace, IInv
  <2>2. users' = users /\ waiting' = waiting /\ refused' = refused /\ links' = links
    BY <1>9 DEF NoIdFound, FileFace, accountVars
  <2>. QED  BY <2>1, <2>2, QuietKeepsAccounts DEF IInv
<1>. QED
  BY <1>2, <1>3, <1>4, <1>5, <1>6, <1>7, <1>8, <1>9 DEF RequestStep

\* The background job touches nothing of the accounts but the faces.
LEMMA BulkLeavesAccounts ==
    ASSUME BulkStep
    PROVE  users' = users /\ waiting' = waiting /\ refused' = refused /\ links' = links
<1>1. CASE Upload
  BY <1>1 DEF Upload, accountVars
<1>2. ASSUME NEW r \in Runners, Claim(r) \/ RunnerDies(r)
      PROVE  UNCHANGED accountVars
  BY <1>2 DEF Claim, RunnerDies
<1>3. ASSUME NEW r \in Runners, RunnerStep(r), ~FileTheirFace(r)
      PROVE  UNCHANGED accountVars
  BY <1>3 DEF RunnerStep, ReadItems, NextItem, TurnDown, Decide, Embed, FindTheirId,
              AccountWent, GoesWrong, BreakOff, Succeed, Count, FinishJob
<1>4. ASSUME NEW r \in Runners, FileTheirFace(r)
      PROVE  users' = users /\ waiting' = waiting /\ refused' = refused /\ links' = links
  BY <1>4 DEF FileTheirFace
<1>. QED  BY <1>1, <1>2, <1>3, <1>4 DEF BulkStep, accountVars

\* And the faces only by filing one.
LEMMA BulkFilesFaces ==
    ASSUME BulkStep, templates' # templates
    PROVE  \E r \in Runners : FileTheirFace(r)
<1>1. CASE Upload
  BY <1>1 DEF Upload, accountVars
<1>2. ASSUME NEW r \in Runners, Claim(r) \/ RunnerDies(r)
      PROVE  UNCHANGED accountVars
  BY <1>2 DEF Claim, RunnerDies
<1>3. ASSUME NEW r \in Runners, RunnerStep(r), ~FileTheirFace(r)
      PROVE  UNCHANGED accountVars
  BY <1>3 DEF RunnerStep, ReadItems, NextItem, TurnDown, Decide, Embed, FindTheirId,
              AccountWent, GoesWrong, BreakOff, Succeed, Count, FinishJob
<1>. QED  BY <1>1, <1>2, <1>3 DEF BulkStep, accountVars

\* The invariant of the accounts, for any number of people, numbers, links and requests.
THEOREM AccountsHold == Spec => []IInv
<1>1. Init => IInv
  <2>. SUFFICES ASSUME Init PROVE IInv
    OBVIOUS
  <2>1. Types
    BY InitTypes
  <2>2. \A n \in Numbers : users[n] = Free /\ waiting[n] = Nobody
    BY DEF Init, AccountsInit
  <2>3. OneAccountEach
    BY <2>2, AccountsAssumption DEF Init, AccountsInit, OneAccountEach, Applications, Free, Waiting
  <2>4. \A l \in Links : ~links[l].live
    BY DEF Init, AccountsInit, Unissued
  <2>. QED  BY <2>1, <2>3, <2>4 DEF IInv, LinksFollow
<1>2. IInv /\ [Next]_vars => IInv'
  <2>. SUFFICES ASSUME IInv, [Next]_vars PROVE IInv'
    OBVIOUS
  <2>1. Types'
    BY StepKeepsTypes DEF IInv
  <2>2. CASE DeskStep /\ UNCHANGED work /\ UNCHANGED bulkVars
    BY <2>1, <2>2, DeskKeepsAccounts DEF IInv
  <2>3. CASE RequestStep /\ UNCHANGED bulkVars
    BY <2>1, <2>3, RequestKeepsAccounts DEF IInv
  <2>4. CASE BulkStep /\ UNCHANGED work
    <3>1. users' = users /\ waiting' = waiting /\ refused' = refused /\ links' = links
      BY <2>4, BulkLeavesAccounts
    <3>2. \A p \in People : Spent(p) => Spent(p)'
      BY <2>4 DEF Spent
    <3>. QED  BY <2>1, <3>1, <3>2, QuietKeepsAccounts DEF IInv
  <2>5. CASE UNCHANGED vars
    <3>1. users' = users /\ waiting' = waiting /\ refused' = refused /\ links' = links /\ work' = work
      BY <2>5 DEF vars
    <3>2. \A p \in People : Spent(p) => Spent(p)'
      BY <3>1 DEF Spent
    <3>. QED  BY <2>1, <3>1, <3>2, QuietKeepsAccounts DEF IInv
  <2>. QED  BY <2>2, <2>3, <2>4, <2>5 DEF Next
<1>. QED  BY <1>1, <1>2, PTL DEF Spec

\* The next holder of a number is not enrolled by a link sent to the one before.
THEOREM LinksFollowTheirPerson == Spec => []LinkFollowsItsPerson
<1>1. IInv => LinkFollowsItsPerson
  BY DEF IInv, LinksFollow, LinkFollowsItsPerson, Usable
<1>. QED  BY <1>1, AccountsHold, PTL

\* An applicant is announced, unless the number's notice is that of an account which is gone without
\* having been refused: the notice of whoever still has an account stands under their own number.
THEOREM ApplicantsAreAnnounced == Spec => []ApplicantIsAnnounced
<1>1. IInv => ApplicantIsAnnounced
  <2>. SUFFICES ASSUME IInv, NEW n \in Applications
                PROVE  /\ waiting[n] # Nobody /\ waiting[n] \notin refused
                       /\ waiting[n] = users[n].of \/ ~HasAccount(waiting[n])
    BY DEF ApplicantIsAnnounced
  <2>1. n \in Numbers /\ waiting[n] # Nobody /\ waiting[n] \notin refused
    BY DEF IInv, OneAccountEach, Applications
  <2>2. waiting[n] \in People
    BY <2>1 DEF IInv, Types, AccountTypes
  <2>3. ASSUME NEW m \in Numbers, users[m].of = waiting[n]
        PROVE  m = n
    BY <2>1, <2>2, <2>3 DEF IInv, OneAccountEach
  <2>. QED  BY <2>1, <2>3 DEF HasAccount
<1>. QED  BY <1>1, AccountsHold, PTL

-----------------------------------------------------------------------------
(* A working account keeps its face                                         *)

\* Whatever files a face files somebody's, and what removes one removes no working account's.
LEMMA StepKeepsFaces ==
    ASSUME IInv, IInv', [Next]_vars, NEW p \in People,
           Holds(p, "active"), Holds(p, "active")', templates[p] # Nobody
    PROVE  templates'[p] # Nobody
<1>0. /\ templates \in [People -> People \cup {Nobody}] /\ Nobody \notin People
      /\ users \in [Numbers -> Account] /\ users' \in [Numbers -> Account]
      /\ \A n, m \in Numbers : users[n].of \in People /\ users[n].of = users[m].of => n = m
  BY AccountsAssumption DEF IInv, Types, AccountTypes, OneAccountEach
<1>1. PICK a \in Numbers : users[a] = [status |-> "active", of |-> p]
  BY DEF Holds
<1>2. PICK b \in Numbers : users'[b] = [status |-> "active", of |-> p]
  BY DEF Holds
<1>3. ASSUME NEW n \in Numbers, RejectRegistration(n)
      PROVE  templates'[p] # Nobody
  <2>1. users[n].of # p
    BY <1>0, <1>1, <1>3 DEF RejectRegistration, Waiting
  <2>. QED  BY <1>0, <1>3, <2>1 DEF RejectRegistration
<1>4. ASSUME NEW n \in Numbers, Deactivate(n)
      PROVE  templates'[p] # Nobody
  <2>1. users[n].of # p
    <3>1. \A m \in Numbers \ {n} : users'[m] = users[m]
      BY <1>0, <1>4 DEF Deactivate
    <3>2. users'[n].status # "active"
      BY <1>0, <1>4, TakenIsSomebodys DEF Deactivate, Account, Free
    <3>3. b # n /\ users[b].of = p
      BY <1>2, <3>1, <3>2
    <3>. QED  BY <1>0, <3>3
  <2>. QED  BY <1>0, <1>4, <2>1 DEF Deactivate
<1>5. ASSUME NEW aged \in SUBSET Orphans, SweepFaces(aged)
      PROVE  templates'[p] # Nobody
  <2>1. p \notin Residue(aged)
    BY DEF Residue, Live
  <2>. QED  BY <1>5, <2>1 DEF SweepFaces
<1>6. CASE DeskStep
  <2>1. ASSUME NEW n \in Numbers,
               \/ ApproveRegistration(n) \/ Reactivate(n) \/ DeleteUser(n)
               \/ \E l \in Links : CreateInvite(l, n)
        PROVE  templates' = templates
    BY <2>1 DEF ApproveRegistration, Reactivate, DeleteUser, CreateInvite
  <2>2. ASSUME NEW l \in Links, RevokeInvite(l)
        PROVE  templates' = templates
    BY <2>2 DEF RevokeInvite
  <2>. QED  BY <1>3, <1>4, <1>5, <1>6, <2>1, <2>2 DEF DeskStep
<1>7. CASE RequestStep
  <2>1. ASSUME NEW q \in People, NEW n \in Numbers, Hire(q, n)
        PROVE  templates'[p] # Nobody
    BY <1>0, <2>1 DEF Hire, AddUser, CreateUser
  <2>2. ASSUME NEW s \in Slots, FileByLink(s)
        PROVE  templates'[p] # Nobody
    <3>1. work[s].face \in People
      BY <2>2 DEF FileByLink, IInv, Types, WorkTypes, TaskOK
    <3>. QED  BY <1>0, <2>2, <3>1 DEF FileByLink
  <2>3. ASSUME NEW t \in People \cup Slots, FileFace(t)
        PROVE  templates'[p] # Nobody
    <3>1. work[t].face \in People
      BY <2>3 DEF FileFace, IInv, Types, WorkTypes, TaskOK
    <3>. QED  BY <1>0, <2>3, <3>1 DEF FileFace
  <2>4. ASSUME NEW q \in People, Submit(q) \/ RefuseSubmission(q) \/ Insert(q)
        PROVE  templates' = templates
    BY <2>4 DEF Submit, RefuseSubmission, Insert, InsertApplicant, accountVars
  <2>5. ASSUME NEW s \in Slots,
               \/ RefuseFace(s) \/ JudgeAtDesk(s)
               \/ \E n \in Numbers : StartAtDesk(s, n)
               \/ \E l \in Links : OpenLink(s, l)
        PROVE  templates' = templates
    BY <2>5 DEF RefuseFace, JudgeAtDesk, StartAtDesk, OpenLink, accountVars
  <2>6. ASSUME NEW t \in People \cup Slots, FindId(t) \/ NoIdFound(t)
        PROVE  templates' = templates
    BY <2>6 DEF FindId, NoIdFound, accountVars
  <2>. QED  BY <1>7, <2>1, <2>2, <2>3, <2>4, <2>5, <2>6 DEF RequestStep
<1>8. CASE BulkStep
  <2>1. CASE templates' = templates
    BY <2>1
  <2>2. CASE templates' # templates
    <3>1. PICK r \in Runners : FileTheirFace(r)
      BY <1>8, <2>2, BulkFilesFaces
    <3>2. items[runner[r].item].face \in People
      BY <3>1 DEF FileTheirFace, IInv, Types, BulkTypes, Busy
    <3>. QED  BY <1>0, <3>1, <3>2 DEF FileTheirFace
  <2>. QED  BY <2>1, <2>2
<1>9. CASE UNCHANGED vars
  BY <1>9 DEF vars
<1>. QED  BY <1>6, <1>7, <1>8, <1>9 DEF Next

\* No sweep, refusal or late enrolment takes the face away from an account that works.
THEOREM WorkersKeepTheirFaces == Spec => WorkingFaceIsKept
<1>. DEFINE Keep == \A p \in People :
                       /\ Holds(p, "active") /\ Holds(p, "active")'
                       /\ templates[p] # Nobody
                       => templates'[p] # Nobody
<1>1. IInv /\ IInv' /\ [Next]_vars => [Keep]_vars
  BY StepKeepsFaces
<1>2. Spec => [][Keep]_vars
  BY <1>1, AccountsHold, PTL DEF Spec
<1>. QED  BY <1>2 DEF WorkingFaceIsKept

-----------------------------------------------------------------------------
(* The background job decides every row, and counts what it decided         *)

Counting == {r \in Runners : runner[r].at = "counting"}
DoneRows == {i \in Items : Decided(i)}

AtWork == Busy \cup {"next"}

\* A runner that has claimed has every row that is not decided before it, and one that counts
\* has decided.
RosterRow(row) ==
    /\ row.at = "claimed" => \A i \in Items : Decided(i) \/ items[i].status = "processing"
    /\ row.at \in AtWork => \A i \in Items : Decided(i) \/ i \in row.todo
    /\ row.at = "counting" => Decided(row.item)

RosterInv ==
    /\ job.status = "none" => DoneRows = {}
    /\ job.status \in Over => \A i \in Items : Decided(i)
    /\ \A r \in Runners : RosterRow(runner[r])

\* A job that is over has decided every row of its roster, however many runners worked on it, died,
\* or broke off because an account went (process_job: the counters and the status).
JobIsWhole == job.status \in Over => \A i \in Items : Decided(i)

\* One runner steps: nothing that is decided comes undone, and the runner's memory is in order.
LEMMA RosterMoves ==
    ASSUME BulkTypes, RosterInv, NEW r \in Runners, NEW row,
           runner' = [runner EXCEPT ![r] = row],
           RosterRow(row)',
           \A i \in Items : Decided(i) => Decided(i)',
           \A i \in Items : items[i].status = "processing"
                                => Decided(i)' \/ items'[i].status = "processing",
           job'.status = "none" => job.status = "none" /\ items' = items,
           job'.status \in Over => job.status \in Over \/ \A i \in Items : Decided(i)'
    PROVE  RosterInv'
<1>1. ASSUME NEW q \in Runners PROVE RosterRow(runner[q])'
  <2>1. CASE q = r
    BY <2>1 DEF BulkTypes, RosterRow, Decided
  <2>2. CASE q # r
    <3>1. runner'[q] = runner[q] /\ RosterRow(runner[q])
      BY <2>2 DEF BulkTypes, RosterInv
    <3>2. runner[q].at = "counting" => runner[q].item \in Items
      BY DEF BulkTypes, Busy
    <3>. QED  BY <3>1, <3>2 DEF RosterRow, Decided
  <2>. QED  BY <2>1, <2>2
<1>2. job'.status \in Over => \A i \in Items : Decided(i)'
  BY DEF RosterInv
<1>3. job'.status = "none" => DoneRows' = {}
  BY DEF RosterInv, DoneRows, Decided
<1>. QED  BY <1>1, <1>2, <1>3 DEF RosterInv

\* What a step does to the rows that are decided, to the runners that count, and to the counters:
\* nothing; a runner decides a row; it counts one; or it dies.
Rests ==
    /\ DoneRows' = DoneRows /\ Counting' = Counting
    /\ job'.processed = job.processed /\ crashes' = crashes
Decides ==
    \E r \in Runners :
        /\ runner[r].at \in Busy \ {"counting"}
        /\ DoneRows' = DoneRows \cup {runner[r].item}
        /\ Counting' = Counting \cup {r}
        /\ job'.processed = job.processed /\ crashes' = crashes
Counts ==
    \E r \in Counting :
        /\ DoneRows' = DoneRows /\ Counting' = Counting \ {r}
        /\ job'.processed = job.processed + 1 /\ crashes' = crashes
Dies ==
    \E r \in Runners :
        /\ DoneRows' = DoneRows /\ Counting' = Counting \ {r}
        /\ job'.processed = job.processed /\ crashes' = crashes + 1

\* A runner's step that leaves the rows and the counter, and neither begins nor ends a counting.
LEMMA RunnerRests ==
    ASSUME BulkTypes, NEW r \in Runners, NEW row,
           runner' = [runner EXCEPT ![r] = row], runner[r].at # "counting", row.at # "counting",
           items' = items, job'.processed = job.processed, crashes' = crashes
    PROVE  Rests
<1>1. Counting' = Counting
  BY DEF BulkTypes, Counting
<1>. QED  BY <1>1 DEF Rests, DoneRows, Decided

\* Every step of the job is of one of these kinds, and keeps the roster's invariant.
LEMMA BulkKinds ==
    ASSUME BulkTypes, RosterInv, BulkStep
    PROVE  RosterInv' /\ (Rests \/ Decides \/ Counts \/ Dies)
<1>1. CASE Upload
  <2>1. /\ job.status = "none" /\ job' = [job EXCEPT !.status = "queued"]
        /\ runner' = runner /\ crashes' = crashes
        /\ \A i \in Items : items'[i].status = "queued"
    BY <1>1 DEF Upload
  <2>2. DoneRows = {} /\ DoneRows' = {} /\ job'.status = "queued"
        /\ job'.processed = job.processed
    BY <2>1 DEF BulkTypes, Job, RosterInv, DoneRows, Decided, Outcomes
  <2>3. \A r \in Runners : runner[r].at = "off"
    BY <2>1 DEF BulkTypes
  <2>4. RosterInv'
    BY <2>1, <2>2, <2>3 DEF RosterInv, RosterRow, AtWork, Busy, Over
  <2>. QED  BY <2>1, <2>2, <2>4 DEF Rests, Counting
<1>. SUFFICES ASSUME NEW r \in Runners, Claim(r) \/ RunnerStep(r) \/ RunnerDies(r)
              PROVE  RosterInv' /\ (Rests \/ Decides \/ Counts \/ Dies)
  BY <1>1 DEF BulkStep
<1>0. /\ job \in Job /\ items \in [Items -> Item] /\ runner \in [Runners -> Runner]
      /\ runner[r] \in Runner
      /\ runner[r].at # "off" => job.status # "none"
      /\ runner[r].at \in Busy => runner[r].item \in Items
      /\ RosterRow(runner[r])
  BY DEF BulkTypes, RosterInv
<1>2. CASE Claim(r)
  <2>1. PICK row : row = [runner[r] EXCEPT !.at = "claimed"]
    OBVIOUS
  <2>2. /\ job.status \notin Over /\ job' = [job EXCEPT !.status = "running"]
        /\ runner' = [runner EXCEPT ![r] = row] /\ runner[r].at = "off"
        /\ row.at = "claimed" /\ crashes' = crashes
    BY <1>0, <1>2, <2>1 DEF Claim, Off, Runner
  <2>3. job'.status = "running" /\ job'.processed = job.processed
    BY <1>0, <2>2 DEF Job
  <2>4. \A i \in Items : /\ Decided(i) => items'[i] = items[i]
                         /\ ~Decided(i) => items'[i].status = "processing"
    BY <1>0, <1>2 DEF Claim, Item
  <2>5. \A i \in Items : /\ Decided(i)' <=> Decided(i)
                         /\ Decided(i)' \/ items'[i].status = "processing"
    BY <2>4 DEF Decided, Outcomes
  <2>6. RosterRow(row)'
    BY <2>2, <2>5 DEF RosterRow, AtWork, Busy
  <2>7. RosterInv'
    BY <2>2, <2>3, <2>5, <2>6, RosterMoves DEF Over
  <2>8. Counting' = Counting
    BY <1>0, <2>2 DEF Counting
  <2>. QED  BY <2>2, <2>3, <2>5, <2>7, <2>8 DEF Rests, DoneRows
<1>3. ASSUME NEW row, runner' = [runner EXCEPT ![r] = row], RosterRow(row),
             runner[r].at \notin {"off", "counting"}, row.at # "counting",
             items' = items, crashes' = crashes,
             job'.processed = job.processed,
             job'.status \in Over => job.status \in Over \/ \A i \in Items : Decided(i),
             job'.status # "none"
      PROVE  RosterInv' /\ Rests
  <2>1. RosterRow(row)' /\ \A i \in Items : Decided(i)' <=> Decided(i)
    BY <1>3 DEF RosterRow, Decided
  <2>2. RosterInv'
    BY <1>3, <2>1, RosterMoves
  <2>. QED  BY <1>3, <2>2, RunnerRests
<1>4. CASE ReadItems(r)
  <2>1. PICK row : row = [runner[r] EXCEPT !.at = "next",
                              !.todo = {i \in Items : items[i].status = "processing"}]
    OBVIOUS
  <2>2. /\ runner' = [runner EXCEPT ![r] = row] /\ runner[r].at = "claimed"
        /\ job' = job /\ items' = items /\ crashes' = crashes
        /\ row.at = "next" /\ row.todo = {i \in Items : items[i].status = "processing"}
    BY <1>0, <1>4, <2>1 DEF ReadItems, Runner
  <2>3. RosterRow(row)
    BY <1>0, <2>2 DEF RosterRow
  <2>. QED  BY <1>0, <1>3, <2>2, <2>3
<1>5. CASE NextItem(r) \/ Embed(r) \/ FindTheirId(r) \/ FileTheirFace(r)
  <2>1. \E row : /\ runner' = [runner EXCEPT ![r] = row]
                 /\ runner[r].at \in AtWork \ {"counting"}
                 /\ row.at \in AtWork \ {"counting"} /\ row.todo = runner[r].todo
    <3>1. CASE NextItem(r)
      <4>1. PICK row : row = [runner[r] EXCEPT !.at = "scoring", !.item = Min(runner[r].todo)]
        OBVIOUS
      <4>2. /\ runner' = [runner EXCEPT ![r] = row]
            /\ runner[r].at \in AtWork \ {"counting"}
        BY <1>0, <3>1, <4>1 DEF NextItem, AtWork, Busy
      <4>3. row.at \in AtWork \ {"counting"} /\ row.todo = runner[r].todo
        BY <1>0, <4>1 DEF Runner, AtWork, Busy
      <4>. QED  BY <4>2, <4>3
    <3>2. CASE Embed(r)
      <4>1. PICK row : row = [runner[r] EXCEPT !.at = "resolving"]
        OBVIOUS
      <4>2. /\ runner' = [runner EXCEPT ![r] = row]
            /\ runner[r].at \in AtWork \ {"counting"}
        BY <1>0, <3>2, <4>1 DEF Embed, Goes, AtWork, Busy
      <4>3. row.at \in AtWork \ {"counting"} /\ row.todo = runner[r].todo
        BY <1>0, <4>1 DEF Runner, AtWork, Busy
      <4>. QED  BY <4>2, <4>3
    <3>3. CASE FindTheirId(r)
      <4>1. PICK row : row = [runner[r] EXCEPT !.at = "filing", !.bid = users[Number(r)].of]
        OBVIOUS
      <4>2. /\ runner' = [runner EXCEPT ![r] = row]
            /\ runner[r].at \in AtWork \ {"counting"}
        BY <1>0, <3>3, <4>1 DEF FindTheirId, AtWork, Busy
      <4>3. row.at \in AtWork \ {"counting"} /\ row.todo = runner[r].todo
        BY <1>0, <4>1 DEF Runner, AtWork, Busy
      <4>. QED  BY <4>2, <4>3
    <3>4. CASE FileTheirFace(r)
      <4>1. PICK row : row = [runner[r] EXCEPT !.at = "recording"]
        OBVIOUS
      <4>2. /\ runner' = [runner EXCEPT ![r] = row]
            /\ runner[r].at \in AtWork \ {"counting"}
        BY <1>0, <3>4, <4>1 DEF FileTheirFace, Goes, AtWork, Busy
      <4>3. row.at \in AtWork \ {"counting"} /\ row.todo = runner[r].todo
        BY <1>0, <4>1 DEF Runner, AtWork, Busy
      <4>. QED  BY <4>2, <4>3
    <3>. QED  BY <1>5, <3>1, <3>2, <3>3, <3>4
  <2>2. PICK row : /\ runner' = [runner EXCEPT ![r] = row]
                   /\ runner[r].at \in AtWork \ {"counting"}
                   /\ row.at \in AtWork \ {"counting"} /\ row.todo = runner[r].todo
    BY <2>1
  <2>3. job' = job /\ items' = items /\ crashes' = crashes
    BY <1>5 DEF NextItem, Embed, FindTheirId, FileTheirFace
  <2>4. RosterRow(row) /\ job.status # "none"
    BY <1>0, <2>2 DEF RosterRow, AtWork, Busy
  <2>. QED  BY <1>3, <2>2, <2>3, <2>4 DEF AtWork, Busy
<1>6. CASE AccountWent(r) \/ GoesWrong(r)
  <2>1. /\ job' = [job EXCEPT !.status = "failed"] /\ items' = items /\ crashes' = crashes
        /\ runner' = [runner EXCEPT ![r] = Off] /\ runner[r].at \notin {"off", "counting"}
    BY <1>6 DEF AccountWent, GoesWrong, BreakOff
  <2>2. job'.status = "failed" /\ job'.processed = job.processed
    BY <1>0, <2>1 DEF Job
  <2>3. RosterRow(Off) /\ Off.at = "off"
    BY DEF RosterRow, Off, AtWork, Busy
  <2>. QED  BY <1>3, <2>1, <2>2, <2>3 DEF Over
<1>7. CASE FinishJob(r)
  <2>1. /\ items' = items /\ crashes' = crashes /\ runner[r].at = "next" /\ runner[r].todo = {}
        /\ runner' = [runner EXCEPT ![r] = Off]
        /\ \/ job' = [job EXCEPT !.status = "done"]
           \/ job' = [job EXCEPT !.status = "done_with_errors"]
    BY <1>7 DEF FinishJob
  <2>2. job'.status # "none" /\ job'.processed = job.processed
    BY <1>0, <2>1 DEF Job
  <2>3. \A i \in Items : Decided(i)
    BY <1>0, <2>1 DEF RosterRow, AtWork
  <2>4. RosterRow(Off) /\ Off.at = "off"
    BY DEF RosterRow, Off, AtWork, Busy
  <2>. QED  BY <1>3, <2>1, <2>2, <2>3, <2>4
<1>8. ASSUME NEW outcome \in Outcomes, runner[r].at \in Busy \ {"counting"}, Decide(r, outcome)
      PROVE  RosterInv' /\ Decides
  <2>1. PICK row : row = [runner[r] EXCEPT !.at = "counting"]
    OBVIOUS
  <2>2. PICK i \in Items : i = runner[r].item
    BY <1>0, <1>8
  <2>3. /\ job' = job /\ crashes' = crashes
        /\ runner' = [runner EXCEPT ![r] = row]
        /\ row.at = "counting" /\ row.todo = runner[r].todo /\ row.item = i
        /\ items' = [items EXCEPT ![i] = [items[i] EXCEPT !.status = outcome]]
    BY <1>0, <1>8, <2>1, <2>2 DEF Decide, Goes, Runner
  <2>4. /\ items'[i].status = outcome
        /\ \A k \in Items : k # i => items'[k] = items[k]
    BY <1>0, <2>3 DEF Item
  <2>5. /\ Decided(i)'
        /\ \A k \in Items : k # i => (Decided(k)' <=> Decided(k))
    BY <2>4 DEF Decided
  <2>6. \A k \in Items : items[k].status = "processing"
                             => Decided(k)' \/ items'[k].status = "processing"
    BY <2>4, <2>5
  <2>7. RosterRow(row)'
    BY <1>0, <1>8, <2>3, <2>5 DEF RosterRow, AtWork
  <2>8. job.status # "none"
    BY <1>0, <1>8 DEF Busy
  <2>9. RosterInv'
    BY <2>3, <2>5, <2>6, <2>7, <2>8, RosterMoves
  <2>10. DoneRows' = DoneRows \cup {i}
    BY <2>5 DEF DoneRows
  <2>11. Counting' = Counting \cup {r}
    BY <1>0, <2>3 DEF Counting
  <2>. QED  BY <1>8, <2>2, <2>3, <2>9, <2>10, <2>11 DEF Decides
<1>9. CASE Count(r)
  <2>1. PICK row : row = [Off EXCEPT !.at = "next", !.todo = runner[r].todo \ {runner[r].item}]
    OBVIOUS
  <2>2. /\ items' = items /\ crashes' = crashes /\ runner[r].at = "counting"
        /\ runner' = [runner EXCEPT ![r] = row]
        /\ row.at = "next" /\ row.todo = runner[r].todo \ {runner[r].item}
        /\ job' = [job EXCEPT !.processed = @ + 1,
                              !.errors = IF items[runner[r].item].status = "failed" THEN @ + 1 ELSE @]
    BY <1>9, <2>1 DEF Count, Off
  <2>3. job'.status = job.status /\ job'.processed = job.processed + 1
    BY <1>0, <2>2 DEF Job
  <2>4. \A i \in Items : /\ Decided(i)' <=> Decided(i)
                         /\ items'[i] = items[i]
    BY <2>2 DEF Decided
  <2>5. RosterRow(row)'
    BY <1>0, <2>2, <2>4 DEF RosterRow, AtWork, Busy
  <2>6. RosterInv'
    BY <1>0, <2>2, <2>3, <2>4, <2>5, RosterMoves
  <2>7. Counting' = Counting \ {r} /\ r \in Counting /\ DoneRows' = DoneRows
    BY <1>0, <2>2, <2>4 DEF Counting, DoneRows
  <2>. QED  BY <2>2, <2>3, <2>6, <2>7 DEF Counts
<1>10. CASE RunnerDies(r)
  <2>1. /\ job' = job /\ items' = items /\ crashes' = crashes + 1
        /\ runner' = [runner EXCEPT ![r] = Off]
    BY <1>10 DEF RunnerDies
  <2>2. RosterRow(Off)' /\ Off.at = "off"
    BY DEF RosterRow, Off, AtWork, Busy
  <2>3. \A i \in Items : Decided(i)' <=> Decided(i)
    BY <2>1 DEF Decided
  <2>4. RosterInv'
    BY <1>0, <2>1, <2>2, <2>3, RosterMoves
  <2>5. Counting' = Counting \ {r} /\ DoneRows' = DoneRows
    BY <1>0, <2>1, <2>2, <2>3 DEF Counting, DoneRows
  <2>. QED  BY <2>1, <2>4, <2>5 DEF Dies
<1>11. CASE TurnDown(r) \/ Succeed(r)
  <2>1. PICK outcome \in Outcomes : Decide(r, outcome) /\ runner[r].at \in Busy \ {"counting"}
    BY <1>11 DEF TurnDown, Succeed, Outcomes, Busy
  <2>. QED  BY <1>8, <2>1
<1>. QED
  BY <1>2, <1>4, <1>5, <1>6, <1>7, <1>9, <1>10, <1>11 DEF RunnerStep

\* Rows and runners are finitely many, so what is decided and who counts can be counted.
LEMMA RosterIsFinite ==
    BulkTypes => /\ IsFiniteSet(DoneRows) /\ Cardinality(DoneRows) \in Nat
                 /\ IsFiniteSet(Counting) /\ Cardinality(Counting) \in Nat
                 /\ job.processed \in Nat /\ crashes \in Nat
<1>1. DoneRows \subseteq Items /\ Counting \subseteq Runners
  BY DEF DoneRows, Counting
<1>2. IsFiniteSet(DoneRows) /\ IsFiniteSet(Counting)
  BY <1>1, BulkAssumption, FS_Subset
<1>. QED  BY <1>2, FS_CardinalityType DEF BulkTypes, Job

\* No row that is decided is forgotten by the counters, unless the runner that was about to count it
\* died: each death costs the report one row at most, with any number of runners.
CountersMissOnlyDeaths ==
    Cardinality(DoneRows) <= job.processed + Cardinality(Counting) + crashes

\* Nor do the counters run ahead of the rows.
CountersStayBehind ==
    job.processed + Cardinality(Counting) <= Cardinality(DoneRows)

\* A step that decides a row begins its counting; only a death takes a counting away uncounted.
LEMMA StepMissesOnlyDeaths ==
    ASSUME BulkTypes, CountersMissOnlyDeaths, Rests \/ Decides \/ Counts \/ Dies
    PROVE  CountersMissOnlyDeaths'
<1>0. /\ IsFiniteSet(DoneRows) /\ Cardinality(DoneRows) \in Nat
      /\ IsFiniteSet(Counting) /\ Cardinality(Counting) \in Nat
      /\ job.processed \in Nat /\ crashes \in Nat
  BY RosterIsFinite
<1>1. CASE Rests
  BY <1>1 DEF Rests, CountersMissOnlyDeaths
<1>2. CASE Decides
  <2>1. PICK r \in Runners : /\ runner[r].at \in Busy \ {"counting"}
                             /\ DoneRows' = DoneRows \cup {runner[r].item}
                             /\ Counting' = Counting \cup {r}
                             /\ job'.processed = job.processed /\ crashes' = crashes
    BY <1>2 DEF Decides
  <2>2. Cardinality(DoneRows') \in {Cardinality(DoneRows), Cardinality(DoneRows) + 1}
    BY <1>0, <2>1, FS_AddElement
  <2>3. Cardinality(Counting') = Cardinality(Counting) + 1
    <3>1. r \notin Counting
      BY <2>1 DEF Counting
    <3>. QED  BY <1>0, <2>1, <3>1, FS_AddElement
  <2>. QED  BY <1>0, <2>1, <2>2, <2>3 DEF CountersMissOnlyDeaths
<1>3. CASE Counts
  <2>1. PICK r \in Counting : /\ DoneRows' = DoneRows /\ Counting' = Counting \ {r}
                              /\ job'.processed = job.processed + 1 /\ crashes' = crashes
    BY <1>3 DEF Counts
  <2>2. Cardinality(Counting') = Cardinality(Counting) - 1
    BY <1>0, <2>1, FS_RemoveElement
  <2>. QED  BY <1>0, <2>1, <2>2 DEF CountersMissOnlyDeaths
<1>4. CASE Dies
  <2>1. PICK r \in Runners : /\ DoneRows' = DoneRows /\ Counting' = Counting \ {r}
                             /\ job'.processed = job.processed /\ crashes' = crashes + 1
    BY <1>4 DEF Dies
  <2>2. Cardinality(Counting') \in {Cardinality(Counting), Cardinality(Counting) - 1}
    BY <1>0, <2>1, FS_RemoveElement
  <2>. QED  BY <1>0, <2>1, <2>2 DEF CountersMissOnlyDeaths
<1>. QED  BY <1>1, <1>2, <1>3, <1>4

-----------------------------------------------------------------------------
(* A runner that is the only one never decides a row twice                  *)

OneRunner == \A r, s \in Runners : r = s

\* What is still before the runner is not decided, nor is the row it is at until it counts it.
LoneRow(row) ==
    /\ row.at = "next" => \A i \in row.todo : ~Decided(i)
    /\ row.at \in Busy => \A i \in row.todo : i # row.item => ~Decided(i)
    /\ row.at \in Busy \ {"counting"} => ~Decided(row.item)

Lone == \A r \in Runners : LoneRow(runner[r])

\* The only runner steps: its memory is the only one there is.
LEMMA LoneMoves ==
    ASSUME OneRunner, BulkTypes, Lone, NEW r \in Runners, NEW row,
           runner' = [runner EXCEPT ![r] = row], LoneRow(row)'
    PROVE  Lone'
<1>1. \A q \in Runners : q = r
  BY DEF OneRunner
<1>2. runner'[r] = row
  BY DEF BulkTypes
<1>. QED  BY <1>1, <1>2 DEF Lone, LoneRow, Decided

\* No step of a runner that is alone brings a decided row before it again.
LEMMA StepKeepsLone ==
    ASSUME OneRunner, BulkTypes, Lone, BulkStep
    PROVE  Lone'
<1>1. CASE Upload
  <2>1. \A r \in Runners : runner'[r].at = "off"
    BY <1>1 DEF Upload, BulkTypes
  <2>. QED  BY <2>1 DEF Lone, LoneRow, Busy
<1>. SUFFICES ASSUME NEW r \in Runners, Claim(r) \/ RunnerStep(r) \/ RunnerDies(r)
              PROVE  Lone'
  BY <1>1 DEF BulkStep
<1>0. /\ items \in [Items -> Item] /\ runner \in [Runners -> Runner] /\ runner[r] \in Runner
      /\ runner[r].at \in Busy => runner[r].item \in Items
      /\ LoneRow(runner[r])
  BY DEF BulkTypes, Lone
<1>2. ASSUME NEW row, runner' = [runner EXCEPT ![r] = row],
             row.at \in {"off", "claimed"} \/ (items' = items /\ LoneRow(row))
      PROVE  Lone'
  <2>1. LoneRow(row)'
    BY <1>2 DEF LoneRow, Decided, Busy
  <2>. QED  BY <1>2, <2>1, LoneMoves
<1>3. CASE Claim(r)
  <2>1. PICK row : row = [runner[r] EXCEPT !.at = "claimed"]
    OBVIOUS
  <2>2. row.at = "claimed" /\ runner' = [runner EXCEPT ![r] = row]
    BY <1>0, <1>3, <2>1 DEF Claim, Runner
  <2>. QED  BY <1>2, <2>2
<1>4. CASE AccountWent(r) \/ GoesWrong(r) \/ FinishJob(r) \/ RunnerDies(r)
  <2>1. runner' = [runner EXCEPT ![r] = Off] /\ Off.at = "off"
    BY <1>4 DEF AccountWent, GoesWrong, BreakOff, FinishJob, RunnerDies, Off
  <2>. QED  BY <1>2, <2>1
<1>5. CASE ReadItems(r)
  <2>1. PICK row : row = [runner[r] EXCEPT !.at = "next",
                              !.todo = {i \in Items : items[i].status = "processing"}]
    OBVIOUS
  <2>2. /\ row.at = "next" /\ row.todo = {i \in Items : items[i].status = "processing"}
        /\ runner' = [runner EXCEPT ![r] = row] /\ items' = items
    BY <1>0, <1>5, <2>1 DEF ReadItems, Runner
  <2>3. LoneRow(row)
    BY <2>2 DEF LoneRow, Decided, Outcomes, Busy
  <2>. QED  BY <1>2, <2>2, <2>3
<1>6. CASE NextItem(r)
  <2>1. PICK i : i = Min(runner[r].todo)
    OBVIOUS
  <2>2. PICK row : row = [runner[r] EXCEPT !.at = "scoring", !.item = i]
    OBVIOUS
  <2>3. /\ row.at = "scoring" /\ row.todo = runner[r].todo /\ row.item = i
        /\ runner' = [runner EXCEPT ![r] = row] /\ items' = items /\ runner[r].at = "next"
    BY <1>0, <1>6, <2>1, <2>2 DEF NextItem, Runner
  <2>4. i \in runner[r].todo
    <3>1. runner[r].todo \subseteq Nat /\ runner[r].todo # {}
      BY <1>0, <1>6, BulkAssumption DEF NextItem, Runner
    <3>2. \E x \in runner[r].todo : \A y \in runner[r].todo : x <= y
      BY <3>1, LeastExists
    <3>. QED  BY <2>1, <3>2 DEF Min
  <2>5. LoneRow(row)
    BY <1>0, <2>3, <2>4 DEF LoneRow, Busy
  <2>. QED  BY <1>2, <2>3, <2>5
<1>7. CASE Embed(r) \/ FindTheirId(r) \/ FileTheirFace(r)
  <2>1. \E bid : \E at \in Busy \ {"counting"} :
            /\ runner' = [runner EXCEPT ![r] = [runner[r] EXCEPT !.at = at, !.bid = bid]]
            /\ runner[r].at \in Busy \ {"counting"}
    <3>1. CASE Embed(r)
      <4>1. [runner[r] EXCEPT !.at = "resolving"]
                = [runner[r] EXCEPT !.at = "resolving", !.bid = runner[r].bid]
        BY <1>0 DEF Runner
      <4>. QED  BY <1>0, <3>1, <4>1 DEF Embed, Goes, Busy
    <3>2. CASE FindTheirId(r)
      <4>1. \E bid : bid = users[Number(r)].of
        OBVIOUS
      <4>2. PICK bid : bid = users[Number(r)].of
        BY <4>1
      <4>3. [runner EXCEPT ![r].at = "filing", ![r].bid = bid]
                = [runner EXCEPT ![r] = [runner[r] EXCEPT !.at = "filing", !.bid = bid]]
        OBVIOUS
      <4>4. /\ runner' = [runner EXCEPT ![r] = [runner[r] EXCEPT !.at = "filing", !.bid = bid]]
            /\ runner[r].at \in Busy \ {"counting"}
        BY <3>2, <4>2, <4>3 DEF FindTheirId, Busy
      <4>. QED  BY <4>4 DEF Busy
    <3>3. CASE FileTheirFace(r)
      <4>1. [runner[r] EXCEPT !.at = "recording"]
                = [runner[r] EXCEPT !.at = "recording", !.bid = runner[r].bid]
        BY <1>0 DEF Runner
      <4>. QED  BY <1>0, <3>3, <4>1 DEF FileTheirFace, Goes, Busy
    <3>. QED  BY <1>7, <3>1, <3>2, <3>3
  <2>a. PICK bid : \E at \in Busy \ {"counting"} :
            /\ runner' = [runner EXCEPT ![r] = [runner[r] EXCEPT !.at = at, !.bid = bid]]
            /\ runner[r].at \in Busy \ {"counting"}
    BY <2>1
  <2>2. PICK at \in Busy \ {"counting"} :
            /\ runner' = [runner EXCEPT ![r] = [runner[r] EXCEPT !.at = at, !.bid = bid]]
            /\ runner[r].at \in Busy \ {"counting"}
    BY <2>a
  <2>3. PICK row : row = [runner[r] EXCEPT !.at = at, !.bid = bid]
    OBVIOUS
  <2>4. row.at = at /\ row.todo = runner[r].todo /\ row.item = runner[r].item
    BY <1>0, <2>3 DEF Runner
  <2>5. LoneRow(row)
    BY <1>0, <2>2, <2>4 DEF LoneRow, Busy
  <2>6. items' = items
    BY <1>7 DEF Embed, FindTheirId, FileTheirFace
  <2>. QED  BY <1>2, <2>2, <2>3, <2>5, <2>6
<1>8. CASE Count(r)
  <2>1. PICK row : row = [Off EXCEPT !.at = "next", !.todo = runner[r].todo \ {runner[r].item}]
    OBVIOUS
  <2>2. /\ row.at = "next" /\ row.todo = runner[r].todo \ {runner[r].item}
        /\ runner' = [runner EXCEPT ![r] = row] /\ items' = items /\ runner[r].at = "counting"
    BY <1>8, <2>1 DEF Count, Off
  <2>3. LoneRow(row)
    BY <1>0, <2>2 DEF LoneRow, Busy
  <2>. QED  BY <1>2, <2>2, <2>3
<1>9. CASE TurnDown(r) \/ Succeed(r)
  <2>1. PICK outcome \in Outcomes : Decide(r, outcome) /\ runner[r].at \in Busy \ {"counting"}
    BY <1>9 DEF TurnDown, Succeed, Outcomes, Busy
  <2>2. PICK row : row = [runner[r] EXCEPT !.at = "counting"]
    OBVIOUS
  <2>3. /\ row.at = "counting" /\ row.todo = runner[r].todo /\ row.item = runner[r].item
        /\ runner' = [runner EXCEPT ![r] = row]
        /\ \A i \in Items : i # runner[r].item => items'[i] = items[i]
    BY <1>0, <2>1, <2>2 DEF Decide, Goes, Runner
  <2>4. \A i \in row.todo : i # row.item => ~Decided(i)'
    <3>1. row.todo \subseteq Items
      BY <1>0, <2>3 DEF Runner
    <3>. QED  BY <1>0, <2>1, <2>3, <3>1 DEF LoneRow, Decided
  <2>5. LoneRow(row)'
    BY <2>3, <2>4 DEF LoneRow, Busy
  <2>. QED  BY <2>3, <2>5, LoneMoves
<1>. QED
  BY <1>3, <1>4, <1>5, <1>6, <1>7, <1>8, <1>9 DEF RunnerStep

\* A row that is decided and was not decided before is one more to be counted.
LEMMA StepStaysBehind ==
    ASSUME BulkTypes, CountersStayBehind, Lone, Rests \/ Decides \/ Counts \/ Dies
    PROVE  CountersStayBehind'
<1>0. /\ IsFiniteSet(DoneRows) /\ Cardinality(DoneRows) \in Nat
      /\ IsFiniteSet(Counting) /\ Cardinality(Counting) \in Nat
      /\ job.processed \in Nat /\ crashes \in Nat
  BY RosterIsFinite
<1>1. CASE Rests
  BY <1>1 DEF Rests, CountersStayBehind
<1>2. CASE Decides
  <2>1. PICK r \in Runners : /\ runner[r].at \in Busy \ {"counting"}
                             /\ DoneRows' = DoneRows \cup {runner[r].item}
                             /\ Counting' = Counting \cup {r}
                             /\ job'.processed = job.processed
    BY <1>2 DEF Decides
  <2>2. runner[r].item \notin DoneRows
    BY <2>1 DEF Lone, LoneRow, DoneRows
  <2>3. Cardinality(DoneRows') = Cardinality(DoneRows) + 1
    BY <1>0, <2>1, <2>2, FS_AddElement
  <2>4. Cardinality(Counting') \in {Cardinality(Counting), Cardinality(Counting) + 1}
    BY <1>0, <2>1, FS_AddElement
  <2>. QED  BY <1>0, <2>1, <2>3, <2>4 DEF CountersStayBehind
<1>3. CASE Counts
  <2>1. PICK r \in Counting : /\ DoneRows' = DoneRows /\ Counting' = Counting \ {r}
                              /\ job'.processed = job.processed + 1
    BY <1>3 DEF Counts
  <2>2. Cardinality(Counting') = Cardinality(Counting) - 1
    BY <1>0, <2>1, FS_RemoveElement
  <2>. QED  BY <1>0, <2>1, <2>2 DEF CountersStayBehind
<1>4. CASE Dies
  <2>1. PICK r \in Runners : /\ DoneRows' = DoneRows /\ Counting' = Counting \ {r}
                             /\ job'.processed = job.processed
    BY <1>4 DEF Dies
  <2>2. Cardinality(Counting') \in {Cardinality(Counting), Cardinality(Counting) - 1}
    BY <1>0, <2>1, FS_RemoveElement
  <2>. QED  BY <1>0, <2>1, <2>2 DEF CountersStayBehind
<1>. QED  BY <1>1, <1>2, <1>3, <1>4

-----------------------------------------------------------------------------
(* What the job owes its roster                                             *)

\* The steps that are not the job's leave it alone.
LEMMA OthersLeaveTheJob ==
    [Next]_vars => BulkStep \/ UNCHANGED bulkVars
BY DEF Next, vars, bulkVars

\* The roster's invariant, and what the counters miss, for any number of runners.
THEOREM RosterIsKept == Spec => [](RosterInv /\ CountersMissOnlyDeaths)
<1>1. Init => RosterInv /\ CountersMissOnlyDeaths
  <2>. SUFFICES ASSUME Init PROVE RosterInv /\ CountersMissOnlyDeaths
    OBVIOUS
  <2>1. /\ job.status = "none" /\ job.processed = 0 /\ crashes = 0
        /\ \A i \in Items : items[i].status = "queued"
        /\ \A r \in Runners : runner[r].at = "off"
    BY DEF Init, BulkInit, Off
  <2>2. DoneRows = {} /\ Counting = {}
    BY <2>1 DEF DoneRows, Decided, Outcomes, Counting
  <2>3. RosterInv
    BY <2>1, <2>2 DEF RosterInv, RosterRow, AtWork, Busy, Over
  <2>. QED  BY <2>1, <2>2, <2>3, FS_EmptySet DEF CountersMissOnlyDeaths
<1>2. ASSUME Types, RosterInv, CountersMissOnlyDeaths, [Next]_vars
      PROVE  RosterInv' /\ CountersMissOnlyDeaths'
  <2>1. CASE BulkStep
    BY <1>2, <2>1, BulkKinds, StepMissesOnlyDeaths DEF Types
  <2>2. CASE UNCHANGED bulkVars
    BY <1>2, <2>2 DEF bulkVars, RosterInv, RosterRow, CountersMissOnlyDeaths, DoneRows, Counting,
                      Decided
  <2>. QED  BY <1>2, <2>1, <2>2, OthersLeaveTheJob
<1>. QED  BY <1>1, <1>2, TypesHold, PTL DEF Spec

\* A job that is over has decided every row, however many runners ran it and died.
THEOREM JobsAreWhole == Spec => []JobIsWhole
<1>1. RosterInv => JobIsWhole
  BY DEF RosterInv, JobIsWhole
<1>. QED  BY <1>1, RosterIsKept, PTL

\* What the job reports lags behind what it decided by what is being counted and what died
\* uncounted, for any roster, as long as one runner at a time works on it: a second one does rows
\* again and counts them twice.
THEOREM CountsAreOutcomes ==
    ASSUME OneRunner
    PROVE  Spec => []CountsLagTheOutcomes
<1>1. Init => Lone /\ CountersStayBehind
  <2>. SUFFICES ASSUME Init PROVE Lone /\ CountersStayBehind
    OBVIOUS
  <2>1. /\ job.processed = 0
        /\ \A i \in Items : items[i].status = "queued"
        /\ \A r \in Runners : runner[r].at = "off"
    BY DEF Init, BulkInit, Off
  <2>2. DoneRows = {} /\ Counting = {}
    BY <2>1 DEF DoneRows, Decided, Outcomes, Counting
  <2>3. Lone
    BY <2>1 DEF Lone, LoneRow, Busy
  <2>. QED  BY <2>1, <2>2, <2>3, FS_EmptySet DEF CountersStayBehind
<1>2. ASSUME OneRunner, Types, RosterInv, Lone, CountersStayBehind, [Next]_vars
      PROVE  Lone' /\ CountersStayBehind'
  <2>1. CASE BulkStep
    BY <1>2, <2>1, BulkKinds, StepKeepsLone, StepStaysBehind DEF Types
  <2>2. CASE UNCHANGED bulkVars
    BY <1>2, <2>2 DEF bulkVars, Lone, LoneRow, CountersStayBehind, DoneRows, Counting, Decided
  <2>. QED  BY <1>2, <2>1, <2>2, OthersLeaveTheJob
<1>3. CountersMissOnlyDeaths /\ CountersStayBehind => CountsLagTheOutcomes
  BY DEF CountersMissOnlyDeaths, CountersStayBehind, CountsLagTheOutcomes, DoneRows, Counting
<1>. QED  BY <1>1, <1>2, <1>3, TypesHold, RosterIsKept, PTL DEF Spec
=============================================================================
