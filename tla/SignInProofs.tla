---------------------------- MODULE SignInProofs ----------------------------
(***************************************************************************)
(* The sign-in's safety, for any number of accounts, requests and sessions.  *)
(*                                                                          *)
(* That a session is current is not inductive: what keeps a revoked one from  *)
(* coming back is that versions only grow while a person holds an account, so  *)
(* the invariant bounds the version of every session that was ever minted.     *)
(* Every step is first shown to treat each row in one of four ways (Moves).    *)
(***************************************************************************)
EXTENDS SignIn, TLAPS

\* No session is ahead of its account, and one that is level with it is current.
SessionInv ==
    \A t \in sessions :
        users[t.id].person = t.person =>
            /\ t.version <= users[t.id].version
            /\ t.version = users[t.id].version =>
                  /\ users[t.id].status # "inactive"
                  /\ t.readonly \/ t.password = users[t.id].password

\* Whoever is reported to is no applicant: a refusal cannot leave a crew behind.
AssignmentInv ==
    \A n \in Ids : users[n].boss # Nobody =>
        /\ users[n].role = "worker"
        /\ users[n].boss \in Ids \ {n}
        /\ users[users[n].boss].role = "moallem"
        /\ users[users[n].boss].status # Waiting

-----------------------------------------------------------------------------
(* What a step does to a row                                                *)

\* The row of m is kept, goes, appears for somebody new, or is written and either revoked or left
\* with its password and no further from being in use.
Moves(m) ==
    \/ users'[m] = Absent
    \/ users'[m] \in Account /\ Fresh(users'[m].person)
    \/ /\ users[m] \in Account /\ users'[m] \in Account
       /\ users'[m].person = users[m].person
       /\ \/ users'[m].version = users[m].version + 1
          \/ /\ users'[m].version = users[m].version
             /\ users'[m].password = users[m].password
             /\ users'[m].status \in {users[m].status, "active"}

\* At most one row changes hands
OneHand == \E n \in Ids : \A m \in Ids \ {n} : users'[m].person = users[m].person

Written ==
    /\ users' \in [Ids -> Account \cup {Absent}]
    /\ \A m \in Ids : Moves(m)
    /\ OneHand

\* Absent rows have nothing of an account.
LEMMA AbsentIsNone ==
    ASSUME TypeOK, NEW n \in Ids
    PROVE  /\ users[n] \in Account \/ users[n] = Absent
           /\ users[n] \in Account <=> Exists(n)
           /\ users[n].role # "none" => Exists(n)
           /\ users[n].status # "none" => Exists(n)
BY SignInAssumption DEF TypeOK, Account, Absent, Exists, KnownRoles, AssignableRoles, WorkforceRoles,
                        AdminRoles, Developer, Statuses

\* A row that stays as it is.
LEMMA StayingMoves ==
    ASSUME TypeOK, NEW m \in Ids, users'[m] = users[m]
    PROVE  Moves(m)
<1>1. CASE users[m] = Absent
  BY <1>1 DEF Moves
<1>2. CASE users[m] \in Account
  BY <1>2 DEF Moves
<1>. QED  BY <1>1, <1>2, AbsentIsNone

\* One row is written.
LEMMA RowIsWritten ==
    ASSUME TypeOK, NEW n \in Ids, NEW row \in Account \cup {Absent},
           users' = [users EXCEPT ![n] = row], Moves(n)
    PROVE  Written
<1>1. users' \in [Ids -> Account \cup {Absent}] /\ \A m \in Ids \ {n} : users'[m] = users[m]
  BY DEF TypeOK
<1>2. \A m \in Ids : Moves(m)
  BY <1>1, StayingMoves
<1>3. OneHand
  BY <1>1 DEF OneHand
<1>. QED  BY <1>1, <1>2, <1>3 DEF Written

\* A released row differs in its supervisor only.
LEMMA ReleasedRow ==
    ASSUME TypeOK, NEW n \in Ids, NEW m \in Ids
    PROVE  /\ Released(users, n) \in [Ids -> Account \cup {Absent}]
           /\ Released(users, n)[m].boss # n
           /\ Released(users, n)[m].boss \in {users[m].boss, Nobody}
           /\ users[m].boss # n => Released(users, n)[m] = users[m]
           /\ users[m].boss = n =>
                /\ users[m] \in Account
                /\ Released(users, n)[m] = [users[m] EXCEPT !.boss = Nobody]
<1>1. \A k \in Ids : users[k].boss = n => users[k] \in Account
  BY SignInAssumption, AbsentIsNone DEF Absent
<1>2. \A k \in Ids : users[k].boss = n => [users[k] EXCEPT !.boss = Nobody] \in Account
  BY <1>1 DEF Account
<1>3. Released(users, n) \in [Ids -> Account \cup {Absent}]
  BY <1>2, AbsentIsNone DEF Released
<1>4. Released(users, n)[m] = IF users[m].boss = n THEN [users[m] EXCEPT !.boss = Nobody]
                                                   ELSE users[m]
  BY DEF Released
<1>5. users[m].boss = n => [users[m] EXCEPT !.boss = Nobody].boss = Nobody
  BY <1>1 DEF Account
<1>. QED  BY <1>1, <1>3, <1>4, <1>5, SignInAssumption

\* A crew is released and one row is written.
LEMMA CrewIsReleased ==
    ASSUME TypeOK, NEW n \in Ids, NEW row \in Account \cup {Absent},
           users' = [Released(users, n) EXCEPT ![n] = row], Moves(n)
    PROVE  Written
<1>1. users' \in [Ids -> Account \cup {Absent}]
      /\ \A m \in Ids \ {n} : users'[m] = Released(users, n)[m]
  BY ReleasedRow
<1>2. ASSUME NEW m \in Ids, m # n
      PROVE  Moves(m) /\ users'[m].person = users[m].person
  <2>1. CASE users[m].boss # n
    <3>1. Released(users, n)[m] = users[m]
      BY <2>1, ReleasedRow
    <3>2. users'[m] = users[m]
      BY <1>1, <1>2, <3>1
    <3>. QED  BY <3>2, StayingMoves
  <2>2. CASE users[m].boss = n
    <3>1. users[m] \in Account /\ users'[m] = [users[m] EXCEPT !.boss = Nobody]
      BY <1>1, <1>2, <2>2, ReleasedRow
    <3>2. /\ users'[m] \in Account /\ users'[m].person = users[m].person
          /\ users'[m].version = users[m].version /\ users'[m].password = users[m].password
          /\ users'[m].status = users[m].status
      BY <3>1 DEF Account
    <3>. QED  BY <3>1, <3>2 DEF Moves
  <2>. QED  BY <2>1, <2>2
<1>3. OneHand
  BY <1>2 DEF OneHand
<1>. QED  BY <1>1, <1>2, <1>3 DEF Written

-----------------------------------------------------------------------------
(* Every step writes rows in these ways                                     *)

\* A revoked row, and one that is not.
LEMMA RevokingMoves ==
    ASSUME TypeOK, NEW n \in Ids, Exists(n), MayRevoke(n), NEW row \in Account,
           row.person = users[n].person, row.version = users[n].version + 1,
           users'[n] = row
    PROVE  Moves(n)
BY AbsentIsNone DEF Moves

LEMMA KeepingMoves ==
    ASSUME TypeOK, NEW n \in Ids, Exists(n), NEW row \in Account,
           row.person = users[n].person, row.version = users[n].version,
           row.password = users[n].password, row.status \in {users[n].status, "active"},
           users'[n] = row
    PROVE  Moves(n)
BY AbsentIsNone DEF Moves

\* Revoking a row, whatever else of it but the person is written.
LEMMA RevokedRow ==
    ASSUME NEW row \in Account, row.version < MaxVersion
    PROVE  /\ Revoked(row) \in Account
           /\ Revoked(row).version = row.version + 1
           /\ Revoked(row).person = row.person
           /\ Revoked(row).role = row.role
           /\ Revoked(row).boss = row.boss
           /\ Revoked(row).status = row.status
BY SignInAssumption DEF Revoked, Account

\* A new account.
LEMMA NewcomerWrites ==
    ASSUME TypeOK, NEW n \in Ids, NEW p \in People, NEW role \in AssignableRoles,
           NEW status \in Statuses, NEW password \in Passwords, NEW boss \in Ids \cup {Nobody},
           NewAccount(n, p, role, status, password, boss)
    PROVE  Written
<1>. DEFINE row == [role |-> role, status |-> status, version |-> 0, password |-> password,
                    boss |-> boss, person |-> p]
<1>1. row \in Account /\ row.person = p
  BY SignInAssumption DEF Account, KnownRoles
<1>2. users' = [users EXCEPT ![n] = row] /\ Fresh(p)
  BY DEF NewAccount, Puts
<1>. HIDE DEF row
<1>3. users'[n] = row
  BY <1>2 DEF TypeOK
<1>4. Moves(n)
  BY <1>1, <1>2, <1>3 DEF Moves
<1>. QED  BY <1>1, <1>2, <1>4, RowIsWritten

\* Revoking and writing an own column.
LEMMA RevokedIsWritten ==
    ASSUME TypeOK, NEW n \in Ids, Exists(n), MayRevoke(n), NEW row \in Account,
           row.version = users[n].version, row.person = users[n].person,
           Puts(n, Revoked(row))
    PROVE  Written
<1>1. /\ Revoked(row) \in Account /\ Revoked(row).version = users[n].version + 1
      /\ Revoked(row).person = users[n].person
  BY RevokedRow DEF MayRevoke
<1>2. users' = [users EXCEPT ![n] = Revoked(row)] /\ users'[n] = Revoked(row)
  BY DEF Puts, TypeOK
<1>3. Moves(n)
  BY <1>1, <1>2, RevokingMoves
<1>. QED  BY <1>1, <1>2, <1>3, RowIsWritten

\* Writing an own column without revoking.
LEMMA KeptIsWritten ==
    ASSUME TypeOK, NEW n \in Ids, Exists(n), NEW row \in Account,
           row.version = users[n].version, row.person = users[n].person,
           row.password = users[n].password, row.status \in {users[n].status, "active"},
           Puts(n, row)
    PROVE  Written
<1>1. users' = [users EXCEPT ![n] = row] /\ users'[n] = row
  BY DEF Puts, TypeOK
<1>2. Moves(n)
  BY <1>1, KeepingMoves
<1>. QED  BY <1>1, <1>2, RowIsWritten

\* An account that goes.
LEMMA GoneIsWritten ==
    ASSUME TypeOK, NEW n \in Ids,
           users' = [Released(users, n) EXCEPT ![n] = Absent] \/ Puts(n, Absent)
    PROVE  Written
<1>1. CASE users' = [Released(users, n) EXCEPT ![n] = Absent]
  <2>1. Released(users, n) \in [Ids -> Account \cup {Absent}]
    BY ReleasedRow
  <2>2. users'[n] = Absent
    BY <1>1, <2>1
  <2>3. Moves(n)
    BY <2>2 DEF Moves
  <2>. QED  BY <1>1, <2>3, CrewIsReleased
<1>2. CASE Puts(n, Absent)
  <2>1. users' = [users EXCEPT ![n] = Absent] /\ users'[n] = Absent
    BY <1>2 DEF Puts, TypeOK
  <2>2. Moves(n)
    BY <2>1 DEF Moves
  <2>. QED  BY <2>1, <2>2, RowIsWritten
<1>. QED  BY <1>1, <1>2

-----------------------------------------------------------------------------
(* What a step does to sessions and requests                                *)

RequestsMove ==
    /\ requests' \in [Requests -> Admitted \cup {Idle}]
    /\ \A r \in Requests : requests'[r] # Idle =>
           requests'[r] = requests[r] \/ requests'[r].by \in sessions

\* Either rows are written, or one session is presented again or signed in.
Kinds ==
    /\ RequestsMove
    /\ \/ Written /\ sessions' = sessions
       \/ /\ users' = users
          /\ \E t \in Session :
                /\ sessions' = sessions \cup {t}
                /\ \/ t \in sessions
                   \/ \E n \in Ids, readonly \in BOOLEAN :
                         /\ users[n] \in Account /\ users[n].status # "inactive"
                         /\ t = TokenOf(n, readonly)
       \/ users' = users /\ sessions' = sessions

\* A request that ends, and one that is let in.
LEMMA DoneMoves ==
    ASSUME TypeOK, NEW r \in Requests, Done(r) \/ UNCHANGED requests
    PROVE  RequestsMove
BY DEF RequestsMove, Done, TypeOK

\* The identity of a request is an account number, and its session was minted.
LEMMA Actor ==
    ASSUME TypeOK, NEW r \in Requests, requests[r] # Idle
    PROVE  /\ requests[r].by \in sessions /\ requests[r].by \in Session
           /\ requests[r].by.id \in Ids /\ requests[r].role \in KnownRoles
<1>1. requests[r] \in Admitted /\ requests[r].by \in sessions /\ sessions \subseteq Session
  BY DEF TypeOK
<1>. QED  BY <1>1 DEF Admitted, Session

\* The steps of one's own.
LEMMA OwnStepKinds ==
    ASSUME TypeOK, NEW r \in Requests, OwnStep(r)
    PROVE  Kinds
<1>1. CASE \E t \in sessions : Admit(r, t)
  <2>1. PICK t \in sessions : Admit(r, t)
    BY <1>1
  <2>2. t \in Session /\ t.id \in Ids
    BY DEF TypeOK, Session
  <2>3. users[t.id] \in Account
    BY <2>1, <2>2, AbsentIsNone DEF Admit, Accepted
  <2>. DEFINE new == [stage |-> "admitted", by |-> t, role |-> users[t.id].role]
  <2>4. new \in Admitted /\ new.by = t
    BY <2>2, <2>3 DEF Admitted, Account
  <2>5. requests' = [requests EXCEPT ![r] = new]
    BY <2>1 DEF Admit
  <2>. HIDE DEF new
  <2>6. RequestsMove
    BY <2>4, <2>5 DEF RequestsMove, TypeOK
  <2>. QED  BY <2>1, <2>6 DEF Kinds, Admit
<1>2. CASE Refuse(r)
  BY <1>2, DoneMoves DEF Refuse, Kinds
<1>3. CASE Refresh(r)
  <2>1. requests[r].by \in sessions /\ requests[r].by \in Session
    BY <1>3, Actor DEF Refresh
  <2>. QED  BY <1>3, <2>1, DoneMoves DEF Refresh, Kinds, Mint
<1>4. CASE CloseOwnAccount(r)
  <2>. DEFINE n == requests[r].by.id
              old == [users[n] EXCEPT !.status = "inactive", !.boss = Nobody]
  <2>1. n \in Ids
    BY <1>4, Actor DEF CloseOwnAccount
  <2>2. Exists(n) /\ Done(r) /\ UNCHANGED sessions
    BY <1>4 DEF CloseOwnAccount
  <2>3. users[n] \in Account
    BY <2>1, <2>2, AbsentIsNone
  <2>4. CASE n \in Veterans
    <3>1. MayRevoke(n) /\ users' = [Released(users, n) EXCEPT ![n] = Revoked(old)]
      BY <1>4, <2>4 DEF CloseOwnAccount
    <3>2. old \in Account /\ old.version = users[n].version /\ old.person = users[n].person
      BY <2>3 DEF Account, Statuses
    <3>. HIDE DEF n, old
    <3>3. /\ Revoked(old) \in Account /\ Revoked(old).version = users[n].version + 1
          /\ Revoked(old).person = users[n].person
      BY <3>1, <3>2, RevokedRow DEF MayRevoke
    <3>4. Released(users, n) \in [Ids -> Account \cup {Absent}]
      BY <2>1, ReleasedRow
    <3>5. users'[n] = Revoked(old)
      BY <2>1, <3>1, <3>4
    <3>6. Moves(n)
      BY <2>1, <2>2, <3>1, <3>3, <3>5, RevokingMoves
    <3>7. Written
      BY <2>1, <3>1, <3>3, <3>6, CrewIsReleased
    <3>. QED  BY <2>2, <3>7, DoneMoves DEF Kinds
  <2>5. CASE n \notin Veterans
    <3>1. users' = [Released(users, n) EXCEPT ![n] = Absent]
      BY <1>4, <2>5 DEF CloseOwnAccount
    <3>. HIDE DEF n, old
    <3>2. Written
      BY <2>1, <3>1, GoneIsWritten
    <3>. QED  BY <2>2, <3>2, DoneMoves DEF Kinds
  <2>. QED  BY <2>4, <2>5
<1>5. CASE \E password \in Passwords : ChangeOwnPassword(r, password)
  <2>1. PICK password \in Passwords : ChangeOwnPassword(r, password)
    BY <1>5
  <2>. DEFINE n == requests[r].by.id
              old == [users[n] EXCEPT !.password = password]
  <2>2. /\ Exists(n) /\ MayRevoke(n) /\ Done(r) /\ UNCHANGED sessions
        /\ Puts(n, Revoked(old)) /\ requests[r] # Idle
    BY <2>1 DEF ChangeOwnPassword
  <2>3. n \in Ids
    BY <2>2, Actor
  <2>4. users[n] \in Account
    BY <2>2, <2>3, AbsentIsNone
  <2>5. old \in Account /\ old.version = users[n].version /\ old.person = users[n].person
    BY <2>4 DEF Account
  <2>. HIDE DEF n, old
  <2>6. Written
    BY <2>2, <2>3, <2>5, RevokedIsWritten
  <2>. QED  BY <2>2, <2>6, DoneMoves DEF Kinds
<1>. QED  BY <1>1, <1>2, <1>3, <1>4, <1>5 DEF OwnStep

\* A session is signed for an account that is in use.
LEMMA SigningInKinds ==
    ASSUME TypeOK, RequestsMove, NEW n \in Ids, NEW readonly \in BOOLEAN,
           users[n].status # "none", users[n].status # "inactive",
           Mint(TokenOf(n, readonly)), users' = users
    PROVE  Kinds
<1>1. users[n] \in Account
  BY AbsentIsNone
<1>2. TokenOf(n, readonly) \in Session
  BY <1>1 DEF TokenOf, Session, Account
<1>. QED  BY <1>1, <1>2 DEF Kinds, Mint

\* The steps nobody signed in for.
LEMMA UnguardedKinds ==
    ASSUME TypeOK, NEW n \in Ids, Unguarded(n)
    PROVE  Kinds
<1>1. RequestsMove
  BY DEF Unguarded, Login, SubmitRegistration, RequestsMove, TypeOK
<1>2. CASE Login(n)
  <2>1. /\ users[n].status # "none" /\ users[n].status # "inactive"
        /\ Mint(TokenOf(n, FALSE)) /\ users' = users
    BY <1>2 DEF Login, Waiting
  <2>. QED  BY <1>1, <2>1, SigningInKinds
<1>3. CASE SubmitRegistration(n)
  <2>1. PICK p \in People, role \in WorkforceRoles, password \in Passwords,
             boss \in Ids \cup {Nobody} :
                /\ MayReport(n, role, boss)
                /\ NewAccount(n, p, role, Waiting, password, boss)
    BY <1>3 DEF SubmitRegistration
  <2>2. NewAccount(n, p, role, Waiting, password, boss) /\ sessions' = sessions
    BY <1>3, <2>1 DEF SubmitRegistration
  <2>3. Waiting \in Statuses /\ role \in AssignableRoles
    BY DEF Statuses, AssignableRoles
  <2>4. Written
    BY <2>2, <2>3, NewcomerWrites
  <2>. QED  BY <1>1, <2>2, <2>4 DEF Kinds
<1>. QED  BY <1>2, <1>3 DEF Unguarded

\* Writing an own column, revoking or not.
LEMMA RevokingKinds ==
    ASSUME TypeOK, NEW r \in Requests, NEW n \in Ids, NEW row \in Account, Exists(n), MayRevoke(n),
           row.version = users[n].version, row.person = users[n].person,
           Puts(n, Revoked(row)), Done(r), UNCHANGED sessions
    PROVE  Kinds
BY RevokedIsWritten, DoneMoves DEF Kinds

LEMMA KeepingKinds ==
    ASSUME TypeOK, NEW r \in Requests, NEW n \in Ids, NEW row \in Account, Exists(n),
           row.version = users[n].version, row.person = users[n].person,
           row.password = users[n].password, row.status \in {users[n].status, "active"},
           Puts(n, row), Done(r), UNCHANGED sessions
    PROVE  Kinds
BY KeptIsWritten, DoneMoves DEF Kinds

\* The developer's levers on sessions.
LEMMA DeveloperStepKinds ==
    ASSUME TypeOK, NEW r \in Requests, NEW n \in Ids, DeveloperStep(r, n)
    PROVE  Kinds
<1>1. CASE Impersonate(r, n)
  <2>1. /\ users[n].status # "none" /\ users[n].status # "inactive" /\ Done(r)
        /\ Mint(TokenOf(n, TRUE)) /\ users' = users
    BY <1>1 DEF Impersonate
  <2>. QED  BY <2>1, DoneMoves, SigningInKinds
<1>2. CASE RevokeUserSessions(r, n)
  <2>1. /\ users[n].status # "none" /\ MayRevoke(n) /\ Puts(n, Revoked(users[n]))
        /\ Done(r) /\ UNCHANGED sessions
    BY <1>2 DEF RevokeUserSessions
  <2>2. Exists(n) /\ users[n] \in Account
    BY <2>1, AbsentIsNone
  <2>. QED  BY <2>1, <2>2, RevokingKinds
<1>. QED  BY <1>1, <1>2 DEF DeveloperStep

\* The steps of the account desk.
LEMMA DeskStepKinds ==
    ASSUME TypeOK, NEW r \in Requests, NEW n \in Ids, DeskStep(r, n)
    PROVE  Kinds
<1>a. Exists(n) => users[n] \in Account
  BY AbsentIsNone
<1>1. CASE \E password \in Passwords : EditPassword(r, n, password)
  <2>1. PICK password \in Passwords : EditPassword(r, n, password)
    BY <1>1
  <2>2. /\ Exists(n) /\ MayRevoke(n) /\ Done(r) /\ UNCHANGED sessions
        /\ Puts(n, Revoked([users[n] EXCEPT !.password = password]))
    BY <2>1 DEF EditPassword, MayActOn
  <2>. DEFINE old == [users[n] EXCEPT !.password = password]
  <2>3. old \in Account /\ old.version = users[n].version /\ old.person = users[n].person
    BY <1>a, <2>2 DEF Account
  <2>. HIDE DEF old
  <2>4. Puts(n, Revoked(old))
    BY <2>2 DEF old
  <2>. QED  BY <2>2, <2>3, <2>4, RevokingKinds
<1>2. CASE \E boss \in Ids \cup {Nobody} : EditUser(r, n, boss)
  <2>1. PICK boss \in Ids \cup {Nobody} : EditUser(r, n, boss)
    BY <1>2
  <2>2. /\ Exists(n) /\ Done(r) /\ UNCHANGED sessions
        /\ Puts(n, [users[n] EXCEPT !.boss = boss])
    BY <2>1 DEF EditUser, MayActOn
  <2>. DEFINE row == [users[n] EXCEPT !.boss = boss]
  <2>3. /\ row \in Account /\ row.version = users[n].version /\ row.person = users[n].person
        /\ row.password = users[n].password /\ row.status = users[n].status
    BY <1>a, <2>2 DEF Account
  <2>. HIDE DEF row
  <2>4. Puts(n, row)
    BY <2>2 DEF row
  <2>. QED  BY <2>2, <2>3, <2>4, KeepingKinds
<1>3. CASE Deactivate(r, n)
  <2>2. /\ Exists(n) /\ MayRevoke(n) /\ Done(r) /\ UNCHANGED sessions
        /\ Puts(n, Revoked([users[n] EXCEPT !.status = "inactive"]))
    BY <1>3 DEF Deactivate, MayActOn
  <2>. DEFINE old == [users[n] EXCEPT !.status = "inactive"]
  <2>3. old \in Account /\ old.version = users[n].version /\ old.person = users[n].person
    BY <1>a, <2>2 DEF Account, Statuses
  <2>. HIDE DEF old
  <2>4. Puts(n, Revoked(old))
    BY <2>2 DEF old
  <2>. QED  BY <2>2, <2>3, <2>4, RevokingKinds
<1>4. CASE Reactivate(r, n) \/ ApproveRegistration(r, n)
  <2>2. /\ Done(r) /\ UNCHANGED sessions
        /\ Puts(n, [users[n] EXCEPT !.status = "active"])
    BY <1>4 DEF Reactivate, ApproveRegistration
  <2>3. Exists(n)
    BY <1>4, AbsentIsNone DEF Reactivate, MayActOn, ApproveRegistration, MayDecide, Waiting
  <2>. DEFINE row == [users[n] EXCEPT !.status = "active"]
  <2>4. /\ row \in Account /\ row.version = users[n].version /\ row.person = users[n].person
        /\ row.password = users[n].password /\ row.status = "active"
    BY <1>a, <2>3 DEF Account, Statuses
  <2>. HIDE DEF row
  <2>5. Puts(n, row)
    BY <2>2 DEF row
  <2>. QED  BY <2>2, <2>3, <2>4, <2>5, KeepingKinds
<1>5. CASE DeleteUser(r, n) \/ RejectRegistration(r, n)
  <2>1. Written /\ Done(r) /\ UNCHANGED sessions
    BY <1>5, GoneIsWritten DEF DeleteUser, RejectRegistration
  <2>. QED  BY <2>1, DoneMoves DEF Kinds
<1>6. CASE \E role \in AssignableRoles : ChangeUserRole(r, n, role)
  <2>1. PICK role \in AssignableRoles : ChangeUserRole(r, n, role)
    BY <1>6
  <2>. DEFINE old == [users[n] EXCEPT !.role = role,
                                      !.boss = IF role = "worker" THEN @ ELSE Nobody]
  <2>2. /\ Exists(n) /\ MayRevoke(n) /\ Done(r) /\ UNCHANGED sessions
        /\ users' = [(IF users[n].role = "moallem" THEN Released(users, n) ELSE users)
                        EXCEPT ![n] = Revoked(old)]
    BY <2>1 DEF ChangeUserRole, MayActOn, RoleWritten
  <2>3. old \in Account /\ old.version = users[n].version /\ old.person = users[n].person
    BY <1>a, <2>2 DEF Account, KnownRoles
  <2>. HIDE DEF old
  <2>4. CASE users[n].role = "moallem"
    <3>1. users' = [Released(users, n) EXCEPT ![n] = Revoked(old)]
      BY <2>2, <2>4
    <3>2. /\ Revoked(old) \in Account /\ Revoked(old).version = users[n].version + 1
          /\ Revoked(old).person = users[n].person
      BY <2>2, <2>3, RevokedRow DEF MayRevoke
    <3>3. Released(users, n) \in [Ids -> Account \cup {Absent}]
      BY ReleasedRow
    <3>4. users'[n] = Revoked(old)
      BY <3>1, <3>3
    <3>5. Moves(n)
      BY <2>2, <3>2, <3>4, RevokingMoves
    <3>6. Written
      BY <3>1, <3>2, <3>5, CrewIsReleased
    <3>. QED  BY <2>2, <3>6, DoneMoves DEF Kinds
  <2>5. CASE users[n].role # "moallem"
    <3>1. Puts(n, Revoked(old))
      BY <2>2, <2>5 DEF Puts
    <3>. QED  BY <2>2, <2>3, <3>1, RevokingKinds
  <2>. QED  BY <2>4, <2>5
<1>7. CASE AddUser(r, n)
  <2>1. PICK p \in People, role \in AssignableRoles, password \in Passwords :
             NewAccount(n, p, role, "active", password, Nobody)
    BY <1>7 DEF AddUser
  <2>2. NewAccount(n, p, role, "active", password, Nobody) /\ Done(r) /\ UNCHANGED sessions
    BY <1>7, <2>1 DEF AddUser
  <2>3. "active" \in Statuses
    BY DEF Statuses
  <2>4. Written
    BY <2>2, <2>3, NewcomerWrites
  <2>. QED  BY <2>2, <2>4, DoneMoves DEF Kinds
<1>. QED  BY <1>1, <1>2, <1>3, <1>4, <1>5, <1>6, <1>7 DEF DeskStep

\* Every step is of one kind.
LEMMA StepKinds ==
    ASSUME TypeOK, [Next]_vars
    PROVE  Kinds
<1>1. CASE UNCHANGED vars
  BY <1>1 DEF vars, Kinds, RequestsMove, TypeOK
<1>2. CASE Next
  BY <1>2, OwnStepKinds, DeskStepKinds, DeveloperStepKinds, UnguardedKinds DEF Next
<1>. QED  BY <1>1, <1>2

-----------------------------------------------------------------------------
(* Types and sessions                                                       *)

\* People keep having one account.
LEMMA OneAccountEach ==
    ASSUME TypeOK, Written, NEW a \in Ids, NEW b \in Ids,
           users'[a].person = users'[b].person, users'[a] # Absent
    PROVE  a = b
<1>. SUFFICES ASSUME a # b PROVE FALSE
  OBVIOUS
<1>1. users'[a] \in Account /\ users'[a].person \in People
  BY DEF Written, Account
<1>2. users'[b] # Absent
  BY <1>1, SignInAssumption DEF Absent
<1>3. users'[b] \in Account
  BY <1>2 DEF Written
<1>4. PICK n \in Ids : \A m \in Ids \ {n} : users'[m].person = users[m].person
  BY DEF Written, OneHand
<1>5. /\ Fresh(users'[a].person) \/ (users[a] \in Account /\ users'[a].person = users[a].person)
      /\ Fresh(users'[b].person) \/ (users[b] \in Account /\ users'[b].person = users[b].person)
  BY <1>2 DEF Written, Moves
<1>6. users[a] \in Account => users[a] # Absent
  BY AbsentIsNone DEF Exists
<1>7. users[a].person = users[b].person => users[a] = Absent
  BY DEF TypeOK, Exists
<1>8. CASE Fresh(users'[a].person)
  <2>1. users[a].person # users'[a].person /\ users[b].person # users'[a].person
    BY <1>8 DEF Fresh
  <2>. QED  BY <1>4, <2>1
<1>9. CASE Fresh(users'[b].person)
  <2>1. users[a].person # users'[b].person /\ users[b].person # users'[b].person
    BY <1>9 DEF Fresh
  <2>. QED  BY <1>4, <2>1
<1>. QED  BY <1>5, <1>6, <1>7, <1>8, <1>9

\* Types are kept.
LEMMA TypesKept ==
    ASSUME TypeOK, [Next]_vars
    PROVE  TypeOK'
<1>1. Kinds
  BY StepKinds
<1>2. users' \in [Ids -> Account \cup {Absent}]
  BY <1>1 DEF Kinds, Written, TypeOK
<1>3. sessions' \subseteq Session /\ sessions \subseteq sessions'
  BY <1>1 DEF Kinds, TypeOK
<1>4. \A n, m \in Ids : users'[n].person = users'[m].person => n = m \/ users'[n] = Absent
  <2>1. CASE Written
    BY <2>1, OneAccountEach
  <2>2. CASE users' = users
    BY <2>2 DEF TypeOK, Exists
  <2>. QED  BY <1>1, <2>1, <2>2 DEF Kinds
<1>5. \A r \in Requests : requests'[r] # Idle => requests'[r].by \in sessions'
  <2>. SUFFICES ASSUME NEW r \in Requests, requests'[r] # Idle PROVE requests'[r].by \in sessions'
    OBVIOUS
  <2>1. requests[r] # Idle => requests[r].by \in sessions
    BY DEF TypeOK
  <2>2. requests'[r] = requests[r] \/ requests'[r].by \in sessions
    BY <1>1 DEF Kinds, RequestsMove
  <2>3. CASE requests'[r] = requests[r]
    BY <1>3, <2>1, <2>3
  <2>. QED  BY <1>3, <2>2, <2>3
<1>6. requests' \in [Requests -> Admitted \cup {Idle}]
  BY <1>1 DEF Kinds, RequestsMove
<1>. QED  BY <1>2, <1>3, <1>4, <1>5, <1>6 DEF TypeOK, Exists

\* The rows, sessions and requests are what they should be, and a person has one account.
THEOREM TypesHold == Spec => []TypeOK
<1>1. Init => TypeOK
  <2>. SUFFICES ASSUME Init PROVE TypeOK
    OBVIOUS
  <2>1. users \in [Ids -> Account \cup {Absent}] /\ sessions \subseteq Session
    BY SignInAssumption DEF Init
  <2>2. requests \in [Requests -> Admitted \cup {Idle}] /\ \A r \in Requests : requests[r] = Idle
    BY DEF Init
  <2>3. \A n, m \in Ids : users[n].person = users[m].person => n = m \/ users[n] = Absent
    BY SignInAssumption DEF Init
  <2>. QED  BY <2>1, <2>2, <2>3 DEF TypeOK, Exists
<1>. QED  BY <1>1, TypesKept, PTL DEF Spec

\* The row a session is of moved on, or is somebody else's.
LEMMA WritingKeepsSessions ==
    ASSUME TypeOK, SessionInv, Written, sessions' = sessions
    PROVE  SessionInv'
<1>. SUFFICES ASSUME NEW t \in sessions, users'[t.id].person = t.person
              PROVE  /\ t.version <= users'[t.id].version
                     /\ t.version = users'[t.id].version =>
                           /\ users'[t.id].status # "inactive"
                           /\ t.readonly \/ t.password = users'[t.id].password
  BY DEF SessionInv
<1>. DEFINE n == t.id
<1>1. t \in Session
  BY DEF TypeOK
<1>2. n \in Ids /\ t.person \in People /\ t.version \in Nat
  BY <1>1, SignInAssumption DEF Session
<1>3. users'[n] # Absent
  BY <1>2, SignInAssumption DEF Absent
<1>4. ~Fresh(users'[n].person)
  BY DEF Fresh
<1>. HIDE DEF n
<1>5. /\ users[n] \in Account /\ users'[n] \in Account
      /\ users'[n].person = users[n].person
      /\ \/ users'[n].version = users[n].version + 1
         \/ /\ users'[n].version = users[n].version
            /\ users'[n].password = users[n].password
            /\ users'[n].status \in {users[n].status, "active"}
  BY <1>2, <1>3, <1>4 DEF Written, Moves
<1>6. users[n].version \in Nat
  BY <1>5, SignInAssumption DEF Account
<1>7. /\ t.version <= users[n].version
      /\ t.version = users[n].version =>
            /\ users[n].status # "inactive"
            /\ t.readonly \/ t.password = users[n].password
  BY <1>5 DEF SessionInv, n
<1>8. CASE users'[n].version = users[n].version + 1
  BY <1>2, <1>6, <1>7, <1>8 DEF n
<1>9. CASE /\ users'[n].version = users[n].version
           /\ users'[n].password = users[n].password
           /\ users'[n].status \in {users[n].status, "active"}
  BY <1>7, <1>9 DEF n
<1>. QED  BY <1>5, <1>8, <1>9

\* A session that is minted is of its account's version and password, as the guard or the sign-in
\* read them.
LEMMA MintingKeepsSessions ==
    ASSUME TypeOK, SessionInv, users' = users, NEW t \in Session, sessions' = sessions \cup {t},
           \/ t \in sessions
           \/ \E n \in Ids, readonly \in BOOLEAN :
                 /\ users[n] \in Account /\ users[n].status # "inactive"
                 /\ t = TokenOf(n, readonly)
    PROVE  SessionInv'
<1>1. CASE t \in sessions
  <2>1. sessions' = sessions
    BY <1>1
  <2>. QED  BY <2>1 DEF SessionInv
<1>2. CASE \E n \in Ids, readonly \in BOOLEAN :
              /\ users[n] \in Account /\ users[n].status # "inactive"
              /\ t = TokenOf(n, readonly)
  <2>1. PICK n \in Ids, readonly \in BOOLEAN :
              /\ users[n] \in Account /\ users[n].status # "inactive"
              /\ t = TokenOf(n, readonly)
    BY <1>2
  <2>2. /\ t.id = n /\ t.version = users[n].version /\ t.password = users[n].password
    BY <2>1 DEF TokenOf
  <2>3. users[n].version \in Nat
    BY <2>1, SignInAssumption DEF Account
  <2>. QED  BY <2>1, <2>2, <2>3 DEF SessionInv
<1>. QED  BY <1>1, <1>2

\* Versions bound the sessions, whatever the order of handlers.
LEMMA SessionsKept ==
    ASSUME TypeOK, SessionInv, [Next]_vars
    PROVE  SessionInv'
<1>1. Kinds
  BY StepKinds
<1>2. CASE Written /\ sessions' = sessions
  BY <1>2, WritingKeepsSessions
<1>3. CASE users' = users /\ sessions' = sessions
  BY <1>3 DEF SessionInv
<1>. QED  BY <1>1, <1>2, <1>3, MintingKeepsSessions DEF Kinds

\* A revoked session stays revoked, and one that is accepted was opened with the password of now on
\* an account that is in use.
THEOREM SessionsStayCurrent == Spec => []SessionsAreCurrent
<1>1. Init => SessionInv
  BY DEF Init, SessionInv
<1>2. SessionInv => SessionsAreCurrent
  BY DEF SessionInv, SessionsAreCurrent, Accepted
<1>. QED  BY <1>1, <1>2, SessionsKept, TypesHold, PTL DEF Spec

-----------------------------------------------------------------------------
(* Supervisors                                                              *)

\* A row is rewritten with the role and the supervisor it had, and is an applicant only if it was.
LEMMA UntouchedAssignment ==
    ASSUME TypeOK, AssignmentInv, NEW n \in Ids, NEW row \in Account,
           row.role = users[n].role, row.boss = users[n].boss,
           row.status # Waiting \/ row.status = users[n].status, Puts(n, row)
    PROVE  AssignmentInv'
<1>1. users'[n] = row /\ \A m \in Ids \ {n} : users'[m] = users[m]
  BY DEF Puts, TypeOK
<1>2. \A m \in Ids : users'[m].role = users[m].role /\ users'[m].boss = users[m].boss
                     /\ (users'[m].status # Waiting \/ users'[m].status = users[m].status)
  BY <1>1
<1>. QED  BY <1>2 DEF AssignmentInv

\* An account that is new or only changes its supervisor gets one who may be reported to.
LEMMA Assigned ==
    ASSUME TypeOK, AssignmentInv, NEW n \in Ids, NEW row \in Account,
           MayReport(n, row.role, row.boss), Puts(n, row),
           ~Exists(n) \/ (row.role = users[n].role /\ row.status = users[n].status)
    PROVE  AssignmentInv'
<1>1. users'[n] = row /\ \A m \in Ids \ {n} : users'[m] = users[m]
  BY DEF Puts, TypeOK
<1>2. ~Exists(n) => users[n].role = "none"
  BY DEF Exists, Absent
<1>3. \A m \in Ids : users[m].boss = n => users[n].role = "moallem"
  BY SignInAssumption DEF AssignmentInv
<1>. SUFFICES ASSUME NEW m \in Ids, users'[m].boss # Nobody
              PROVE  /\ users'[m].role = "worker"
                     /\ users'[m].boss \in Ids \ {m}
                     /\ users'[users'[m].boss].role = "moallem"
                     /\ users'[users'[m].boss].status # Waiting
  BY DEF AssignmentInv
<1>4. CASE m = n
  <2>1. /\ row.role = "worker" /\ row.boss \in Ids \ {n}
        /\ users[row.boss].role = "moallem" /\ users[row.boss].status = "active"
    BY <1>1, <1>4 DEF MayReport
  <2>. QED  BY <1>1, <1>4, <2>1 DEF Waiting
<1>5. CASE m # n
  <2>1. users'[m] = users[m]
    BY <1>1, <1>5
  <2>2. /\ users[m].role = "worker" /\ users[m].boss \in Ids \ {m}
        /\ users[users[m].boss].role = "moallem" /\ users[users[m].boss].status # Waiting
    BY <2>1 DEF AssignmentInv
  <2>3. CASE users[m].boss = n
    <3>1. Exists(n)
      BY <1>2, <2>2, <2>3
    <3>2. users'[n].role = users[n].role /\ users'[n].status = users[n].status
      BY <1>1, <3>1
    <3>. QED  BY <2>1, <2>2, <2>3, <3>2
  <2>4. CASE users[m].boss # n
    BY <1>1, <2>1, <2>2, <2>4
  <2>. QED  BY <2>3, <2>4
<1>. QED  BY <1>4, <1>5

\* Nobody reports to the row, and it reports to nobody.
LEMMA Unled ==
    ASSUME TypeOK, AssignmentInv, NEW n \in Ids, NEW row \in Account \cup {Absent},
           users[n].role # "moallem" \/ users[n].status = Waiting,
           row.boss = Nobody, Puts(n, row)
    PROVE  AssignmentInv'
<1>1. users'[n] = row /\ \A m \in Ids \ {n} : users'[m] = users[m]
  BY DEF Puts, TypeOK
<1>2. \A m \in Ids : users[m].boss # n
  BY SignInAssumption DEF AssignmentInv
<1>. QED  BY <1>1, <1>2 DEF AssignmentInv

\* The crew of an account is released with it.
LEMMA Crewless ==
    ASSUME TypeOK, AssignmentInv, NEW n \in Ids, NEW row \in Account \cup {Absent},
           row.boss = Nobody, users' = [Released(users, n) EXCEPT ![n] = row]
    PROVE  AssignmentInv'
<1>1. Released(users, n) \in [Ids -> Account \cup {Absent}]
  BY ReleasedRow
<1>2. users'[n] = row /\ \A m \in Ids \ {n} : users'[m] = Released(users, n)[m]
  BY <1>1
<1>3. ASSUME NEW m \in Ids, m # n
      PROVE  /\ users'[m].boss # n /\ users'[m].boss \in {users[m].boss, Nobody}
             /\ users'[m].role = users[m].role /\ users'[m].status = users[m].status
  <2>1. users'[m].boss # n /\ users'[m].boss \in {users[m].boss, Nobody}
    BY <1>2, <1>3, ReleasedRow
  <2>2. CASE users[m].boss # n
    <3>1. Released(users, n)[m] = users[m]
      BY <2>2, ReleasedRow
    <3>2. users'[m] = users[m]
      BY <1>2, <1>3, <3>1
    <3>. QED  BY <2>1, <3>2
  <2>3. CASE users[m].boss = n
    <3>1. users[m] \in Account /\ users'[m] = [users[m] EXCEPT !.boss = Nobody]
      BY <1>2, <1>3, <2>3, ReleasedRow
    <3>2. users'[m].role = users[m].role /\ users'[m].status = users[m].status
      BY <3>1 DEF Account
    <3>. QED  BY <2>1, <3>2
  <2>. QED  BY <2>2, <2>3
<1>. SUFFICES ASSUME NEW m \in Ids, users'[m].boss # Nobody
              PROVE  /\ users'[m].role = "worker"
                     /\ users'[m].boss \in Ids \ {m}
                     /\ users'[users'[m].boss].role = "moallem"
                     /\ users'[users'[m].boss].status # Waiting
  BY DEF AssignmentInv
<1>4. m # n
  BY <1>2
<1>5. users'[m].boss = users[m].boss /\ users'[m].boss # n /\ users[m].boss # Nobody
  BY <1>3, <1>4
<1>6. /\ users[m].role = "worker" /\ users[m].boss \in Ids \ {m}
      /\ users[users[m].boss].role = "moallem" /\ users[users[m].boss].status # Waiting
  BY <1>5 DEF AssignmentInv
<1>. QED  BY <1>3, <1>4, <1>5, <1>6

\* Of a row that is revoked, what is not written stays.
LEMMA RevokedAssignment ==
    ASSUME TypeOK, AssignmentInv, NEW n \in Ids, NEW row \in Account, MayRevoke(n),
           row.version = users[n].version, row.role = users[n].role, row.boss = users[n].boss,
           row.status # Waiting \/ row.status = users[n].status, Puts(n, Revoked(row))
    PROVE  AssignmentInv'
<1>1. /\ Revoked(row) \in Account /\ Revoked(row).role = row.role
      /\ Revoked(row).boss = row.boss /\ Revoked(row).status = row.status
  BY RevokedRow DEF MayRevoke
<1>. QED  BY <1>1, UntouchedAssignment

\* The own account.
LEMMA OwnStepAssignments ==
    ASSUME TypeOK, AssignmentInv, NEW r \in Requests, OwnStep(r)
    PROVE  AssignmentInv'
<1>1. CASE (\E t \in sessions : Admit(r, t)) \/ Refuse(r) \/ Refresh(r)
  <2>1. users' = users
    BY <1>1 DEF Admit, Refuse, Refresh
  <2>. QED  BY <2>1 DEF AssignmentInv
<1>2. CASE CloseOwnAccount(r)
  <2>. DEFINE n == requests[r].by.id
              old == [users[n] EXCEPT !.status = "inactive", !.boss = Nobody]
  <2>1. n \in Ids /\ Exists(n)
    BY <1>2, Actor DEF CloseOwnAccount
  <2>2. users[n] \in Account
    BY <2>1, AbsentIsNone
  <2>3. CASE n \in Veterans
    <3>1. MayRevoke(n) /\ users' = [Released(users, n) EXCEPT ![n] = Revoked(old)]
      BY <1>2, <2>3 DEF CloseOwnAccount
    <3>2. old \in Account /\ old.version = users[n].version /\ old.boss = Nobody
      BY <2>2 DEF Account, Statuses
    <3>. HIDE DEF n, old
    <3>3. Revoked(old) \in Account /\ Revoked(old).boss = Nobody
      BY <3>1, <3>2, RevokedRow DEF MayRevoke
    <3>. QED  BY <2>1, <3>1, <3>3, Crewless
  <2>4. CASE n \notin Veterans
    <3>1. users' = [Released(users, n) EXCEPT ![n] = Absent]
      BY <1>2, <2>4 DEF CloseOwnAccount
    <3>2. Absent.boss = Nobody
      BY DEF Absent
    <3>. HIDE DEF n, old
    <3>. QED  BY <2>1, <3>1, <3>2, Crewless
  <2>. QED  BY <2>3, <2>4
<1>3. CASE \E password \in Passwords : ChangeOwnPassword(r, password)
  <2>1. PICK password \in Passwords : ChangeOwnPassword(r, password)
    BY <1>3
  <2>. DEFINE n == requests[r].by.id
              old == [users[n] EXCEPT !.password = password]
  <2>2. Exists(n) /\ MayRevoke(n) /\ Puts(n, Revoked(old)) /\ requests[r] # Idle
    BY <2>1 DEF ChangeOwnPassword
  <2>3. n \in Ids
    BY <2>2, Actor
  <2>4. users[n] \in Account
    BY <2>2, <2>3, AbsentIsNone
  <2>5. /\ old \in Account /\ old.version = users[n].version /\ old.role = users[n].role
        /\ old.boss = users[n].boss /\ old.status = users[n].status
    BY <2>4 DEF Account
  <2>. HIDE DEF n, old
  <2>. QED  BY <2>2, <2>3, <2>5, RevokedAssignment
<1>. QED  BY <1>1, <1>2, <1>3 DEF OwnStep

\* What nobody signed in for.
LEMMA UnguardedAssignments ==
    ASSUME TypeOK, AssignmentInv, NEW n \in Ids, Unguarded(n)
    PROVE  AssignmentInv'
<1>1. CASE Login(n)
  <2>1. users' = users
    BY <1>1 DEF Login
  <2>. QED  BY <2>1 DEF AssignmentInv
<1>2. CASE SubmitRegistration(n)
  <2>1. PICK p \in People, role \in WorkforceRoles, password \in Passwords,
             boss \in Ids \cup {Nobody} :
                /\ MayReport(n, role, boss)
                /\ NewAccount(n, p, role, Waiting, password, boss)
    BY <1>2 DEF SubmitRegistration
  <2>. DEFINE row == [role |-> role, status |-> Waiting, version |-> 0, password |-> password,
                      boss |-> boss, person |-> p]
  <2>2. /\ row \in Account /\ row.role = role /\ row.boss = boss
    BY SignInAssumption DEF Account, Statuses, KnownRoles, AssignableRoles
  <2>3. MayReport(n, role, boss) /\ ~Exists(n) /\ Puts(n, row)
    BY <1>2, <2>1 DEF SubmitRegistration, NewAccount
  <2>. HIDE DEF row
  <2>. QED  BY <2>2, <2>3, Assigned
<1>. QED  BY <1>1, <1>2 DEF Unguarded

\* The developer's levers on sessions.
LEMMA DeveloperStepAssignments ==
    ASSUME TypeOK, AssignmentInv, NEW r \in Requests, NEW n \in Ids, DeveloperStep(r, n)
    PROVE  AssignmentInv'
<1>1. CASE Impersonate(r, n)
  <2>1. users' = users
    BY <1>1 DEF Impersonate
  <2>. QED  BY <2>1 DEF AssignmentInv
<1>2. CASE RevokeUserSessions(r, n)
  <2>1. users[n].status # "none" /\ MayRevoke(n) /\ Puts(n, Revoked(users[n]))
    BY <1>2 DEF RevokeUserSessions
  <2>2. users[n] \in Account
    BY <2>1, AbsentIsNone
  <2>. QED  BY <2>1, <2>2, RevokedAssignment
<1>. QED  BY <1>1, <1>2 DEF DeveloperStep

\* The account desk.
LEMMA DeskStepAssignments ==
    ASSUME TypeOK, AssignmentInv, NEW r \in Requests, NEW n \in Ids, DeskStep(r, n)
    PROVE  AssignmentInv'
<1>a. Exists(n) => users[n] \in Account
  BY AbsentIsNone
<1>b. Absent.boss = Nobody
  BY DEF Absent
<1>1. CASE \E password \in Passwords : EditPassword(r, n, password)
  <2>1. PICK password \in Passwords : EditPassword(r, n, password)
    BY <1>1
  <2>. DEFINE old == [users[n] EXCEPT !.password = password]
  <2>2. Exists(n) /\ MayRevoke(n) /\ Puts(n, Revoked(old))
    BY <2>1 DEF EditPassword, MayActOn
  <2>3. /\ old \in Account /\ old.version = users[n].version /\ old.role = users[n].role
        /\ old.boss = users[n].boss /\ old.status = users[n].status
    BY <1>a, <2>2 DEF Account
  <2>. HIDE DEF old
  <2>. QED  BY <2>2, <2>3, RevokedAssignment
<1>2. CASE \E boss \in Ids \cup {Nobody} : EditUser(r, n, boss)
  <2>1. PICK boss \in Ids \cup {Nobody} : EditUser(r, n, boss)
    BY <1>2
  <2>. DEFINE row == [users[n] EXCEPT !.boss = boss]
  <2>2. Exists(n) /\ MayReport(n, users[n].role, boss) /\ Puts(n, row)
    BY <2>1 DEF EditUser, MayActOn
  <2>3. /\ row \in Account /\ row.role = users[n].role /\ row.status = users[n].status
        /\ row.boss = boss
    BY <1>a, <2>2 DEF Account
  <2>. HIDE DEF row
  <2>. QED  BY <2>2, <2>3, Assigned
<1>3. CASE Deactivate(r, n)
  <2>. DEFINE old == [users[n] EXCEPT !.status = "inactive"]
  <2>1. Exists(n) /\ MayRevoke(n) /\ Puts(n, Revoked(old))
    BY <1>3 DEF Deactivate, MayActOn
  <2>2. /\ old \in Account /\ old.version = users[n].version /\ old.role = users[n].role
        /\ old.boss = users[n].boss /\ old.status # Waiting
    BY <1>a, <2>1 DEF Account, Statuses, Waiting
  <2>. HIDE DEF old
  <2>. QED  BY <2>1, <2>2, RevokedAssignment
<1>4. CASE Reactivate(r, n) \/ ApproveRegistration(r, n)
  <2>. DEFINE row == [users[n] EXCEPT !.status = "active"]
  <2>1. Puts(n, row)
    BY <1>4 DEF Reactivate, ApproveRegistration
  <2>2. Exists(n)
    BY <1>4, AbsentIsNone DEF Reactivate, MayActOn, ApproveRegistration, MayDecide, Waiting
  <2>3. /\ row \in Account /\ row.role = users[n].role /\ row.boss = users[n].boss
        /\ row.status # Waiting
    BY <1>a, <2>2 DEF Account, Statuses, Waiting
  <2>. HIDE DEF row
  <2>. QED  BY <2>1, <2>3, UntouchedAssignment
<1>5. CASE DeleteUser(r, n)
  BY <1>b, <1>5, Crewless DEF DeleteUser
<1>6. CASE RejectRegistration(r, n)
  BY <1>b, <1>6, Unled DEF RejectRegistration, MayDecide
<1>7. CASE \E role \in AssignableRoles : ChangeUserRole(r, n, role)
  <2>1. PICK role \in AssignableRoles : ChangeUserRole(r, n, role)
    BY <1>7
  <2>. DEFINE old == [users[n] EXCEPT !.role = role,
                                      !.boss = IF role = "worker" THEN @ ELSE Nobody]
  <2>2. /\ Exists(n) /\ MayRevoke(n) /\ users[n].role # role
        /\ users' = [(IF users[n].role = "moallem" THEN Released(users, n) ELSE users)
                        EXCEPT ![n] = Revoked(old)]
    BY <2>1 DEF ChangeUserRole, MayActOn, RoleWritten
  <2>3. users[n].boss # Nobody => users[n].role = "worker"
    BY DEF AssignmentInv
  <2>4. /\ old \in Account /\ old.version = users[n].version
        /\ old.boss = IF role = "worker" THEN users[n].boss ELSE Nobody
    BY <1>a, <2>2 DEF Account, KnownRoles
  <2>5. old.boss = Nobody
    BY <2>2, <2>3, <2>4
  <2>. HIDE DEF old
  <2>6. Revoked(old) \in Account /\ Revoked(old).boss = Nobody
    BY <2>2, <2>4, <2>5, RevokedRow DEF MayRevoke
  <2>7. CASE users[n].role = "moallem"
    <3>1. users' = [Released(users, n) EXCEPT ![n] = Revoked(old)]
      BY <2>2, <2>7
    <3>. QED  BY <2>6, <3>1, Crewless
  <2>8. CASE users[n].role # "moallem"
    <3>1. Puts(n, Revoked(old))
      BY <2>2, <2>8 DEF Puts
    <3>. QED  BY <2>6, <2>8, <3>1, Unled
  <2>. QED  BY <2>7, <2>8
<1>8. CASE AddUser(r, n)
  <2>1. PICK p \in People, role \in AssignableRoles, password \in Passwords :
             NewAccount(n, p, role, "active", password, Nobody)
    BY <1>8 DEF AddUser
  <2>. DEFINE row == [role |-> role, status |-> "active", version |-> 0, password |-> password,
                      boss |-> Nobody, person |-> p]
  <2>2. /\ row \in Account /\ row.role = role /\ row.boss = Nobody
    BY SignInAssumption DEF Account, Statuses, KnownRoles
  <2>3. ~Exists(n) /\ Puts(n, row)
    BY <1>8, <2>1 DEF AddUser, NewAccount
  <2>. HIDE DEF row
  <2>4. MayReport(n, row.role, row.boss)
    BY <2>2 DEF MayReport
  <2>. QED  BY <2>2, <2>3, <2>4, Assigned
<1>. QED  BY <1>1, <1>2, <1>3, <1>4, <1>5, <1>6, <1>7, <1>8 DEF DeskStep

\* Who reports to an account is a worker, and the account is a moallem: a change of role, a closed
\* account and a refusal take the crew along, in whatever order they are handled.
THEOREM AssignmentsResolve == Spec => []AssignmentResolves
<1>1. Init => AssignmentInv
  BY SignInAssumption DEF Init, AssignmentInv
<1>2. AssignmentInv => AssignmentResolves
  BY DEF AssignmentInv, AssignmentResolves
<1>3. TypeOK /\ AssignmentInv /\ [Next]_vars => AssignmentInv'
  <2>. SUFFICES ASSUME TypeOK, AssignmentInv, [Next]_vars PROVE AssignmentInv'
    OBVIOUS
  <2>1. CASE UNCHANGED vars
    BY <2>1 DEF vars, AssignmentInv
  <2>2. CASE Next
    BY <2>2, OwnStepAssignments, DeskStepAssignments, DeveloperStepAssignments,
       UnguardedAssignments DEF Next
  <2>. QED  BY <2>1, <2>2
<1>. QED  BY <1>1, <1>2, <1>3, TypesHold, PTL DEF Spec

-----------------------------------------------------------------------------
(* The last head administrator                                              *)

\* Every account but one keeps its role and its standing.
Beside(n) == \A m \in Ids \ {n} :
                 users'[m].role = users[m].role /\ users'[m].status = users[m].status

\* The row of one account, with or without its crew's.
LEMMA OthersStand ==
    ASSUME TypeOK, NEW n \in Ids, NEW row \in Account \cup {Absent},
           Puts(n, row) \/ users' = [Released(users, n) EXCEPT ![n] = row]
    PROVE  Beside(n) /\ users'[n] = row
<1>1. CASE Puts(n, row)
  BY <1>1 DEF Puts, TypeOK, Beside
<1>2. CASE users' = [Released(users, n) EXCEPT ![n] = row]
  <2>1. Released(users, n) \in [Ids -> Account \cup {Absent}]
    BY ReleasedRow
  <2>2. users'[n] = row /\ \A m \in Ids \ {n} : users'[m] = Released(users, n)[m]
    BY <1>2, <2>1
  <2>3. ASSUME NEW m \in Ids
        PROVE  /\ Released(users, n)[m].role = users[m].role
               /\ Released(users, n)[m].status = users[m].status
    <3>1. CASE users[m].boss # n
      <4>1. Released(users, n)[m] = users[m]
        BY <3>1, ReleasedRow
      <4>. QED  BY <4>1
    <3>2. CASE users[m].boss = n
      <4>1. /\ users[m] \in Account
            /\ Released(users, n)[m] = [users[m] EXCEPT !.boss = Nobody]
        BY <3>2, ReleasedRow
      <4>. QED  BY <4>1 DEF Account
    <3>. QED  BY <3>1, <3>2
  <2>. QED  BY <2>2, <2>3 DEF Beside
<1>. QED  BY <1>1, <1>2

\* A head administrator there was, there is.
LEMMA HeadsStand ==
    ASSUME NEW n \in Ids, Beside(n),
           ~IsHead(n) \/ (users'[n].role = users[n].role /\ users'[n].status = "active"),
           Heads # {}
    PROVE  Heads' # {}
BY DEF Heads, IsHead, Beside

\* The row that was written is the last head's.
LEMMA LastHeadIsWritten ==
    ASSUME NEW n \in Ids, Beside(n), Heads # {}, Heads' = {}
    PROVE  Heads = {n}
BY DEF Heads, IsHead, Beside

\* What the property says of a step.
Loss ==
    Heads # {} /\ Heads' = {} =>
        \E r \in Requests, n \in Heads :
            /\ requests[r] # Idle /\ requests'[r] = Idle
            /\ \/ requests[r].by.id = n /\ (~Exists(n)' \/ users'[n].status = "inactive")
               \/ requests[r].by.id # n /\ requests[r].role = Developer
               \/ requests[r].by.id \notin Heads /\ requests[r].role = "head_admin"

\* The desk wrote another account than the actor's own.
LEMMA DeskLoss ==
    ASSUME TypeOK, NEW r \in Requests, NEW n \in Ids, MayActOn(r, n), NotOneself(r, n), Done(r),
           Beside(n)
    PROVE  Loss
<1>. SUFFICES ASSUME Heads # {}, Heads' = {}
              PROVE  /\ n \in Heads /\ requests[r] # Idle /\ requests'[r] = Idle
                     /\ requests[r].role \in {"head_admin", Developer}
                     /\ requests[r].by.id # n /\ requests[r].by.id \notin Heads
  BY DEF Loss
<1>1. Heads = {n}
  BY LastHeadIsWritten
<1>2. users[n].role = "head_admin"
  BY <1>1 DEF Heads, IsHead
<1>. QED  BY <1>1, <1>2 DEF MayActOn, AdminOnly, NotOneself, Done, TypeOK, AdminRoles

\* The steps of one's own.
LEMMA OwnStepLoss ==
    ASSUME TypeOK, NEW r \in Requests, OwnStep(r)
    PROVE  Loss
<1>1. CASE (\E t \in sessions : Admit(r, t)) \/ Refuse(r) \/ Refresh(r)
  <2>1. users' = users
    BY <1>1 DEF Admit, Refuse, Refresh
  <2>. QED  BY <2>1 DEF Loss, Heads, IsHead
<1>2. CASE CloseOwnAccount(r)
  <2>. DEFINE n == requests[r].by.id
              old == [users[n] EXCEPT !.status = "inactive", !.boss = Nobody]
              row == IF n \in Veterans THEN Revoked(old) ELSE Absent
  <2>1. requests[r] # Idle /\ Exists(n) /\ Done(r)
    BY <1>2 DEF CloseOwnAccount
  <2>2. n \in Ids
    BY <2>1, Actor
  <2>3. users[n] \in Account
    BY <2>1, <2>2, AbsentIsNone
  <2>4. old \in Account /\ old.version = users[n].version /\ old.status = "inactive"
    BY <2>3 DEF Account, Statuses
  <2>5. n \in Veterans => users[n].version < MaxVersion
    BY <1>2 DEF CloseOwnAccount, MayRevoke
  <2>6. users' = [Released(users, n) EXCEPT ![n] = row]
    BY <1>2 DEF CloseOwnAccount
  <2>. HIDE DEF n, old
  <2>7. /\ row \in Account \cup {Absent}
        /\ row = Absent \/ row.status = "inactive"
    BY <2>4, <2>5, RevokedRow
  <2>. HIDE DEF row
  <2>8. Beside(n) /\ users'[n] = row
    BY <2>2, <2>6, <2>7, OthersStand
  <2>9. requests'[r] = Idle
    BY <2>1 DEF Done, TypeOK
  <2>10. users'[n] = Absent \/ users'[n].status = "inactive"
    BY <2>7, <2>8
  <2>. SUFFICES ASSUME Heads # {}, Heads' = {} PROVE Loss
    BY DEF Loss
  <2>11. n \in Heads
    BY <2>2, <2>8, LastHeadIsWritten
  <2>. QED  BY <2>1, <2>9, <2>10, <2>11 DEF Loss, Exists, n
<1>3. CASE \E password \in Passwords : ChangeOwnPassword(r, password)
  <2>1. PICK password \in Passwords : ChangeOwnPassword(r, password)
    BY <1>3
  <2>. DEFINE n == requests[r].by.id
              old == [users[n] EXCEPT !.password = password]
  <2>2. requests[r] # Idle /\ Exists(n) /\ MayRevoke(n) /\ Puts(n, Revoked(old))
    BY <2>1 DEF ChangeOwnPassword
  <2>3. n \in Ids
    BY <2>2, Actor
  <2>4. users[n] \in Account
    BY <2>2, <2>3, AbsentIsNone
  <2>5. /\ old \in Account /\ old.version = users[n].version /\ old.role = users[n].role
        /\ old.status = users[n].status
    BY <2>4 DEF Account
  <2>. HIDE DEF n, old
  <2>6. /\ Revoked(old) \in Account /\ Revoked(old).role = users[n].role
        /\ Revoked(old).status = users[n].status
    BY <2>2, <2>5, RevokedRow DEF MayRevoke
  <2>7. Beside(n) /\ users'[n] = Revoked(old)
    BY <2>2, <2>3, <2>6, OthersStand
  <2>. QED  BY <2>3, <2>6, <2>7, HeadsStand DEF Loss, IsHead
<1>. QED  BY <1>1, <1>2, <1>3 DEF OwnStep

\* A row that keeps its role and its standing, or is of no head administrator, loses none.
LEMMA HarmlessLoss ==
    ASSUME TypeOK, NEW n \in Ids, NEW row \in Account \cup {Absent}, Puts(n, row),
           ~IsHead(n) \/ (row.role = users[n].role /\ row.status \in {users[n].status, "active"})
    PROVE  Loss
<1>1. Beside(n) /\ users'[n] = row
  BY OthersStand
<1>. QED  BY <1>1, HeadsStand DEF Loss, IsHead

\* What nobody signed in for.
LEMMA UnguardedLoss ==
    ASSUME TypeOK, NEW n \in Ids, Unguarded(n)
    PROVE  Loss
<1>1. CASE Login(n)
  <2>1. users' = users
    BY <1>1 DEF Login
  <2>. QED  BY <2>1 DEF Loss, Heads, IsHead
<1>2. CASE SubmitRegistration(n)
  <2>1. PICK p \in People, role \in WorkforceRoles, password \in Passwords,
             boss \in Ids \cup {Nobody} :
                /\ MayReport(n, role, boss)
                /\ NewAccount(n, p, role, Waiting, password, boss)
    BY <1>2 DEF SubmitRegistration
  <2>. DEFINE row == [role |-> role, status |-> Waiting, version |-> 0, password |-> password,
                      boss |-> boss, person |-> p]
  <2>2. row \in Account
    BY SignInAssumption DEF Account, Statuses, KnownRoles, AssignableRoles
  <2>3. ~Exists(n) /\ Puts(n, row)
    BY <1>2, <2>1 DEF SubmitRegistration, NewAccount
  <2>4. ~IsHead(n)
    BY <2>3 DEF IsHead, Exists, Absent
  <2>. HIDE DEF row
  <2>. QED  BY <2>2, <2>3, <2>4, HarmlessLoss
<1>. QED  BY <1>1, <1>2 DEF Unguarded

\* The developer's levers on sessions.
LEMMA DeveloperStepLoss ==
    ASSUME TypeOK, NEW r \in Requests, NEW n \in Ids, DeveloperStep(r, n)
    PROVE  Loss
<1>1. CASE Impersonate(r, n)
  <2>1. users' = users
    BY <1>1 DEF Impersonate
  <2>. QED  BY <2>1 DEF Loss, Heads, IsHead
<1>2. CASE RevokeUserSessions(r, n)
  <2>1. users[n].status # "none" /\ MayRevoke(n) /\ Puts(n, Revoked(users[n]))
    BY <1>2 DEF RevokeUserSessions
  <2>2. users[n] \in Account
    BY <2>1, AbsentIsNone
  <2>3. /\ Revoked(users[n]) \in Account /\ Revoked(users[n]).role = users[n].role
        /\ Revoked(users[n]).status = users[n].status
    BY <2>1, <2>2, RevokedRow DEF MayRevoke
  <2>. QED  BY <2>1, <2>3, HarmlessLoss
<1>. QED  BY <1>1, <1>2 DEF DeveloperStep

\* The account desk.
LEMMA DeskStepLoss ==
    ASSUME TypeOK, NEW r \in Requests, NEW n \in Ids, DeskStep(r, n)
    PROVE  Loss
<1>a. Exists(n) => users[n] \in Account
  BY AbsentIsNone
<1>1. CASE \E password \in Passwords : EditPassword(r, n, password)
  <2>1. PICK password \in Passwords : EditPassword(r, n, password)
    BY <1>1
  <2>. DEFINE old == [users[n] EXCEPT !.password = password]
  <2>2. Exists(n) /\ MayRevoke(n) /\ Puts(n, Revoked(old))
    BY <2>1 DEF EditPassword, MayActOn
  <2>3. /\ old \in Account /\ old.version = users[n].version /\ old.role = users[n].role
        /\ old.status = users[n].status
    BY <1>a, <2>2 DEF Account
  <2>. HIDE DEF old
  <2>4. /\ Revoked(old) \in Account /\ Revoked(old).role = users[n].role
        /\ Revoked(old).status = users[n].status
    BY <2>2, <2>3, RevokedRow DEF MayRevoke
  <2>. QED  BY <2>2, <2>4, HarmlessLoss
<1>2. CASE \E boss \in Ids \cup {Nobody} : EditUser(r, n, boss)
  <2>1. PICK boss \in Ids \cup {Nobody} : EditUser(r, n, boss)
    BY <1>2
  <2>. DEFINE row == [users[n] EXCEPT !.boss = boss]
  <2>2. Exists(n) /\ Puts(n, row)
    BY <2>1 DEF EditUser, MayActOn
  <2>3. row \in Account /\ row.role = users[n].role /\ row.status = users[n].status
    BY <1>a, <2>2 DEF Account
  <2>. HIDE DEF row
  <2>. QED  BY <2>2, <2>3, HarmlessLoss
<1>3. CASE Deactivate(r, n)
  <2>. DEFINE old == [users[n] EXCEPT !.status = "inactive"]
  <2>1. /\ MayActOn(r, n) /\ NotOneself(r, n) /\ Done(r) /\ MayRevoke(n)
        /\ Exists(n) /\ Puts(n, Revoked(old))
    BY <1>3 DEF Deactivate, MayActOn
  <2>2. old \in Account /\ old.version = users[n].version
    BY <1>a, <2>1 DEF Account, Statuses
  <2>. HIDE DEF old
  <2>3. Revoked(old) \in Account
    BY <2>1, <2>2, RevokedRow DEF MayRevoke
  <2>. QED  BY <2>1, <2>3, OthersStand, DeskLoss
<1>4. CASE Reactivate(r, n) \/ ApproveRegistration(r, n)
  <2>. DEFINE row == [users[n] EXCEPT !.status = "active"]
  <2>1. Puts(n, row)
    BY <1>4 DEF Reactivate, ApproveRegistration
  <2>2. Exists(n)
    BY <1>4, AbsentIsNone DEF Reactivate, MayActOn, ApproveRegistration, MayDecide, Waiting
  <2>3. row \in Account /\ row.role = users[n].role /\ row.status = "active"
    BY <1>a, <2>2 DEF Account, Statuses
  <2>. HIDE DEF row
  <2>. QED  BY <2>1, <2>3, HarmlessLoss
<1>5. CASE DeleteUser(r, n)
  <2>1. /\ MayActOn(r, n) /\ NotOneself(r, n) /\ Done(r)
        /\ users' = [Released(users, n) EXCEPT ![n] = Absent]
    BY <1>5 DEF DeleteUser
  <2>2. Beside(n)
    BY <2>1, OthersStand
  <2>. QED  BY <2>1, <2>2, DeskLoss
<1>6. CASE RejectRegistration(r, n)
  <2>1. Puts(n, Absent) /\ ~IsHead(n)
    BY <1>6 DEF RejectRegistration, MayDecide, IsHead, Waiting
  <2>. QED  BY <2>1, HarmlessLoss
<1>7. CASE \E role \in AssignableRoles : ChangeUserRole(r, n, role)
  <2>1. PICK role \in AssignableRoles : ChangeUserRole(r, n, role)
    BY <1>7
  <2>. DEFINE old == [users[n] EXCEPT !.role = role,
                                      !.boss = IF role = "worker" THEN @ ELSE Nobody]
  <2>2. /\ MayActOn(r, n) /\ NotOneself(r, n) /\ Done(r) /\ MayRevoke(n) /\ Exists(n)
        /\ users' = [(IF users[n].role = "moallem" THEN Released(users, n) ELSE users)
                        EXCEPT ![n] = Revoked(old)]
    BY <2>1 DEF ChangeUserRole, MayActOn, RoleWritten
  <2>3. old \in Account /\ old.version = users[n].version
    BY <1>a, <2>2 DEF Account, KnownRoles
  <2>. HIDE DEF old
  <2>4. Revoked(old) \in Account
    BY <2>2, <2>3, RevokedRow DEF MayRevoke
  <2>5. Puts(n, Revoked(old)) \/ users' = [Released(users, n) EXCEPT ![n] = Revoked(old)]
    BY <2>2 DEF Puts
  <2>6. Beside(n)
    BY <2>4, <2>5, OthersStand
  <2>. QED  BY <2>2, <2>6, DeskLoss
<1>8. CASE AddUser(r, n)
  <2>1. PICK p \in People, role \in AssignableRoles, password \in Passwords :
             NewAccount(n, p, role, "active", password, Nobody)
    BY <1>8 DEF AddUser
  <2>. DEFINE row == [role |-> role, status |-> "active", version |-> 0, password |-> password,
                      boss |-> Nobody, person |-> p]
  <2>2. row \in Account
    BY SignInAssumption DEF Account, Statuses, KnownRoles
  <2>3. ~Exists(n) /\ Puts(n, row)
    BY <1>8, <2>1 DEF AddUser, NewAccount
  <2>4. ~IsHead(n)
    BY <2>3 DEF IsHead, Exists, Absent
  <2>. HIDE DEF row
  <2>. QED  BY <2>2, <2>3, <2>4, HarmlessLoss
<1>. QED  BY <1>1, <1>2, <1>3, <1>4, <1>5, <1>6, <1>7, <1>8 DEF DeskStep

\* The deployment loses its last head administrator to an own request, to the developer, or to a
\* request that was let in while another was one, never to an administrator.
THEOREM LastHeadIsKeptFromAdministrators == Spec => LastHeadIsHardToLose
<1>1. TypeOK /\ [Next]_vars => [Loss]_vars
  <2>. SUFFICES ASSUME TypeOK, Next PROVE Loss
    OBVIOUS
  <2>. QED  BY OwnStepLoss, DeskStepLoss, DeveloperStepLoss, UnguardedLoss DEF Next
<1>2. Spec => [][Loss]_vars
  BY <1>1, TypesHold, PTL DEF Spec
<1>. QED  BY <1>2, PTL DEF LastHeadIsHardToLose, Loss
=============================================================================
