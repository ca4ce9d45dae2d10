------------------------------- MODULE SignIn -------------------------------
(***************************************************************************)
(* Sessions and the accounts they act on (backend/security.py, the sign-in    *)
(* and the account desk of main.py, the session lever of developer.py).        *)
(*                                                                          *)
(* A session is a signed token and stored nowhere: it is accepted while the    *)
(* version it was minted at is its account's.  Every authenticated request     *)
(* passes the guard, which reads the account; between the guard and the       *)
(* handler the event loop goes on (the role guard runs on a thread), so a      *)
(* handler acts with the identity, the version and the role the guard read.    *)
(* A handler itself awaits nothing and is one action.                          *)
(*                                                                          *)
(* The developer's account is a row like the others.  A tool run by hand makes *)
(* it (FirstUsers), no request gives or takes its role, and its requests pass  *)
(* every guard (require_role).                                               *)
(***************************************************************************)
EXTENDS Naturals, FiniteSets

CONSTANTS
    Ids,            \* account numbers
    People,         \* who may come to have an account: users.biometric_id, never used twice
    Nobody,         \* no account, no supervisor
    Passwords,
    Veterans,       \* numbers with attendance records, whose rows are never deleted
    FirstUsers,     \* the accounts of the beginning
    Requests,       \* authenticated requests in flight at once
    MaxVersion,     \* bound: revocations per account
    MaxSessions     \* bound: sessions ever minted

Waiting == "pending_approval"
Statuses == {Waiting, "active", "inactive"}
AdminRoles == {"admin", "head_admin"}
WorkforceRoles == {"worker", "moallem", "off_office"}
AssignableRoles == WorkforceRoles \cup AdminRoles
Developer == "developer"
KnownRoles == AssignableRoles \cup {Developer}

Absent ==
    [role |-> "none", status |-> "none", version |-> 0, password |-> Nobody, boss |-> Nobody,
     person |-> Nobody]
Account ==
    [role: KnownRoles, status: Statuses, version: 0 .. MaxVersion, password: Passwords,
     boss: Ids \cup {Nobody}, person: People]

\* What a token says, and which sign-in it goes back to: whose account, and with which password
Session ==
    [id: Ids, version: 0 .. MaxVersion, readonly: BOOLEAN, person: People, password: Passwords]

\* A request past its guard: the token it presented and the role that was read
Idle == [stage |-> "idle"]
Admitted == [stage: {"admitted"}, by: Session, role: KnownRoles]

ASSUME SignInAssumption ==
    /\ Nobody \notin Ids /\ Nobody \notin People /\ Nobody \notin Passwords
    /\ Veterans \subseteq Ids
    /\ MaxVersion \in Nat /\ MaxSessions \in Nat
    /\ FirstUsers \in [Ids -> Account \cup {Absent}]
    /\ \A n, m \in Ids : FirstUsers[n].person = FirstUsers[m].person =>
           n = m \/ FirstUsers[n] = Absent
    /\ \A n \in Ids : FirstUsers[n].boss = Nobody

VARIABLES
    users,          \* the users rows
    sessions,       \* every token that was minted
    requests        \* what is between its guard and its handler
vars == <<users, sessions, requests>>

Init ==
    /\ users = FirstUsers
    /\ sessions = {}
    /\ requests = [r \in Requests |-> Idle]

Exists(n) == users[n] # Absent

-----------------------------------------------------------------------------
(* Tokens                                                                   *)

\* get_current_user: the row is there and its version is the token's.  The status is not asked.
Accepted(t) == Exists(t.id) /\ users[t.id].version = t.version

Mint(t) ==
    /\ Cardinality(sessions \cup {t}) <= MaxSessions
    /\ sessions' = sessions \cup {t}

TokenOf(n, readonly) ==
    [id |-> n, version |-> users[n].version, readonly |-> readonly, person |-> users[n].person,
     password |-> users[n].password]

\* Whoever knows the password; an applicant may sign in too
Login(n) ==
    /\ users[n].status \in {"active", Waiting}
    /\ Mint(TokenOf(n, FALSE))
    /\ UNCHANGED <<users, requests>>

\* What is below changes something, which a read-only session may not
Admit(r, t) ==
    /\ requests[r] = Idle
    /\ Accepted(t) /\ ~t.readonly
    /\ requests' = [requests EXCEPT ![r] =
                       [stage |-> "admitted", by |-> t, role |-> users[t.id].role]]
    /\ UNCHANGED <<users, sessions>>

Done(r) == requests' = [requests EXCEPT ![r] = Idle]

\* Refused by the handler, or a request that changes nothing here
Refuse(r) ==
    /\ requests[r] # Idle
    /\ Done(r)
    /\ UNCHANGED <<users, sessions>>

\* Broken on purpose, for the mutation checks: the version is the row's when the token is minted.
RefreshFromRow(r) ==
    /\ requests[r] # Idle
    /\ Exists(requests[r].by.id)
    /\ Mint([requests[r].by EXCEPT !.version = users[requests[r].by.id].version])
    /\ Done(r)
    /\ UNCHANGED users

\* The new token has the version the guard read, and differs from the one presented in its
\* expiry only.
Refresh(r) ==
    /\ requests[r] # Idle
    /\ Mint(requests[r].by)
    /\ Done(r)
    /\ UNCHANGED users

-----------------------------------------------------------------------------
(* Writing a row                                                            *)

\* UPDATE users SET ..., token_version = token_version + 1
Revoked(row) == [row EXCEPT !.version = @ + 1]
MayRevoke(n) == users[n].version < MaxVersion

\* Whoever reported to the account is released
Released(table, n) ==
    [m \in Ids |-> IF table[m].boss = n THEN [table[m] EXCEPT !.boss = Nobody] ELSE table[m]]

Puts(n, row) == users' = [users EXCEPT ![n] = row]

Fresh(p) ==
    /\ \A n \in Ids : users[n].person # p
    /\ \A t \in sessions : t.person # p

\* _moallem_assignment, _moallem_choice: nobody, or an active moallem for a worker
MayReport(n, role, boss) ==
    \/ boss = Nobody
    \/ /\ role = "worker" /\ boss \in Ids \ {n}
       /\ users[boss].role = "moallem" /\ users[boss].status = "active"

NewAccount(n, p, role, status, password, boss) ==
    /\ Fresh(p)
    /\ Puts(n, [role |-> role, status |-> status, version |-> 0, password |-> password,
                boss |-> boss, person |-> p])

\* The public form
SubmitRegistration(n) ==
    /\ ~Exists(n)
    /\ \E p \in People, role \in WorkforceRoles, password \in Passwords, boss \in Ids \cup {Nobody} :
           /\ MayReport(n, role, boss)
           /\ NewAccount(n, p, role, Waiting, password, boss)
    /\ UNCHANGED <<sessions, requests>>

-----------------------------------------------------------------------------
(* One's own account                                                        *)

\* Whoever holds the session and knows the password of now
ChangeOwnPassword(r, password) ==
    LET n == requests[r].by.id IN
    /\ requests[r] # Idle
    /\ Exists(n) /\ MayRevoke(n)
    /\ Puts(n, Revoked([users[n] EXCEPT !.password = password]))
    /\ Done(r)
    /\ UNCHANGED sessions

\* With records the row is kept without the person, without any it goes
CloseOwnAccount(r) ==
    LET n == requests[r].by.id IN
    /\ requests[r] # Idle
    /\ Exists(n)
    /\ IF n \in Veterans
       THEN /\ MayRevoke(n)
            /\ users' = [Released(users, n) EXCEPT ![n] =
                            Revoked([users[n] EXCEPT !.status = "inactive", !.boss = Nobody])]
       ELSE users' = [Released(users, n) EXCEPT ![n] = Absent]
    /\ Done(r)
    /\ UNCHANGED sessions

-----------------------------------------------------------------------------
(* The account desk                                                         *)

\* admin_only and developer_only.  The developer satisfies every guard, and the actor's role is the
\* one the guard read.
AdminOnly(r) == requests[r] # Idle /\ requests[r].role \in AdminRoles \cup {Developer}
DeveloperOnly(r) == requests[r] # Idle /\ requests[r].role = Developer

\* _guard_standard_admin: no administrator reaches over a peer; heads and the developer reach anybody
MayActOn(r, n) ==
    /\ AdminOnly(r)
    /\ Exists(n)
    /\ requests[r].role = "admin" => users[n].role \notin AdminRoles

MayGrant(r, role) == requests[r].role = "admin" => role \notin AdminRoles

\* Broken on purpose, for the mutation checks: one's own account is like any other.
AnyAccount(r, n) == TRUE

\* _refuse_self_account
NotOneself(r, n) == n # requests[r].by.id

AddUser(r, n) ==
    /\ AdminOnly(r) /\ ~Exists(n)
    /\ \E p \in People, role \in AssignableRoles, password \in Passwords :
           /\ MayGrant(r, role)
           /\ NewAccount(n, p, role, "active", password, Nobody)
    /\ Done(r)
    /\ UNCHANGED sessions

EditPassword(r, n, password) ==
    /\ MayActOn(r, n) /\ MayRevoke(n)
    /\ Puts(n, Revoked([users[n] EXCEPT !.password = password]))
    /\ Done(r)
    /\ UNCHANGED sessions

\* Of what edit_user writes, the supervisor
EditUser(r, n, boss) ==
    /\ MayActOn(r, n)
    /\ MayReport(n, users[n].role, boss)
    /\ Puts(n, [users[n] EXCEPT !.boss = boss])
    /\ Done(r)
    /\ UNCHANGED sessions

\* An applicant counts as deactivated already
Deactivate(r, n) ==
    /\ MayActOn(r, n) /\ NotOneself(r, n)
    /\ users[n].status = "active" /\ MayRevoke(n)
    /\ Puts(n, Revoked([users[n] EXCEPT !.status = "inactive"]))
    /\ Done(r)
    /\ UNCHANGED sessions

\* The version stays: what was revoked stays revoked
Reactivate(r, n) ==
    /\ MayActOn(r, n)
    /\ users[n].status # "active"
    /\ Puts(n, [users[n] EXCEPT !.status = "active"])
    /\ Done(r)
    /\ UNCHANGED sessions

\* Broken on purpose, for the mutation checks: the crew keeps a supervisor who is none any more.
RoleKeepingCrew(n, role) ==
    Puts(n, Revoked([users[n] EXCEPT !.role = role,
                                     !.boss = IF role = "worker" THEN @ ELSE Nobody]))

\* Only a worker reports to somebody, and only to a moallem
RoleWritten(n, role) ==
    users' = [(IF users[n].role = "moallem" THEN Released(users, n) ELSE users) EXCEPT ![n] =
                 Revoked([users[n] EXCEPT !.role = role,
                                          !.boss = IF role = "worker" THEN @ ELSE Nobody])]

ChangeUserRole(r, n, role) ==
    /\ MayActOn(r, n) /\ NotOneself(r, n) /\ MayGrant(r, role)
    /\ users[n].role \notin {role, Developer} /\ MayRevoke(n)
    /\ RoleWritten(n, role)
    /\ Done(r)
    /\ UNCHANGED sessions

DeleteUser(r, n) ==
    /\ MayActOn(r, n) /\ NotOneself(r, n)
    /\ n \notin Veterans
    /\ users' = [Released(users, n) EXCEPT ![n] = Absent]
    /\ Done(r)
    /\ UNCHANGED sessions

MayDecide(r, n) ==
    /\ AdminOnly(r)
    /\ users[n].status = Waiting

ApproveRegistration(r, n) ==
    /\ MayDecide(r, n) /\ users[n].role \in WorkforceRoles
    /\ Puts(n, [users[n] EXCEPT !.status = "active"])
    /\ Done(r)
    /\ UNCHANGED sessions

RejectRegistration(r, n) ==
    /\ MayDecide(r, n)
    /\ Puts(n, Absent)
    /\ Done(r)
    /\ UNCHANGED sessions

-----------------------------------------------------------------------------
(* The developer's levers on sessions                                       *)

\* The developer looks at an account as its owner sees it
Impersonate(r, n) ==
    /\ DeveloperOnly(r)
    /\ users[n].status = "active" /\ users[n].role \notin {Developer, "head_admin"}
    /\ Mint(TokenOf(n, TRUE))
    /\ Done(r)
    /\ UNCHANGED users

\* The developer's own account is not spared
RevokeUserSessions(r, n) ==
    /\ DeveloperOnly(r)
    /\ users[n].status = "active" /\ MayRevoke(n)
    /\ Puts(n, Revoked(users[n]))
    /\ Done(r)
    /\ UNCHANGED sessions

-----------------------------------------------------------------------------
OwnStep(r) ==
    \/ \E t \in sessions : Admit(r, t)
    \/ Refuse(r) \/ Refresh(r) \/ CloseOwnAccount(r)
    \/ \E password \in Passwords : ChangeOwnPassword(r, password)

DeskStep(r, n) ==
    \/ \E password \in Passwords : EditPassword(r, n, password)
    \/ \E boss \in Ids \cup {Nobody} : EditUser(r, n, boss)
    \/ AddUser(r, n) \/ Deactivate(r, n) \/ Reactivate(r, n) \/ DeleteUser(r, n)
    \/ ApproveRegistration(r, n) \/ RejectRegistration(r, n)
    \/ \E role \in AssignableRoles : ChangeUserRole(r, n, role)

DeveloperStep(r, n) == Impersonate(r, n) \/ RevokeUserSessions(r, n)

Unguarded(n) == Login(n) \/ SubmitRegistration(n)

Next ==
    \/ \E r \in Requests : OwnStep(r)
    \/ \E r \in Requests, n \in Ids : DeskStep(r, n) \/ DeveloperStep(r, n)
    \/ \E n \in Ids : Unguarded(n)

Spec == Init /\ [][Next]_vars

-----------------------------------------------------------------------------
(* What the sign-in promises                                                *)

\* Types, that a person has one account, and that a session nobody minted is nobody's.
TypeOK ==
    /\ users \in [Ids -> Account \cup {Absent}]
    /\ sessions \subseteq Session
    /\ requests \in [Requests -> Admitted \cup {Idle}]
    /\ \A n, m \in Ids : users[n].person = users[m].person => n = m \/ ~Exists(n)
    /\ \A r \in Requests : requests[r] # Idle => requests[r].by \in sessions

\* A session its own account still accepts is of an account that is in use and, unless it can only
\* read, was opened with the password the account has now: whatever revokes a session, no refresh,
\* sign-in or reactivation that raced it brings one back (refresh_session: "It deliberately does not
\* extend a revoked session").
SessionsAreCurrent ==
    \A t \in sessions :
        Accepted(t) /\ users[t.id].person = t.person =>
            /\ users[t.id].status # "inactive"
            /\ t.readonly \/ t.password = users[t.id].password

\* Every supervisor on the roster is an account in that role, and who reports to one is a worker,
\* however roles change and accounts go (_moallem_assignment: "an assignment that resolves to nobody
\* is worse than no assignment").
AssignmentResolves ==
    \A n \in Ids : Exists(n) /\ users[n].boss # Nobody =>
        /\ users[n].role = "worker"
        /\ users[users[n].boss].role = "moallem"

IsHead(n) == users[n].role = "head_admin" /\ users[n].status = "active"
Heads == {n \in Ids : IsHead(n)}

\* The last head administrator leaves by closing the own account, falls to the developer, or falls
\* to another whose request was let in as a head administrator's and handled when that was over.  An
\* administrator or anybody below cannot take the role from the deployment, whatever was handled
\* between the guard and the write, and no desk request is turned on the actor's own account
\* (_guard_standard_admin, _refuse_self_account).
LastHeadIsHardToLose ==
    [][Heads # {} /\ Heads' = {} =>
         \E r \in Requests, n \in Heads :
            /\ requests[r] # Idle /\ requests'[r] = Idle
            /\ \/ requests[r].by.id = n /\ (~Exists(n)' \/ users'[n].status = "inactive")
               \/ requests[r].by.id # n /\ requests[r].role = Developer
               \/ requests[r].by.id \notin Heads /\ requests[r].role = "head_admin"]_vars

-----------------------------------------------------------------------------
(* What the code's own words promise and it does not do (README)             *)

\* "The console cannot be left without a head admin [...] the only account that could be the last one
\* is the account you are signed in as" (delete_user): a head may close the own account, two may act
\* on each other at once, and the developer is let in as well.
HeadAdminRemains == Heads # {}

\* "That makes a deleted user lose access immediately" (security.py), also when the number has been
\* given to somebody else.
SessionIsItsPersons ==
    \A t \in sessions : Accepted(t) => users[t.id].person = t.person

\* "A deactivated supervisor is refused by name, because storing it would leave the roster showing
\* an assignment that resolves to nobody" (registrations._moallem_choice).
SupervisorIsInWork ==
    \A n \in Ids : Exists(n) /\ users[n].boss # Nobody => users[users[n].boss].status = "active"
=============================================================================
