----------------------------- MODULE Onboarding -----------------------------
(***************************************************************************)
(* Accounts and everything that files a face under them, together: the        *)
(* public form, the desk, the links, the background job and the sweep.         *)
(***************************************************************************)
EXTENDS Enrolment, BulkEnrol

vars == <<users, templates, waiting, refused, links, work, job, items, runner, crashes>>

Init == AccountsInit /\ WorkInit /\ BulkInit

Next ==
    \/ DeskStep /\ UNCHANGED work /\ UNCHANGED bulkVars
    \/ RequestStep /\ UNCHANGED bulkVars
    \/ BulkStep /\ UNCHANGED work

Spec == Init /\ [][Next]_vars

\* The sweeper's timer keeps firing and files grow old; whoever uploaded a roster runs its job again
\* until it is over (python -m enrollment --job).  Nothing makes anybody do anything else.
Fairness ==
    /\ WF_vars(SweepFaces(Orphans) /\ UNCHANGED work /\ UNCHANGED bulkVars)
    /\ \A r \in Runners : WF_vars((Claim(r) \/ RunnerStep(r)) /\ UNCHANGED work)

FairSpec == Spec /\ Fairness

\* Types, and two facts about what is in flight: a face is only ever filed under somebody's id, and
\* a link is used at most once too often per enrolment that was in flight with it.
TypeOK ==
    /\ users \in [Numbers -> Account]
    /\ templates \in [People -> People \cup {Nobody}]
    /\ waiting \in [Numbers -> People \cup {Nobody}]
    /\ refused \subseteq People
    /\ links \in [Links -> [number: 0 .. Ceiling, face: People \cup {Nobody},
                            uses: 0 .. (MaxUses + Cardinality(Slots)), live: BOOLEAN]]
    /\ work \in [People \cup Slots -> Task]
    /\ job \in Job /\ items \in [Items -> Item] /\ runner \in [Runners -> Runner]
    /\ crashes \in 0 .. MaxCrashes
    /\ \A t \in People \cup Slots : work[t].stage = "filing" => work[t].bid \in People
    /\ \A r \in Runners : runner[r].at = "filing" => runner[r].bid \in People

\* The next holder of a number cannot be enrolled by a link that was sent to the one before, unless
\* that one was refused (delete_user and deactivation take the links with them,
\* reject_registration does not).
LinkFollowsItsPerson ==
    \A l \in Links : Usable(l) /\ Taken(links[l].number) =>
        users[links[l].number].of = links[l].face \/ links[l].face \in refused

\* No sweep, refusal or late enrolment takes the face away from an account that works: it goes with
\* the access, or the account (_sweep_biometric_files).
WorkingFaceIsKept ==
    [][\A p \in People :
           /\ Holds(p, "active") /\ Holds(p, "active")'
           /\ templates[p] # Nobody
           => templates'[p] # Nobody]_vars

\* An applicant is announced to the administrators, in whatever order the number's accounts were
\* issued, approved and refused (reject_registration: the notice goes with the application).  Only an
\* account that was deleted, waiting or let in, leaves a notice that keeps out the next one's:
\* whoever applies after it waits unannounced until somebody is refused on the number.
ApplicantIsAnnounced ==
    \A n \in Applications :
        /\ waiting[n] # Nobody
        /\ \/ waiting[n] = users[n].of
           \/ waiting[n] \notin refused /\ ~HasAccount(waiting[n])

\* A face nobody's working account owns does not stay: not that of a deactivated account which an
\* enrolment in flight filed again, nor that of a deleted one, nor what a refused application's
\* thread wrote too late (retention.py).
LeftoverFaceGoes ==
    \A p \in People :
        templates[p] # Nobody /\ ~Holds(p, "active")
            ~> templates[p] = Nobody \/ Holds(p, "active")

-----------------------------------------------------------------------------
(* The background job                                                       *)

\* What the job reports lags behind what it decided by what is being counted, and by what a runner
\* that died had not counted yet (process_job: an outcome, then its counter).
CountsLagTheOutcomes ==
    LET decided == Cardinality({i \in Items : Decided(i)})
        counting == Cardinality({r \in Runners : runner[r].at = "counting"})
    IN /\ job.processed + counting <= decided
       /\ decided <= job.processed + counting + crashes

\* A job that is resumed comes to an end, and by then every row of its roster is decided, whoever died
\* and whichever account went meanwhile (process_job: "resumable"); unless it goes wrong at every
\* resume, as with an archive that cannot be opened.
JobEnds ==
    <>[][~ \E r \in Runners : GoesWrong(r)]_vars =>
        (job.status = "queued" ~> (job.status \in Over /\ \A i \in Items : Decided(i)))

-----------------------------------------------------------------------------
(* What the code's own words promise and it does not do (README)             *)

\* "One notice per waiting account" (PENDING_NOTICE_PREFIX): a deleted account's stays under the
\* number, and the next one's is ignored (INSERT OR IGNORE).
EveryApplicantIsAnnounced == \A n \in Applications : waiting[n] = users[n].of

\* An applicant who waits keeps the face that was filed ("The account, the id and the face all exist
\* already", approve_registration); the sweep takes it.
WaitingFaceIsKept ==
    [][\A p \in People :
           /\ Holds(p, Waiting) /\ Holds(p, Waiting)'
           /\ templates[p] # Nobody
           => templates'[p] # Nobody]_vars
=============================================================================
