----------------------------- MODULE BulkEnrol -----------------------------
(***************************************************************************)
(* A roster with a photograph per row, enrolled in the background             *)
(* (enrollment.bulk_enroll, process_job, _process_item).                      *)
(*                                                                          *)
(* A runner is a thread or the command line.  Every item's outcome is          *)
(* committed when it is known and counted in a transaction after that; what     *)
(* a dead runner leaves, another claims again.                                *)
(***************************************************************************)
EXTENDS Accounts

CONSTANTS
    Runners,        \* threads and processes that may run the job
    Items,          \* enrollment_job_items, by id
    MaxCrashes      \* bound: how often runners die

ASSUME BulkAssumption ==
    /\ Items \subseteq Nat /\ IsFiniteSet(Items)
    /\ IsFiniteSet(Runners)
    /\ MaxCrashes \in Nat

VARIABLES
    job,            \* the enrollment_jobs row
    items,          \* its items
    runner,         \* what each runner has in its memory
    crashes         \* how many runners have died
bulkVars == <<job, items, runner, crashes>>

Outcomes == {"succeeded", "failed", "skipped"}
Over == {"done", "done_with_errors"}

Job ==
    [status: {"none", "queued", "running", "failed"} \cup Over, processed: Nat, errors: Nat]
Item ==
    [status: {"queued", "processing"} \cup Outcomes, number: 0 .. Ceiling,
     face: People \cup {Nobody}]

Off == [at |-> "off", todo |-> {}, item |-> 0, bid |-> Nobody]
Runner ==
    [at: {"off", "claimed", "next", "scoring", "resolving", "filing", "recording", "counting"},
     todo: SUBSET Items, item: Items \cup {0}, bid: People \cup {Nobody}]

BulkInit ==
    /\ job = [status |-> "none", processed |-> 0, errors |-> 0]
    /\ items = [i \in Items |-> [status |-> "queued", number |-> 0, face |-> Nobody]]
    /\ runner = [r \in Runners |-> Off]
    /\ crashes = 0

Decided(i) == items[i].status \in Outcomes
Number(r) == items[runner[r].item].number

\* The roster names accounts that exist, each once, and the photographs are theirs
Upload ==
    /\ job.status = "none" /\ Items # {}
    /\ \E numbers \in [Items -> Numbers] :
           /\ \A i, k \in Items : numbers[i] = numbers[k] => i = k
           /\ \A i \in Items : Taken(numbers[i])
           /\ items' = [i \in Items |->
                  [status |-> "queued", number |-> numbers[i], face |-> users[numbers[i]].of]]
    /\ job' = [job EXCEPT !.status = "queued"]
    /\ UNCHANGED <<runner, crashes>> /\ UNCHANGED accountVars

\* Broken on purpose, for the mutation checks: a resumed job does its failures again.
ClaimFailuresToo(r) ==
    /\ runner[r] = Off
    /\ job.status \notin {"none"} \cup Over
    /\ items' = [i \in Items |-> IF items[i].status \in {"succeeded", "skipped"} THEN items[i]
                                 ELSE [items[i] EXCEPT !.status = "processing"]]
    /\ job' = [job EXCEPT !.status = "running"]
    /\ runner' = [runner EXCEPT ![r].at = "claimed"]
    /\ UNCHANGED crashes /\ UNCHANGED accountVars

\* Whatever is not decided is put back and claimed in one transaction, also from a runner that lives
Claim(r) ==
    /\ runner[r] = Off
    /\ job.status \notin {"none"} \cup Over
    /\ items' = [i \in Items |-> IF Decided(i) THEN items[i]
                                 ELSE [items[i] EXCEPT !.status = "processing"]]
    /\ job' = [job EXCEPT !.status = "running"]
    /\ runner' = [runner EXCEPT ![r].at = "claimed"]
    /\ UNCHANGED crashes /\ UNCHANGED accountVars

ReadItems(r) ==
    /\ runner[r].at = "claimed"
    /\ runner' = [runner EXCEPT ![r].at = "next",
                                ![r].todo = {i \in Items : items[i].status = "processing"}]
    /\ UNCHANGED <<job, items, crashes>> /\ UNCHANGED accountVars

Goes(r, at) == runner' = [runner EXCEPT ![r].at = at]

NextItem(r) ==
    /\ runner[r].at = "next" /\ runner[r].todo # {}
    /\ runner' = [runner EXCEPT ![r].at = "scoring", ![r].item = Min(runner[r].todo)]
    /\ UNCHANGED <<job, items, crashes>> /\ UNCHANGED accountVars

\* finish() of _process_item, in a transaction of its own
Decide(r, outcome) ==
    /\ items' = [items EXCEPT ![runner[r].item].status = outcome]
    /\ Goes(r, "counting")
    /\ UNCHANGED <<job, crashes>> /\ UNCHANGED accountVars

\* The account is gone, or the photograph is not there, not readable, or has no face: failed;
\* refused by the liveness policy, or a dry run: skipped
TurnDown(r) ==
    /\ runner[r].at = "scoring"
    /\ \/ Decide(r, "failed")
       \/ Taken(Number(r)) /\ Decide(r, "skipped")

Embed(r) ==
    /\ runner[r].at = "scoring" /\ Taken(Number(r))
    /\ Goes(r, "resolving")
    /\ UNCHANGED <<job, items, crashes>> /\ UNCHANGED accountVars

FindTheirId(r) ==
    /\ runner[r].at = "resolving" /\ Taken(Number(r))
    /\ runner' = [runner EXCEPT ![r].at = "filing", ![r].bid = users[Number(r)].of]
    /\ UNCHANGED <<job, items, crashes>> /\ UNCHANGED accountVars

\* Broken on purpose, for the mutation checks: a run that broke off counts as over.
BreakOffAsOver(r) ==
    /\ job' = [job EXCEPT !.status = "done_with_errors"]
    /\ runner' = [runner EXCEPT ![r] = Off]
    /\ UNCHANGED <<items, crashes>> /\ UNCHANGED accountVars

\* What is not caught for an item ends the whole run, whose items stay claimed until the job is resumed
BreakOff(r) ==
    /\ job' = [job EXCEPT !.status = "failed"]
    /\ runner' = [runner EXCEPT ![r] = Off]
    /\ UNCHANGED <<items, crashes>> /\ UNCHANGED accountVars

\* The account went meanwhile, and write_reference finds no id
AccountWent(r) == runner[r].at = "resolving" /\ ~Taken(Number(r)) /\ BreakOff(r)

\* An archive that nobody looked into at the upload cannot be opened, the liveness model raises, or
\* the template or the thumbnail after it cannot be written.  Nothing says it goes better next time.
GoesWrong(r) ==
    /\ \/ runner[r].at \in {"claimed", "filing", "recording"}
       \/ runner[r].at = "scoring" /\ Taken(Number(r))
    /\ BreakOff(r)

FileTheirFace(r) ==
    /\ runner[r].at = "filing"
    /\ templates' = [templates EXCEPT ![runner[r].bid] = items[runner[r].item].face]
    /\ Goes(r, "recording")
    /\ UNCHANGED <<job, items, crashes>> /\ UNCHANGED <<users, waiting, refused, links>>

Succeed(r) == runner[r].at = "recording" /\ Decide(r, "succeeded")

Count(r) ==
    /\ runner[r].at = "counting"
    /\ job' = [job EXCEPT !.processed = @ + 1,
                          !.errors = IF items[runner[r].item].status = "failed" THEN @ + 1 ELSE @]
    /\ runner' = [runner EXCEPT ![r] = [Off EXCEPT !.at = "next",
                                                   !.todo = runner[r].todo \ {runner[r].item}]]
    /\ UNCHANGED <<items, crashes>> /\ UNCHANGED accountVars

FinishJob(r) ==
    /\ runner[r].at = "next" /\ runner[r].todo = {}
    /\ job' = [job EXCEPT !.status = IF job.errors = 0 THEN "done" ELSE "done_with_errors"]
    /\ runner' = [runner EXCEPT ![r] = Off]
    /\ UNCHANGED <<items, crashes>> /\ UNCHANGED accountVars

RunnerDies(r) ==
    /\ runner[r] # Off /\ crashes < MaxCrashes
    /\ runner' = [runner EXCEPT ![r] = Off]
    /\ crashes' = crashes + 1
    /\ UNCHANGED <<job, items>> /\ UNCHANGED accountVars

RunnerStep(r) ==
    \/ ReadItems(r) \/ NextItem(r) \/ TurnDown(r) \/ Embed(r) \/ FindTheirId(r)
    \/ FileTheirFace(r) \/ Succeed(r) \/ Count(r) \/ FinishJob(r)
    \/ AccountWent(r) \/ GoesWrong(r)

BulkStep == Upload \/ \E r \in Runners : Claim(r) \/ RunnerStep(r) \/ RunnerDies(r)
=============================================================================
