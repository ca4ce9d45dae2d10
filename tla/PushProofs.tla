----------------------------- MODULE PushProofs -----------------------------
(***************************************************************************)
(* For every number of workers, browsers, notices and processes, and every    *)
(* limit: types, and a notice that counts as delivered did ring.              *)
(***************************************************************************)
EXTENDS PushDispatch, FiniteSetTheorems, TLAPS

-----------------------------------------------------------------------------
(* Types                                                                    *)

TablesOK ==
    /\ tables \in Tables /\ draft \in Tables
    /\ lock \in Processes \cup {Nobody}
    /\ lock = Nobody => draft = tables

ThreadsOK ==
    /\ threads \in [Processes -> Thread]
    /\ \A p \in Processes :
          threads[p].stage \in {"send", "record"} => threads[p].rows # <<>> /\ threads[p].subs # <<>>

\* The type invariant in two parts that no step disturbs at once but Record and Commit.
LEMMA TypesSplit ==
    TypeOK <=>
        /\ now \in Nat /\ TablesOK /\ ThreadsOK
        /\ rings \in [Notices \X Browsers -> Nat] /\ deaths \in Nat /\ changes \in Nat
BY DEF TypeOK, TablesOK, ThreadsOK

\* Whatever a process reads is a set of tables.
LEMMA ViewType ==
    ASSUME TablesOK, NEW p \in Processes \cup {Nobody}
    PROVE  View(p) \in Tables
BY DEF TablesOK, View

\* A short transaction, and a statement of a long one, leave typed tables.
LEMMA CommitsType ==
    ASSUME TablesOK, NEW new \in Tables, Commits(new)
    PROVE  TablesOK'
BY PushAssumption DEF TablesOK, Commits

\* A statement of a process outside its long transaction, or in it, leaves the columns typed.
LEMMA WritesType ==
    ASSUME TablesOK, NEW p \in Processes, NEW new \in Tables, Writes(p, new)
    PROVE  TablesOK'
BY PushAssumption DEF TablesOK, Writes

\* Tables with other notices, subscriptions or alerts are tables.
LEMMA InboxType ==
    ASSUME NEW t \in Tables, NEW n \in Notices, NEW row \in Notice
    PROVE  [t EXCEPT !.inbox[n] = row] \in Tables
<1>1. [t.inbox EXCEPT ![n] = row] \in [Notices -> Notice]
  BY DEF Tables
<1>. QED  BY <1>1 DEF Tables

\* So do other subscriptions.
LEMMA SubsType ==
    ASSUME NEW t \in Tables, NEW b \in Browsers, NEW row \in Subscription
    PROVE  [t EXCEPT !.subs[b] = row] \in Tables
<1>1. [t.subs EXCEPT ![b] = row] \in [Browsers -> Subscription]
  BY DEF Tables
<1>. QED  BY <1>1 DEF Tables

\* And another alert.
LEMMA ReportedType ==
    ASSUME NEW t \in Tables, NEW moment \in Nat
    PROVE  Reported(t, moment) \in Tables
<1>1. t.alerts \cup {moment} \in SUBSET Nat
  BY DEF Tables
<1>2. [t EXCEPT !.alerts = @ \cup {moment}] \in Tables
  BY <1>1 DEF Tables
<1>. QED  BY <1>2 DEF Reported

\* Moving on to another stage, or to none, keeps the threads typed.
LEMMA NoThreadType ==
    ASSUME ThreadsOK, NEW p \in Processes
    PROVE  /\ [threads EXCEPT ![p] = NoThread] \in [Processes -> Thread]
           /\ Triggered(p) \in [Processes -> Thread]
<1>1. NoThread \in Thread
  BY DEF NoThread, Thread, Answers
<1>2. [threads[p] EXCEPT !.stage = "select"] \in Thread
  BY DEF ThreadsOK, Thread
<1>. QED  BY <1>1, <1>2 DEF ThreadsOK, Triggered

\* The orders of a finite set are sequences over it, and empty if it is.
LEMMA OrderType ==
    ASSUME NEW S, IsFiniteSet(S), NEW f \in SetToSeqs(S)
    PROVE  f \in Seq(S)
<1>1. Cardinality(S) \in Nat
  BY FS_CardinalityType
<1>2. f \in [1 .. Cardinality(S) -> S]
  BY DEF SetToSeqs
<1>. QED  BY <1>1, <1>2

\* What is left of a sequence is not empty unless one element was all of it.
LEMMA NotTheLast ==
    ASSUME NEW S, NEW s \in Seq(S), s # <<>>, Len(s) # 1
    PROVE  Tail(s) # <<>>
<1>1. Len(s) \in Nat /\ Len(s) # 0
  OBVIOUS
<1>2. Len(Tail(s)) = Len(s) - 1
  BY <1>1
<1>3. Len(Tail(s)) # 0
  BY <1>1, <1>2
<1>4. Len(<<>>) = 0
  OBVIOUS
<1>. QED  BY <1>3, <1>4, Zenon

\* Every step that is not of a dispatch keeps the types.
LEMMA OtherTypes ==
    ASSUME TypeOK,
           \/ \E n \in Notices, p \in Processes : WriteNotice(n, p)
           \/ \E n \in Notices : ReadNotice(n)
           \/ \E b \in Browsers : Unsubscribe(b) \/ \E w \in Workers : Subscribe(b, w)
           \/ \E p \in Processes : Die(p)
           \/ WatchBacklog
           \/ Tick
    PROVE  TypeOK'
<1>0. TablesOK /\ ThreadsOK /\ tables \in Tables /\ now \in Nat
  BY TypesSplit DEF TablesOK
<1>1. CASE \E n \in Notices, p \in Processes : WriteNotice(n, p)
  <2>1. PICK n \in Notices, p \in Processes : WriteNotice(n, p)
    BY <1>1
  <2>0. tables.inbox[n] \in Notice /\ now \in Nat
    BY <1>0 DEF Tables
  <2>2. [tables.inbox[n] EXCEPT !.written = TRUE, !.at = now] \in Notice
    BY <2>0, Zenon DEF Notice
  <2>3. [tables EXCEPT !.inbox[n].written = TRUE, !.inbox[n].at = now] =
            [tables EXCEPT !.inbox[n] = [tables.inbox[n] EXCEPT !.written = TRUE, !.at = now]]
    BY <1>0 DEF Tables, Notice
  <2>4. TablesOK'
    BY <1>0, <2>1, <2>2, <2>3, InboxType, CommitsType DEF WriteNotice
  <2>5. threads' \in [Processes -> Thread]
    BY <1>0, <2>1, NoThreadType DEF WriteNotice
  <2>6. \A q \in Processes : threads'[q] = threads[q] \/ threads'[q].stage = "select"
    BY <1>0, <2>1 DEF WriteNotice, ThreadsOK, Triggered, Thread
  <2>7. ThreadsOK'
    BY <1>0, <2>5, <2>6 DEF ThreadsOK
  <2>. QED  BY <2>1, <2>4, <2>7 DEF WriteNotice, TypeOK, TablesOK, ThreadsOK
<1>2. CASE \E n \in Notices : ReadNotice(n)
  <2>1. PICK n \in Notices : ReadNotice(n)
    BY <1>2
  <2>0. tables.inbox[n] \in Notice
    BY <1>0 DEF Tables
  <2>2. [tables.inbox[n] EXCEPT !.read = TRUE] \in Notice
    BY <2>0 DEF Notice
  <2>3. TablesOK'
    BY <1>0, <2>1, <2>2, InboxType, CommitsType DEF ReadNotice
  <2>. QED  BY <2>1, <2>3 DEF ReadNotice, TypeOK, TablesOK
<1>3. CASE \E b \in Browsers : Unsubscribe(b)
  <2>1. PICK b \in Browsers : Unsubscribe(b)
    BY <1>3
  <2>2. [tables.subs[b] EXCEPT !.live = FALSE] \in Subscription
    BY <1>0 DEF Tables, Subscription
  <2>3. TablesOK'
    BY <1>0, <2>1, <2>2, SubsType, CommitsType DEF Unsubscribe
  <2>. QED  BY <2>1, <2>3 DEF Unsubscribe, TypeOK, TablesOK
<1>4. CASE \E b \in Browsers, w \in Workers : Subscribe(b, w)
  <2>1. PICK b \in Browsers, w \in Workers : Subscribe(b, w)
    BY <1>4
  <2>2. [owner |-> w, live |-> TRUE] \in Subscription
    BY DEF Subscription
  <2>3. TablesOK'
    BY <1>0, <2>1, <2>2, SubsType, CommitsType DEF Subscribe
  <2>. QED  BY <2>1, <2>3 DEF Subscribe, TypeOK, TablesOK
<1>5. CASE \E p \in Processes : Die(p)
  <2>1. PICK p \in Processes : Die(p)
    BY <1>5
  <2>2. TablesOK'
    BY <1>0, <2>1 DEF Die, TablesOK
  <2>3. ThreadsOK'
    BY <1>0, <2>1, NoThreadType DEF Die, ThreadsOK, NoThread
  <2>. QED  BY <2>1, <2>2, <2>3 DEF Die, TypeOK, TablesOK, ThreadsOK
<1>6. CASE WatchBacklog
  <2>1. TablesOK'
    BY <1>0, <1>6, ReportedType, CommitsType DEF WatchBacklog
  <2>. QED  BY <1>6, <2>1 DEF WatchBacklog, TypeOK, TablesOK
<1>7. CASE Tick
  BY <1>7 DEF Tick, TypeOK
<1>. QED  BY <1>1, <1>2, <1>3, <1>4, <1>5, <1>6, <1>7

\* A step of a dispatch keeps the types.
LEMMA DispatchTypes ==
    ASSUME TypeOK, NEW p \in Processes, DispatchStep(p)
    PROVE  TypeOK'
<1>. DEFINE T == threads[p]
<1>0. /\ TablesOK /\ ThreadsOK /\ now \in Nat
      /\ T \in Thread /\ View(p) \in Tables
      /\ tables \in Tables
  BY TypesSplit, ViewType DEF TablesOK, ThreadsOK
<1>1. /\ T.rows \in Seq(Notices) /\ T.subs \in Seq(Browsers) /\ T.moment \in Nat
      /\ T.sent \in BOOLEAN /\ T.answer \in Answers
  BY <1>0 DEF Thread
<1>2. /\ T.rows # <<>> => Head(T.rows) \in Notices /\ Tail(T.rows) \in Seq(Notices)
      /\ T.subs # <<>> => Head(T.subs) \in Browsers /\ Tail(T.subs) \in Seq(Browsers)
  BY <1>1
<1>3. CASE Select(p)
  <2>. DEFINE due == {n \in Notices : WorthSending(tables.inbox[n])}
  <2>1. PICK rows \in SetToSeqs(due) : threads' = [threads EXCEPT ![p] =
                [NoThread EXCEPT !.stage = "next", !.moment = now, !.rows = rows]]
    BY <1>3 DEF Select
  <2>2. IsFiniteSet(due)
    BY PushAssumption, FS_Subset
  <2>3. rows \in Seq(Notices)
    <3>1. rows \in Seq(due) /\ due \subseteq Notices
      BY <2>2, OrderType
    <3>. QED  BY <3>1
  <2>4. [NoThread EXCEPT !.stage = "next", !.moment = now, !.rows = rows] \in Thread
    <3>1. <<>> \in Seq(Browsers) /\ "ok" \in Answers /\ now \in Nat
      BY <1>0 DEF Answers
    <3>. QED  BY <2>3, <3>1 DEF NoThread, Thread
  <2>5. ThreadsOK'
    BY <1>0, <2>1, <2>4 DEF ThreadsOK, NoThread
  <2>. QED  BY <1>3, <2>5 DEF Select, TypeOK, ThreadsOK
<1>4. CASE NextNotice(p)
  <2>. DEFINE live == LiveSubs(View(p), Addressee[Head(T.rows)])
  <2>1. PICK subs \in SetToSeqs(live) : threads' = [threads EXCEPT
            ![p].stage = IF subs = <<>> THEN "next" ELSE "send",
            ![p].rows = IF subs = <<>> THEN Tail(@) ELSE @,
            ![p].subs = subs, ![p].sent = FALSE]
    BY <1>4 DEF NextNotice
  <2>2. live \subseteq Browsers /\ IsFiniteSet(live)
    BY PushAssumption, FS_Subset DEF LiveSubs
  <2>3. subs \in Seq(Browsers)
    <3>1. subs \in Seq(live)
      BY <2>2, OrderType
    <3>. QED  BY <2>2, <3>1
  <2>4. T.rows # <<>> /\ Tail(T.rows) \in Seq(Notices)
    BY <1>2, <1>4 DEF NextNotice
  <2>5. [T EXCEPT !.stage = IF subs = <<>> THEN "next" ELSE "send",
                  !.rows = IF subs = <<>> THEN Tail(@) ELSE @,
                  !.subs = subs, !.sent = FALSE] \in Thread
    BY <1>0, <1>1, <2>3, <2>4 DEF Thread
  <2>6. threads' = [threads EXCEPT ![p] =
            [T EXCEPT !.stage = IF subs = <<>> THEN "next" ELSE "send",
                      !.rows = IF subs = <<>> THEN Tail(@) ELSE @,
                      !.subs = subs, !.sent = FALSE]]
    BY <1>0, <2>1 DEF ThreadsOK
  <2>7. ThreadsOK'
    BY <1>0, <2>4, <2>5, <2>6 DEF ThreadsOK, Thread
  <2>. QED  BY <1>4, <2>7 DEF NextNotice, TypeOK, ThreadsOK
<1>5. CASE Send(p)
  <2>1. PICK answer \in Answers :
            /\ threads' = [threads EXCEPT ![p].stage = "record", ![p].answer = answer]
            /\ rings' = IF answer # "ok" THEN rings
                        ELSE [rings EXCEPT ![<<Head(T.rows), Head(T.subs)>>] = @ + 1]
    BY <1>5 DEF Send
  <2>2. T.rows # <<>> /\ T.subs # <<>>
    BY <1>0, <1>5 DEF Send, ThreadsOK
  <2>3. [T EXCEPT !.stage = "record", !.answer = answer] \in Thread
    BY <1>0 DEF Thread
  <2>4. threads' = [threads EXCEPT ![p] = [T EXCEPT !.stage = "record", !.answer = answer]]
    BY <1>0, <2>1 DEF ThreadsOK
  <2>5. ThreadsOK'
    BY <1>0, <2>2, <2>3, <2>4 DEF ThreadsOK, Thread
  <2>6. rings' \in [Notices \X Browsers -> Nat]
    BY <1>2, <2>1, <2>2 DEF TypeOK
  <2>. QED  BY <1>5, <2>5, <2>6 DEF Send, TypeOK, ThreadsOK
<1>6. CASE Record(p)
  <2>. DEFINE n == Head(T.rows)
              sent == T.sent \/ T.answer = "ok"
              last == Len(T.subs) = 1
              subs == IF T.answer = "gone" THEN [View(p).subs EXCEPT ![Head(T.subs)].live = FALSE]
                      ELSE View(p).subs
              inbox == IF last THEN [View(p).inbox EXCEPT ![n] = Settled(@, sent)]
                       ELSE View(p).inbox
              after == [T EXCEPT !.stage = IF last THEN "next" ELSE "send",
                                 !.rows = IF last THEN Tail(@) ELSE @,
                                 !.subs = Tail(@), !.sent = sent]
  <2>1. T.rows # <<>> /\ T.subs # <<>> /\ n \in Notices /\ Head(T.subs) \in Browsers
    BY <1>0, <1>2, <1>6 DEF Record, ThreadsOK
  <2>2. subs \in [Browsers -> Subscription]
    <3>1. View(p).subs \in [Browsers -> Subscription]
      BY <1>0 DEF Tables
    <3>2. [View(p).subs[Head(T.subs)] EXCEPT !.live = FALSE] \in Subscription
      BY <2>1, <3>1 DEF Subscription
    <3>. QED  BY <3>1, <3>2
  <2>3. inbox \in [Notices -> Notice]
    <3>1. View(p).inbox \in [Notices -> Notice]
      BY <1>0 DEF Tables
    <3>2. View(p).inbox[n] \in Notice
      BY <2>1, <3>1
    <3>3. Settled(View(p).inbox[n], sent) \in Notice
      <4>. HIDE DEF sent, n
      <4>1. View(p).inbox[n].attempts + 1 \in Nat
        BY <3>2 DEF Notice
      <4>. QED  BY <3>2, <4>1, Zenon DEF Settled, Notice
    <3>. QED  BY <3>1, <3>3
  <2>4. [View(p) EXCEPT !.subs = subs, !.inbox = inbox] \in Tables
    BY <1>0, <2>2, <2>3 DEF Tables
  <2>5. TablesOK'
    BY <1>0, <1>6, <2>4, WritesType DEF Record
  <2>6. after \in Thread
    BY <1>0, <1>1, <1>2, <2>1 DEF Thread
  <2>7. threads' = [threads EXCEPT ![p] = after]
    BY <1>0, <1>6 DEF Record, ThreadsOK
  <2>8. last \/ Tail(T.subs) # <<>>
    BY <1>1, <2>1, NotTheLast
  <2>9. ThreadsOK'
    BY <1>0, <2>1, <2>6, <2>7, <2>8 DEF ThreadsOK, Thread
  <2>. QED  BY <1>6, <2>5, <2>9 DEF Record, TypeOK, TablesOK, ThreadsOK
<1>7. CASE Commit(p)
  <2>1. Reported(View(p), T.moment) \in Tables
    BY <1>0, <1>1, ReportedType
  <2>2. TablesOK'
    BY <1>0, <1>7, <2>1 DEF Commit, TablesOK
  <2>3. ThreadsOK'
    BY <1>0, <1>7, NoThreadType DEF Commit, ThreadsOK, NoThread
  <2>. QED  BY <1>7, <2>2, <2>3 DEF Commit, TypeOK, TablesOK, ThreadsOK
<1>. QED  BY <1>3, <1>4, <1>5, <1>6, <1>7 DEF DispatchStep

\* The type invariant, for every number of notices, browsers and processes.
THEOREM TypeCorrect == Spec => []TypeOK
<1>1. Init => TypeOK
  BY DEF Init, TypeOK, Tables, Notice, Unwritten, Subscription, NoThread, Thread, Answers
<1>2. TypeOK /\ [Next]_vars => TypeOK'
  <2>1. CASE \E p \in Processes : DispatchStep(p)
    BY <2>1, DispatchTypes
  <2>2. CASE UNCHANGED vars
    BY <2>2 DEF vars, TypeOK
  <2>. QED  BY <2>1, <2>2, OtherTypes DEF Next
<1>. QED  BY <1>1, <1>2, PTL DEF Spec

-----------------------------------------------------------------------------
(* A delivery is a ring                                                     *)

Rung(n) == \E b \in Browsers : rings[<<n, b>>] > 0

\* What is recorded, in the tables or in a draft, and what a dispatch is about to record.
RungInv ==
    /\ \A n \in Notices : tables.inbox[n].delivered \/ draft.inbox[n].delivered => Rung(n)
    /\ \A p \in Processes :
          /\ threads[p].stage \in {"send", "record"} /\ threads[p].sent => Rung(Head(threads[p].rows))
          /\ threads[p].stage = "record" /\ threads[p].answer = "ok" =>
                rings[<<Head(threads[p].rows), Head(threads[p].subs)>>] > 0

\* What nothing but Record changes: who was delivered to, and what a dispatch in the middle of
\* a notice has found out.
QuietStep ==
    /\ rings' = rings
    /\ \A n \in Notices :
          tables'.inbox[n].delivered \/ draft'.inbox[n].delivered =>
              tables.inbox[n].delivered \/ draft.inbox[n].delivered
    /\ \A p \in Processes :
          \/ threads'[p] = threads[p]
          \/ threads'[p].stage \notin {"send", "record"}
          \/ threads'[p].stage = "send" /\ ~threads'[p].sent

\* A quiet step keeps the invariant.
LEMMA QuietKeepsRung ==
    ASSUME RungInv, QuietStep
    PROVE  RungInv'
BY DEF RungInv, QuietStep, Rung

\* Reporting the backlog leaves the notices alone.
LEMMA ReportedInbox ==
    ASSUME NEW t \in Tables, NEW moment
    PROVE  Reported(t, moment).inbox = t.inbox
BY DEF Reported, Tables

\* A step that is not of a dispatch is quiet.
LEMMA OthersAreQuiet ==
    ASSUME TypeOK,
           \/ \E n \in Notices, p \in Processes : WriteNotice(n, p)
           \/ \E n \in Notices : ReadNotice(n)
           \/ \E b \in Browsers : Unsubscribe(b) \/ \E w \in Workers : Subscribe(b, w)
           \/ \E p \in Processes : Die(p)
           \/ WatchBacklog
           \/ Tick
    PROVE  QuietStep
<1>0. tables \in Tables /\ draft \in Tables /\ threads \in [Processes -> Thread]
  BY DEF TypeOK
<1>1. CASE \E n \in Notices, p \in Processes : WriteNotice(n, p)
  <2>1. PICK n \in Notices, p \in Processes : WriteNotice(n, p)
    BY <1>1
  <2>2. \A m \in Notices : tables'.inbox[m].delivered = tables.inbox[m].delivered
                          /\ draft'.inbox[m].delivered = tables.inbox[m].delivered
    BY <1>0, <2>1 DEF WriteNotice, Commits, Tables, Notice
  <2>3. \A q \in Processes : threads'[q] = threads[q] \/ threads'[q].stage = "select"
    BY <1>0, <2>1 DEF WriteNotice, Triggered, Thread
  <2>. QED  BY <2>1, <2>2, <2>3 DEF WriteNotice, QuietStep
<1>2. CASE \E n \in Notices : ReadNotice(n)
  <2>1. PICK n \in Notices : ReadNotice(n)
    BY <1>2
  <2>2. \A m \in Notices : tables'.inbox[m].delivered = tables.inbox[m].delivered
                          /\ draft'.inbox[m].delivered = tables.inbox[m].delivered
    BY <1>0, <2>1 DEF ReadNotice, Commits, Tables, Notice
  <2>. QED  BY <2>1, <2>2 DEF ReadNotice, QuietStep
<1>3. CASE \E b \in Browsers : Unsubscribe(b) \/ \E w \in Workers : Subscribe(b, w)
  <2>1. tables'.inbox = tables.inbox /\ draft'.inbox = tables.inbox
    BY <1>0, <1>3 DEF Unsubscribe, Subscribe, Commits, Tables
  <2>. QED  BY <1>3, <2>1 DEF Unsubscribe, Subscribe, QuietStep
<1>4. CASE \E p \in Processes : Die(p)
  <2>1. PICK p \in Processes : Die(p)
    BY <1>4
  <2>2. \A q \in Processes : threads'[q] = threads[q] \/ threads'[q].stage = "idle"
    BY <1>0, <2>1 DEF Die, NoThread
  <2>. QED  BY <2>1, <2>2 DEF Die, QuietStep
<1>5. CASE WatchBacklog
  <2>1. tables'.inbox = tables.inbox /\ draft'.inbox = tables.inbox
    BY <1>0, <1>5, ReportedInbox DEF WatchBacklog, Commits
  <2>. QED  BY <1>5, <2>1 DEF WatchBacklog, QuietStep
<1>6. CASE Tick
  BY <1>6 DEF Tick, QuietStep
<1>. QED  BY <1>1, <1>2, <1>3, <1>4, <1>5, <1>6

\* A dispatch records what it heard, and heard what rang.
LEMMA DispatchKeepsRung ==
    ASSUME TypeOK, RungInv, NEW p \in Processes, DispatchStep(p)
    PROVE  RungInv'
<1>. DEFINE T == threads[p]
<1>0. /\ tables \in Tables /\ draft \in Tables /\ threads \in [Processes -> Thread]
      /\ View(p) \in Tables /\ T \in Thread /\ rings \in [Notices \X Browsers -> Nat]
      /\ lock = Nobody => draft = tables
  BY DEF TypeOK, View
<1>1. CASE Select(p)
  <2>1. \A q \in Processes : threads'[q] = threads[q] \/ threads'[q].stage = "next"
    BY <1>0, <1>1 DEF Select, NoThread
  <2>. QED  BY <1>1, <2>1, QuietKeepsRung DEF Select, QuietStep
<1>2. CASE NextNotice(p)
  <2>1. \A q \in Processes :
            \/ threads'[q] = threads[q]
            \/ threads'[q].stage \in {"next", "send"} /\ ~threads'[q].sent
    BY <1>0, <1>2 DEF NextNotice, Thread
  <2>. QED  BY <1>2, <2>1, QuietKeepsRung DEF NextNotice, QuietStep
<1>3. CASE Commit(p)
  <2>1. Reported(View(p), T.moment).inbox = View(p).inbox
    BY <1>0, ReportedInbox
  <2>2. \A q \in Processes : threads'[q] = threads[q] \/ threads'[q].stage = "idle"
    BY <1>0, <1>3 DEF Commit, NoThread
  <2>. QED  BY <1>3, <2>1, <2>2, QuietKeepsRung DEF Commit, View, QuietStep
<1>4. CASE Send(p)
  <2>0. /\ T.rows # <<>> /\ T.subs # <<>>
        /\ T.rows \in Seq(Notices) /\ T.subs \in Seq(Browsers) /\ T.stage = "send"
    BY <1>0, <1>4 DEF Send, TypeOK, Thread
  <2>. DEFINE x == <<Head(T.rows), Head(T.subs)>>
  <2>1. PICK answer \in Answers :
            /\ threads' = [threads EXCEPT ![p].stage = "record", ![p].answer = answer]
            /\ rings' = IF answer # "ok" THEN rings ELSE [rings EXCEPT ![x] = @ + 1]
    BY <1>4 DEF Send
  <2>2. x \in Notices \X Browsers
    BY <2>0
  <2>3. \A y \in Notices \X Browsers : rings[y] > 0 => rings'[y] > 0
    BY <1>0, <2>1
  <2>4. answer = "ok" => rings'[x] > 0
    BY <1>0, <2>1, <2>2
  <2>5. \A n \in Notices : Rung(n) => Rung(n)'
    BY <2>3 DEF Rung
  <2>6. /\ \A q \in Processes \ {p} : threads'[q] = threads[q]
        /\ threads'[p].rows = T.rows /\ threads'[p].subs = T.subs
        /\ threads'[p].sent = T.sent /\ threads'[p].answer = answer
    BY <1>0, <2>1 DEF Thread
  <2>7. \A q \in Processes : threads[q].stage \in {"send", "record"} =>
            /\ Head(threads[q].rows) \in Notices /\ Head(threads[q].subs) \in Browsers
    BY <1>0 DEF TypeOK, Thread
  <2>. QED  BY <1>4, <2>0, <2>3, <2>4, <2>5, <2>6, <2>7 DEF Send, RungInv
<1>5. CASE Record(p)
  <2>. DEFINE n == Head(T.rows)
  <2>0. /\ T.rows # <<>> /\ T.rows \in Seq(Notices) /\ T.stage = "record" /\ n \in Notices
        /\ T.subs # <<>> /\ T.subs \in Seq(Browsers) /\ Head(T.subs) \in Browsers
    BY <1>0, <1>5 DEF Record, TypeOK, Thread
  <2>1. T.sent \/ T.answer = "ok" => Rung(n)
    BY <2>0 DEF RungInv, Rung
  <2>2. \A m \in Notices : draft'.inbox[m].delivered =>
            View(p).inbox[m].delivered \/ (m = n /\ (T.sent \/ T.answer = "ok"))
    BY <1>0, <1>5 DEF Record, Writes, Settled, Tables, Notice
  <2>3. \A m \in Notices : View(p).inbox[m].delivered => Rung(m)
    BY DEF RungInv, View
  <2>4. /\ \A q \in Processes \ {p} : threads'[q] = threads[q]
        /\ threads'[p].stage \in {"send", "next"}
        /\ threads'[p].stage = "send" =>
              threads'[p].rows = T.rows /\ threads'[p].sent = (T.sent \/ T.answer = "ok")
    BY <1>0, <1>5 DEF Record, Thread
  <2>5. rings' = rings /\ tables' = tables
    BY <1>5 DEF Record, Writes
  <2>. QED  BY <2>1, <2>2, <2>3, <2>4, <2>5 DEF RungInv, Rung
<1>. QED  BY <1>1, <1>2, <1>3, <1>4, <1>5 DEF DispatchStep

\* A notice that is recorded as delivered has rung, whatever was rolled back on the way.
THEOREM DeliveriesRing == Spec => []DeliveredHasRung
<1>1. Init => RungInv
  BY DEF Init, RungInv, Unwritten, NoThread
<1>2. TypeOK /\ RungInv /\ [Next]_vars => RungInv'
  <2>1. CASE \E p \in Processes : DispatchStep(p)
    BY <2>1, DispatchKeepsRung
  <2>2. CASE UNCHANGED vars
    BY <2>2 DEF vars, RungInv, Rung
  <2>. QED  BY <2>1, <2>2, OthersAreQuiet, QuietKeepsRung DEF Next
<1>3. RungInv => DeliveredHasRung
  BY DEF RungInv, DeliveredHasRung, View, Rung
<1>. QED  BY <1>1, <1>2, <1>3, TypeCorrect, PTL DEF Spec

-----------------------------------------------------------------------------
(* A process rings once                                                     *)

\* The subscriptions a dispatch still has to try, while it is about the notice it has in hand.
Left(T) == IF T.stage = "record" THEN Tail(T.subs) ELSE T.subs
Tried(T, x) == T.stage \in {"send", "record"} /\ Head(T.rows) = x[1] /\ x[2] \notin Range(Left(T))

\* A dispatch that may have rung x and, if it did, goes on to record the delivery.
Heard(p, x) ==
    \/ /\ Tried(threads[p], x)
       /\ threads[p].sent \/ (threads[p].stage = "record" /\ threads[p].answer = "ok")
    \/ lock = p /\ draft.inbox[x[1]].delivered /\ x[1] \notin Range(threads[p].rows)

\* One that has yet to ring x, if it ever does.
MayRing(p, x) == x[1] \in Range(threads[p].rows) /\ ~Tried(threads[p], x)

Hearing(x) == {p \in Processes : Heard(p, x)}
Ringing(x) == {p \in Processes : MayRing(p, x)}

Orders == \A p \in Processes : IsInjective(threads[p].rows) /\ IsInjective(threads[p].subs)

\* Until a notice counts as delivered, each of its rings is one a dispatch will still record, or
\* one of a dispatch that died.  From then on only those may ring it that had selected it before.
RingsCounted(x) ==
    /\ ~tables.inbox[x[1]].delivered => rings[x] <= deaths + Cardinality(Hearing(x))
    /\ tables.inbox[x[1]].delivered =>
          rings[x] + Cardinality(Ringing(x)) <= deaths + Cardinality(Processes)

RingInv ==
    /\ \A n \in Notices : tables.inbox[n].delivered => draft.inbox[n].delivered
    /\ \A p \in Processes : lock = p => threads[p].stage \in {"next", "send", "record"}
    /\ Orders
    /\ \A x \in Notices \X Browsers : RingsCounted(x)

\* The head of a sequence without repetitions is not in its tail.
LEMMA TailOnce ==
    ASSUME NEW S, NEW s \in Seq(S), s # <<>>
    PROVE  /\ Range(s) = {Head(s)} \cup Range(Tail(s))
           /\ IsInjective(s) => IsInjective(Tail(s)) /\ Head(s) \notin Range(Tail(s))
<1>1. /\ Len(s) \in Nat \ {0} /\ DOMAIN s = 1 .. Len(s) /\ Head(s) = s[1]
      /\ DOMAIN Tail(s) = 1 .. Len(s) - 1
      /\ \A i \in 1 .. Len(s) - 1 : Tail(s)[i] = s[i + 1]
  OBVIOUS
<1>2. \A i \in 1 .. Len(s) : i = 1 \/ i - 1 \in 1 .. Len(s) - 1
  BY <1>1
<1>3. Range(s) \subseteq {Head(s)} \cup Range(Tail(s))
  <2>. SUFFICES ASSUME NEW i \in 1 .. Len(s), i # 1  PROVE s[i] \in Range(Tail(s))
    BY <1>1 DEF Range
  <2>1. i - 1 \in 1 .. Len(s) - 1 /\ Tail(s)[i - 1] = s[(i - 1) + 1] /\ (i - 1) + 1 = i
    BY <1>1, <1>2
  <2>. QED  BY <1>1, <2>1 DEF Range
<1>4. {Head(s)} \cup Range(Tail(s)) \subseteq Range(s)
  BY <1>1 DEF Range
<1>5. ASSUME IsInjective(s)
      PROVE  IsInjective(Tail(s)) /\ Head(s) \notin Range(Tail(s))
  BY <1>1, <1>5 DEF IsInjective, Range
<1>. QED  BY <1>3, <1>4, <1>5

\* An order of a set has no repetitions.
LEMMA OrderOnce ==
    ASSUME NEW S, IsFiniteSet(S), NEW f \in SetToSeqs(S)
    PROVE  IsInjective(f) /\ Range(f) \subseteq S
<1>1. Cardinality(S) \in Nat
  BY FS_CardinalityType
<1>2. f \in [1 .. Cardinality(S) -> S] /\ \A i, j \in 1 .. Cardinality(S) : i # j => f[i] # f[j]
  BY DEF SetToSeqs
<1>. QED  BY <1>1, <1>2 DEF IsInjective, Range

\* Two sets without a common element are counted together.
LEMMA DisjointUnion ==
    ASSUME NEW S, NEW T, IsFiniteSet(S), IsFiniteSet(T), S \cap T = {}
    PROVE  Cardinality(S \cup T) = Cardinality(S) + Cardinality(T)
<1>1. Cardinality(S \cup T) = Cardinality(S) + Cardinality(T) - Cardinality(S \cap T)
  BY FS_Union
<1>2. Cardinality(S \cap T) = 0 /\ Cardinality(S) \in Nat /\ Cardinality(T) \in Nat
  BY FS_EmptySet, FS_CardinalityType
<1>. QED  BY <1>1, <1>2

\* Who hears and who may ring are finitely many, and never the same process.
LEMMA Counts ==
    ASSUME NEW x
    PROVE  /\ IsFiniteSet(Hearing(x)) /\ IsFiniteSet(Ringing(x))
           /\ Cardinality(Hearing(x)) \in Nat /\ Cardinality(Ringing(x)) \in Nat
           /\ Cardinality(Processes) \in Nat
           /\ Cardinality(Hearing(x)) <= Cardinality(Processes)
<1>1. IsFiniteSet(Processes)
  BY PushAssumption
<1>2. Hearing(x) \subseteq Processes /\ Ringing(x) \subseteq Processes
  BY DEF Hearing, Ringing
<1>. QED  BY <1>1, <1>2, FS_Subset, FS_CardinalityType

\* A step after which whoever rang x is still counted, and nobody new may ring it.
Calm(x) ==
    /\ rings'[x] = rings[x] /\ deaths' = deaths
    /\ tables'.inbox[x[1]].delivered = tables.inbox[x[1]].delivered
    /\ ~tables.inbox[x[1]].delivered => \A p \in Processes : Heard(p, x) => Heard(p, x)'
    /\ tables.inbox[x[1]].delivered => \A p \in Processes : MayRing(p, x)' => MayRing(p, x)

\* It keeps the count.
LEMMA CalmCounts ==
    ASSUME TypeOK, NEW x \in Notices \X Browsers, RingsCounted(x), Calm(x)
    PROVE  RingsCounted(x)'
<1>1. rings[x] \in Nat /\ deaths \in Nat
  BY DEF TypeOK
<1>2. CASE ~tables.inbox[x[1]].delivered
  <2>1. Hearing(x) \subseteq Hearing(x)'
    BY <1>2 DEF Calm, Hearing
  <2>2. Hearing(x)' \subseteq Processes /\ IsFiniteSet(Processes)
    BY PushAssumption DEF Hearing
  <2>3. IsFiniteSet(Hearing(x)') /\ Cardinality(Hearing(x)) <= Cardinality(Hearing(x)')
    BY <2>1, <2>2, FS_Subset
  <2>4. Cardinality(Hearing(x)) \in Nat /\ Cardinality(Hearing(x)') \in Nat
    BY <2>3, Counts, FS_CardinalityType
  <2>. QED  BY <1>1, <1>2, <2>3, <2>4 DEF Calm, RingsCounted
<1>3. CASE tables.inbox[x[1]].delivered
  <2>1. Ringing(x)' \subseteq Ringing(x)
    BY <1>3 DEF Calm, Ringing
  <2>2. IsFiniteSet(Ringing(x)') /\ Cardinality(Ringing(x)') <= Cardinality(Ringing(x))
    BY <2>1, Counts, FS_Subset
  <2>3. Cardinality(Ringing(x)) \in Nat /\ Cardinality(Ringing(x)') \in Nat /\ Cardinality(Processes) \in Nat
    BY <2>2, Counts, FS_CardinalityType
  <2>. QED  BY <1>1, <1>3, <2>2, <2>3 DEF Calm, RingsCounted
<1>. QED  BY <1>2, <1>3

\* A ring takes its process from those that may ring to those whose ring will be recorded.
LEMMA RingCounts ==
    ASSUME TypeOK, NEW x \in Notices \X Browsers, RingsCounted(x), NEW p \in Processes,
           rings'[x] = rings[x] + 1, deaths' = deaths, tables' = tables,
           p \notin Hearing(x), Hearing(x) \cup {p} \subseteq Hearing(x)',
           p \in Ringing(x), Ringing(x)' \subseteq Ringing(x) \ {p}
    PROVE  RingsCounted(x)'
<1>1. rings[x] \in Nat /\ deaths \in Nat /\ IsFiniteSet(Processes)
  BY PushAssumption DEF TypeOK
<1>2. /\ IsFiniteSet(Hearing(x)) /\ IsFiniteSet(Ringing(x)) /\ Cardinality(Processes) \in Nat
      /\ Cardinality(Hearing(x)) \in Nat /\ Cardinality(Ringing(x)) \in Nat
  BY Counts
<1>3. IsFiniteSet(Hearing(x)') /\ Cardinality(Hearing(x)') \in Nat
  BY <1>1, FS_Subset, FS_CardinalityType DEF Hearing
<1>4. Cardinality(Hearing(x) \cup {p}) = Cardinality(Hearing(x)) + 1
  BY <1>2, FS_AddElement
<1>5. Cardinality(Hearing(x)) + 1 <= Cardinality(Hearing(x)')
  BY <1>3, <1>4, FS_Subset
<1>6. IsFiniteSet(Ringing(x) \ {p}) /\ Cardinality(Ringing(x) \ {p}) = Cardinality(Ringing(x)) - 1
  BY <1>2, FS_RemoveElement
<1>7. /\ Cardinality(Ringing(x)') <= Cardinality(Ringing(x)) - 1
      /\ Cardinality(Ringing(x)') \in Nat
  BY <1>6, FS_Subset, FS_CardinalityType
<1>. QED  BY <1>1, <1>2, <1>3, <1>5, <1>7 DEF RingsCounted

\* A delivery that is committed: whoever may still ring is none of those who rang.
LEMMA DeliveryCounts ==
    ASSUME TypeOK, NEW x \in Notices \X Browsers, RingsCounted(x),
           rings' = rings, deaths' = deaths,
           ~tables.inbox[x[1]].delivered, tables'.inbox[x[1]].delivered,
           Hearing(x) \cap Ringing(x)' = {}
    PROVE  RingsCounted(x)'
<1>1. rings[x] \in Nat /\ deaths \in Nat /\ IsFiniteSet(Processes)
  BY PushAssumption DEF TypeOK
<1>2. IsFiniteSet(Hearing(x)) /\ Cardinality(Hearing(x)) \in Nat /\ Cardinality(Processes) \in Nat
  BY Counts
<1>3. Hearing(x) \cup Ringing(x)' \subseteq Processes
  BY DEF Hearing, Ringing
<1>4. IsFiniteSet(Ringing(x)') /\ Cardinality(Ringing(x)') \in Nat
  BY <1>1, <1>3, FS_Subset, FS_CardinalityType
<1>5. Cardinality(Hearing(x) \cup Ringing(x)') = Cardinality(Hearing(x)) + Cardinality(Ringing(x)')
  BY <1>2, <1>4, DisjointUnion
<1>6. Cardinality(Hearing(x) \cup Ringing(x)') <= Cardinality(Processes)
  BY <1>1, <1>3, FS_Subset
<1>. QED  BY <1>1, <1>2, <1>4, <1>5, <1>6 DEF RingsCounted

\* A dispatch that dies takes at most one ring out of the count, and is counted itself.
LEMMA DeathCounts ==
    ASSUME TypeOK, NEW x \in Notices \X Browsers, RingsCounted(x), NEW p,
           rings' = rings, deaths' = deaths + 1, tables' = tables,
           Hearing(x) \ {p} \subseteq Hearing(x)', Ringing(x)' \subseteq Ringing(x)
    PROVE  RingsCounted(x)'
<1>1. rings[x] \in Nat /\ deaths \in Nat /\ IsFiniteSet(Processes)
  BY PushAssumption DEF TypeOK
<1>2. /\ IsFiniteSet(Hearing(x)) /\ IsFiniteSet(Ringing(x)) /\ Cardinality(Processes) \in Nat
      /\ Cardinality(Hearing(x)) \in Nat /\ Cardinality(Ringing(x)) \in Nat
  BY Counts
<1>3. IsFiniteSet(Hearing(x)') /\ Cardinality(Hearing(x)') \in Nat
  BY <1>1, FS_Subset, FS_CardinalityType DEF Hearing
<1>4. /\ IsFiniteSet(Hearing(x) \ {p}) /\ Cardinality(Hearing(x) \ {p}) \in Nat
      /\ Cardinality(Hearing(x)) - 1 <= Cardinality(Hearing(x) \ {p})
  <2>1. /\ IsFiniteSet(Hearing(x) \ {p})
        /\ Cardinality(Hearing(x) \ {p}) =
              IF p \in Hearing(x) THEN Cardinality(Hearing(x)) - 1 ELSE Cardinality(Hearing(x))
    BY <1>2, FS_RemoveElement
  <2>2. Cardinality(Hearing(x) \ {p}) \in Nat
    BY <2>1, FS_CardinalityType
  <2>. QED  BY <1>2, <2>1, <2>2
<1>5. Cardinality(Hearing(x) \ {p}) <= Cardinality(Hearing(x)')
  BY <1>3, FS_Subset
<1>6. Cardinality(Ringing(x)') <= Cardinality(Ringing(x)) /\ Cardinality(Ringing(x)') \in Nat
  BY <1>2, FS_Subset, FS_CardinalityType
<1>. QED  BY <1>1, <1>2, <1>3, <1>4, <1>5, <1>6 DEF RingsCounted

\* A step of nobody's dispatch leaves what every dispatch holds; the lock is free around it.
LEMMA OthersKeepRings ==
    ASSUME TypeOK, RingInv,
           \/ \E n \in Notices, p \in Processes : WriteNotice(n, p)
           \/ \E n \in Notices : ReadNotice(n)
           \/ \E b \in Browsers : Unsubscribe(b) \/ \E w \in Workers : Subscribe(b, w)
           \/ WatchBacklog
           \/ Tick
    PROVE  RingInv'
<1>0. tables \in Tables /\ draft \in Tables /\ threads \in [Processes -> Thread]
  BY DEF TypeOK
<1>1. /\ rings' = rings /\ deaths' = deaths
      /\ \/ lock = Nobody /\ lock' = Nobody /\ draft' = tables'
         \/ lock' = lock /\ draft' = draft /\ tables' = tables
  BY DEF WriteNotice, ReadNotice, Unsubscribe, Subscribe, WatchBacklog, Tick, Commits
<1>2. \A m \in Notices : tables'.inbox[m].delivered = tables.inbox[m].delivered
  <2>1. CASE \E n \in Notices, p \in Processes : WriteNotice(n, p)
    <3>1. PICK n \in Notices, p \in Processes : WriteNotice(n, p)
      BY <2>1
    <3>. QED  BY <1>0, <3>1 DEF WriteNotice, Commits, Tables, Notice
  <2>2. CASE \E n \in Notices : ReadNotice(n)
    <3>1. PICK n \in Notices : ReadNotice(n)
      BY <2>2
    <3>. QED  BY <1>0, <3>1 DEF ReadNotice, Commits, Tables, Notice
  <2>3. CASE \E b \in Browsers : Unsubscribe(b) \/ \E w \in Workers : Subscribe(b, w)
    BY <1>0, <2>3 DEF Unsubscribe, Subscribe, Commits, Tables
  <2>4. CASE WatchBacklog
    BY <1>0, <2>4, ReportedInbox DEF WatchBacklog, Commits
  <2>5. CASE Tick
    BY <2>5 DEF Tick
  <2>. QED  BY <2>1, <2>2, <2>3, <2>4, <2>5
<1>3. \A q \in Processes :
          \/ threads'[q] = threads[q]
          \/ /\ threads[q].stage = "idle" /\ threads'[q].stage = "select"
             /\ threads'[q].rows = threads[q].rows /\ threads'[q].subs = threads[q].subs
  <2>1. CASE \E n \in Notices, p \in Processes : WriteNotice(n, p)
    <3>1. PICK n \in Notices, p \in Processes : WriteNotice(n, p)
      BY <2>1
    <3>. QED  BY <1>0, <3>1 DEF WriteNotice, Triggered, Thread
  <2>2. CASE threads' = threads
    BY <2>2
  <2>. QED  BY <2>1, <2>2 DEF ReadNotice, Unsubscribe, Subscribe, WatchBacklog, Tick
<1>4. \A p \in Processes : p # Nobody
  BY PushAssumption
<1>5. ASSUME NEW x \in Notices \X Browsers
      PROVE  Calm(x)
  <2>1. \A p \in Processes : Heard(p, x) => Heard(p, x)'
    <3>. SUFFICES ASSUME NEW p \in Processes, Heard(p, x)  PROVE Heard(p, x)'
      OBVIOUS
    <3>1. CASE lock = p /\ draft.inbox[x[1]].delivered /\ x[1] \notin Range(threads[p].rows)
      BY <1>1, <1>3, <1>4, <3>1 DEF Heard
    <3>2. CASE /\ Tried(threads[p], x)
               /\ threads[p].sent \/ (threads[p].stage = "record" /\ threads[p].answer = "ok")
      <4>1. threads'[p] = threads[p]
        BY <1>3, <3>2 DEF Tried
      <4>2. Tried(threads[p], x)' <=> Tried(threads[p], x)
        BY <4>1 DEF Tried, Left
      <4>. QED  BY <3>2, <4>1, <4>2 DEF Heard
    <3>. QED  BY <3>1, <3>2 DEF Heard
  <2>2. \A p \in Processes : MayRing(p, x)' => MayRing(p, x)
    BY <1>3 DEF MayRing, Tried
  <2>3. x[1] \in Notices
    OBVIOUS
  <2>. QED  BY <1>1, <1>2, <2>1, <2>2, <2>3 DEF Calm
<1>6. \A n \in Notices : tables'.inbox[n].delivered => draft'.inbox[n].delivered
  BY <1>1, <1>2 DEF RingInv
<1>7. \A p \in Processes : lock' = p => threads'[p].stage \in {"next", "send", "record"}
  BY <1>1, <1>3, <1>4 DEF RingInv
<1>8. Orders'
  BY <1>3 DEF RingInv, Orders
<1>9. \A x \in Notices \X Browsers : RingsCounted(x)'
  BY <1>5, CalmCounts DEF RingInv
<1>. QED  BY <1>6, <1>7, <1>8, <1>9 DEF RingInv

\* A dispatch that dies takes its draft with it.
LEMMA DeathKeepsRings ==
    ASSUME TypeOK, RingInv, NEW p \in Processes, Die(p)
    PROVE  RingInv'
<1>0. threads \in [Processes -> Thread] /\ Nobody \notin Processes
  BY PushAssumption DEF TypeOK
<1>1. /\ rings' = rings /\ deaths' = deaths + 1 /\ tables' = tables
      /\ \A q \in Processes : threads'[q] = IF q = p THEN NoThread ELSE threads[q]
      /\ lock = p => draft' = tables /\ lock' = Nobody
      /\ lock # p => draft' = draft /\ lock' = lock
  BY <1>0 DEF Die
<1>2. ASSUME NEW x \in Notices \X Browsers
      PROVE  RingsCounted(x)'
  <2>1. Hearing(x) \ {p} \subseteq Hearing(x)'
    BY <1>1 DEF Hearing, Heard
  <2>2. Ringing(x)' \subseteq Ringing(x)
    BY <1>1 DEF Ringing, MayRing, NoThread, Range
  <2>. QED  BY <1>1, <2>1, <2>2, DeathCounts DEF RingInv
<1>3. Orders'
  BY <1>1 DEF RingInv, Orders, NoThread, IsInjective
<1>. QED  BY <1>0, <1>1, <1>2, <1>3 DEF RingInv

\* Selecting, and turning to the next notice, ring nobody.
LEMMA ChoicesKeepRings ==
    ASSUME TypeOK, RingInv, NEW p \in Processes, Select(p) \/ NextNotice(p)
    PROVE  RingInv'
<1>. DEFINE T == threads[p]
<1>0. /\ threads \in [Processes -> Thread] /\ T \in Thread /\ T.rows \in Seq(Notices)
      /\ tables \in Tables /\ draft \in Tables
  BY DEF TypeOK, Thread
<1>1. rings' = rings /\ deaths' = deaths /\ UNCHANGED <<tables, draft, lock>>
  BY DEF Select, NextNotice
<1>2. \A q \in Processes \ {p} : threads'[q] = threads[q]
  BY <1>0 DEF Select, NextNotice
<1>3. ASSUME NEW x \in Notices \X Browsers
      PROVE  /\ Heard(p, x) => Heard(p, x)'
             /\ tables.inbox[x[1]].delivered => (MayRing(p, x)' => MayRing(p, x))
  <2>1. CASE Select(p)
    <3>. DEFINE due == {n \in Notices : WorthSending(tables.inbox[n])}
    <3>1. PICK rows \in SetToSeqs(due) : threads' = [threads EXCEPT ![p] =
                [NoThread EXCEPT !.stage = "next", !.moment = now, !.rows = rows]]
      BY <2>1 DEF Select
    <3>2. Range(rows) \subseteq due
      BY PushAssumption, FS_Subset, OrderOnce
    <3>3. threads'[p].rows = rows /\ T.stage = "select"
      BY <1>0, <2>1, <3>1 DEF NoThread, Select
    <3>4. ~Heard(p, x)
      BY <3>3 DEF Heard, Tried, RingInv
    <3>5. MayRing(p, x)' => ~tables.inbox[x[1]].delivered
      BY <3>2, <3>3 DEF MayRing, WorthSending
    <3>. QED  BY <3>4, <3>5
  <2>2. CASE NextNotice(p)
    <3>1. /\ T.stage = "next" /\ T.rows # <<>>
          /\ threads'[p].stage \in {"next", "send"}
          /\ threads'[p].rows = T.rows \/ threads'[p].rows = Tail(T.rows)
      <4>1. PICK subs : threads' = [threads EXCEPT
            ![p].stage = IF subs = <<>> THEN "next" ELSE "send",
            ![p].rows = IF subs = <<>> THEN Tail(@) ELSE @,
            ![p].subs = subs, ![p].sent = FALSE]
        BY <2>2 DEF NextNotice
      <4>. QED  BY <1>0, <2>2, <4>1 DEF NextNotice, Thread
    <3>2. Range(threads'[p].rows) \subseteq Range(T.rows)
      BY <1>0, <3>1, TailOnce
    <3>3. ~Tried(T, x)
      BY <3>1 DEF Tried
    <3>. QED  BY <1>1, <3>2, <3>3 DEF Heard, MayRing
  <2>. QED  BY <2>1, <2>2
<1>4. ASSUME NEW x \in Notices \X Browsers
      PROVE  Calm(x)
  <2>1. \A q \in Processes : Heard(q, x) => Heard(q, x)'
    BY <1>1, <1>2, <1>3 DEF Heard
  <2>2. tables.inbox[x[1]].delivered => \A q \in Processes : MayRing(q, x)' => MayRing(q, x)
    BY <1>2, <1>3 DEF MayRing
  <2>. QED  BY <1>1, <2>1, <2>2 DEF Calm
<1>5. IsInjective(threads'[p].rows) /\ IsInjective(threads'[p].subs)
  <2>1. CASE Select(p)
    <3>. DEFINE due == {n \in Notices : WorthSending(tables.inbox[n])}
    <3>1. PICK rows \in SetToSeqs(due) : threads' = [threads EXCEPT ![p] =
                [NoThread EXCEPT !.stage = "next", !.moment = now, !.rows = rows]]
      BY <2>1 DEF Select
    <3>2. IsInjective(rows)
      BY PushAssumption, FS_Subset, OrderOnce
    <3>3. threads'[p].rows = rows /\ threads'[p].subs = <<>>
      BY <1>0, <3>1 DEF NoThread
    <3>. QED  BY <3>2, <3>3 DEF IsInjective
  <2>2. CASE NextNotice(p)
    <3>. DEFINE live == LiveSubs(View(p), Addressee[Head(T.rows)])
    <3>1. PICK subs \in SetToSeqs(live) : threads' = [threads EXCEPT
            ![p].stage = IF subs = <<>> THEN "next" ELSE "send",
            ![p].rows = IF subs = <<>> THEN Tail(@) ELSE @,
            ![p].subs = subs, ![p].sent = FALSE]
      BY <2>2 DEF NextNotice
    <3>2. IsFiniteSet(live)
      BY PushAssumption, FS_Subset DEF LiveSubs
    <3>3. IsInjective(subs)
      BY <3>2, OrderOnce
    <3>4. threads'[p].subs = subs /\ threads'[p].rows \in {T.rows, Tail(T.rows)} /\ T.rows # <<>>
      BY <1>0, <2>2, <3>1 DEF Thread, NextNotice
    <3>5. IsInjective(T.rows) /\ IsInjective(Tail(T.rows))
      BY <1>0, <3>4, TailOnce DEF RingInv, Orders
    <3>. QED  BY <3>3, <3>4, <3>5
  <2>. QED  BY <2>1, <2>2
<1>6. Orders'
  BY <1>2, <1>5 DEF RingInv, Orders
<1>7. threads'[p].stage \in {"next", "send"}
  <2>1. CASE Select(p)
    BY <1>0, <2>1 DEF Select, NoThread
  <2>2. CASE NextNotice(p)
    <3>1. PICK subs : threads' = [threads EXCEPT
            ![p].stage = IF subs = <<>> THEN "next" ELSE "send",
            ![p].rows = IF subs = <<>> THEN Tail(@) ELSE @,
            ![p].subs = subs, ![p].sent = FALSE]
      BY <2>2 DEF NextNotice
    <3>. QED  BY <1>0, <3>1 DEF Thread
  <2>. QED  BY <2>1, <2>2
<1>. QED  BY <1>1, <1>2, <1>4, <1>6, <1>7, CalmCounts DEF RingInv

\* A ring is the first of its dispatch for that notice on that phone, and is recorded later.
LEMMA SendKeepsRings ==
    ASSUME TypeOK, RingInv, NEW p \in Processes, Send(p)
    PROVE  RingInv'
<1>. DEFINE T == threads[p]
            y == <<Head(T.rows), Head(T.subs)>>
<1>0. /\ threads \in [Processes -> Thread] /\ T \in Thread /\ T.stage = "send"
      /\ T.rows \in Seq(Notices) /\ T.subs \in Seq(Browsers) /\ T.rows # <<>> /\ T.subs # <<>>
      /\ rings \in [Notices \X Browsers -> Nat]
  BY DEF TypeOK, Thread, Send
<1>1. PICK answer \in Answers :
          /\ threads' = [threads EXCEPT ![p].stage = "record", ![p].answer = answer]
          /\ rings' = IF answer # "ok" THEN rings ELSE [rings EXCEPT ![y] = @ + 1]
  BY DEF Send
<1>2. /\ threads'[p].stage = "record" /\ threads'[p].answer = answer
      /\ threads'[p].rows = T.rows /\ threads'[p].subs = T.subs /\ threads'[p].sent = T.sent
      /\ \A q \in Processes \ {p} : threads'[q] = threads[q]
      /\ UNCHANGED <<tables, draft, lock, deaths>>
  BY <1>0, <1>1 DEF Thread, Send
<1>3. /\ Range(T.subs) = {Head(T.subs)} \cup Range(Tail(T.subs))
      /\ Head(T.subs) \notin Range(Tail(T.subs)) /\ Head(T.rows) \in Range(T.rows)
  BY <1>0, TailOnce DEF RingInv, Orders
<1>4. PICK z \in Notices \X Browsers : z = y
  <2>1. y \in Notices \X Browsers
    BY <1>0
  <2>. QED  BY <2>1
<1>5. ASSUME NEW x \in Notices \X Browsers
      PROVE  /\ Tried(T, x) <=> Head(T.rows) = x[1] /\ x[2] \notin Range(T.subs)
             /\ Tried(threads'[p], x) <=> Head(T.rows) = x[1] /\ x[2] \notin Range(Tail(T.subs))
             /\ \A q \in Processes \ {p} : (Heard(q, x)' <=> Heard(q, x))
                                           /\ (MayRing(q, x)' <=> MayRing(q, x))
             /\ Heard(p, x) => Heard(p, x)'
             /\ MayRing(p, x)' => MayRing(p, x)
  <2>1. /\ Tried(T, x) <=> Head(T.rows) = x[1] /\ x[2] \notin Range(T.subs)
        /\ Tried(threads'[p], x) <=> Head(T.rows) = x[1] /\ x[2] \notin Range(Tail(T.subs))
    BY <1>0, <1>2 DEF Tried, Left
  <2>2. Tried(T, x) => Tried(threads'[p], x)
    BY <1>3, <2>1
  <2>3. Heard(p, x) => Heard(p, x)'
    BY <1>0, <1>2, <2>2 DEF Heard
  <2>4. MayRing(p, x)' => MayRing(p, x)
    BY <1>2, <2>2 DEF MayRing
  <2>. QED  BY <1>2, <2>1, <2>3, <2>4 DEF Heard, MayRing
<1>6. ASSUME NEW x \in Notices \X Browsers, rings'[x] = rings[x]
      PROVE  RingsCounted(x)'
  <2>1. Calm(x)
    BY <1>2, <1>5, <1>6 DEF Calm
  <2>. QED  BY <2>1, CalmCounts DEF RingInv
<1>7. ASSUME answer = "ok"
      PROVE  RingsCounted(z)'
  <2>1. z[1] = Head(T.rows) /\ z[2] = Head(T.subs)
    BY <1>4
  <2>2. ~Tried(T, z) /\ Tried(threads'[p], z)
    BY <1>3, <1>4, <1>5, <2>1
  <2>3. p \notin Hearing(z) /\ p \in Ringing(z)
    BY <1>3, <2>1, <2>2 DEF Hearing, Ringing, Heard, MayRing
  <2>4. Heard(p, z)' /\ ~MayRing(p, z)'
    BY <1>2, <1>7, <2>2 DEF Heard, MayRing
  <2>5. Hearing(z) \cup {p} \subseteq Hearing(z)'
    BY <1>4, <1>5, <2>4 DEF Hearing
  <2>6. Ringing(z)' \subseteq Ringing(z) \ {p}
    BY <1>4, <1>5, <2>4 DEF Ringing
  <2>7. rings'[z] = rings[z] + 1
    BY <1>0, <1>1, <1>4, <1>7
  <2>. QED  BY <1>2, <1>4, <2>3, <2>5, <2>6, <2>7, RingCounts DEF RingInv
<1>8. \A x \in Notices \X Browsers : rings'[x] = rings[x] \/ (x = z /\ answer = "ok")
  BY <1>0, <1>1, <1>4
<1>9. \A x \in Notices \X Browsers : RingsCounted(x)'
  BY <1>6, <1>7, <1>8
<1>10. Orders'
  BY <1>2 DEF RingInv, Orders
<1>. QED  BY <1>2, <1>9, <1>10 DEF RingInv

\* What rang is recorded: with the last subscription in the draft, before that in the dispatch.
LEMMA RecordKeepsRings ==
    ASSUME TypeOK, RingInv, NEW p \in Processes, Record(p)
    PROVE  RingInv'
<1>. DEFINE T == threads[p]
            n == Head(T.rows)
            sent == T.sent \/ T.answer = "ok"
            last == Len(T.subs) = 1
<1>0. /\ threads \in [Processes -> Thread] /\ T \in Thread /\ T.stage = "record"
      /\ T.rows \in Seq(Notices) /\ T.subs \in Seq(Browsers) /\ T.rows # <<>> /\ T.subs # <<>>
      /\ n \in Notices /\ View(p) \in Tables /\ draft \in Tables
      /\ Nobody \notin Processes /\ (lock = Nobody => draft = tables)
  BY PushAssumption DEF TypeOK, Thread, Record, View
<1>1. /\ threads'[p].stage = IF last THEN "next" ELSE "send"
      /\ threads'[p].rows = IF last THEN Tail(T.rows) ELSE T.rows
      /\ threads'[p].subs = Tail(T.subs) /\ threads'[p].sent = sent
      /\ \A q \in Processes \ {p} : threads'[q] = threads[q]
  BY <1>0 DEF Record, Thread
<1>2. /\ UNCHANGED <<rings, deaths, tables>> /\ lock \in {p, Nobody} /\ lock' = p
      /\ draft' = [View(p) EXCEPT !.subs = draft'.subs, !.inbox = draft'.inbox]
      /\ draft'.inbox = IF last THEN [View(p).inbox EXCEPT ![n] = Settled(@, sent)]
                        ELSE View(p).inbox
  BY <1>0 DEF Record, Writes, Tables
<1>3. \A m \in Notices : draft'.inbox[m].delivered <=>
          draft.inbox[m].delivered \/ (last /\ m = n /\ sent)
  <2>1. View(p).inbox = draft.inbox
    BY <1>0, <1>2 DEF View
  <2>2. draft.inbox \in [Notices -> Notice]
    BY <1>0 DEF Tables
  <2>3. Settled(draft.inbox[n], sent).delivered <=> (draft.inbox[n].delivered \/ sent)
    BY <1>0, <2>2 DEF Settled, Notice
  <2>. QED  BY <1>0, <1>2, <2>1, <2>2, <2>3
<1>4. /\ Range(T.rows) = {n} \cup Range(Tail(T.rows)) /\ n \notin Range(Tail(T.rows))
      /\ IsInjective(Tail(T.rows)) /\ IsInjective(Tail(T.subs)) /\ IsInjective(T.rows)
  BY <1>0, TailOnce DEF RingInv, Orders
<1>5. ASSUME NEW x \in Notices \X Browsers
      PROVE  Calm(x)
  <2>1. Tried(T, x) <=> n = x[1] /\ x[2] \notin Range(Tail(T.subs))
    BY <1>0 DEF Tried, Left
  <2>2. ~last => (Tried(threads'[p], x) <=> n = x[1] /\ x[2] \notin Range(Tail(T.subs)))
    BY <1>1 DEF Tried, Left
  <2>3. last => ~Tried(threads'[p], x)
    BY <1>1 DEF Tried
  <2>4. Heard(p, x) => Heard(p, x)'
    <3>1. CASE Tried(T, x) /\ sent
      <4>1. CASE last
        BY <1>1, <1>2, <1>3, <1>4, <2>1, <3>1, <4>1 DEF Heard
      <4>2. CASE ~last
        BY <1>1, <2>1, <2>2, <3>1, <4>2 DEF Heard
      <4>. QED  BY <4>1, <4>2
    <3>2. CASE lock = p /\ draft.inbox[x[1]].delivered /\ x[1] \notin Range(T.rows)
      BY <1>1, <1>2, <1>3, <1>4, <3>2 DEF Heard
    <3>. QED  BY <1>0, <3>1, <3>2 DEF Heard
  <2>5. MayRing(p, x)' => MayRing(p, x)
    BY <1>1, <1>4, <2>1, <2>2, <2>3 DEF MayRing
  <2>6. \A q \in Processes \ {p} : Heard(q, x) => Heard(q, x)'
    BY <1>0, <1>1, <1>2 DEF Heard
  <2>7. \A q \in Processes \ {p} : MayRing(q, x)' => MayRing(q, x)
    BY <1>1 DEF MayRing
  <2>. QED  BY <1>2, <2>4, <2>5, <2>6, <2>7 DEF Calm
<1>6. \A x \in Notices \X Browsers : RingsCounted(x)'
  BY <1>5, CalmCounts DEF RingInv
<1>7. Orders'
  BY <1>1, <1>4 DEF RingInv, Orders
<1>8. \A m \in Notices : tables'.inbox[m].delivered => draft'.inbox[m].delivered
  BY <1>2, <1>3 DEF RingInv
<1>. QED  BY <1>1, <1>2, <1>6, <1>7, <1>8 DEF RingInv

\* The commit makes the deliveries of one dispatch known to all; nobody selects them again.
LEMMA CommitKeepsRings ==
    ASSUME TypeOK, RingInv, NEW p \in Processes, Commit(p)
    PROVE  RingInv'
<1>. DEFINE T == threads[p]
<1>0. /\ threads \in [Processes -> Thread] /\ T.stage = "next" /\ T.rows = <<>>
      /\ View(p) \in Tables /\ Nobody \notin Processes /\ (lock = Nobody => draft = tables)
  BY PushAssumption DEF TypeOK, Commit, View
<1>1. /\ rings' = rings /\ deaths' = deaths
      /\ \A q \in Processes : threads'[q] = IF q = p THEN NoThread ELSE threads[q]
  BY <1>0 DEF Commit
<1>2. \/ /\ lock \in {p, Nobody} /\ lock' = Nobody /\ draft' = tables'
         /\ tables'.inbox = draft.inbox
      \/ lock \notin {p, Nobody} /\ UNCHANGED <<tables, draft, lock>>
  <2>1. Reported(View(p), T.moment).inbox = View(p).inbox
    BY <1>0, ReportedInbox
  <2>. QED  BY <1>0, <2>1 DEF Commit, View
<1>3. ASSUME NEW x \in Notices \X Browsers
      PROVE  RingsCounted(x)'
  <2>0. x[1] \in Notices
    OBVIOUS
  <2>1. \A q \in Processes : MayRing(q, x)' => MayRing(q, x) /\ q # p
    BY <1>1 DEF MayRing, NoThread, Range
  <2>2. ~Tried(T, x)
    BY <1>0 DEF Tried
  <2>3. CASE ~tables.inbox[x[1]].delivered /\ tables'.inbox[x[1]].delivered
    <3>1. lock = p
      BY <1>0, <1>2, <2>3
    <3>2. \A q \in Processes : MayRing(q, x)' => ~Heard(q, x)
      BY <2>1, <3>1 DEF Heard, MayRing
    <3>3. Hearing(x) \cap Ringing(x)' = {}
      BY <3>2 DEF Hearing, Ringing
    <3>. QED  BY <1>1, <2>3, <3>3, DeliveryCounts DEF RingInv
  <2>4. CASE tables'.inbox[x[1]].delivered = tables.inbox[x[1]].delivered
    <3>1. ASSUME ~tables.inbox[x[1]].delivered, NEW q \in Processes, Heard(q, x)
          PROVE  Heard(q, x)'
      <4>1. q # p
        BY <1>0, <1>2, <2>2, <2>4, <3>1 DEF Heard
      <4>. QED  BY <1>0, <1>1, <1>2, <3>1, <4>1 DEF Heard
    <3>2. Calm(x)
      BY <1>1, <2>1, <2>4, <3>1 DEF Calm
    <3>. QED  BY <3>2, CalmCounts DEF RingInv
  <2>5. tables'.inbox[x[1]].delivered = tables.inbox[x[1]].delivered
            \/ (~tables.inbox[x[1]].delivered /\ tables'.inbox[x[1]].delivered)
    <3>1. tables \in Tables /\ draft \in Tables
      BY DEF TypeOK
    <3>2. tables.inbox[x[1]].delivered \in BOOLEAN /\ tables'.inbox[x[1]].delivered \in BOOLEAN
      BY <1>2, <2>0, <3>1 DEF Tables, Notice
    <3>3. tables.inbox[x[1]].delivered => tables'.inbox[x[1]].delivered
      BY <1>2, <2>0 DEF RingInv
    <3>. QED  BY <3>2, <3>3
  <2>. QED  BY <2>3, <2>4, <2>5
<1>4. Orders'
  BY <1>1 DEF RingInv, Orders, NoThread, IsInjective
<1>5. \A m \in Notices : tables'.inbox[m].delivered => draft'.inbox[m].delivered
  BY <1>2 DEF RingInv
<1>6. \A q \in Processes : lock' = q => threads'[q].stage \in {"next", "send", "record"}
  BY <1>0, <1>1, <1>2 DEF RingInv
<1>. QED  BY <1>3, <1>4, <1>5, <1>6 DEF RingInv

\* The count, for every number of processes, notices and phones.
LEMMA RingsAreCounted == Spec => []RingInv
<1>1. Init => RingInv
  <2>. SUFFICES ASSUME Init  PROVE RingInv
    OBVIOUS
  <2>1. Orders
    BY DEF Init, Orders, NoThread, IsInjective
  <2>2. \A x \in Notices \X Browsers : RingsCounted(x)
    BY Counts DEF Init, RingsCounted, Unwritten
  <2>3. \A n \in Notices : ~tables.inbox[n].delivered
    BY DEF Init, Unwritten
  <2>4. lock \notin Processes
    BY PushAssumption DEF Init
  <2>. QED  BY <2>1, <2>2, <2>3, <2>4 DEF RingInv
<1>2. TypeOK /\ RingInv /\ [Next]_vars => RingInv'
  <2>. SUFFICES ASSUME TypeOK, RingInv, [Next]_vars  PROVE RingInv'
    OBVIOUS
  <2>1. CASE \E p \in Processes : DispatchStep(p)
    BY <2>1, ChoicesKeepRings, SendKeepsRings, RecordKeepsRings, CommitKeepsRings DEF DispatchStep
  <2>2. CASE \E p \in Processes : Die(p)
    BY <2>2, DeathKeepsRings
  <2>3. CASE UNCHANGED vars
    BY <2>3 DEF vars, RingInv, Orders, RingsCounted, Hearing, Ringing, Heard, MayRing
  <2>. QED  BY <2>1, <2>2, <2>3, OthersKeepRings DEF Next
<1>. QED  BY <1>1, <1>2, TypeCorrect, PTL DEF Spec

\* However dispatches of several processes overlap, fail, die and are repeated, a phone rings for
\* a notice at most once per process and once per dispatch that died.
THEOREM RingsAreBounded == Spec => []RingsOnce
<1>1. TypeOK /\ RingInv => RingsOnce
  <2>. SUFFICES ASSUME TypeOK, RingInv, NEW x \in Notices \X Browsers
                PROVE  rings[x] <= Cardinality(Processes) + deaths
    BY DEF RingsOnce
  <2>1. rings[x] \in Nat /\ deaths \in Nat /\ RingsCounted(x)
    BY DEF TypeOK, RingInv
  <2>. QED  BY <2>1, Counts DEF RingsCounted
<1>. QED  BY <1>1, RingsAreCounted, TypeCorrect, PTL
=============================================================================
