-------------------------- MODULE FaceProcessProofs --------------------------
(***************************************************************************)
(* For every number of threads, children and calls, and every pipe: types,    *)
(* replies that match their requests, a table of requests in flight that is   *)
(* exact, and no child left behind.                                         *)
(***************************************************************************)
EXTENDS FaceProcess, TLAPS

USE FaceAssumption

-----------------------------------------------------------------------------
(* Types                                                                    *)

\* A child that was just started has nothing in its pipes.
LEMMA FreshType == NoFrame \in Frame /\ Fresh \in Child
<1>1. NoFrame \in Frame
  BY DEF Frame, NoFrame
<1>. QED  BY <1>1 DEF Child, Fresh

\* A child that dies is still a child.
LEMMA BuriedType ==
    ASSUME TypeOK, NEW p \in Children
    PROVE  Buried(p) \in [Children -> Child]
<1>. DEFINE dead == [alive |-> FALSE, work |-> NoFrame, inbox |-> <<>>, outbox |-> child[p].outbox]
<1>1. child[p] \in Child
  BY DEF TypeOK
<1>2. dead \in Child
  BY <1>1, FreshType DEF Child
<1>3. Buried(p) = [child EXCEPT ![p] = dead]
  BY DEF Buried
<1>. QED  BY <1>2, <1>3 DEF TypeOK

\* A frame that is written reaches a typed pipe; a child that is none has no pipe.
LEMMA InboxType ==
    ASSUME TypeOK, NEW p \in Children \cup {NoChild}, NEW frame \in Frame
    PROVE  [child EXCEPT ![p].inbox = Append(@, frame)] \in [Children -> Child]
<1>1. CASE p \in Children
  <2>1. child[p] \in Child
    BY <1>1 DEF TypeOK
  <2>2. child[p].inbox \in Seq(Frame)
    BY <2>1 DEF Child
  <2>3. Append(child[p].inbox, frame) \in Seq(Frame)
    BY <2>2
  <2>4. [child[p] EXCEPT !.inbox = Append(@, frame)] \in Child
    BY <2>1, <2>3 DEF Child
  <2>. QED  BY <2>4 DEF TypeOK
<1>2. CASE p \notin Children
  BY <1>2 DEF TypeOK
<1>. QED  BY <1>1, <1>2

\* A thread that has nothing to do is typed, ...
LEMMA IdleType ==
    ASSUME TypeOK, NEW c \in Calls
    PROVE  [calls EXCEPT ![c] = IdleCall] \in [Calls -> Call]
<1>1. IdleCall \in Call
  BY DEF IdleCall, Call, Stages, NoReply, NoChild
<1>. QED  BY <1>1 DEF TypeOK

\* ... and so is one that goes on to its next stage.
LEMMA StageType ==
    ASSUME TypeOK, NEW c \in Calls, NEW s \in Stages
    PROVE  [calls EXCEPT ![c].stage = s] \in [Calls -> Call]
<1>1. calls[c] \in Call
  BY DEF TypeOK
<1>2. [calls[c] EXCEPT !.stage = s] \in Call
  BY <1>1 DEF Call
<1>. QED  BY <1>2 DEF TypeOK

\* Failing the requests in flight keeps the calls typed.
LEMMA FailAllType ==
    ASSUME TypeOK, NEW others \in [Calls -> Call], FailAll(others)
    PROVE  calls' \in [Calls -> Call] /\ pending' = {}
<1>1. \A c \in Calls : [others[c] EXCEPT !.reply = Unavailable] \in Call
  <2>. TAKE c \in Calls
  <2>1. others[c] \in Call
    OBVIOUS
  <2>. QED  BY <2>1 DEF Call
<1>. QED  BY <1>1 DEF FailAll

\* Every step of a calling thread keeps the types.
LEMMA CallerTypes ==
    ASSUME TypeOK, NEW c \in Calls, Start(c) \/ CallerStep(c)
    PROVE  TypeOK'
<1>1. calls[c] \in Call
  BY DEF TypeOK
<1>2. {"idle", "started", "send", "write", "waiting", "expired", "kill", "fail"} = Stages
  BY DEF Stages
<1>3. CASE Start(c)
  <2>0. asked + 1 \in Nat /\ "started" \in Stages
    BY <1>2 DEF TypeOK
  <2>1. [calls[c] EXCEPT !.stage = "started", !.photo = asked + 1] \in Call
    BY <1>1, <2>0 DEF Call
  <2>2. calls' = [calls EXCEPT ![c] = [calls[c] EXCEPT !.stage = "started", !.photo = asked + 1]]
    BY <1>3 DEF Start
  <2>3. calls' \in [Calls -> Call] /\ asked' \in Nat
    BY <1>3, <2>0, <2>1, <2>2 DEF TypeOK, Start
  <2>4. CASE Running
    BY <1>3, <2>3, <2>4 DEF Start, TypeOK
  <2>5. CASE ~Running
    <3>1. spawned + 1 \in Children /\ Spawn
      BY <1>3, <2>5 DEF Start, Spawn, TypeOK, Children
    <3>2. child' \in [Children -> Child] /\ reader' \in [Children -> {"none", "reading", "failing", "ended"}]
      BY <3>1, FreshType DEF Spawn, TypeOK
    <3>. QED  BY <1>3, <2>3, <2>5, <3>1, <3>2 DEF Start, Spawn, TypeOK
  <2>. QED  BY <2>4, <2>5
<1>4. CASE Register(c)
  <2>1. current \in Children /\ lastId' \in Nat
    BY <1>4 DEF Register, Running, TypeOK, NoChild
  <2>2. [calls[c] EXCEPT !.stage = "send", !.id = lastId', !.served = current] \in Call
    BY <1>1, <1>2, <2>1 DEF Call
  <2>3. calls' = [calls EXCEPT ![c] =
            [calls[c] EXCEPT !.stage = "send", !.id = lastId', !.served = current]]
    BY <1>4 DEF Register
  <2>. QED  BY <1>4, <2>1, <2>2, <2>3 DEF Register, TypeOK
<1>5. CASE NotRunning(c) \/ Answered(c)
  <2>1. calls' \in [Calls -> Call]
    BY <1>5, IdleType DEF NotRunning, Answered
  <2>. QED  BY <1>5, <2>1 DEF NotRunning, Answered, TypeOK
<1>6. CASE Expire(c) \/ TakeWriteLock(c) \/ WriteFails(c)
  <2>1. calls' \in [Calls -> Call]
    BY <1>2, <1>6, IdleType, StageType DEF Expire, TakeWriteLock, WriteFails
  <2>. QED  BY <1>6, <2>1 DEF Expire, TakeWriteLock, WriteFails, TypeOK
<1>7. CASE Write(c)
  <2>1. calls' \in [Calls -> Call]
    BY <1>2, <1>7, StageType DEF Write
  <2>2. PICK p \in Children \cup {NoChild} : p = calls[c].served
    BY <1>1 DEF Call
  <2>3. [id |-> calls[c].id, photo |-> calls[c].photo] \in Frame
    BY <1>1 DEF Call, Frame
  <2>4. child' = [child EXCEPT ![p].inbox =
                    Append(@, [id |-> calls[c].id, photo |-> calls[c].photo])]
    BY <1>7, <2>2 DEF Write
  <2>5. child' \in [Children -> Child]
    BY <2>3, <2>4, InboxType
  <2>. QED  BY <1>7, <2>1, <2>5 DEF Write, TypeOK
<1>8. CASE TakeChild(c)
  <2>1. CASE current = NoChild
    BY <1>8, <2>1, IdleType DEF TakeChild, TypeOK
  <2>2. CASE current # NoChild
    <3>1. [calls[c] EXCEPT !.stage = "kill", !.target = current] \in Call
      BY <1>1, <1>2 DEF Call, TypeOK
    <3>. QED  BY <1>8, <2>2, <3>1 DEF TakeChild, TypeOK
  <2>. QED  BY <2>1, <2>2
<1>9. CASE Kill(c)
  <2>1. calls' \in [Calls -> Call]
    BY <1>2, <1>9, StageType DEF Kill
  <2>2. child' \in [Children -> Child]
    <3>1. PICK p \in Children \cup {NoChild} : p = calls[c].target
      BY <1>1 DEF Call
    <3>2. CASE p \in Children
      BY <1>9, <3>1, <3>2, BuriedType DEF Kill
    <3>3. CASE p \notin Children
      BY <1>9, <3>1, <3>3 DEF Kill, Buried, TypeOK
    <3>. QED  BY <3>2, <3>3
  <2>. QED  BY <1>9, <2>1, <2>2 DEF Kill, TypeOK
<1>10. CASE FailInFlight(c)
  <2>1. [calls EXCEPT ![c] = IdleCall] \in [Calls -> Call]
    BY IdleType
  <2>2. calls' \in [Calls -> Call] /\ pending' = {}
    BY <1>10, <2>1, FailAllType DEF FailInFlight
  <2>. QED  BY <1>10, <2>2 DEF FailInFlight, TypeOK
<1>. QED  BY <1>3, <1>4, <1>5, <1>6, <1>7, <1>8, <1>9, <1>10 DEF CallerStep

\* Every step of a reader keeps the types.
LEMMA ReaderTypes ==
    ASSUME TypeOK, NEW p \in Children, ReaderStep(p)
    PROVE  TypeOK'
<1>1. CASE Deliver(p)
  <2>1. child[p] \in Child /\ child[p].outbox # <<>>
    BY <1>1 DEF Deliver, TypeOK
  <2>2. child[p].outbox \in Seq(Frame)
    BY <2>1 DEF Child
  <2>3. Head(child[p].outbox) \in Frame /\ Tail(child[p].outbox) \in Seq(Frame)
    BY <2>1, <2>2
  <2>4. [child[p] EXCEPT !.outbox = Tail(@)] \in Child
    BY <2>1, <2>3 DEF Child
  <2>5. child' \in [Children -> Child]
    BY <1>1, <2>4 DEF Deliver, TypeOK
  <2>6. PICK photo \in Nat : photo = Head(child[p].outbox).photo
    BY <2>3 DEF Frame
  <2>7. \A c \in Calls : [calls[c] EXCEPT !.reply = photo] \in Call /\ calls[c] \in Call
    <3>. TAKE c \in Calls
    <3>1. calls[c] \in Call
      BY DEF TypeOK
    <3>. QED  BY <3>1 DEF Call
  <2>8. calls' \in [Calls -> Call]
    BY <1>1, <2>6, <2>7 DEF Deliver
  <2>. QED  BY <1>1, <2>5, <2>8 DEF Deliver, TypeOK
<1>2. CASE Reap(p)
  BY <1>2 DEF Reap, TypeOK
<1>3. CASE FailReaped(p)
  <2>1. calls \in [Calls -> Call]
    BY DEF TypeOK
  <2>2. calls' \in [Calls -> Call] /\ pending' = {}
    BY <1>3, <2>1, FailAllType DEF FailReaped
  <2>. QED  BY <1>3, <2>2 DEF FailReaped, TypeOK
<1>. QED  BY <1>1, <1>2, <1>3 DEF ReaderStep

\* Every step of a child keeps the types.
LEMMA ChildTypes ==
    ASSUME TypeOK, NEW p \in Children, TakeRequest(p) \/ Reply(p) \/ Crash(p)
    PROVE  TypeOK'
<1>1. child[p] \in Child
  BY DEF TypeOK
<1>2. /\ child[p].inbox \in Seq(Frame) /\ child[p].outbox \in Seq(Frame)
      /\ child[p].work \in Frame
  BY <1>1 DEF Child
<1>3. CASE TakeRequest(p)
  <2>1. Head(child[p].inbox) \in Frame /\ Tail(child[p].inbox) \in Seq(Frame)
    BY <1>2, <1>3 DEF TakeRequest
  <2>2. CASE Head(child[p].inbox).photo = 0
    <3>1. Buried(p)[p] \in Child /\ Buried(p)[p].outbox \in Seq(Frame)
      BY BuriedType DEF Child
    <3>2. Append(Buried(p)[p].outbox, Head(child[p].inbox)) \in Seq(Frame)
      BY <2>1, <3>1
    <3>3. [Buried(p)[p] EXCEPT !.outbox = Append(@, Head(child[p].inbox))] \in Child
      BY <3>1, <3>2 DEF Child
    <3>4. [Buried(p) EXCEPT ![p].outbox = Append(@, Head(child[p].inbox))] \in [Children -> Child]
      BY <3>3, BuriedType
    <3>. QED  BY <1>3, <2>2, <3>4 DEF TakeRequest, TypeOK
  <2>3. CASE Head(child[p].inbox).photo # 0
    <3>1. [child[p] EXCEPT !.inbox = Tail(@), !.work = Head(child[p].inbox)] \in Child
      BY <1>1, <2>1 DEF Child
    <3>. QED  BY <1>3, <2>3, <3>1 DEF TakeRequest, TypeOK
  <2>. QED  BY <2>2, <2>3
<1>4. CASE Reply(p)
  <2>1. Append(child[p].outbox, child[p].work) \in Seq(Frame)
    BY <1>2
  <2>2. [child[p] EXCEPT !.outbox = Append(@, child[p].work), !.work = NoFrame] \in Child
    BY <1>1, <2>1, FreshType DEF Child
  <2>. QED  BY <1>4, <2>2 DEF Reply, TypeOK
<1>5. CASE Crash(p)
  BY <1>5, BuriedType DEF Crash, TypeOK
<1>. QED  BY <1>3, <1>4, <1>5

\* Every step of stop() keeps the types.
LEMMA StopTypes ==
    ASSUME TypeOK, Stop \/ StopStep
    PROVE  TypeOK'
<1>1. CASE Stop
  BY <1>1 DEF Stop, TypeOK
<1>2. CASE SendShutdown
  <2>1. stopper.target \in Children \cup {NoChild} /\ lastId' \in Nat
    BY <1>2 DEF SendShutdown, TypeOK
  <2>2. [id |-> lastId', photo |-> 0] \in Frame
    BY <2>1 DEF Frame
  <2>3. child' \in [Children -> Child]
    BY <1>2, <2>1, <2>2, InboxType DEF SendShutdown, TypeOK
  <2>. QED  BY <1>2, <2>1, <2>3 DEF SendShutdown, TypeOK
<1>3. CASE MakeSure
  <2>1. child' \in [Children -> Child]
    <3>1. CASE stopper.target \in Children
      BY <1>3, <3>1, BuriedType DEF MakeSure
    <3>2. CASE stopper.target \notin Children
      BY <1>3, <3>2 DEF MakeSure, Buried, TypeOK
    <3>. QED  BY <3>1, <3>2
  <2>. QED  BY <1>3, <2>1 DEF MakeSure, TypeOK
<1>4. CASE FailStopped
  <2>1. calls \in [Calls -> Call]
    BY DEF TypeOK
  <2>2. calls' \in [Calls -> Call] /\ pending' = {}
    BY <1>4, <2>1, FailAllType DEF FailStopped
  <2>. QED  BY <1>4, <2>2 DEF FailStopped, TypeOK
<1>. QED  BY <1>1, <1>2, <1>3, <1>4 DEF StopStep

\* Tables, pipes and threads are typed in every behaviour of the transport.
THEOREM TypeCorrect == Spec => []TypeOK
<1>1. Init => TypeOK
  <2>. SUFFICES ASSUME Init PROVE TypeOK
    OBVIOUS
  <2>1. [Fresh EXCEPT !.alive = FALSE] \in Child /\ IdleCall \in Call
    BY FreshType DEF Child, IdleCall, Call, Stages, NoReply, NoChild
  <2>. QED  BY <2>1 DEF Init, TypeOK
<1>2. TypeOK /\ [Next]_vars => TypeOK'
  <2>. SUFFICES ASSUME TypeOK, [Next]_vars PROVE TypeOK'
    OBVIOUS
  <2>1. CASE UNCHANGED vars
    BY <2>1 DEF vars, TypeOK
  <2>. QED  BY <2>1, CallerTypes, ReaderTypes, ChildTypes, StopTypes DEF Next, ServiceNext
<1>. QED  BY <1>1, <1>2, PTL DEF Spec

-----------------------------------------------------------------------------
(* The inductive invariant                                                  *)

InCall(c) == calls[c].stage \in {"send", "write", "waiting"}

\* Requests in flight have numbers of their own, and a thread that has not sent
\* its request has no reply.
Numbered ==
    /\ \A c \in Calls : InCall(c) => calls[c].id \in 1..lastId
    /\ \A c, d \in Calls : InCall(c) /\ InCall(d) /\ calls[c].id = calls[d].id => c = d
    /\ \A c \in Calls : calls[c].stage # "idle" => calls[c].photo # 0
    /\ \A c \in Calls : calls[c].stage \in {"idle", "started"} => calls[c].reply = NoReply

\* A frame that carries a request's number carries its photograph.
Known ==
    {frame \in Frame :
        /\ frame.id <= lastId
        /\ \A c \in Calls : InCall(c) /\ calls[c].id = frame.id => frame.photo = calls[c].photo}

PipesMatch ==
    \A p \in Children : /\ child[p].work \in Known
                        /\ child[p].inbox \in Seq(Known)
                        /\ child[p].outbox \in Seq(Known)

\* No child runs that was not started, and the current one is the last.
InService ==
    /\ current <= spawned
    /\ \A p \in Children : p > spawned => ~child[p].alive

FaceInv ==
    TypeOK /\ Numbered /\ PipesMatch /\ OwnReply /\ ListedWhileUnanswered /\ InService /\ NoStrayChild

-----------------------------------------------------------------------------
(* Requests keep their numbers                                              *)

\* Most steps put no request in flight and change none that is.
FlightsKept ==
    /\ lastId' \in Nat /\ lastId' >= lastId
    /\ \A c \in Calls : InCall(c)' => /\ InCall(c)
                                      /\ calls'[c].id = calls[c].id
                                      /\ calls'[c].photo = calls[c].photo

NumbersKept ==
    /\ FlightsKept
    /\ \A c \in Calls : calls'[c].stage # "idle" => calls'[c].photo # 0
    /\ \A c \in Calls : calls'[c].stage \in {"idle", "started"} => calls'[c].reply = NoReply

\* What is known of a frame stays known, ...
LEMMA KnownStays ==
    ASSUME FaceInv, FlightsKept
    PROVE  Known \subseteq Known'
<1>1. lastId \in Nat
  BY DEF FaceInv, TypeOK
<1>. QED  BY <1>1 DEF FlightsKept, Known, Frame

\* ... also when a request is registered, since its number is new, ...
LEMMA RegisterKnown ==
    ASSUME FaceInv, NEW c \in Calls, Register(c)
    PROVE  Known \subseteq Known'
<1>1. lastId \in Nat /\ lastId' = lastId + 1
  BY DEF FaceInv, TypeOK, Register
<1>2. calls'[c].id = lastId'
  BY DEF Register, FaceInv, TypeOK
<1>3. \A d \in Calls : d # c => calls'[d] = calls[d]
  BY DEF Register, FaceInv, TypeOK
<1>. SUFFICES ASSUME NEW frame \in Known
              PROVE  frame \in Known'
  OBVIOUS
<1>4. frame \in Frame /\ frame.id \in Nat /\ frame.id <= lastId
  BY DEF Known, Frame
<1>5. ASSUME NEW d \in Calls, InCall(d)', calls'[d].id = frame.id
      PROVE  frame.photo = calls'[d].photo
  <2>1. d # c
    BY <1>1, <1>2, <1>4, <1>5
  <2>2. InCall(d) /\ calls[d].id = frame.id
    BY <1>3, <1>5, <2>1 DEF InCall
  <2>. QED  BY <1>3, <2>1, <2>2 DEF Known
<1>. QED  BY <1>1, <1>4, <1>5 DEF Known

\* ... and so do the pipes of a child that no step touches.
LEMMA SeqGrows ==
    ASSUME NEW S, NEW T, S \subseteq T, NEW s \in Seq(S)
    PROVE  s \in Seq(T)
OBVIOUS

LEMMA NoFrameKnown ==
    ASSUME TypeOK, Numbered
    PROVE  NoFrame \in Known
<1>1. NoFrame \in Frame /\ NoFrame.id = 0
  BY FreshType DEF NoFrame
<1>. QED  BY <1>1 DEF Known, Numbered, TypeOK

\* The numbers survive a step that keeps the flights and the photographs.
LEMMA NumbersStay ==
    ASSUME FaceInv, NumbersKept
    PROVE  Numbered'
<1>1. lastId \in Nat /\ lastId' \in Nat /\ lastId' >= lastId
  BY DEF FaceInv, TypeOK, FlightsKept, NumbersKept
<1>. QED  BY <1>1 DEF FaceInv, FlightsKept, NumbersKept, Numbered

\* A request is registered under a number no frame and no other request has.
LEMMA RegisterNumbers ==
    ASSUME FaceInv, NEW c \in Calls, Register(c)
    PROVE  Numbered'
<1>1. lastId \in Nat /\ lastId' = lastId + 1
  BY DEF FaceInv, TypeOK, Register
<1>2. calls'[c].id = lastId' /\ calls'[c].stage = "send" /\ calls'[c].photo = calls[c].photo
  BY DEF Register, FaceInv, TypeOK
<1>3. \A d \in Calls : d # c => calls'[d] = calls[d]
  BY DEF Register, FaceInv, TypeOK
<1>4. calls[c].stage = "started"
  BY DEF Register
<1>. QED  BY <1>1, <1>2, <1>3, <1>4 DEF FaceInv, Numbered, InCall

\* Failing the requests in flight changes their reply only.
LEMMA FailAllKeeps ==
    ASSUME FaceInv, NEW others \in [Calls -> Call], FailAll(others), lastId' = lastId,
           \A c \in Calls : others[c] = calls[c] \/ (others[c] = IdleCall /\ ~Listed(c))
    PROVE  NumbersKept
<1>1. lastId \in Nat
  BY DEF FaceInv, TypeOK
<1>2. \A c \in Calls : Listed(c) => InCall(c)
  BY DEF Listed, InCall
<1>3. ASSUME NEW c \in Calls
      PROVE  /\ calls'[c].stage = others[c].stage
             /\ calls'[c].photo = others[c].photo
             /\ calls'[c].id = others[c].id
             /\ calls'[c].reply = IF Listed(c) THEN Unavailable ELSE others[c].reply
  <2>1. others[c] \in Call
    OBVIOUS
  <2>. QED  BY <2>1 DEF FailAll, Call
<1>. QED  BY <1>1, <1>3 DEF FlightsKept, NumbersKept, InCall, IdleCall, FaceInv, Numbered, Listed

\* A step that changes no call keeps the numbers.
LEMMA QuietNumbers ==
    ASSUME FaceInv, UNCHANGED calls, lastId' \in Nat, lastId' >= lastId
    PROVE  NumbersKept
BY DEF FaceInv, Numbered, FlightsKept, NumbersKept, InCall

\* So does a step of a calling thread, unless it registers a request.
LEMMA CallerNumbers ==
    ASSUME FaceInv, NEW c \in Calls, Start(c) \/ CallerStep(c), ~Register(c)
    PROVE  NumbersKept
<1>1. lastId \in Nat /\ asked \in Nat /\ calls[c] \in Call
  BY DEF FaceInv, TypeOK
<1>2. CASE FailInFlight(c)
  <2>1. [calls EXCEPT ![c] = IdleCall] \in [Calls -> Call]
    BY IdleType DEF FaceInv
  <2>2. ~Listed(c)
    BY <1>2 DEF Listed, FailInFlight
  <2>3. \A d \in Calls : \/ [calls EXCEPT ![c] = IdleCall][d] = calls[d]
                         \/ [calls EXCEPT ![c] = IdleCall][d] = IdleCall /\ ~Listed(d)
    BY <2>2 DEF FaceInv, TypeOK
  <2>. QED  BY <1>2, <2>1, <2>3, FailAllKeeps DEF FailInFlight
<1>3. CASE Start(c)
  <2>1. lastId' = lastId
    BY <1>3 DEF Start, Spawn
  <2>2. /\ calls'[c].stage = "started" /\ calls'[c].photo = asked + 1
        /\ calls'[c].reply = calls[c].reply /\ calls[c].stage = "idle"
        /\ \A d \in Calls : d # c => calls'[d] = calls[d]
    BY <1>1, <1>3 DEF Start, Call, FaceInv, TypeOK
  <2>. QED  BY <1>1, <2>1, <2>2 DEF NumbersKept, FlightsKept, InCall, FaceInv, Numbered
<1>4. CASE NotRunning(c) \/ WriteFails(c) \/ Answered(c)
  <2>1. lastId' = lastId /\ calls' = [calls EXCEPT ![c] = IdleCall]
    BY <1>4 DEF NotRunning, WriteFails, Answered
  <2>. QED  BY <1>1, <2>1 DEF NumbersKept, FlightsKept, InCall, IdleCall, FaceInv, TypeOK, Numbered
<1>5. CASE TakeWriteLock(c) \/ Write(c) \/ Expire(c) \/ Kill(c)
  <2>1. lastId' = lastId /\ \A d \in Calls : d # c => calls'[d] = calls[d]
    BY <1>5 DEF TakeWriteLock, Write, Expire, Kill, FaceInv, TypeOK
  <2>2. calls'[c].id = calls[c].id /\ calls'[c].photo = calls[c].photo
    BY <1>1, <1>5 DEF TakeWriteLock, Write, Expire, Kill, FaceInv, TypeOK, Call
  <2>3. /\ calls[c].stage # "idle"
        /\ calls'[c].stage \in {"write", "waiting", "expired", "fail"}
        /\ calls'[c].stage \in {"write", "waiting"} => calls[c].stage \in {"send", "write"}
    BY <1>1, <1>5 DEF TakeWriteLock, Write, Expire, Kill, FaceInv, TypeOK, Call
  <2>. QED  BY <1>1, <2>1, <2>2, <2>3 DEF NumbersKept, FlightsKept, InCall, FaceInv, Numbered
<1>6. CASE TakeChild(c)
  <2>1. lastId' = lastId /\ calls[c].stage = "expired"
    BY <1>6 DEF TakeChild
  <2>2. CASE current = NoChild
    BY <1>1, <1>6, <2>1, <2>2 DEF TakeChild, NumbersKept, FlightsKept, InCall, IdleCall, FaceInv,
          TypeOK, Numbered
  <2>3. CASE current # NoChild
    <3>1. calls' = [calls EXCEPT ![c] = [@ EXCEPT !.stage = "kill", !.target = current]]
      BY <1>6, <2>3 DEF TakeChild
    <3>2. /\ calls'[c].stage = "kill" /\ calls'[c].photo = calls[c].photo
          /\ \A d \in Calls : d # c => calls'[d] = calls[d]
      BY <1>1, <3>1 DEF FaceInv, TypeOK, Call
    <3>. QED  BY <1>1, <2>1, <3>2 DEF NumbersKept, FlightsKept, InCall, FaceInv, Numbered
  <2>. QED  BY <2>2, <2>3
<1>. QED  BY <1>2, <1>3, <1>4, <1>5, <1>6 DEF CallerStep

\* A reply changes its request's reply only.
LEMMA DeliverNumbers ==
    ASSUME FaceInv, NEW p \in Children, Deliver(p)
    PROVE  NumbersKept
<1>1. lastId \in Nat /\ lastId' = lastId
  BY DEF FaceInv, TypeOK, Deliver
<1>2. ASSUME NEW c \in Calls
      PROVE  /\ calls'[c].stage = calls[c].stage
             /\ calls'[c].photo = calls[c].photo
             /\ calls'[c].id = calls[c].id
             /\ ~Listed(c) => calls'[c].reply = calls[c].reply
  <2>1. calls[c] \in Call
    BY DEF FaceInv, TypeOK
  <2>. QED  BY <2>1 DEF Deliver, Call
<1>. QED  BY <1>1, <1>2 DEF NumbersKept, FlightsKept, InCall, FaceInv, Numbered, Listed

\* Every step keeps the numbers apart and lets frames stay known.
LEMMA NumbersStep ==
    ASSUME FaceInv, Next
    PROVE  Numbered' /\ Known \subseteq Known' /\ (lastId' \in Nat /\ lastId' >= lastId)
<1>1. lastId \in Nat /\ calls \in [Calls -> Call]
  BY DEF FaceInv, TypeOK
<1>2. CASE NumbersKept
  BY <1>2, NumbersStay, KnownStays DEF NumbersKept, FlightsKept
<1>3. ASSUME NEW c \in Calls, Start(c) \/ CallerStep(c)
      PROVE  Numbered' /\ Known \subseteq Known' /\ lastId' \in Nat /\ lastId' >= lastId
  <2>1. CASE Register(c)
    <3>1. lastId' = lastId + 1
      BY <2>1 DEF Register
    <3>2. Numbered' /\ Known \subseteq Known'
      BY <2>1, RegisterNumbers, RegisterKnown
    <3>. QED  BY <1>1, <3>1, <3>2
  <2>2. CASE ~Register(c)
    BY <1>2, <1>3, <2>2, CallerNumbers
  <2>. QED  BY <2>1, <2>2
<1>4. ASSUME NEW p \in Children, ReaderStep(p)
      PROVE  NumbersKept
  <2>1. CASE Deliver(p)
    BY <2>1, DeliverNumbers
  <2>2. CASE Reap(p)
    BY <1>1, <2>2, QuietNumbers DEF Reap
  <2>3. CASE FailReaped(p)
    BY <1>1, <2>3, FailAllKeeps DEF FailReaped
  <2>. QED  BY <1>4, <2>1, <2>2, <2>3 DEF ReaderStep
<1>5. ASSUME NEW p \in Children, TakeRequest(p) \/ Reply(p) \/ Crash(p)
      PROVE  NumbersKept
  BY <1>1, <1>5, QuietNumbers DEF TakeRequest, Reply, Crash
<1>6. CASE Stop \/ SendShutdown \/ MakeSure
  BY <1>1, <1>2, <1>6, QuietNumbers DEF Stop, SendShutdown, MakeSure
<1>7. CASE FailStopped
  BY <1>1, <1>2, <1>7, FailAllKeeps DEF FailStopped
<1>. QED  BY <1>2, <1>3, <1>4, <1>5, <1>6, <1>7 DEF Next, ServiceNext, StopStep

-----------------------------------------------------------------------------
(* Pipes carry what was asked                                               *)

\* A child whose pipes match, in the state before or after the step.
Matches(kid, frames) ==
    kid.work \in frames /\ kid.inbox \in Seq(frames) /\ kid.outbox \in Seq(frames)

\* A step that gives at most one child new pipes, of known frames, keeps them matched.
LEMMA OneChild ==
    ASSUME FaceInv, Known \subseteq Known', NEW q,
           \A p \in Children : p # q => child'[p] = child[p],
           q \in Children => Matches(child'[q], Known')
    PROVE  PipesMatch'
<1>. SUFFICES ASSUME NEW p \in Children
              PROVE  /\ child'[p].work \in Known'
                     /\ child'[p].inbox \in Seq(Known')
                     /\ child'[p].outbox \in Seq(Known')
  BY DEF PipesMatch
<1>1. CASE p = q
  BY <1>1 DEF Matches
<1>2. CASE p # q
  <2>1. /\ child[p].work \in Known /\ child[p].inbox \in Seq(Known)
        /\ child[p].outbox \in Seq(Known)
    BY DEF FaceInv, PipesMatch
  <2>2. child[p].inbox \in Seq(Known') /\ child[p].outbox \in Seq(Known')
    BY <2>1, SeqGrows
  <2>. QED  BY <1>2, <2>1, <2>2
<1>. QED  BY <1>1, <1>2

\* A child that dies keeps what it wrote.
LEMMA BuriedMatches ==
    ASSUME FaceInv, Numbered', TypeOK', Known \subseteq Known', NEW q, child' = Buried(q)
    PROVE  PipesMatch'
<1>1. \A p \in Children : p # q => child'[p] = child[p]
  BY DEF Buried, FaceInv, TypeOK
<1>2. ASSUME q \in Children
      PROVE  Matches(child'[q], Known')
  <2>1. /\ child'[q].work = NoFrame /\ child'[q].inbox = <<>>
        /\ child'[q].outbox = child[q].outbox
    BY <1>2 DEF Buried, FaceInv, TypeOK
  <2>2. child[q].outbox \in Seq(Known) /\ NoFrame \in Known
    BY <1>2, NoFrameKnown DEF FaceInv, PipesMatch
  <2>3. child[q].outbox \in Seq(Known')
    BY <2>2, SeqGrows
  <2>. QED  BY <2>1, <2>2, <2>3 DEF Matches
<1>. QED  BY <1>1, <1>2, OneChild

\* So does a child that was sent a known frame.
LEMMA InboxMatches ==
    ASSUME FaceInv, Known \subseteq Known', NEW q, NEW frame \in Known',
           child' = [child EXCEPT ![q].inbox = Append(@, frame)]
    PROVE  PipesMatch'
<1>1. \A p \in Children : p # q => child'[p] = child[p]
  BY DEF FaceInv, TypeOK
<1>2. ASSUME q \in Children
      PROVE  Matches(child'[q], Known')
  <2>1. child[q] \in Child
    BY <1>2 DEF FaceInv, TypeOK
  <2>2. child'[q] = [child[q] EXCEPT !.inbox = Append(@, frame)]
    BY <1>2 DEF FaceInv, TypeOK
  <2>3. /\ child'[q].work = child[q].work /\ child'[q].outbox = child[q].outbox
        /\ child'[q].inbox = Append(child[q].inbox, frame)
    BY <2>1, <2>2 DEF Child
  <2>4. /\ child[q].work \in Known /\ child[q].inbox \in Seq(Known)
        /\ child[q].outbox \in Seq(Known)
    BY <1>2 DEF FaceInv, PipesMatch
  <2>5. child[q].inbox \in Seq(Known') /\ child[q].outbox \in Seq(Known')
    BY <2>4, SeqGrows
  <2>6. Append(child[q].inbox, frame) \in Seq(Known')
    BY <2>5
  <2>. QED  BY <2>3, <2>4, <2>5, <2>6 DEF Matches
<1>. QED  BY <1>1, <1>2, OneChild

\* A step that touches no child keeps the pipes matched.
LEMMA QuietMatches ==
    ASSUME FaceInv, Known \subseteq Known', UNCHANGED child
    PROVE  PipesMatch'
BY OneChild, 0 \notin Children DEF Children

\* Every step keeps the pipes matched.
LEMMA PipesStep ==
    ASSUME FaceInv, Next
    PROVE  PipesMatch'
<1>1. Known \subseteq Known' /\ Numbered'
  BY NumbersStep
<1>2. TypeOK /\ TypeOK'
  BY CallerTypes, ReaderTypes, ChildTypes, StopTypes DEF Next, ServiceNext, FaceInv
<1>3. lastId \in Nat /\ child \in [Children -> Child] /\ NoFrame \in Known'
  BY <1>1, <1>2, NoFrameKnown DEF TypeOK, FaceInv
<1>4. ASSUME NEW c \in Calls, Start(c) \/ CallerStep(c)
      PROVE  PipesMatch'
  <2>1. CASE UNCHANGED child
    BY <1>1, <2>1, QuietMatches
  <2>2. CASE Start(c) /\ ~Running
    <3>1. child' = [child EXCEPT ![spawned + 1] = Fresh]
      BY <2>2 DEF Start, Spawn
    <3>2. \A p \in Children : p # spawned + 1 => child'[p] = child[p]
      BY <1>3, <3>1
    <3>3. ASSUME spawned + 1 \in Children
          PROVE  Matches(child'[spawned + 1], Known')
      BY <1>3, <3>1, <3>3 DEF Matches, Fresh
    <3>. QED  BY <1>1, <3>2, <3>3, OneChild
  <2>3. CASE Write(c)
    <3>1. calls[c] \in Call /\ InCall(c) /\ lastId' = lastId
      BY <1>2, <2>3 DEF Write, InCall, TypeOK
    <3>. DEFINE frame == [id |-> calls[c].id, photo |-> calls[c].photo]
    <3>2. frame \in Frame
      BY <3>1 DEF Call, Frame
    <3>3. frame.id \in 1..lastId /\ frame.photo = calls[c].photo /\ frame.id = calls[c].id
      BY <3>1 DEF FaceInv, Numbered
    <3>4. \A d \in Calls : InCall(d) /\ calls[d].id = frame.id => frame.photo = calls[d].photo
      BY <3>1, <3>3 DEF FaceInv, Numbered
    <3>5. frame \in Known
      BY <1>3, <3>2, <3>3, <3>4 DEF Known
    <3>6. child' = [child EXCEPT ![calls[c].served].inbox = Append(@, frame)]
      BY <2>3 DEF Write
    <3>. QED  BY <1>1, <3>5, <3>6, InboxMatches
  <2>4. CASE Kill(c)
    BY <1>1, <1>2, <2>4, BuriedMatches DEF Kill
  <2>. QED  BY <1>4, <2>1, <2>2, <2>3, <2>4 DEF CallerStep, Start, Register, NotRunning,
            TakeWriteLock, WriteFails, Answered, Expire, TakeChild, FailInFlight
<1>5. ASSUME NEW p \in Children, ReaderStep(p)
      PROVE  PipesMatch'
  <2>1. CASE UNCHANGED child
    BY <1>1, <2>1, QuietMatches
  <2>2. CASE Deliver(p)
    <3>1. child[p] \in Child /\ child[p].outbox # <<>>
      BY <1>3, <2>2 DEF Deliver
    <3>2. child'[p] = [child[p] EXCEPT !.outbox = Tail(@)]
      BY <1>3, <2>2 DEF Deliver
    <3>3. /\ child'[p].work = child[p].work /\ child'[p].inbox = child[p].inbox
          /\ child'[p].outbox = Tail(child[p].outbox)
      BY <3>1, <3>2 DEF Child
    <3>4. /\ child[p].work \in Known /\ child[p].inbox \in Seq(Known)
          /\ child[p].outbox \in Seq(Known)
      BY DEF FaceInv, PipesMatch
    <3>5. child[p].inbox \in Seq(Known') /\ child[p].outbox \in Seq(Known')
      BY <1>1, <3>4, SeqGrows
    <3>6. Tail(child[p].outbox) \in Seq(Known')
      BY <3>1, <3>5
    <3>7. Matches(child'[p], Known')
      BY <1>1, <3>3, <3>4, <3>5, <3>6 DEF Matches
    <3>8. \A q \in Children : q # p => child'[q] = child[q]
      BY <1>3, <2>2 DEF Deliver
    <3>. QED  BY <1>1, <3>7, <3>8, OneChild
  <2>. QED  BY <1>5, <2>1, <2>2 DEF ReaderStep, Reap, FailReaped
<1>6. ASSUME NEW p \in Children, TakeRequest(p) \/ Reply(p) \/ Crash(p)
      PROVE  PipesMatch'
  <2>1. child[p] \in Child
    BY <1>3
  <2>2. /\ child[p].work \in Known /\ child[p].inbox \in Seq(Known)
        /\ child[p].outbox \in Seq(Known)
    BY DEF FaceInv, PipesMatch
  <2>3. /\ child[p].inbox \in Seq(Known') /\ child[p].outbox \in Seq(Known')
        /\ child[p].work \in Known'
    BY <1>1, <2>2, SeqGrows
  <2>4. \A q \in Children : q # p => child'[q] = child[q]
    BY <1>3, <1>6 DEF TakeRequest, Reply, Crash, Buried
  <2>5. CASE TakeRequest(p)
    <3>1. Head(child[p].inbox) \in Known' /\ Tail(child[p].inbox) \in Seq(Known')
      BY <2>3, <2>5 DEF TakeRequest
    <3>2. CASE Head(child[p].inbox).photo = 0
      <4>1. child' = [Buried(p) EXCEPT ![p].outbox = Append(@, Head(child[p].inbox))]
        BY <2>5, <3>2 DEF TakeRequest
      <4>2. Buried(p)[p] = [alive |-> FALSE, work |-> NoFrame, inbox |-> <<>>,
                            outbox |-> child[p].outbox]
        BY <1>3 DEF Buried
      <4>3. /\ child'[p].work = NoFrame /\ child'[p].inbox = <<>>
            /\ child'[p].outbox = Append(child[p].outbox, Head(child[p].inbox))
        BY <1>2, <4>1, <4>2, BuriedType
      <4>4. Append(child[p].outbox, Head(child[p].inbox)) \in Seq(Known')
        BY <2>3, <3>1
      <4>5. <<>> \in Seq(Known')
        OBVIOUS
      <4>6. Matches(child'[p], Known')
        BY <1>3, <4>3, <4>4, <4>5 DEF Matches
      <4>. QED  BY <1>1, <2>4, <4>6, OneChild
    <3>3. CASE Head(child[p].inbox).photo # 0
      <4>1. child'[p] = [child[p] EXCEPT !.inbox = Tail(@), !.work = Head(child[p].inbox)]
        BY <1>3, <2>5, <3>3 DEF TakeRequest
      <4>2. /\ child'[p].work = Head(child[p].inbox) /\ child'[p].inbox = Tail(child[p].inbox)
            /\ child'[p].outbox = child[p].outbox
        BY <2>1, <4>1 DEF Child
      <4>. QED  BY <1>1, <2>3, <2>4, <3>1, <4>2, OneChild DEF Matches
    <3>. QED  BY <3>2, <3>3
  <2>6. CASE Reply(p)
    <3>1. child'[p] = [child[p] EXCEPT !.outbox = Append(@, child[p].work), !.work = NoFrame]
      BY <1>3, <2>6 DEF Reply
    <3>2. /\ child'[p].work = NoFrame /\ child'[p].inbox = child[p].inbox
          /\ child'[p].outbox = Append(child[p].outbox, child[p].work)
      BY <2>1, <3>1 DEF Child
    <3>3. Append(child[p].outbox, child[p].work) \in Seq(Known')
      BY <2>3
    <3>. QED  BY <1>1, <1>3, <2>3, <2>4, <3>2, <3>3, OneChild DEF Matches
  <2>7. CASE Crash(p)
    BY <1>1, <1>2, <2>7, BuriedMatches DEF Crash
  <2>. QED  BY <1>6, <2>5, <2>6, <2>7
<1>7. CASE Stop \/ FailStopped
  BY <1>1, <1>7, QuietMatches DEF Stop, FailStopped
<1>8. CASE MakeSure
  BY <1>1, <1>2, <1>8, BuriedMatches DEF MakeSure
<1>9. CASE SendShutdown
  <2>1. CASE UNCHANGED child
    BY <1>1, <2>1, QuietMatches
  <2>2. CASE child' = [child EXCEPT ![stopper.target].inbox =
                            Append(@, [id |-> lastId', photo |-> 0])]
    <3>1. lastId' = lastId + 1 /\ calls' = calls
      BY <1>9 DEF SendShutdown
    <3>. DEFINE frame == [id |-> lastId', photo |-> 0]
    <3>2. frame \in Frame /\ frame.id = lastId + 1
      BY <1>3, <3>1 DEF Frame
    <3>3. \A d \in Calls : InCall(d)' => calls'[d].id # frame.id
      BY <1>3, <3>1, <3>2 DEF FaceInv, Numbered, InCall
    <3>4. frame \in Known'
      BY <1>3, <3>1, <3>2, <3>3 DEF Known
    <3>. QED  BY <1>1, <2>2, <3>4, InboxMatches
  <2>. QED  BY <1>9, <2>1, <2>2 DEF SendShutdown
<1>. QED  BY <1>4, <1>5, <1>6, <1>7, <1>8, <1>9 DEF Next, ServiceNext, StopStep

-----------------------------------------------------------------------------
(* Replies                                                                  *)

Replies == OwnReply /\ ListedWhileUnanswered

\* A step that changes no request in flight and no table keeps the replies.
LEMMA QuietReplies ==
    ASSUME FaceInv, UNCHANGED <<calls, pending>>
    PROVE  Replies'
BY DEF FaceInv, Replies, OwnReply, ListedWhileUnanswered, Listed

\* Once the requests in flight have failed, each has its reply and none is listed.
LEMMA FailAllReplies ==
    ASSUME FaceInv, NEW others \in [Calls -> Call], FailAll(others),
           \A c \in Calls : others[c] = calls[c] \/ (others[c] = IdleCall /\ ~Listed(c))
    PROVE  Replies'
<1>1. ASSUME NEW c \in Calls
      PROVE  /\ calls'[c].stage = others[c].stage
             /\ calls'[c].photo = others[c].photo
             /\ calls'[c].id = others[c].id
             /\ calls'[c].reply = IF Listed(c) THEN Unavailable ELSE others[c].reply
  <2>1. others[c] \in Call
    OBVIOUS
  <2>. QED  BY <2>1 DEF FailAll, Call
<1>2. pending' = {} /\ Unavailable # NoReply
  BY DEF FailAll, Unavailable, NoReply
<1>. QED  BY <1>1, <1>2 DEF FaceInv, Replies, OwnReply, ListedWhileUnanswered, Listed, IdleCall

\* A thread that leaves the table takes its own entry with it.
LEMMA LeavingReplies ==
    ASSUME FaceInv, NEW c \in Calls, InCall(c), pending' = pending \ {calls[c].id},
           calls'[c].stage \notin {"send", "write", "waiting"},
           calls'[c].reply \in {NoReply, Unavailable, calls'[c].photo},
           \A d \in Calls : d # c => calls'[d] = calls[d]
    PROVE  Replies'
<1>1. \A d \in Calls : d # c /\ InCall(d) => calls[d].id # calls[c].id
  BY DEF FaceInv, Numbered
<1>. QED  BY <1>1 DEF FaceInv, Replies, OwnReply, ListedWhileUnanswered, Listed, InCall

\* A step of one thread that changes neither its number, its photograph nor its
\* reply, and neither enters nor leaves the table, keeps the replies.
LEMMA StageReplies ==
    ASSUME FaceInv, NEW c \in Calls, UNCHANGED pending,
           calls'[c].id = calls[c].id, calls'[c].photo = calls[c].photo,
           calls'[c].reply = calls[c].reply, InCall(c)' <=> InCall(c),
           \A d \in Calls : d # c => calls'[d] = calls[d]
    PROVE  Replies'
BY DEF FaceInv, Replies, OwnReply, ListedWhileUnanswered, Listed, InCall

\* Every step of a calling thread keeps the replies.
LEMMA CallerReplies ==
    ASSUME FaceInv, NEW c \in Calls, Start(c) \/ CallerStep(c)
    PROVE  Replies'
<1>1. /\ lastId \in Nat /\ asked \in Nat /\ calls[c] \in Call /\ calls \in [Calls -> Call]
      /\ pending \subseteq Nat
  BY DEF FaceInv, TypeOK
<1>2. IdleCall.stage = "idle" /\ IdleCall.reply = NoReply
  BY DEF IdleCall
<1>3. CASE FailInFlight(c)
  <2>1. [calls EXCEPT ![c] = IdleCall] \in [Calls -> Call]
    BY IdleType DEF FaceInv
  <2>2. ~Listed(c)
    BY <1>3 DEF Listed, FailInFlight
  <2>3. \A d \in Calls : \/ [calls EXCEPT ![c] = IdleCall][d] = calls[d]
                         \/ [calls EXCEPT ![c] = IdleCall][d] = IdleCall /\ ~Listed(d)
    BY <2>2 DEF FaceInv, TypeOK
  <2>. QED  BY <1>3, <2>1, <2>3, FailAllReplies DEF FailInFlight
<1>4. CASE Start(c)
  <2>1. /\ calls'[c].stage = "started" /\ calls'[c].reply = calls[c].reply
        /\ calls[c].stage = "idle" /\ pending' = pending
        /\ \A d \in Calls : d # c => calls'[d] = calls[d]
    BY <1>1, <1>4 DEF Start, Call
  <2>2. calls[c].reply = NoReply
    BY <2>1 DEF FaceInv, Numbered
  <2>. QED  BY <2>1, <2>2 DEF FaceInv, Replies, OwnReply, ListedWhileUnanswered, Listed
<1>5. CASE Register(c)
  <2>1. /\ calls'[c].stage = "send" /\ calls'[c].reply = calls[c].reply
        /\ calls'[c].photo = calls[c].photo /\ calls'[c].id = lastId'
        /\ \A d \in Calls : d # c => calls'[d] = calls[d]
    BY <1>1, <1>5 DEF Register, Call
  <2>2. lastId' = lastId + 1 /\ pending' = pending \cup {lastId'} /\ calls[c].stage = "started"
    BY <1>5 DEF Register
  <2>3. calls[c].reply = NoReply
    BY <2>2 DEF FaceInv, Numbered
  <2>4. \A d \in Calls : InCall(d) => calls[d].id # lastId'
    BY <1>1, <2>2 DEF FaceInv, Numbered
  <2>. QED  BY <2>1, <2>2, <2>3, <2>4
            DEF FaceInv, Replies, OwnReply, ListedWhileUnanswered, Listed, InCall
<1>6. CASE TakeWriteLock(c) \/ Write(c) \/ Kill(c)
  <2>1. UNCHANGED pending /\ \A d \in Calls : d # c => calls'[d] = calls[d]
    BY <1>1, <1>6 DEF TakeWriteLock, Write, Kill
  <2>2. /\ calls'[c].id = calls[c].id /\ calls'[c].photo = calls[c].photo
        /\ calls'[c].reply = calls[c].reply
    BY <1>1, <1>6 DEF TakeWriteLock, Write, Kill, Call
  <2>3. InCall(c)' <=> InCall(c)
    BY <1>1, <1>6 DEF TakeWriteLock, Write, Kill, Call, InCall
  <2>. QED  BY <2>1, <2>2, <2>3, StageReplies
<1>7. CASE WriteFails(c)
  BY <1>1, <1>2, <1>7, LeavingReplies DEF WriteFails, InCall
<1>8. CASE Expire(c)
  <2>1. /\ calls'[c].stage = "expired" /\ calls'[c].reply = NoReply
        /\ \A d \in Calls : d # c => calls'[d] = calls[d]
    BY <1>1, <1>8 DEF Expire, Call
  <2>. QED  BY <1>8, <2>1, LeavingReplies DEF Expire, InCall
<1>9. CASE NotRunning(c) \/ Answered(c)
  <2>1. /\ calls' = [calls EXCEPT ![c] = IdleCall] /\ pending' = pending
        /\ \/ calls[c].stage = "started"
           \/ calls[c].stage = "waiting" /\ calls[c].reply # NoReply
    BY <1>9 DEF NotRunning, Answered
  <2>2. ~Listed(c)
    BY <2>1 DEF FaceInv, ListedWhileUnanswered, Listed
  <2>. QED  BY <1>1, <1>2, <2>1, <2>2 DEF FaceInv, Replies, OwnReply, ListedWhileUnanswered, Listed
<1>10. CASE TakeChild(c)
  <2>1. pending' = pending /\ calls[c].stage = "expired" /\ ~Listed(c)
    BY <1>10 DEF TakeChild, Listed
  <2>2. CASE current = NoChild
    <3>1. calls' = [calls EXCEPT ![c] = IdleCall]
      BY <1>10, <2>2 DEF TakeChild
    <3>. QED  BY <1>1, <1>2, <2>1, <3>1
              DEF FaceInv, Replies, OwnReply, ListedWhileUnanswered, Listed
  <2>3. CASE current # NoChild
    <3>1. calls' = [calls EXCEPT ![c] = [@ EXCEPT !.stage = "kill", !.target = current]]
      BY <1>10, <2>3 DEF TakeChild
    <3>2. /\ calls'[c].id = calls[c].id /\ calls'[c].photo = calls[c].photo
          /\ calls'[c].reply = calls[c].reply /\ calls'[c].stage = "kill"
          /\ \A d \in Calls : d # c => calls'[d] = calls[d]
      BY <1>1, <3>1 DEF Call
    <3>. QED  BY <2>1, <3>2, StageReplies DEF InCall
  <2>. QED  BY <2>2, <2>3
<1>. QED  BY <1>3, <1>4, <1>5, <1>6, <1>7, <1>8, <1>9, <1>10 DEF CallerStep

\* A reply goes to the request whose photograph it answers.
LEMMA DeliverReplies ==
    ASSUME FaceInv, NEW p \in Children, Deliver(p)
    PROVE  Replies'
<1>. DEFINE reply == Head(child[p].outbox)
<1>1. reply \in Known
  BY DEF Deliver, FaceInv, PipesMatch
<1>2. \A c \in Calls : Listed(c) /\ calls[c].id = reply.id => reply.photo = calls[c].photo
  BY <1>1 DEF Known, Listed, InCall
<1>3. ASSUME NEW c \in Calls
      PROVE  /\ calls'[c].stage = calls[c].stage
             /\ calls'[c].photo = calls[c].photo
             /\ calls'[c].id = calls[c].id
             /\ calls'[c].reply = IF Listed(c) /\ calls[c].id = reply.id
                                    THEN calls[c].photo ELSE calls[c].reply
  <2>1. calls[c] \in Call
    BY DEF FaceInv, TypeOK
  <2>. QED  BY <1>2, <2>1 DEF Deliver, Call
<1>4. pending' = pending \ {reply.id}
  BY DEF Deliver
<1>5. \A c \in Calls : InCall(c) => calls[c].photo # NoReply
  BY DEF FaceInv, Numbered, InCall, NoReply
<1>. HIDE DEF reply
<1>. QED  BY <1>3, <1>4, <1>5 DEF FaceInv, Replies, OwnReply, ListedWhileUnanswered, Listed, InCall

\* Every step keeps the replies and the table.
LEMMA RepliesStep ==
    ASSUME FaceInv, Next
    PROVE  Replies'
<1>1. calls \in [Calls -> Call]
  BY DEF FaceInv, TypeOK
<1>2. ASSUME NEW p \in Children, ReaderStep(p)
      PROVE  Replies'
  BY <1>1, <1>2, DeliverReplies, QuietReplies, FailAllReplies
     DEF ReaderStep, Reap, FailReaped
<1>3. ASSUME NEW p \in Children, TakeRequest(p) \/ Reply(p) \/ Crash(p)
      PROVE  Replies'
  BY <1>3, QuietReplies DEF TakeRequest, Reply, Crash
<1>4. CASE Stop \/ StopStep
  BY <1>1, <1>4, QuietReplies, FailAllReplies
     DEF Stop, StopStep, SendShutdown, MakeSure, FailStopped
<1>. QED  BY <1>2, <1>3, <1>4, CallerReplies DEF Next, ServiceNext

-----------------------------------------------------------------------------
(* Children in service                                                      *)

\* A child that is stopped being current is taken by the thread that will end it.
LEMMA ServiceStep ==
    ASSUME FaceInv, Next
    PROVE  InService' /\ NoStrayChild'
<1>1. /\ current \in Children \cup {NoChild} /\ spawned \in Nat
      /\ child \in [Children -> Child] /\ calls \in [Calls -> Call]
  BY DEF FaceInv, TypeOK, Children
<1>2. Children \subseteq Nat /\ NoChild \notin Children
  BY DEF Children, NoChild
<1>3. InService /\ NoStrayChild
  BY DEF FaceInv
\* no child is started or comes back to life, and who was ending one still is
<1>4. ASSUME UNCHANGED <<current, spawned, stopper>>,
             \A p \in Children : child'[p].alive => child[p].alive,
             \A c \in Calls, p \in Children :
                calls[c].stage = "kill" /\ calls[c].target = p /\ child'[p].alive
                => calls'[c].stage = "kill" /\ calls'[c].target = p
      PROVE  InService' /\ NoStrayChild'
  BY <1>1, <1>3, <1>4 DEF InService, NoStrayChild, Ending
<1>5. ASSUME NEW others \in [Calls -> Call], FailAll(others)
      PROVE  \A c \in Calls : /\ calls'[c].stage = others[c].stage
                              /\ calls'[c].target = others[c].target
  <2>. TAKE c \in Calls
  <2>1. others[c] \in Call
    OBVIOUS
  <2>. QED  BY <1>5, <2>1 DEF FailAll, Call
<1>6. ASSUME NEW q
      PROVE  \A p \in Children : /\ Buried(q)[p].alive => child[p].alive
                                 /\ p = q => ~Buried(q)[p].alive
                                 /\ p # q => Buried(q)[p] = child[p]
  BY <1>1 DEF Buried
<1>7. ASSUME NEW c \in Calls, Start(c) \/ CallerStep(c)
      PROVE  InService' /\ NoStrayChild'
  <2>1. calls[c] \in Call
    BY <1>1
  <2>2. CASE Start(c)
    <3>1. /\ stopper' = stopper /\ calls[c].stage = "idle"
          /\ \A d \in Calls : d # c => calls'[d] = calls[d]
      BY <1>1, <2>2 DEF Start
    <3>2. CASE Running
      BY <1>4, <2>2, <3>1, <3>2 DEF Start
    <3>3. CASE ~Running
      <4>1. /\ spawned' = spawned + 1 /\ current' = spawned + 1
            /\ child' = [child EXCEPT ![spawned + 1] = Fresh]
        BY <2>2, <3>3 DEF Start, Spawn
      <4>2. \A p \in Children : p # spawned + 1 => child'[p] = child[p]
        BY <1>1, <4>1
      <4>3. \A p \in Children : child[p].alive => p # current
        BY <3>3 DEF Running, NoChild, Children
      <4>4. \A p \in Children : Ending(p) => Ending(p)'
        BY <3>1 DEF Ending
      <4>5. InService'
        BY <1>1, <1>2, <1>3, <4>1, <4>2 DEF InService
      <4>6. ASSUME NEW p \in Children, child'[p].alive, p # current'
            PROVE  Ending(p)'
        <5>1. child[p].alive /\ p # current
          BY <4>1, <4>2, <4>3, <4>6
        <5>2. Ending(p)
          BY <1>3, <5>1 DEF NoStrayChild
        <5>. QED  BY <4>4, <5>2
      <4>. QED  BY <4>5, <4>6 DEF NoStrayChild
    <3>. QED  BY <3>2, <3>3
  <2>3. CASE Kill(c)
    <3>1. /\ UNCHANGED <<current, spawned, stopper>> /\ child' = Buried(calls[c].target)
          /\ \A d \in Calls : d # c => calls'[d] = calls[d]
      BY <1>1, <2>3 DEF Kill
    <3>. QED  BY <1>4, <1>6, <3>1
  <2>4. CASE TakeChild(c)
    <3>1. /\ current' = NoChild /\ UNCHANGED <<spawned, child, stopper>>
          /\ calls[c].stage = "expired"
          /\ \A d \in Calls : d # c => calls'[d] = calls[d]
      BY <1>1, <2>4 DEF TakeChild
    <3>2. current # NoChild => calls'[c].stage = "kill" /\ calls'[c].target = current
      <4>1. SUFFICES ASSUME current # NoChild
                     PROVE  calls'[c].stage = "kill" /\ calls'[c].target = current
        OBVIOUS
      <4>2. calls' = [calls EXCEPT ![c] = [@ EXCEPT !.stage = "kill", !.target = current]]
        BY <2>4, <4>1 DEF TakeChild
      <4>. QED  BY <1>1, <2>1, <4>2 DEF Call
    <3>3. \A p \in Children : Ending(p) => Ending(p)'
      BY <3>1 DEF Ending
    <3>4. \A p \in Children : p = current => Ending(p)'
      BY <1>2, <3>2 DEF Ending
    <3>5. InService'
      BY <1>1, <1>3, <3>1 DEF InService, NoChild
    <3>6. NoStrayChild'
      BY <1>3, <3>1, <3>3, <3>4 DEF NoStrayChild
    <3>. QED  BY <3>5, <3>6
  <2>5. CASE Write(c)
    <3>1. /\ UNCHANGED <<current, spawned, stopper>> /\ calls[c].stage = "write"
          /\ \A d \in Calls : d # c => calls'[d] = calls[d]
      BY <1>1, <2>5 DEF Write
    <3>2. \A p \in Children : child'[p].alive = child[p].alive
      <4>. TAKE p \in Children
      <4>1. child[p] \in Child
        BY <1>1
      <4>. QED  BY <1>1, <2>5, <4>1 DEF Write, Child
    <3>. QED  BY <1>4, <3>1, <3>2
  <2>6. CASE FailInFlight(c)
    <3>1. [calls EXCEPT ![c] = IdleCall] \in [Calls -> Call]
      BY IdleType DEF FaceInv
    <3>2. /\ UNCHANGED <<current, spawned, stopper, child>> /\ calls[c].stage = "fail"
          /\ FailAll([calls EXCEPT ![c] = IdleCall])
      BY <2>6 DEF FailInFlight
    <3>3. \A d \in Calls : d # c => /\ calls'[d].stage = calls[d].stage
                                    /\ calls'[d].target = calls[d].target
      BY <1>1, <1>5, <3>1, <3>2
    <3>. QED  BY <1>4, <3>2, <3>3
  <2>7. CASE Register(c) \/ NotRunning(c) \/ TakeWriteLock(c) \/ WriteFails(c) \/ Answered(c)
             \/ Expire(c)
    <3>1. /\ UNCHANGED <<current, spawned, stopper, child>> /\ calls[c].stage # "kill"
          /\ \A d \in Calls : d # c => calls'[d] = calls[d]
      BY <1>1, <2>7 DEF Register, NotRunning, TakeWriteLock, WriteFails, Answered, Expire
    <3>. QED  BY <1>4, <3>1
  <2>. QED  BY <1>7, <2>2, <2>3, <2>4, <2>5, <2>6, <2>7 DEF CallerStep
<1>8. ASSUME NEW p \in Children, ReaderStep(p)
      PROVE  InService' /\ NoStrayChild'
  <2>1. CASE Deliver(p)
    <3>1. UNCHANGED <<current, spawned, stopper>>
      BY <2>1 DEF Deliver
    <3>2. \A q \in Children : child'[q].alive = child[q].alive
      <4>. TAKE q \in Children
      <4>1. child[q] \in Child
        BY <1>1
      <4>. QED  BY <1>1, <2>1, <4>1 DEF Deliver, Child
    <3>3. \A c \in Calls : calls'[c].stage = calls[c].stage /\ calls'[c].target = calls[c].target
      <4>. TAKE c \in Calls
      <4>1. calls[c] \in Call
        BY <1>1
      <4>. QED  BY <2>1, <4>1 DEF Deliver, Call
    <3>. QED  BY <1>4, <3>1, <3>2, <3>3
  <2>2. CASE Reap(p)
    <3>1. /\ UNCHANGED <<spawned, child, calls, stopper>> /\ ~child[p].alive
          /\ current' = IF current = p THEN NoChild ELSE current
      BY <2>2 DEF Reap
    <3>. QED  BY <1>1, <1>2, <1>3, <3>1 DEF InService, NoStrayChild, Ending, NoChild
  <2>3. CASE FailReaped(p)
    BY <1>1, <1>4, <1>5, <2>3 DEF FailReaped
  <2>. QED  BY <1>8, <2>1, <2>2, <2>3 DEF ReaderStep
<1>9. ASSUME NEW p \in Children, TakeRequest(p) \/ Reply(p) \/ Crash(p)
      PROVE  InService' /\ NoStrayChild'
  <2>1. UNCHANGED <<current, spawned, stopper, calls>>
    BY <1>9 DEF TakeRequest, Reply, Crash
  <2>2. \A q \in Children : child'[q].alive => child[q].alive
    <3>. TAKE q \in Children
    <3>1. child[q] \in Child /\ Buried(p)[q] \in Child
      BY <1>1, BuriedType DEF FaceInv
    <3>2. CASE Crash(p)
      BY <1>6, <3>2 DEF Crash
    <3>3. CASE Reply(p)
      BY <1>1, <3>1, <3>3 DEF Reply, Child
    <3>4. CASE TakeRequest(p)
      <4>1. CASE Head(child[p].inbox).photo = 0
        <5>1. child' = [Buried(p) EXCEPT ![p].outbox = Append(@, Head(child[p].inbox))]
          BY <3>4, <4>1 DEF TakeRequest
        <5>2. child'[q].alive = Buried(p)[q].alive
          BY <3>1, <5>1, BuriedType DEF FaceInv, Child
        <5>. QED  BY <1>6, <5>2
      <4>2. CASE Head(child[p].inbox).photo # 0
        BY <1>1, <3>1, <3>4, <4>2 DEF TakeRequest, Child
      <4>. QED  BY <4>1, <4>2
    <3>. QED  BY <1>9, <3>2, <3>3, <3>4
  <2>. QED  BY <1>4, <2>1, <2>2
<1>10. CASE Stop
  <2>1. /\ current' = NoChild /\ UNCHANGED <<spawned, child, calls>> /\ stopper.stage = "idle"
        /\ current # NoChild => stopper' = [stage |-> "send", target |-> current]
    BY <1>10 DEF Stop
  <2>2. \A p \in Children : (Ending(p) \/ p = current) => Ending(p)'
    BY <1>2, <2>1 DEF Ending
  <2>. QED  BY <1>1, <1>2, <1>3, <2>1, <2>2 DEF InService, NoStrayChild, NoChild
<1>11. CASE SendShutdown
  <2>1. /\ UNCHANGED <<current, spawned, calls>> /\ stopper.stage = "send"
        /\ stopper' = [stopper EXCEPT !.stage = "wait"]
    BY <1>11 DEF SendShutdown
  <2>2. \A p \in Children : child'[p].alive = child[p].alive
    <3>. TAKE p \in Children
    <3>1. child[p] \in Child
      BY <1>1
    <3>. QED  BY <1>1, <1>11, <3>1 DEF SendShutdown, Child
  <2>3. stopper'.stage = "wait" /\ stopper'.target = stopper.target
    BY <2>1 DEF FaceInv, TypeOK
  <2>. QED  BY <1>3, <2>1, <2>2, <2>3 DEF InService, NoStrayChild, Ending
<1>12. CASE MakeSure
  <2>1. /\ UNCHANGED <<current, spawned, calls>> /\ stopper.stage = "wait"
        /\ child' = Buried(stopper.target)
    BY <1>12 DEF MakeSure
  <2>. QED  BY <1>3, <1>6, <2>1 DEF InService, NoStrayChild, Ending
<1>13. CASE FailStopped
  <2>1. /\ UNCHANGED <<current, spawned, child>> /\ stopper.stage = "fail"
        /\ FailAll(calls)
    BY <1>13 DEF FailStopped
  <2>2. \A c \in Calls : calls'[c].stage = calls[c].stage /\ calls'[c].target = calls[c].target
    BY <1>1, <1>5, <2>1
  <2>. QED  BY <1>3, <2>1, <2>2 DEF InService, NoStrayChild, Ending
<1>. QED  BY <1>7, <1>8, <1>9, <1>10, <1>11, <1>12, <1>13 DEF Next, ServiceNext, StopStep

-----------------------------------------------------------------------------
\* The inductive invariant holds in every behaviour of the transport.
THEOREM FaceInvariant == Spec => []FaceInv
<1>1. Init => FaceInv
  <2>. SUFFICES ASSUME Init PROVE FaceInv
    OBVIOUS
  <2>1. [Fresh EXCEPT !.alive = FALSE] \in Child /\ IdleCall \in Call
    BY FreshType DEF Child, IdleCall, Call, Stages, NoReply, NoChild
  <2>2. TypeOK
    BY <2>1 DEF Init, TypeOK
  <2>3. /\ \A c \in Calls : calls[c].stage = "idle" /\ calls[c].reply = NoReply
        /\ \A p \in Children : /\ ~child[p].alive /\ child[p].work = NoFrame
                               /\ child[p].inbox = <<>> /\ child[p].outbox = <<>>
    BY DEF Init, IdleCall, Fresh
  <2>4. Numbered
    BY <2>3 DEF Numbered, InCall
  <2>5. NoFrame \in Known /\ <<>> \in Seq(Known)
    BY <2>2, <2>4, NoFrameKnown
  <2>6. PipesMatch
    BY <2>3, <2>5 DEF PipesMatch
  <2>7. OwnReply
    BY <2>3 DEF OwnReply
  <2>8. ListedWhileUnanswered
    BY <2>3 DEF Init, ListedWhileUnanswered
  <2>9. InService /\ NoStrayChild
    BY <2>3 DEF Init, InService, NoStrayChild, NoChild
  <2>. QED  BY <2>2, <2>4, <2>6, <2>7, <2>8, <2>9 DEF FaceInv
<1>2. FaceInv /\ [Next]_vars => FaceInv'
  <2>. SUFFICES ASSUME FaceInv, [Next]_vars PROVE FaceInv'
    OBVIOUS
  <2>1. CASE Next
    <3>1. TypeOK'
      BY <2>1, CallerTypes, ReaderTypes, ChildTypes, StopTypes DEF Next, ServiceNext, FaceInv
    <3>. QED  BY <2>1, <3>1, NumbersStep, PipesStep, RepliesStep, ServiceStep DEF FaceInv, Replies
  <2>2. CASE UNCHANGED vars
    <3>1. TypeOK' /\ Numbered'
      BY <2>2 DEF vars, FaceInv, TypeOK, Numbered, InCall
    <3>2. Known' = Known
      BY <2>2 DEF vars, Known, InCall
    <3>3. PipesMatch'
      BY <2>2, <3>2 DEF vars, FaceInv, PipesMatch
    <3>4. OwnReply' /\ ListedWhileUnanswered'
      BY <2>2 DEF vars, FaceInv, OwnReply, Listed, ListedWhileUnanswered
    <3>5. InService' /\ NoStrayChild'
      BY <2>2 DEF vars, FaceInv, InService, NoStrayChild, Ending
    <3>. QED  BY <3>1, <3>3, <3>4, <3>5 DEF FaceInv
  <2>. QED  BY <2>1, <2>2
<1>. QED  BY <1>1, <1>2, PTL DEF Spec

\* However many threads, calls and children, and however late a reply, nobody is
\* handed the answer to another's photograph.
THEOREM RepliesMatch == Spec => []OwnReply
<1>1. FaceInv => OwnReply
  BY DEF FaceInv
<1>. QED  BY <1>1, FaceInvariant, PTL

\* The table of requests in flight neither leaks an entry nor misses a caller.
THEOREM TableIsExact == Spec => []ListedWhileUnanswered
<1>1. FaceInv => ListedWhileUnanswered
  BY DEF FaceInv
<1>. QED  BY <1>1, FaceInvariant, PTL

\* Every model process that is still running is in use or being ended.
THEOREM NoChildIsLost == Spec => []NoStrayChild
<1>1. FaceInv => NoStrayChild
  BY DEF FaceInv
<1>. QED  BY <1>1, FaceInvariant, PTL
=============================================================================
