--------------------------- MODULE AttendanceProofs ---------------------------
(***************************************************************************)
(* The attendance service's types and the ledger's safety, for any number of  *)
(* workers, sites, requests and links, any rules and any length of run:       *)
(* nothing is filed for a shift that is over, a trip is confirmed once, a     *)
(* trip that reached no place is paid at an administrator's hand only; what   *)
(* a filed row may say and whose an answer is; and that the service           *)
(* implements ShiftLifecycle.                                                *)
(*                                                                          *)
(* The first three are not inductive: what keeps a second row away is that    *)
(* the session is gone, or travels no more, so the invariant says of every    *)
(* open shift which rows cannot be its own.  A shift's number is the length   *)
(* of the ledger when it opened, so its rows all come later.  For the rest    *)
(* every step is first brought under one of eight kinds (StepKinds), and      *)
(* each result is proved kind by kind.                                       *)
(***************************************************************************)
EXTENDS Attendance, FiniteSetTheorems, SequenceTheorems, WellFoundedInduction, TLAPS

\* The figures of a row are natural numbers only because a shift is read at or
\* after the moment it began.
StartedInThePast == \A w \in Workers : OnShift(w) => sessions[w].clockIn <= now

TypeInv == TablesOK /\ StartedInThePast

-----------------------------------------------------------------------------
(* The arithmetic of a shift                                                *)

\* Paid time is a natural number and grows no longer than the shift does.
LEMMA PaidType ==
    ASSUME NEW rules \in ShiftRules, NEW e \in Nat
    PROVE  Paid(e, rules) \in Nat /\ Paid(e, rules) <= e
BY DEF Paid, BreakTaken, Min2, ShiftRules

\* So is the figure a row records.
LEMMA RecordedType ==
    ASSUME NEW rules \in ShiftRules, NEW e \in Nat
    PROVE  RecordedPaid(e, rules) \in Nat
BY PaidType DEF RecordedPaid, RoundedPaid, ShiftRules

\* A nonempty set of indices has a greatest element.
LEMMA GreatestIndex ==
    ASSUME NEW n \in Nat, NEW S \in SUBSET (1..n), S # {}
    PROVE  \E d \in S : \A e \in S : e <= d
<1>. DEFINE T == {n - d : d \in S}
<1>1. T \subseteq Nat /\ T # {}
  <2>1. \A d \in S : d \in 1..n /\ n - d \in Nat
    OBVIOUS
  <2>2. PICK d \in S : TRUE
    OBVIOUS
  <2>3. n - d \in T
    OBVIOUS
  <2>. QED  BY <2>1, <2>3
<1>2. PICK x \in T : \A y \in T : ~(<<y, x>> \in OpToRel(<, Nat))
  BY <1>1, NatLessThanWellFounded, WFMin
<1>3. \A y \in T : ~(y < x)
  BY <1>1, <1>2 DEF OpToRel
<1>4. PICK d \in S : x = n - d
  OBVIOUS
<1>5. \A e \in S : e <= d
  BY <1>3, <1>4
<1>. QED  BY <1>5

\* A function on an initial segment is a sequence of that length.
LEMMA SegmentIsSeq ==
    ASSUME NEW S, NEW n \in Nat, NEW f \in [1..n -> S]
    PROVE  f \in Seq(S) /\ Len(f) = n
<1>1. f \in Seq(S)
  BY SeqDef
<1>2. DOMAIN f = 1..n /\ DOMAIN f = 1..Len(f) /\ Len(f) \in Nat
  BY <1>1, LenProperties
<1>. QED  BY <1>1, <1>2

-----------------------------------------------------------------------------
(* Reading the tables                                                       *)

\* Null is no moment, index or figure.
LEMMA NullIsNegative == Null \notin Nat /\ Null \in Int
BY DEF Null

\* An open shift's row of active_sessions.
LEMMA OpenSession ==
    ASSUME TypeInv, NEW w \in Workers, OnShift(w)
    PROVE  /\ sessions[w] \in Session
           /\ sessions[w].clockIn \in Nat /\ sessions[w].shift \in Nat
           /\ Elapsed(w) \in Nat
<1>1. sessions[w] \in Session \cup {NoSession}
  BY DEF TypeInv, TablesOK, DBTypeOK
<1>2. sessions[w] \in Session
  BY <1>1 DEF OnShift, NoSession
<1>3. sessions[w].clockIn \in Nat /\ sessions[w].shift \in Nat
  BY <1>2 DEF Session, Moments
<1>4. now \in Nat /\ sessions[w].clockIn <= now
  BY DEF TypeInv, TablesOK, DBTypeOK, Moments, StartedInThePast
<1>. QED  BY <1>2, <1>3, <1>4 DEF Elapsed

\* The standing answer is a row of the table.
LEMMA StandingType ==
    ASSUME DBTypeOK, NEW w \in Workers, Answered(w)
    PROVE  Standing(w) \in Decision /\ Standing(w).hours \in Nat
<1>. DEFINE S == LiveDecisions(w, sessions[w].clockIn)
<1>1. S \in SUBSET (1..Len(decisions)) /\ Len(decisions) \in Nat
  BY DEF LiveDecisions, DBTypeOK
<1>2. \E d \in S : \A e \in S : e <= d
  BY <1>1, GreatestIndex DEF Answered
<1>3. Standing(w) \in Decision
  BY <1>1, <1>2 DEF Standing, DBTypeOK
<1>. QED  BY <1>3 DEF Decision

\* The hours held at the end of a shift, and the figure it is filed with.
LEMMA FiguresType ==
    ASSUME TypeInv, NEW w \in Workers, OnShift(w)
    PROVE  /\ Paid(Elapsed(w), values) \in Nat
           /\ RecordedPaid(Elapsed(w), values) \in Nat
           /\ HeldHours(w) \in Nat
<1>1. values \in ShiftRules /\ Elapsed(w) \in Nat /\ values.regular \in Nat
  BY OpenSession DEF TypeInv, TablesOK, DBTypeOK, ShiftRules
<1>2. Ceiling(w) \in Nat
  BY <1>1, StandingType DEF Ceiling, TypeInv, TablesOK
<1>3. Paid(Elapsed(w), values) \in Nat
  BY <1>1, PaidType
<1>4. RecordedPaid(Elapsed(w), values) \in Nat
  BY <1>1, RecordedType
<1>. QED  BY <1>2, <1>3, <1>4 DEF HeldHours, Max2

\* The notices about an open shift.
LEMMA NoticeType ==
    ASSUME TypeInv, NEW w \in Workers, OnShift(w), NEW kind \in NoticeKinds
    PROVE  /\ {<<kind, w, sessions[w].clockIn>>} \subseteq NoticeKinds \X Workers \X Moments
           /\ CrossingNotice(w) \subseteq NoticeKinds \X Workers \X Moments
<1>1. sessions[w].clockIn \in Moments
  BY OpenSession DEF Moments
<1>2. "crossing" \in NoticeKinds
  BY DEF NoticeKinds
<1>. QED  BY <1>1, <1>2 DEF CrossingNotice

-----------------------------------------------------------------------------
(* Ending a shift                                                           *)

\* Spending an answer leaves the table a table of answers.
LEMMA ConsumedType ==
    ASSUME DBTypeOK, NEW w, NEW log \in Nat
    PROVE  Consumed(w, log) \in Seq(Decision)
<1>1. \A d \in DOMAIN decisions :
        decisions[d] \in Decision /\ [decisions[d] EXCEPT !.consumedBy = log] \in Decision
  <2>. TAKE d \in DOMAIN decisions
  <2>1. decisions[d] \in Decision
    BY DEF DBTypeOK
  <2>. QED  BY <2>1 DEF Decision
<1>2. DOMAIN decisions = 1..Len(decisions) /\ Len(decisions) \in Nat
  BY DEF DBTypeOK
<1>3. Consumed(w, log) \in [1..Len(decisions) -> Decision]
  BY <1>1, <1>2 DEF Consumed
<1>. QED  BY <1>2, <1>3, SegmentIsSeq

\* The step every clock-out shares keeps the three tables it writes well typed.
LEMMA CloseShiftType ==
    ASSUME DBTypeOK, NEW w \in Workers, NEW row \in Row, CloseShift(w, row)
    PROVE  /\ sessions' \in [Workers -> Session \cup {NoSession}]
           /\ logs' \in Seq(Row)
           /\ decisions' \in Seq(Decision)
<1>1. Len(logs) + 1 \in Nat
  BY DEF DBTypeOK
<1>2. decisions' \in Seq(Decision)
  BY <1>1, ConsumedType DEF CloseShift
<1>3. sessions' \in [Workers -> Session \cup {NoSession}] /\ logs' \in Seq(Row)
  BY DEF CloseShift, DBTypeOK
<1>. QED  BY <1>2, <1>3

-----------------------------------------------------------------------------
(* The punch                                                                *)

\* A step that touches the requests only.
LEMMA RequestStepType ==
    ASSUME TypeInv, requests' \in [Requests -> InFlight \cup {Idle}],
           UNCHANGED dbVars, UNCHANGED nextScan
    PROVE  TypeInv'
BY DEF TypeInv, TablesOK, DBTypeOK, PunchTypeOK, WatchTypeOK, StartedInThePast, OnShift,
       dbVars

\* What the gate puts in a request, and what the face check makes of it.
LEMMA GateType ==
    ASSUME TypeInv, NEW r \in Requests, NEW w \in Workers, NEW action \in Taps,
           NEW fix \in Fixes, NEW confirmed \in BOOLEAN,
           Gate(r, w, action, fix, confirmed), UNCHANGED nextScan
    PROVE  TypeInv'
<1>1. action \in Actions
  BY PunchAssumption
<1>2. SiteAt(fix) \in Fixes /\ GateGone(w, fix) \in Fixes
  BY DEF SiteAt, GateGone, DeletedSiteAt, Fixes
<1>3. requests' \in [Requests -> InFlight \cup {Idle}]
  BY <1>1, <1>2 DEF Gate, TypeInv, TablesOK, PunchTypeOK, InFlight, Carried
<1>. QED  BY <1>3, RequestStepType DEF Gate

\* The verdict of the face check is one that admits a punch, or the request ends.
LEMMA FaceCheckType ==
    ASSUME TypeInv, NEW r \in Requests, JudgeFrame(r), UNCHANGED nextScan
    PROVE  TypeInv'
<1>1. PICK verdict \in Bands :
        requests' = [requests EXCEPT ![r].stage = "write", ![r].verdict = verdict]
  BY DEF JudgeFrame
<1>2. verdict \in Verdicts
  BY PunchAssumption
<1>3. requests[r] \in Carried({"model", "arrive"}, Actions, Fixes, Fixes, {"none"})
  <2>1. requests[r] \in InFlight \cup {Idle} /\ requests[r].stage = "model"
    BY DEF JudgeFrame, TypeInv, TablesOK, PunchTypeOK
  <2>. QED  BY <2>1 DEF InFlight, Carried, Idle
<1>4. [requests[r] EXCEPT !.stage = "write", !.verdict = verdict]
         \in Carried({"write"}, Actions, Fixes, Fixes, Verdicts)
  BY <1>2, <1>3 DEF Carried
<1>5. requests' = [requests EXCEPT ![r] =
                      [requests[r] EXCEPT !.stage = "write", !.verdict = verdict]]
  BY <1>1 DEF TypeInv, TablesOK, PunchTypeOK
<1>6. requests' \in [Requests -> InFlight \cup {Idle}]
  BY <1>4, <1>5 DEF TypeInv, TablesOK, PunchTypeOK, InFlight
<1>. QED  BY <1>6, RequestStepType DEF JudgeFrame

\* A request that is answered leaves a free place.
LEMMA FinishType ==
    ASSUME TypeInv, NEW r \in Requests, Finish(r)
    PROVE  requests' \in [Requests -> InFlight \cup {Idle}]
BY DEF Finish, TypeInv, TablesOK, PunchTypeOK

\* A request that is being answered, and its fields.
LEMMA RequestType ==
    ASSUME TypeInv, NEW r \in Requests, requests[r].stage # "idle"
    PROVE  /\ requests[r].worker \in Workers /\ requests[r].action \in Actions \cup {"Tap"}
           /\ requests[r].stage \in {"model", "write", "arrive"} => requests[r].action \in Actions
           /\ requests[r].fix \in Fixes /\ requests[r].site \in Fixes /\ requests[r].gone \in Fixes
           /\ requests[r].stage = "write" => requests[r].verdict \in Verdicts
           /\ requests[r].action = "Tap" \/ requests[r].stage \in {"looking", "tapped"} =>
                 (requests[r].site = NoSite => requests[r].gone \in Sites)
<1>1. requests[r] \in InFlight
  BY DEF TypeInv, TablesOK, PunchTypeOK, Idle
<1>2. CASE requests[r] \in Carried({"model", "arrive"}, Actions, Fixes, Fixes, {"none"})
  BY <1>2 DEF Carried, Actions
<1>3. CASE requests[r] \in Carried({"write"}, Actions, Fixes, Fixes, Verdicts)
  BY <1>3 DEF Carried, Actions
<1>4. CASE requests[r] \in Carried({"looking", "tapped"}, {"Tap"}, Sites, Fixes, {"none"})
  BY <1>4, SitesAssumption DEF Carried, Fixes
<1>5. CASE requests[r] \in Carried({"looking", "tapped"}, {"Tap"}, {NoSite}, Sites, {"none"})
  BY <1>5 DEF Carried, Fixes
<1>. QED  BY <1>1, <1>2, <1>3, <1>4, <1>5 DEF InFlight

\* A shift that opens now is well typed and began no later than now.
LEMMA OpenShiftType ==
    ASSUME TypeInv, NEW w \in Workers, NEW site \in Sites \cup {InTransit}, NEW transit \in BOOLEAN,
           OpenShift(w, site, transit), UNCHANGED now
    PROVE  /\ sessions' \in [Workers -> Session \cup {NoSession}]
           /\ StartedInThePast'
<1>1. now \in Nat /\ Len(logs) \in Nat
  BY DEF TypeInv, TablesOK, DBTypeOK, Moments
<1>2. sessions' \in [Workers -> Session \cup {NoSession}]
  BY <1>1 DEF OpenShift, TypeInv, TablesOK, DBTypeOK, Session, Moments
<1>3. StartedInThePast'
  BY <1>1 DEF OpenShift, TypeInv, TablesOK, DBTypeOK, StartedInThePast, OnShift
<1>. QED  BY <1>2, <1>3

\* A departure opens a well-typed shift under the placeholder.
LEMMA DepartType ==
    ASSUME TypeInv, NEW r \in Requests, Depart(r), UNCHANGED nextScan
    PROVE  TypeInv'
<1>1. requests[r].worker \in Workers
  BY RequestType DEF Depart, OpensShift
<1>2. sessions' \in [Workers -> Session \cup {NoSession}] /\ StartedInThePast'
  BY <1>1, OpenShiftType DEF Depart
<1>. QED  BY <1>2, FinishType DEF Depart, TypeInv, TablesOK, DBTypeOK, PunchTypeOK, WatchTypeOK

\* A clock-in opens a well-typed shift and files a well-typed row.
LEMMA PunchInType ==
    ASSUME TypeInv, NEW r \in Requests, PunchIn(r), UNCHANGED nextScan
    PROVE  TypeInv'
<1>1. /\ requests[r].worker \in Workers /\ requests[r].site \in Sites
      /\ requests[r].fix \in Fixes /\ requests[r].verdict \in Verdicts
      /\ requests[r].action \in RowActions
  BY RequestType DEF PunchIn, OpensShift, Fixes, Actions, RowActions
<1>2. sessions' \in [Workers -> Session \cup {NoSession}] /\ StartedInThePast'
  BY <1>1, OpenShiftType DEF PunchIn
<1>3. now \in Nat /\ Len(logs) \in Nat /\ logs \in Seq(Row)
  BY DEF TypeInv, TablesOK, DBTypeOK, Moments
<1>4. logs' \in Seq(Row)
  BY <1>1, <1>3 DEF PunchIn, Row, Moments, Verdicts, PendingCodes, PayableCodes
<1>. QED  BY <1>2, <1>4, FinishType DEF PunchIn, TypeInv, TablesOK, DBTypeOK, PunchTypeOK,
             WatchTypeOK

\* A shift's end leaves the others where they began.
LEMMA CloseShiftPast ==
    ASSUME TypeInv, NEW w \in Workers, NEW row, CloseShift(w, row), UNCHANGED now
    PROVE  StartedInThePast'
BY DEF CloseShift, TypeInv, TablesOK, DBTypeOK, StartedInThePast, OnShift, NoSession

\* A worker's clock-out files a well-typed row, held or not.
LEMMA PunchOutType ==
    ASSUME TypeInv, NEW r \in Requests, PunchOut(r), UNCHANGED nextScan
    PROVE  TypeInv'
<1>. DEFINE q == requests[r]
            w == requests[r].worker
            held == HeldForApproval(w)
            row ==
                [worker |-> w, clockIn |-> sessions[w].clockIn,
                 shift |-> sessions[w].shift, action |-> "Clock Out",
                 site |-> IF q.site # NoSite THEN q.site ELSE ShiftSite(r),
                 at |-> now, fix |-> q.fix, flagged |-> q.site = NoSite, score |-> q.verdict,
                 source |-> "online", code |-> OutCode(r),
                 hours |-> RecordedPaid(Elapsed(w), values),
                 overtime |-> IF held THEN HeldHours(w) ELSE 0, approved |-> Null]
<1>1. /\ w \in Workers /\ q.fix \in Fixes /\ q.site \in Fixes /\ q.gone \in Fixes
      /\ q.verdict \in Verdicts
  BY RequestType DEF PunchOut
<1>2. OnShift(w) /\ ~Unconfirmed(r)
  BY DEF PunchOut, OutRefused
<1>3. sessions[w] \in Session /\ sessions[w].clockIn \in Nat /\ sessions[w].shift \in Nat
  BY <1>1, <1>2, OpenSession
<1>4. RecordedPaid(Elapsed(w), values) \in Nat /\ HeldHours(w) \in Nat
  BY <1>1, <1>2, FiguresType
<1>5. (IF q.site # NoSite THEN q.site ELSE ShiftSite(r)) \in Sites \cup {InTransit}
  BY <1>1, <1>2, <1>3 DEF ShiftSite, Unconfirmed, Session, Fixes
<1>6. OutCode(r) \in PendingCodes \cup PayableCodes
  BY <1>1 DEF OutCode, Verdicts, PendingCodes, PayableCodes
<1>7. now \in Nat
  BY DEF TypeInv, TablesOK, DBTypeOK, Moments
<1>8. row \in Row
  BY <1>1, <1>3, <1>4, <1>5, <1>6, <1>7 DEF Row, Moments, Verdicts, RowActions
<1>9. CloseShift(w, row) /\ UNCHANGED <<now, values, live, deleted>>
  BY DEF PunchOut
<1>10. StartedInThePast'
  BY <1>1, <1>9, CloseShiftPast
<1>11. /\ sessions' \in [Workers -> Session \cup {NoSession}]
       /\ logs' \in Seq(Row)
       /\ decisions' \in Seq(Decision)
  BY <1>1, <1>8, <1>9, CloseShiftType DEF TypeInv, TablesOK
<1>12. notices' \subseteq NoticeKinds \X Workers \X Moments
  <2>1. "arrived" \in NoticeKinds
    BY DEF NoticeKinds
  <2>2. ArrivalNotice(r) \subseteq NoticeKinds \X Workers \X Moments
    BY <1>1, <1>2, <2>1, NoticeType DEF ArrivalNotice
  <2>3. CrossingNotice(w) \subseteq NoticeKinds \X Workers \X Moments
    BY <1>1, <1>2, <2>1, NoticeType
  <2>4. notices' = notices \cup ArrivalNotice(r) \cup (IF held THEN CrossingNotice(w) ELSE {})
    BY DEF PunchOut
  <2>. QED  BY <2>2, <2>3, <2>4 DEF TypeInv, TablesOK, DBTypeOK
<1>. QED  BY <1>9, <1>10, <1>11, <1>12, FinishType
          DEF PunchOut, TypeInv, TablesOK, DBTypeOK, PunchTypeOK, WatchTypeOK

\* An arrival gives the open shift its site and files a well-typed row.
LEMMA ArriveType ==
    ASSUME TypeInv, NEW r \in Requests, Arrive(r), UNCHANGED nextScan
    PROVE  TypeInv'
<1>. DEFINE w == requests[r].worker
<1>1. w \in Workers /\ ArrivalSite(r) \in Sites /\ requests[r].fix \in Fixes
  BY RequestType DEF Arrive, ArrivalSite, Fixes
<1>2. sessions[w] \in Session /\ sessions[w].clockIn \in Nat /\ sessions[w].shift \in Nat
  BY <1>1, OpenSession DEF Arrive, Travelling
<1>3. sessions' \in [Workers -> Session \cup {NoSession}]
  BY <1>1, <1>2 DEF Arrive, Session, TypeInv, TablesOK, DBTypeOK
<1>4. StartedInThePast'
  <2>1. \A v \in Workers : sessions'[v].clockIn = sessions[v].clockIn
    BY <1>1, <1>2 DEF Arrive, Session, TypeInv, TablesOK, DBTypeOK
  <2>. QED  BY <2>1 DEF Arrive, StartedInThePast, OnShift, TypeInv
<1>5. now \in Nat /\ logs \in Seq(Row)
  BY DEF TypeInv, TablesOK, DBTypeOK, Moments
<1>6. logs' \in Seq(Row)
  <2>. DEFINE row ==
            [worker |-> w, clockIn |-> sessions[w].clockIn,
             shift |-> sessions[w].shift, action |-> "Transit Confirmed",
             site |-> ArrivalSite(r), at |-> now, fix |-> requests[r].fix,
             flagged |-> requests[r].site = NoSite, score |-> "none", source |-> "site_arrival",
             code |-> "approved", hours |-> 0, overtime |-> 0, approved |-> Null]
  <2>1. row \in Row
    BY <1>1, <1>2, <1>5 DEF Row, Moments, RowActions, PayableCodes
  <2>2. logs' = Append(logs, row)
    BY DEF Arrive
  <2>. HIDE DEF row
  <2>. QED  BY <1>5, <2>1, <2>2
<1>7. notices' \subseteq NoticeKinds \X Workers \X Moments
  <2>1. "arrived" \in NoticeKinds
    BY DEF NoticeKinds
  <2>2. {<<"arrived", w, sessions[w].clockIn>>} \subseteq NoticeKinds \X Workers \X Moments
    BY <1>1, <2>1, NoticeType DEF Arrive, Travelling
  <2>. QED  BY <2>2 DEF Arrive, TypeInv, TablesOK, DBTypeOK
<1>. QED  BY <1>3, <1>4, <1>6, <1>7, FinishType
          DEF Arrive, TypeInv, TablesOK, DBTypeOK, PunchTypeOK, WatchTypeOK

\* Every step of a request keeps the tables and the requests well typed.
LEMMA PunchTypes ==
    ASSUME TypeInv, PunchNext, UNCHANGED nextScan
    PROVE  TypeInv'
<1>1. ASSUME NEW r \in Requests, NEW w \in Workers, NEW action \in Taps, NEW fix \in Fixes,
             NEW confirmed \in BOOLEAN, Gate(r, w, action, fix, confirmed)
      PROVE  TypeInv'
  BY <1>1, GateType
<1>2. ASSUME NEW r \in Requests, Settle(r)
      PROVE  TypeInv'
  <2>1. CASE JudgeFrame(r)  BY <2>1, FaceCheckType
  <2>2. CASE RefuseFrame(r)
    BY <2>2, FinishType, RequestStepType DEF RefuseFrame
  <2>3. CASE Depart(r)  BY <2>3, DepartType
  <2>4. CASE PunchIn(r)  BY <2>4, PunchInType
  <2>5. CASE RefuseIn(r)
    BY <2>5, FinishType, RequestStepType DEF RefuseIn
  <2>6. CASE PunchOut(r)  BY <2>6, PunchOutType
  <2>7. CASE RefuseOut(r)
    BY <2>7, FinishType, RequestStepType DEF RefuseOut
  <2>8. CASE Arrive(r)  BY <2>8, ArriveType
  <2>9. CASE RefuseArrival(r)
    BY <2>9, FinishType, RequestStepType DEF RefuseArrival
  <2>. QED  BY <1>2, <2>1, <2>2, <2>3, <2>4, <2>5, <2>6, <2>7, <2>8, <2>9 DEF Settle
<1>. QED  BY <1>1, <1>2 DEF PunchNext

\* What a tap is read against, and its picture.
LEMMA TapGateType ==
    ASSUME TypeInv, NEW r \in Requests, NEW w \in Linked, NEW fix \in Fixes,
           NEW confirmed \in BOOLEAN, TapLink(r, w, fix, confirmed), UNCHANGED nextScan
    PROVE  TypeInv'
<1>1. w \in Workers
  BY LinksAssumption
<1>2. SiteAt(fix) \in Fixes /\ GateGone(w, fix) \in Fixes
  BY DEF SiteAt, GateGone, DeletedSiteAt, Fixes
<1>3. PICK q :
        /\ q = [stage |-> "looking", worker |-> w, action |-> "Tap", fix |-> fix,
                confirmed |-> confirmed, site |-> SiteAt(fix), gone |-> GateGone(w, fix),
                verdict |-> "none"]
        /\ requests' = [requests EXCEPT ![r] = q]
  BY DEF TapLink
<1>4. q \in InFlight
  <2>1. CASE SiteAt(fix) # NoSite
    <3>1. q \in Carried({"looking", "tapped"}, {"Tap"}, Sites, Fixes, {"none"})
      BY <1>1, <1>2, <1>3, <2>1 DEF Carried, Fixes
    <3>. QED  BY <3>1 DEF InFlight
  <2>2. CASE SiteAt(fix) = NoSite
    <3>1. GateGone(w, fix) \in Sites
      BY <1>2, <2>2 DEF TapLink, Fixes
    <3>2. q \in Carried({"looking", "tapped"}, {"Tap"}, {NoSite}, Sites, {"none"})
      BY <1>1, <1>3, <2>2, <3>1 DEF Carried
    <3>. QED  BY <3>2 DEF InFlight
  <2>. QED  BY <2>1, <2>2
<1>5. requests' \in [Requests -> InFlight \cup {Idle}]
  BY <1>3, <1>4 DEF TypeInv, TablesOK, PunchTypeOK
<1>. QED  BY <1>5, RequestStepType DEF TapLink

\* A picture with one face in it.
LEMMA PictureType ==
    ASSUME TypeInv, NEW r \in Requests, SeeOneFace(r), UNCHANGED nextScan
    PROVE  TypeInv'
<1>. DEFINE q == [requests[r] EXCEPT !.stage = "tapped"]
<1>1. requests[r] \in InFlight \cup {Idle} /\ requests[r].stage = "looking"
  BY DEF SeeOneFace, TypeInv, TablesOK, PunchTypeOK
<1>2. \/ requests[r] \in Carried({"looking", "tapped"}, {"Tap"}, Sites, Fixes, {"none"})
      \/ requests[r] \in Carried({"looking", "tapped"}, {"Tap"}, {NoSite}, Sites, {"none"})
  BY <1>1 DEF InFlight, Carried, Idle
<1>3. q \in InFlight
  <2>1. CASE requests[r] \in Carried({"looking", "tapped"}, {"Tap"}, Sites, Fixes, {"none"})
    <3>1. q \in Carried({"looking", "tapped"}, {"Tap"}, Sites, Fixes, {"none"})
      BY <2>1 DEF Carried
    <3>. QED  BY <3>1 DEF InFlight
  <2>2. CASE requests[r] \in Carried({"looking", "tapped"}, {"Tap"}, {NoSite}, Sites, {"none"})
    <3>1. q \in Carried({"looking", "tapped"}, {"Tap"}, {NoSite}, Sites, {"none"})
      BY <2>2 DEF Carried
    <3>. QED  BY <3>1 DEF InFlight
  <2>. QED  BY <1>2, <2>1, <2>2
<1>4. requests' = [requests EXCEPT ![r] = q]
  BY DEF SeeOneFace, TypeInv, TablesOK, PunchTypeOK
<1>5. requests' \in [Requests -> InFlight \cup {Idle}]
  <2>. HIDE DEF q
  <2>. QED  BY <1>3, <1>4 DEF TypeInv, TablesOK, PunchTypeOK
<1>. QED  BY <1>5, RequestStepType DEF SeeOneFace

\* A tap that opens a shift files a well-typed row.
LEMMA TapInType ==
    ASSUME TypeInv, NEW r \in Requests, TapIn(r), UNCHANGED nextScan
    PROVE  TypeInv'
<1>1. /\ requests[r].worker \in Workers /\ requests[r].site \in Sites
      /\ requests[r].fix \in Fixes
  BY RequestType DEF TapIn, TapRefused, Fixes
<1>2. sessions' \in [Workers -> Session \cup {NoSession}] /\ StartedInThePast'
  BY <1>1, OpenShiftType DEF TapIn
<1>3. now \in Nat /\ Len(logs) \in Nat /\ logs \in Seq(Row)
  BY DEF TypeInv, TablesOK, DBTypeOK, Moments
<1>4. logs' \in Seq(Row)
  <2>. DEFINE row ==
            [worker |-> requests[r].worker, clockIn |-> now, shift |-> Len(logs),
             action |-> "Clock In", site |-> requests[r].site, at |-> now,
             fix |-> requests[r].fix, flagged |-> FALSE, score |-> "none",
             source |-> "quick_link", code |-> "approved", hours |-> 0, overtime |-> 0,
             approved |-> Null]
  <2>1. row \in Row
    BY <1>1, <1>3 DEF Row, Moments, RowActions, PayableCodes
  <2>2. logs' = Append(logs, row)
    BY DEF TapIn
  <2>. HIDE DEF row
  <2>. QED  BY <1>3, <2>1, <2>2
<1>. QED  BY <1>2, <1>4, FinishType DEF TapIn, TypeInv, TablesOK, DBTypeOK, PunchTypeOK,
             WatchTypeOK

\* A tap that ends a shift files a well-typed row, held or not.
LEMMA TapOutType ==
    ASSUME TypeInv, NEW r \in Requests, TapOut(r), UNCHANGED nextScan
    PROVE  TypeInv'
<1>. DEFINE q == requests[r]
            w == requests[r].worker
            held == HeldForApproval(w)
            row ==
                [worker |-> w, clockIn |-> sessions[w].clockIn,
                 shift |-> sessions[w].shift, action |-> "Clock Out",
                 site |-> IF q.site # NoSite THEN q.site ELSE q.gone,
                 at |-> now, fix |-> q.fix, flagged |-> q.site = NoSite, score |-> "none",
                 source |-> "quick_link", code |-> IF held THEN "pending_overtime" ELSE "approved",
                 hours |-> RecordedPaid(Elapsed(w), values),
                 overtime |-> IF held THEN HeldHours(w) ELSE 0, approved |-> Null]
<1>1. /\ w \in Workers /\ q.fix \in Fixes /\ OnShift(w)
      /\ (IF q.site # NoSite THEN q.site ELSE q.gone) \in Sites
  BY RequestType DEF TapOut, Fixes
<1>2. /\ sessions[w] \in Session /\ sessions[w].clockIn \in Nat /\ sessions[w].shift \in Nat
      /\ RecordedPaid(Elapsed(w), values) \in Nat /\ HeldHours(w) \in Nat
  BY <1>1, OpenSession, FiguresType
<1>3. now \in Nat
  BY DEF TypeInv, TablesOK, DBTypeOK, Moments
<1>4. row \in Row
  BY <1>1, <1>2, <1>3 DEF Row, Moments, RowActions, PendingCodes, PayableCodes
<1>5. CloseShift(w, row) /\ UNCHANGED <<now, values, live, deleted>>
  BY DEF TapOut
<1>6. StartedInThePast'
  BY <1>1, <1>5, CloseShiftPast
<1>7. /\ sessions' \in [Workers -> Session \cup {NoSession}]
      /\ logs' \in Seq(Row)
      /\ decisions' \in Seq(Decision)
  BY <1>1, <1>4, <1>5, CloseShiftType DEF TypeInv, TablesOK
<1>8. notices' \subseteq NoticeKinds \X Workers \X Moments
  <2>1. CrossingNotice(w) \subseteq NoticeKinds \X Workers \X Moments
    BY <1>1, NoticeType DEF NoticeKinds
  <2>2. notices' = notices \cup (IF held THEN CrossingNotice(w) ELSE {})
    BY DEF TapOut
  <2>. QED  BY <2>1, <2>2 DEF TypeInv, TablesOK, DBTypeOK
<1>. QED  BY <1>5, <1>6, <1>7, <1>8, FinishType
          DEF TapOut, TypeInv, TablesOK, DBTypeOK, PunchTypeOK, WatchTypeOK

\* Every step of a tap keeps the tables and the requests well typed.
LEMMA TapTypes ==
    ASSUME TypeInv, TapNext, UNCHANGED nextScan
    PROVE  TypeInv'
<1>1. ASSUME NEW r \in Requests, RefusePicture(r) \/ RefuseTap(r)  PROVE TypeInv'
  BY <1>1, FinishType, RequestStepType DEF RefusePicture, RefuseTap
<1>. QED  BY <1>1, TapGateType, PictureType, TapInType, TapOutType DEF TapNext, SettleTap

-----------------------------------------------------------------------------
(* The administrators' desk                                                 *)

\* A clock-in by an administrator opens a well-typed shift and files a well-typed row.
LEMMA ForceClockInType ==
    ASSUME TypeInv, NEW w \in Workers, NEW site \in Sites, ForceClockIn(w, site),
           UNCHANGED <<requests, nextScan>>
    PROVE  TypeInv'
<1>1. sessions' \in [Workers -> Session \cup {NoSession}] /\ StartedInThePast'
  BY OpenShiftType DEF ForceClockIn
<1>2. now \in Nat /\ Len(logs) \in Nat /\ logs \in Seq(Row)
  BY DEF TypeInv, TablesOK, DBTypeOK, Moments
<1>3. logs' \in Seq(Row)
  <2>. DEFINE row ==
            [worker |-> w, clockIn |-> now, shift |-> Len(logs), action |-> "Clock In", site |-> site,
             at |-> now, fix |-> NoSite, flagged |-> FALSE, score |-> "none",
             source |-> "admin_override", code |-> "approved", hours |-> 0, overtime |-> 0,
             approved |-> Null]
  <2>1. row \in Row
    BY <1>2 DEF Row, Moments, RowActions, Fixes, PayableCodes
  <2>2. logs' = Append(logs, row)
    BY DEF ForceClockIn
  <2>. HIDE DEF row
  <2>. QED  BY <1>2, <2>1, <2>2
<1>. QED  BY <1>1, <1>3
          DEF ForceClockIn, TypeInv, TablesOK, DBTypeOK, PunchTypeOK, WatchTypeOK

\* A clock-out by an administrator files a well-typed row, with the hours sent or earned.
LEMMA ForceClockOutType ==
    ASSUME TypeInv, NEW w \in Workers, NEW typed \in Typed(Figures), ForceClockOut(w, typed),
           UNCHANGED <<requests, nextScan>>
    PROVE  TypeInv'
<1>. DEFINE hours == IF typed = Blank THEN RecordedPaid(Elapsed(w), values) ELSE typed
            held  == IF typed = Blank THEN HeldHours(w) ELSE Max2(0, typed - values.regular)
            row ==
                [worker |-> w, clockIn |-> sessions[w].clockIn,
                 shift |-> sessions[w].shift, action |-> "Clock Out",
                 site |-> sessions[w].site, at |-> now, fix |-> NoSite, flagged |-> FALSE,
                 score |-> "none", source |-> "admin_override", code |-> "approved",
                 hours |-> hours, overtime |-> held, approved |-> hours]
<1>1. OnShift(w)
  BY DEF ForceClockOut
<1>2. sessions[w] \in Session /\ sessions[w].clockIn \in Nat /\ sessions[w].shift \in Nat
  BY <1>1, OpenSession
<1>3. values.regular \in Nat /\ now \in Nat
  BY DEF TypeInv, TablesOK, DBTypeOK, ShiftRules, Moments
<1>4. hours \in Nat
  BY <1>1, FiguresType, FiguresAssumption DEF Typed, Blank
<1>5. held \in Nat
  <2>1. CASE typed = Blank
    BY <1>1, <2>1, FiguresType
  <2>2. CASE typed # Blank
    BY <1>3, <2>2, FiguresAssumption DEF Typed, Blank, Max2
  <2>. QED  BY <2>1, <2>2
<1>6. row \in Row
  <2>. HIDE DEF hours, held
  <2>. QED  BY <1>2, <1>3, <1>4, <1>5 DEF Row, Moments, RowActions, Fixes, PayableCodes, Session
<1>7. CloseShift(w, row) /\ UNCHANGED <<now, values, live, deleted>>
  BY DEF ForceClockOut
<1>8. StartedInThePast'
  BY <1>7, CloseShiftPast
<1>9. /\ sessions' \in [Workers -> Session \cup {NoSession}]
      /\ logs' \in Seq(Row)
      /\ decisions' \in Seq(Decision)
  <2>. HIDE DEF row
  <2>. QED  BY <1>6, <1>7, CloseShiftType DEF TypeInv, TablesOK
<1>10. notices' \subseteq NoticeKinds \X Workers \X Moments
  <2>1. CrossingNotice(w) \subseteq NoticeKinds \X Workers \X Moments
    BY <1>1, NoticeType DEF NoticeKinds
  <2>. QED  BY <2>1 DEF ForceClockOut, TypeInv, TablesOK, DBTypeOK
<1>. QED  BY <1>7, <1>8, <1>9, <1>10
          DEF TypeInv, TablesOK, DBTypeOK, PunchTypeOK, WatchTypeOK

\* A correction of a filed row: figures and a status that a row can carry.
LEMMA RowEditType ==
    ASSUME TypeInv, NEW i \in DOMAIN logs, NEW row \in Row, logs' = [logs EXCEPT ![i] = row],
           UNCHANGED <<now, values, live, deleted, sessions, decisions, notices>>,
           UNCHANGED <<requests, nextScan>>
    PROVE  TypeInv'
<1>1. logs \in Seq(Row) /\ i \in 1..Len(logs)
  BY DEF TypeInv, TablesOK, DBTypeOK
<1>2. logs' \in Seq(Row)
  BY <1>1, ExceptSeq
<1>. QED  BY <1>2 DEF TypeInv, TablesOK, DBTypeOK, PunchTypeOK, WatchTypeOK, StartedInThePast,
             OnShift

\* The figures of a filed row, and the caps a review reads from the rules, are numbers.
LEMMA FiledRow ==
    ASSUME TypeInv, NEW i \in DOMAIN logs
    PROVE  /\ logs[i] \in Row /\ logs[i].hours \in Nat
           /\ values.regular \in Nat
<1>1. logs[i] \in Row /\ values \in ShiftRules
  BY DEF TypeInv, TablesOK, DBTypeOK
<1>. QED  BY <1>1 DEF Row, ShiftRules

\* A settled review leaves a well-typed row.
LEMMA SettledType ==
    ASSUME TypeInv, NEW i \in DOMAIN logs, NEW code, NEW approved \in Nat, NEW overtime \in Nat,
           code \in PayableCodes \cup PendingCodes \cup {"rejected"},
           Settled(i, code, approved, overtime), UNCHANGED <<requests, nextScan>>
    PROVE  TypeInv'
<1>. DEFINE row == [logs[i] EXCEPT !.code = code, !.approved = approved, !.overtime = overtime]
<1>1. row \in Row
  BY FiledRow DEF Row
<1>2. logs' = [logs EXCEPT ![i] = row]
  BY DEF Settled
<1>. HIDE DEF row
<1>. QED  BY <1>1, <1>2, RowEditType DEF Settled

\* Approval and rejection keep the tables well typed.
LEMMA ReviewType ==
    ASSUME TypeInv, NEW i \in DOMAIN logs, UNCHANGED <<requests, nextScan>>,
           \/ \E typed \in Typed(Figures) : ApproveReview(i, typed)
           \/ RejectReview(i)
    PROVE  TypeInv'
<1>1. ASSUME NEW typed \in Typed(Figures), ApproveReview(i, typed)
      PROVE  TypeInv'
  <2>. DEFINE approved == IF typed = Blank THEN logs[i].hours ELSE typed
  <2>1. approved \in Nat /\ Max2(0, approved - values.regular) \in Nat
    <3>1. logs[i].hours \in Nat /\ values.regular \in Nat
      BY FiledRow
    <3>2. approved \in Nat
      BY <3>1, FiguresAssumption DEF Typed, Blank
    <3>. HIDE DEF approved
    <3>. QED  BY <3>1, <3>2 DEF Max2
  <2>2. Settled(i, "approved", approved, Max2(0, approved - values.regular))
    BY <1>1 DEF ApproveReview
  <2>. QED  BY <2>1, <2>2, SettledType DEF PayableCodes
<1>2. CASE RejectReview(i)
  <2>1. Min2(values.regular, logs[i].hours) \in Nat
    BY FiledRow DEF Min2
  <2>. QED  BY <1>2, <2>1, SettledType DEF RejectReview, PayableCodes
<1>. QED  BY <1>1, <1>2

\* Correcting the hours of a row keeps the tables well typed.
LEMMA EditHoursType ==
    ASSUME TypeInv, NEW i \in DOMAIN logs, NEW hours \in Figures, EditHours(i, hours),
           UNCHANGED <<requests, nextScan>>
    PROVE  TypeInv'
<1>. DEFINE row == [logs[i] EXCEPT !.hours = hours, !.approved = hours,
                                   !.overtime = Max2(0, hours - values.regular)]
<1>1. row \in Row
  <2>1. hours \in Nat /\ Max2(0, hours - values.regular) \in Nat
    BY FiledRow, FiguresAssumption DEF Max2
  <2>. QED  BY <2>1, FiledRow DEF Row
<1>2. logs' = [logs EXCEPT ![i] = row]
  BY DEF EditHours
<1>. HIDE DEF row
<1>. QED  BY <1>1, <1>2, RowEditType DEF EditHours

\* An answer to a crossing is a well-typed row that supersedes well-typed rows.
LEMMA DecideType ==
    ASSUME TypeInv, NEW w \in Workers, NEW decision \in {"authorised", "declined"},
           NEW ceiling \in Nat, Decide(w, decision, ceiling), UNCHANGED <<requests, nextScan>>
    PROVE  TypeInv'
<1>. DEFINE row == [worker |-> w, clockIn |-> sessions[w].clockIn, decision |-> decision,
                    hours |-> ceiling, recorded |-> Paid(Elapsed(w), values),
                    consumedBy |-> Null, supersededBy |-> Null]
<1>1. OnShift(w)
  BY DEF Decide, Asked
<1>2. row \in Decision
  BY <1>1, OpenSession, FiguresType DEF Decision, Moments
<1>3. Superseded(w) \in Seq(Decision)
  <2>1. DOMAIN decisions = 1..Len(decisions) /\ Len(decisions) \in Nat
    BY DEF TypeInv, TablesOK, DBTypeOK
  <2>2. \A d \in DOMAIN decisions :
          decisions[d] \in Decision
          /\ [decisions[d] EXCEPT !.supersededBy = Len(decisions) + 1] \in Decision
    <3>. TAKE d \in DOMAIN decisions
    <3>1. decisions[d] \in Decision /\ Len(decisions) + 1 \in Nat
      BY <2>1 DEF TypeInv, TablesOK, DBTypeOK
    <3>. QED  BY <3>1 DEF Decision
  <2>3. Superseded(w) \in [1..Len(decisions) -> Decision]
    BY <2>1, <2>2 DEF Superseded
  <2>. QED  BY <2>1, <2>3, SegmentIsSeq
<1>4. decisions' = Append(Superseded(w), row)
  BY DEF Decide
<1>5. decisions' \in Seq(Decision)
  <2>. HIDE DEF row
  <2>. QED  BY <1>2, <1>3, <1>4
<1>. QED  BY <1>5 DEF Decide, TypeInv, TablesOK, DBTypeOK, PunchTypeOK, WatchTypeOK,
             StartedInThePast, OnShift

\* Every step of an administrator keeps the tables well typed.
LEMMA AdminTypes ==
    ASSUME TypeInv, AdminNext, UNCHANGED <<requests, nextScan>>
    PROVE  TypeInv'
<1>1. ASSUME NEW w \in Workers, NEW site \in Sites, ForceClockIn(w, site)  PROVE TypeInv'
  BY <1>1, ForceClockInType
<1>2. ASSUME NEW w \in Workers, NEW typed \in Typed(Figures), ForceClockOut(w, typed)
      PROVE  TypeInv'
  BY <1>2, ForceClockOutType
<1>3. ASSUME NEW w \in Workers, NEW typed \in Typed(Ceilings), AcceptCrossing(w, typed)
      PROVE  TypeInv'
  <2>1. OnShift(w)
    BY <1>3 DEF AcceptCrossing, Decide, Asked
  <2>2. (IF typed = Blank THEN Paid(Elapsed(w), values) ELSE typed) \in Nat
    BY <2>1, FiguresType, FiguresAssumption DEF Typed, Blank
  <2>. QED  BY <1>3, <2>2, DecideType DEF AcceptCrossing
<1>4. ASSUME NEW w \in Workers, DeclineCrossing(w)  PROVE TypeInv'
  <2>1. values.regular \in Nat
    BY DEF TypeInv, TablesOK, DBTypeOK, ShiftRules
  <2>. QED  BY <1>4, <2>1, DecideType DEF DeclineCrossing
<1>5. ASSUME NEW i \in DOMAIN logs,
             \/ \E typed \in Typed(Figures) : ApproveReview(i, typed)
             \/ RejectReview(i)
      PROVE  TypeInv'
  BY <1>5, ReviewType
<1>6. ASSUME NEW i \in DOMAIN logs, NEW hours \in Figures, EditHours(i, hours)  PROVE TypeInv'
  BY <1>6, EditHoursType
<1>7. ASSUME NEW site \in Sites, AddSite(site) \/ DeleteSite(site)  PROVE TypeInv'
  BY <1>7 DEF AddSite, DeleteSite, TypeInv, TablesOK, DBTypeOK, PunchTypeOK, WatchTypeOK,
              StartedInThePast, OnShift
<1>8. ASSUME NEW rules \in RuleChoices, UpdateShiftRules(rules)  PROVE TypeInv'
  <2>1. rules \in ShiftRules
    BY RulesAssumption
  <2>. QED  BY <1>8, <2>1 DEF UpdateShiftRules, TypeInv, TablesOK, DBTypeOK, PunchTypeOK,
              WatchTypeOK, StartedInThePast, OnShift
<1>. QED  BY <1>1, <1>2, <1>3, <1>4, <1>5, <1>6, <1>7, <1>8 DEF AdminNext

-----------------------------------------------------------------------------
(* The watcher                                                              *)

\* The rows one scan files, one per shift that is due.
LEMMA AutoCloseRowType ==
    ASSUME TypeInv, NEW w \in Workers, Due(w)
    PROVE  /\ AutoCloseRow(w) \in Row
           /\ <<"auto_closed", w, sessions[w].clockIn>> \in NoticeKinds \X Workers \X Moments
<1>1. /\ sessions[w] \in Session /\ sessions[w].clockIn \in Nat /\ sessions[w].shift \in Nat
      /\ sessions[w].site \in Sites \cup {InTransit}
  BY OpenSession DEF Due, Session
<1>2. now \in Nat /\ values \in ShiftRules /\ sessions[w].clockIn <= now
  BY DEF TypeInv, TablesOK, DBTypeOK, StartedInThePast, Moments, Due
<1>3. Limit(w) \in Nat
  BY <1>2, StandingType DEF Limit, Max2, ShiftRules, TypeInv, TablesOK
<1>4. PaidLimitAt(Limit(w), values) \in Nat
  BY <1>2, <1>3 DEF PaidLimitAt, ShiftRules
<1>5. ClosedAt(w) \in Nat /\ ClosedAt(w) - sessions[w].clockIn \in Nat
  BY <1>1, <1>2, <1>4 DEF ClosedAt, Min2
<1>6. RecordedPaid(ClosedAt(w) - sessions[w].clockIn, values) \in Nat
  BY <1>2, <1>5, RecordedType
<1>7. AutoCloseRow(w) \in Row
  BY <1>1, <1>5, <1>6 DEF AutoCloseRow, Row, Moments, RowActions, Fixes, PayableCodes
<1>. QED  BY <1>1, <1>7 DEF NoticeKinds, Moments

\* A scan of the automatic close keeps the tables well typed, however many shifts it ends.
LEMMA AutoCloseType ==
    ASSUME TypeInv, ScanAutoClose, UNCHANGED requests
    PROVE  TypeInv'
<1>. DEFINE due == {w \in Workers : Due(w)}
            n == Cardinality(due)
<1>1. n \in Nat
  BY WorkersAssumption, FS_Subset, FS_CardinalityType
<1>2. PICK order \in Bijection(1..n, due) :
         /\ logs' = logs \o [k \in DOMAIN order |-> AutoCloseRow(order[k])]
         /\ decisions' = [d \in DOMAIN decisions |->
                IF \E w \in due : d \in LiveDecisions(w, sessions[w].clockIn)
                  THEN [decisions[d] EXCEPT !.consumedBy =
                          Len(logs) + CHOOSE k \in DOMAIN order :
                                         order[k] = decisions[d].worker]
                  ELSE decisions[d]]
  BY DEF ScanAutoClose
<1>. HIDE DEF n
<1>3. order \in [1..n -> due] /\ \A w \in due : \E k \in 1..n : order[k] = w
  BY <1>2 DEF Bijection, Injection, Surjection
<1>4. logs' \in Seq(Row)
  <2>1. [k \in DOMAIN order |-> AutoCloseRow(order[k])] \in [1..n -> Row]
    BY <1>3, AutoCloseRowType
  <2>2. [k \in DOMAIN order |-> AutoCloseRow(order[k])] \in Seq(Row)
    BY <1>1, <2>1, SegmentIsSeq
  <2>3. logs \in Seq(Row)
    BY DEF TypeInv, TablesOK, DBTypeOK
  <2>. QED  BY <1>2, <2>2, <2>3, ConcatProperties
<1>5. decisions' \in Seq(Decision)
  <2>1. DOMAIN decisions = 1..Len(decisions) /\ Len(decisions) \in Nat /\ Len(logs) \in Nat
    BY DEF TypeInv, TablesOK, DBTypeOK
  <2>2. ASSUME NEW d \in 1..Len(decisions)
        PROVE  decisions'[d] \in Decision
    <3>1. decisions[d] \in Decision
      BY <2>1 DEF TypeInv, TablesOK, DBTypeOK
    <3>2. CASE \E w \in due : d \in LiveDecisions(w, sessions[w].clockIn)
      <4>. DEFINE row == Len(logs) + CHOOSE k \in DOMAIN order : order[k] = decisions[d].worker
      <4>1. decisions[d].worker \in due
        BY <3>2 DEF LiveDecisions
      <4>2. row \in Nat
        <5>1. (CHOOSE k \in DOMAIN order : order[k] = decisions[d].worker) \in 1..n
          BY <1>3, <4>1
        <5>. QED  BY <1>1, <2>1, <5>1
      <4>3. decisions'[d] = [decisions[d] EXCEPT !.consumedBy = row]
        BY <1>2, <2>1, <3>2
      <4>. HIDE DEF row
      <4>. QED  BY <3>1, <4>2, <4>3 DEF Decision
    <3>3. CASE ~\E w \in due : d \in LiveDecisions(w, sessions[w].clockIn)
      BY <1>2, <2>1, <3>1, <3>3
    <3>. QED  BY <3>2, <3>3
  <2>3. decisions' \in [1..Len(decisions) -> Decision]
    <3>1. /\ decisions' = [d \in DOMAIN decisions' |-> decisions'[d]]
          /\ DOMAIN decisions' = DOMAIN decisions
      BY <1>2
    <3>. QED  BY <2>1, <2>2, <3>1
  <2>. QED  BY <2>1, <2>3, SegmentIsSeq
<1>6. sessions' \in [Workers -> Session \cup {NoSession}] /\ StartedInThePast'
  BY DEF ScanAutoClose, TypeInv, TablesOK, DBTypeOK, StartedInThePast, OnShift, NoSession
<1>7. notices' \subseteq NoticeKinds \X Workers \X Moments
  <2>1. {<<"auto_closed", w, sessions[w].clockIn>> : w \in due}
           \subseteq NoticeKinds \X Workers \X Moments
    BY AutoCloseRowType
  <2>2. notices' = notices \cup {<<"auto_closed", w, sessions[w].clockIn>> : w \in due}
    BY DEF ScanAutoClose
  <2>. QED  BY <2>1, <2>2 DEF TypeInv, TablesOK, DBTypeOK
<1>. QED  BY <1>4, <1>5, <1>6, <1>7
          DEF ScanAutoClose, TypeInv, TablesOK, DBTypeOK, PunchTypeOK, WatchTypeOK

\* A scan for crossings keeps the tables well typed.
LEMMA AnnounceType ==
    ASSUME TypeInv, ScanOvertime, UNCHANGED requests
    PROVE  TypeInv'
<1>. DEFINE crossed == {w \in Workers : Crossed(w)}
<1>1. ASSUME NEW w \in Workers
      PROVE  /\ sessions'[w] \in Session \cup {NoSession}
             /\ sessions'[w].clockIn = sessions[w].clockIn
  <2>1. sessions[w] \in Session \cup {NoSession}
    BY DEF TypeInv, TablesOK, DBTypeOK
  <2>2. CASE Crossed(w)
    <3>1. sessions[w] \in Session
      BY <2>2, OpenSession DEF Crossed
    <3>2. sessions'[w] = [sessions[w] EXCEPT !.notified = TRUE]
      BY <2>2 DEF ScanOvertime
    <3>. QED  BY <3>1, <3>2 DEF Session
  <2>3. CASE ~Crossed(w)
    BY <2>1, <2>3 DEF ScanOvertime
  <2>. QED  BY <2>2, <2>3
<1>2. sessions' \in [Workers -> Session \cup {NoSession}]
  <2>1. sessions' = [w \in Workers |-> sessions'[w]]
    BY DEF ScanOvertime
  <2>. QED  BY <1>1, <2>1
<1>3. StartedInThePast'
  BY <1>1 DEF ScanOvertime, StartedInThePast, OnShift, TypeInv
<1>4. notices' \subseteq NoticeKinds \X Workers \X Moments
  <2>1. \A w \in crossed : CrossingNotice(w) \subseteq NoticeKinds \X Workers \X Moments
    BY NoticeType DEF NoticeKinds, Crossed
  <2>2. notices' = notices \cup UNION {CrossingNotice(w) : w \in crossed}
    BY DEF ScanOvertime
  <2>. QED  BY <2>1, <2>2 DEF TypeInv, TablesOK, DBTypeOK
<1>. QED  BY <1>2, <1>3, <1>4
          DEF ScanOvertime, TypeInv, TablesOK, DBTypeOK, PunchTypeOK, WatchTypeOK

-----------------------------------------------------------------------------
\* The tables, the requests and the watcher are well typed in every behaviour,
\* and no open shift began in the future.
THEOREM TypesAreInvariant == Spec => []TypeInv
<1>1. Init => TypeInv
  <2>. SUFFICES ASSUME Init  PROVE TypeInv
    OBVIOUS
  <2>1. DBTypeOK
    BY RulesAssumption, EmptySeq DEF Init, DBInit, DBTypeOK, Moments
  <2>2. PunchTypeOK /\ WatchTypeOK
    BY DEF Init, PunchInit, WatchInit, PunchTypeOK, WatchTypeOK
  <2>3. StartedInThePast
    BY DEF Init, DBInit, StartedInThePast, OnShift, NoSession
  <2>. QED  BY <2>1, <2>2, <2>3 DEF TypeInv, TablesOK
<1>2. TypeInv /\ [Next]_vars => TypeInv'
  <2>. SUFFICES ASSUME TypeInv, [Next]_vars  PROVE TypeInv'
    OBVIOUS
  <2>1. CASE (PunchNext \/ TapNext) /\ UNCHANGED nextScan
    BY <2>1, PunchTypes, TapTypes
  <2>2. CASE AdminNext /\ UNCHANGED <<requests, nextScan>>
    BY <2>2, AdminTypes
  <2>3. CASE WatchNext /\ UNCHANGED requests
    BY <2>3, AutoCloseType, AnnounceType DEF WatchNext
  <2>4. CASE Tick /\ UNCHANGED <<requests, nextScan>>
    <3>1. \A w \in Workers : OnShift(w) => sessions[w].clockIn \in Nat
      BY OpenSession
    <3>. QED  BY <2>4, <3>1 DEF Tick, TypeInv, TablesOK, DBTypeOK, PunchTypeOK, WatchTypeOK,
                 StartedInThePast, OnShift, Moments
  <2>5. CASE UNCHANGED <<dbVars, requests, nextScan>>
    BY <2>5 DEF dbVars, TypeInv, TablesOK, DBTypeOK, PunchTypeOK, WatchTypeOK,
                StartedInThePast, OnShift
  <2>. QED  BY <2>1, <2>2, <2>3, <2>4, <2>5 DEF Next, vars, dbVars, RevokeLink
<1>. QED  BY <1>1, <1>2, PTL DEF Spec

\* A link is revoked for a worker who has one.
LEMMA LinkTypes == Spec => []LinkTypeOK
<1>1. Init => LinkTypeOK
  BY DEF Init, LinkInit, LinkTypeOK
<1>2. LinkTypeOK /\ [Next]_vars => LinkTypeOK'
  BY LinksAssumption DEF LinkTypeOK, Next, vars, RevokeLink
<1>. QED  BY <1>1, <1>2, PTL DEF Spec

\* Every table, request and flag has its type in every behaviour of the server.
THEOREM TypeCorrect == Spec => []TypeOK
<1>1. TypeInv /\ LinkTypeOK => TypeOK
  BY DEF TypeInv, TypeOK
<1>. QED  BY <1>1, TypesAreInvariant, LinkTypes, PTL

-----------------------------------------------------------------------------
(* The inductive invariant                                                  *)

ShiftsOpenedBefore == \A w \in Workers : OnShift(w) => sessions[w].shift <= Len(logs)

RowsComeLater == \A i \in DOMAIN logs : logs[i].shift < i

\* Every clock-out of a worker is older than the shift that worker has open.
ClosesAreOlder ==
    \A w \in Workers, i \in DOMAIN logs :
        OnShift(w) /\ logs[i].worker = w /\ Closes(i) => i <= sessions[w].shift

\* So is every confirmation, while the trip is still under way.
ConfirmationsAreOlder ==
    \A w \in Workers, i \in DOMAIN logs :
        Travelling(w) /\ logs[i].worker = w /\ Confirms(i) => i <= sessions[w].shift

\* Only a trip under way stands at the placeholder.
PlaceholderTravels ==
    \A w \in Workers : OnShift(w) /\ sessions[w].site = InTransit => sessions[w].transit

LedgerInv ==
    /\ ShiftsOpenedBefore
    /\ RowsComeLater
    /\ ClosesAreOlder
    /\ ConfirmationsAreOlder
    /\ PlaceholderTravels
    /\ NothingAfterTheClose
    /\ TripConfirmedOnce
    /\ UnplacedShiftNeedsAnAdministrator

-----------------------------------------------------------------------------
(* The kinds of step                                                        *)

\* Neither a shift nor the facts of a row move.
Quiet ==
    /\ \A w \in Workers : /\ sessions'[w].clockIn = sessions[w].clockIn
                          /\ sessions'[w].shift = sessions[w].shift
                          /\ sessions'[w].transit = sessions[w].transit
                          /\ sessions'[w].site = sessions[w].site
    /\ Len(logs') = Len(logs) /\ DOMAIN logs' = DOMAIN logs
    /\ \A i \in DOMAIN logs : /\ logs'[i].worker = logs[i].worker
                              /\ logs'[i].shift = logs[i].shift
                              /\ logs'[i].action = logs[i].action
                              /\ logs'[i].site = logs[i].site
                              /\ logs'[i].source = logs[i].source

\* A step that moves no shift and rewrites no row's facts keeps the inductive invariant.
LEMMA QuietKeepsLedger ==
    ASSUME LedgerInv, Quiet
    PROVE  LedgerInv'
<1>1. ShiftsOpenedBefore' /\ RowsComeLater'
  BY DEF LedgerInv, Quiet, ShiftsOpenedBefore, RowsComeLater, OnShift
<1>2. ClosesAreOlder'
  BY DEF LedgerInv, Quiet, ClosesAreOlder, OnShift, Closes
<1>3. ConfirmationsAreOlder'
  BY DEF LedgerInv, Quiet, ConfirmationsAreOlder, OnShift, Travelling, Confirms
<1>4. PlaceholderTravels'
  BY DEF LedgerInv, Quiet, PlaceholderTravels, OnShift
<1>5. NothingAfterTheClose'
  BY DEF LedgerInv, Quiet, NothingAfterTheClose, Closes, SameShift
<1>6. TripConfirmedOnce'
  BY DEF LedgerInv, Quiet, TripConfirmedOnce, Confirms, SameShift
<1>7. UnplacedShiftNeedsAnAdministrator'
  BY DEF LedgerInv, Quiet, UnplacedShiftNeedsAnAdministrator, Closes
<1>. QED  BY <1>1, <1>2, <1>3, <1>4, <1>5, <1>6, <1>7 DEF LedgerInv

\* A row of shift k of worker w joins the ledger.
Filed(row, w, k) == logs' = Append(logs, row) /\ row.worker = w /\ row.shift = k

Closing(row) == row.action = "Clock Out"
Confirming(row) == row.action = "Transit Confirmed"
AtHand(row) == row.site = InTransit => row.source = "admin_override"

\* A ledger with one more row: its old rows, and the new one.
LEMMA AppendedRow ==
    ASSUME TypeInv, NEW row, NEW w, NEW k, Filed(row, w, k)
    PROVE  LET n == Len(logs) + 1 IN
           /\ Len(logs) \in Nat /\ n \in Nat /\ Len(logs) < n /\ Len(logs') = n
           /\ n \in DOMAIN logs' /\ \A i \in DOMAIN logs' : i \in DOMAIN logs \/ i = n
           /\ \A i \in DOMAIN logs : /\ i \in Nat /\ i <= Len(logs) /\ logs[i].shift \in Nat
                                     /\ i \in DOMAIN logs' /\ logs'[i] = logs[i]
                                     /\ Closes(i)' = Closes(i) /\ Confirms(i)' = Confirms(i)
           /\ logs'[n].worker = w /\ logs'[n].shift = k
           /\ \A i \in DOMAIN logs' : i = n => /\ Closes(i)' = Closing(row)
                                              /\ Confirms(i)' = Confirming(row)
           /\ AtHand(row) => AtHand(logs'[n])
<1>1. logs \in Seq(Row)
  BY DEF TypeInv, TablesOK, DBTypeOK
<1>2. \A i \in DOMAIN logs : logs[i] \in Row
  BY <1>1
<1>3. \A i \in DOMAIN logs : logs[i].shift \in Nat
  BY <1>2 DEF Row
<1>4. Len(logs) \in Nat /\ DOMAIN logs = 1..Len(logs)
  BY <1>1
<1>5. Len(logs') = Len(logs) + 1 /\ DOMAIN logs' = 1..(Len(logs) + 1)
  BY <1>1 DEF Filed
<1>6. \A i \in DOMAIN logs : logs'[i] = logs[i]
  BY <1>1 DEF Filed
<1>7. logs'[Len(logs) + 1] = row
  BY <1>1 DEF Filed
<1>8. \A i \in DOMAIN logs : Closes(i)' = Closes(i) /\ Confirms(i)' = Confirms(i)
  BY <1>6 DEF Closes, Confirms
<1>9. row.worker = w /\ row.shift = k
  BY DEF Filed
<1>10. \A i \in DOMAIN logs' : i = Len(logs) + 1 => /\ Closes(i)' = Closing(row)
                                                     /\ Confirms(i)' = Confirming(row)
  BY <1>7 DEF Closes, Confirms, Closing, Confirming
<1>11. \A i \in DOMAIN logs : i \in Nat /\ i <= Len(logs)
  BY <1>4
<1>12. \A i \in DOMAIN logs' : i \in DOMAIN logs \/ i = Len(logs) + 1
  BY <1>4, <1>5
<1>13. \A i \in DOMAIN logs : i \in DOMAIN logs'
  BY <1>4, <1>5
<1>. QED  BY <1>3, <1>4, <1>5, <1>6, <1>7, <1>8, <1>9, <1>10, <1>11, <1>12, <1>13

\* The clock-outs and, on the road, the confirmations of a worker carry numbers
\* below that of the shift in progress.
LEMMA NumberUnused ==
    ASSUME TypeInv, LedgerInv, NEW w \in Workers, OnShift(w), NEW i \in DOMAIN logs,
           logs[i].worker = w, Closes(i) \/ (Travelling(w) /\ Confirms(i))
    PROVE  logs[i].shift # sessions[w].shift
<1>1. sessions[w].shift \in Nat
  BY OpenSession
<1>2. logs[i] \in Row /\ i \in Nat
  BY DEF TypeInv, TablesOK, DBTypeOK
<1>3. logs[i].shift \in Nat
  BY <1>2 DEF Row
<1>4. i <= sessions[w].shift
  BY DEF LedgerInv, ClosesAreOlder, ConfirmationsAreOlder
<1>5. logs[i].shift < i
  BY DEF LedgerInv, RowsComeLater
<1>. QED  BY <1>1, <1>2, <1>3, <1>4, <1>5

\* What the history says survives a row of a shift that no clock-out, and no
\* other confirmation, belongs to.
LEMMA AppendKeepsHistory ==
    ASSUME TypeInv, LedgerInv, NEW row, NEW w, NEW k \in Nat, Filed(row, w, k), k <= Len(logs),
           \A i \in DOMAIN logs :
              logs[i].worker = w /\ (Closes(i) \/ (Confirming(row) /\ Confirms(i)))
                => logs[i].shift # k,
           Closing(row) => AtHand(row)
    PROVE  /\ RowsComeLater' /\ NothingAfterTheClose' /\ TripConfirmedOnce'
           /\ UnplacedShiftNeedsAnAdministrator'
<1>. DEFINE n == Len(logs) + 1
<1>1. /\ Len(logs) \in Nat /\ n \in Nat /\ Len(logs) < n
      /\ n \in DOMAIN logs' /\ \A i \in DOMAIN logs' : i \in DOMAIN logs \/ i = n
      /\ \A i \in DOMAIN logs : /\ i \in Nat /\ i <= Len(logs) /\ logs[i].shift \in Nat
                                /\ logs'[i] = logs[i]
                                /\ Closes(i)' = Closes(i) /\ Confirms(i)' = Confirms(i)
      /\ logs'[n].worker = w /\ logs'[n].shift = k
      /\ \A i \in DOMAIN logs' : i = n => /\ Closes(i)' = Closing(row)
                                         /\ Confirms(i)' = Confirming(row)
      /\ AtHand(row) => AtHand(logs'[n])
  BY AppendedRow
<1>. HIDE DEF n
<1>2. RowsComeLater'
  BY <1>1 DEF LedgerInv, RowsComeLater
<1>3. NothingAfterTheClose'
  <2>. SUFFICES ASSUME NEW i \in DOMAIN logs', NEW j \in DOMAIN logs', Closes(i)', SameShift(i, j)'
                PROVE  j <= i
    BY DEF NothingAfterTheClose
  <2>1. CASE i = n
    BY <1>1, <2>1
  <2>2. CASE i \in DOMAIN logs /\ j \in DOMAIN logs
    BY <1>1, <2>2 DEF LedgerInv, NothingAfterTheClose, SameShift
  <2>3. CASE i \in DOMAIN logs /\ j = n
    BY <1>1, <2>3 DEF SameShift
  <2>. QED  BY <1>1, <2>1, <2>2, <2>3
<1>4. TripConfirmedOnce'
  <2>. SUFFICES ASSUME NEW i \in DOMAIN logs', NEW j \in DOMAIN logs',
                       Confirms(i)', Confirms(j)', SameShift(i, j)'
                PROVE  i = j
    BY DEF TripConfirmedOnce
  <2>1. CASE i \in DOMAIN logs /\ j \in DOMAIN logs
    BY <1>1, <2>1 DEF LedgerInv, TripConfirmedOnce, SameShift
  <2>2. CASE i = n /\ j \in DOMAIN logs
    BY <1>1, <2>2 DEF SameShift
  <2>3. CASE i \in DOMAIN logs /\ j = n
    BY <1>1, <2>3 DEF SameShift
  <2>. QED  BY <1>1, <2>1, <2>2, <2>3
<1>5. UnplacedShiftNeedsAnAdministrator'
  <2>. SUFFICES ASSUME NEW i \in DOMAIN logs', Closes(i)'  PROVE AtHand(logs'[i])
    BY DEF UnplacedShiftNeedsAnAdministrator, AtHand
  <2>1. CASE i = n
    BY <1>1, <2>1
  <2>2. CASE i \in DOMAIN logs
    <3>1. Closes(i) /\ logs'[i] = logs[i]
      BY <1>1, <2>2
    <3>. QED  BY <2>2, <3>1 DEF LedgerInv, UnplacedShiftNeedsAnAdministrator, AtHand
  <2>. QED  BY <1>1, <2>1, <2>2
<1>. QED  BY <1>2, <1>3, <1>4, <1>5

\* What is said of the open shifts survives a new row if the worker it is about
\* is off, has just opened a shift, or has just arrived with it.
LEMMA AppendKeepsSessions ==
    ASSUME TypeInv, LedgerInv, NEW w \in Workers, NEW row, NEW k, Filed(row, w, k),
           \A v \in Workers \ {w} : sessions'[v] = sessions[v],
           OnShift(w)' =>
              /\ ~Closing(row) /\ ~Travelling(w)' /\ sessions'[w].site # InTransit
              /\ \/ sessions'[w].shift = Len(logs)
                 \/ OnShift(w) /\ sessions'[w].shift = sessions[w].shift
    PROVE  ShiftsOpenedBefore' /\ ClosesAreOlder' /\ ConfirmationsAreOlder' /\ PlaceholderTravels'
<1>. DEFINE n == Len(logs) + 1
<1>1. /\ Len(logs) \in Nat /\ n \in Nat /\ Len(logs) < n /\ Len(logs') = n
      /\ \A i \in DOMAIN logs' : i \in DOMAIN logs \/ i = n
      /\ \A i \in DOMAIN logs : /\ i \in Nat /\ i <= Len(logs) /\ logs'[i] = logs[i]
                                /\ Closes(i)' = Closes(i) /\ Confirms(i)' = Confirms(i)
      /\ logs'[n].worker = w
      /\ \A i \in DOMAIN logs' : i = n => Closes(i)' = Closing(row)
  BY AppendedRow
<1>. HIDE DEF n
<1>2. \A v \in Workers : OnShift(v) => sessions[v].shift \in Nat /\ sessions[v].shift <= Len(logs)
  BY OpenSession DEF LedgerInv, ShiftsOpenedBefore
<1>3. \A v \in Workers \ {w} : OnShift(v)' = OnShift(v) /\ Travelling(v)' = Travelling(v)
  BY DEF OnShift, Travelling
<1>4. ShiftsOpenedBefore'
  <2>. SUFFICES ASSUME NEW v \in Workers, OnShift(v)'  PROVE sessions'[v].shift <= Len(logs')
    BY DEF ShiftsOpenedBefore
  <2>1. sessions'[v].shift \in Nat /\ sessions'[v].shift <= Len(logs)
    BY <1>1, <1>2, <1>3
  <2>. QED  BY <1>1, <2>1
<1>5. ClosesAreOlder'
  <2>. SUFFICES ASSUME NEW v \in Workers, NEW i \in DOMAIN logs', OnShift(v)',
                       logs'[i].worker = v, Closes(i)'
                PROVE  i <= sessions'[v].shift
    BY DEF ClosesAreOlder
  <2>1. i \in DOMAIN logs
    BY <1>1
  <2>2. logs[i].worker = v /\ Closes(i) /\ i <= Len(logs)
    BY <1>1, <2>1
  <2>3. CASE v # w
    BY <1>3, <2>1, <2>2, <2>3 DEF LedgerInv, ClosesAreOlder
  <2>4. CASE v = w
    BY <2>1, <2>2, <2>4 DEF LedgerInv, ClosesAreOlder
  <2>. QED  BY <2>3, <2>4
<1>6. ConfirmationsAreOlder'
  <2>. SUFFICES ASSUME NEW v \in Workers, NEW i \in DOMAIN logs', Travelling(v)',
                       logs'[i].worker = v, Confirms(i)'
                PROVE  i <= sessions'[v].shift
    BY DEF ConfirmationsAreOlder
  <2>1. v # w
    BY DEF Travelling
  <2>2. Travelling(v) /\ sessions'[v] = sessions[v]
    BY <1>3, <2>1
  <2>3. i \in DOMAIN logs
    BY <1>1, <2>1
  <2>4. logs[i].worker = v /\ Confirms(i)
    BY <1>1, <2>3
  <2>. QED  BY <2>2, <2>3, <2>4 DEF LedgerInv, ConfirmationsAreOlder
<1>7. PlaceholderTravels'
  <2>. SUFFICES ASSUME NEW v \in Workers, OnShift(v)', sessions'[v].site = InTransit
                PROVE  sessions'[v].transit
    BY DEF PlaceholderTravels
  <2>1. v # w
    OBVIOUS
  <2>. QED  BY <1>3, <2>1 DEF LedgerInv, PlaceholderTravels
<1>. QED  BY <1>4, <1>5, <1>6, <1>7

\* A shift opens and files no row: the departure of a trip.
LEMMA DepartureKeepsLedger ==
    ASSUME TypeInv, LedgerInv, NEW w \in Workers, OpenShift(w, InTransit, TRUE),
           UNCHANGED logs
    PROVE  LedgerInv'
<1>1. /\ Len(logs) \in Nat /\ DOMAIN logs = 1..Len(logs)
      /\ sessions'[w].shift = Len(logs)
      /\ \A v \in Workers \ {w} : sessions'[v] = sessions[v]
  BY DEF OpenShift, TypeInv, TablesOK, DBTypeOK
<1>2. sessions'[w].transit = TRUE
  BY DEF OpenShift, TypeInv, TablesOK, DBTypeOK
<1>3. \A v \in Workers \ {w} : OnShift(v)' = OnShift(v) /\ Travelling(v)' = Travelling(v)
  BY <1>1 DEF OnShift, Travelling
<1>4. ShiftsOpenedBefore'
  BY <1>1, <1>3 DEF LedgerInv, ShiftsOpenedBefore
<1>5. PlaceholderTravels'
  BY <1>1, <1>2, <1>3 DEF LedgerInv, PlaceholderTravels
<1>6. ClosesAreOlder'
  <2>. SUFFICES ASSUME NEW v \in Workers, NEW i \in DOMAIN logs, OnShift(v)',
                       logs[i].worker = v, Closes(i)
                PROVE  i <= sessions'[v].shift
    BY DEF ClosesAreOlder, Closes
  <2>1. CASE v = w  BY <1>1, <2>1
  <2>2. CASE v # w  BY <1>1, <1>3, <2>2 DEF LedgerInv, ClosesAreOlder
  <2>. QED  BY <2>1, <2>2
<1>7. ConfirmationsAreOlder'
  <2>. SUFFICES ASSUME NEW v \in Workers, NEW i \in DOMAIN logs, Travelling(v)',
                       logs[i].worker = v, Confirms(i)
                PROVE  i <= sessions'[v].shift
    BY DEF ConfirmationsAreOlder, Confirms
  <2>1. CASE v = w  BY <1>1, <2>1
  <2>2. CASE v # w  BY <1>1, <1>3, <2>2 DEF LedgerInv, ConfirmationsAreOlder
  <2>. QED  BY <2>1, <2>2
<1>8. RowsComeLater' /\ NothingAfterTheClose' /\ TripConfirmedOnce'
        /\ UnplacedShiftNeedsAnAdministrator'
  BY DEF LedgerInv, RowsComeLater, NothingAfterTheClose, TripConfirmedOnce,
         UnplacedShiftNeedsAnAdministrator, Closes, Confirms, SameShift
<1>. QED  BY <1>4, <1>5, <1>6, <1>7, <1>8 DEF LedgerInv

\* A shift opens at a place and files its opening.
LEMMA OpeningKeepsLedger ==
    ASSUME TypeInv, LedgerInv, NEW w \in Workers, NEW site \in Sites, OpenShift(w, site, FALSE),
           NEW row, Filed(row, w, Len(logs)), ~Closing(row), ~Confirming(row)
    PROVE  LedgerInv'
<1>1. sessions'[w] = [clockIn |-> now, shift |-> Len(logs), site |-> site, transit |-> FALSE,
                      notified |-> FALSE]
  BY DEF OpenShift, TypeInv, TablesOK, DBTypeOK
<1>2. \A v \in Workers \ {w} : sessions'[v] = sessions[v]
  BY DEF OpenShift, TypeInv, TablesOK, DBTypeOK
<1>3. sessions'[w].shift = Len(logs) /\ sessions'[w].site = site /\ site # InTransit
  BY <1>1, SitesAssumption
<1>4. ~Travelling(w)'
  BY <1>1 DEF Travelling
<1>5. Len(logs) \in Nat /\ \A i \in DOMAIN logs : logs[i].shift # Len(logs)
  <2>1. /\ Len(logs) \in Nat
        /\ \A i \in DOMAIN logs : i \in Nat /\ i <= Len(logs) /\ logs[i].shift \in Nat
    BY AppendedRow
  <2>2. \A i \in DOMAIN logs : logs[i].shift < i
    BY DEF LedgerInv, RowsComeLater
  <2>. QED  BY <2>1, <2>2
<1>6. /\ RowsComeLater' /\ NothingAfterTheClose' /\ TripConfirmedOnce'
      /\ UnplacedShiftNeedsAnAdministrator'
  BY <1>5, AppendKeepsHistory
<1>7. ShiftsOpenedBefore' /\ ClosesAreOlder' /\ ConfirmationsAreOlder' /\ PlaceholderTravels'
  BY <1>2, <1>3, <1>4, AppendKeepsSessions
<1>. QED  BY <1>6, <1>7 DEF LedgerInv

\* A shift ends with its clock-out, which names no placeholder unless an
\* administrator filed it.
LEMMA ClosingKeepsLedger ==
    ASSUME TypeInv, LedgerInv, NEW w \in Workers, OnShift(w), NEW row,
           Filed(row, w, sessions[w].shift), ~Confirming(row), AtHand(row),
           sessions' = [sessions EXCEPT ![w] = NoSession]
    PROVE  LedgerInv'
<1>1. ~OnShift(w)' /\ \A v \in Workers \ {w} : sessions'[v] = sessions[v]
  BY DEF OnShift, NoSession, TypeInv, TablesOK, DBTypeOK
<1>2. sessions[w].shift \in Nat /\ sessions[w].shift <= Len(logs)
  BY OpenSession DEF LedgerInv, ShiftsOpenedBefore
<1>3. \A i \in DOMAIN logs : logs[i].worker = w /\ Closes(i) => logs[i].shift # sessions[w].shift
  BY NumberUnused
<1>4. /\ RowsComeLater' /\ NothingAfterTheClose' /\ TripConfirmedOnce'
      /\ UnplacedShiftNeedsAnAdministrator'
  BY <1>2, <1>3, AppendKeepsHistory
<1>5. ShiftsOpenedBefore' /\ ClosesAreOlder' /\ ConfirmationsAreOlder' /\ PlaceholderTravels'
  BY <1>1, AppendKeepsSessions
<1>. QED  BY <1>4, <1>5 DEF LedgerInv

\* A trip arrives.
LEMMA ArrivalKeepsLedger ==
    ASSUME TypeInv, LedgerInv, NEW r \in Requests, NEW w, w = requests[r].worker, Arrive(r)
    PROVE  LedgerInv'
<1>. DEFINE row ==
                [worker |-> w, clockIn |-> sessions[w].clockIn,
                 shift |-> sessions[w].shift, action |-> "Transit Confirmed",
                 site |-> ArrivalSite(r), at |-> now, fix |-> requests[r].fix,
                 flagged |-> requests[r].site = NoSite, score |-> "none",
                 source |-> "site_arrival", code |-> "approved", hours |-> 0, overtime |-> 0,
                 approved |-> Null]
<1>1. w \in Workers /\ OnShift(w) /\ Travelling(w) /\ ArrivalSite(r) \in Sites
  BY RequestType DEF Arrive, ArrivalSite, Fixes, Travelling
<1>2. sessions[w] \in Session /\ sessions[w].shift \in Nat
  BY <1>1, OpenSession
<1>3. sessions'[w] = [[sessions[w] EXCEPT !.site = ArrivalSite(r)] EXCEPT !.transit = FALSE]
  BY <1>1, <1>2 DEF Arrive, Session, TypeInv, TablesOK, DBTypeOK
<1>4. \A v \in Workers \ {w} : sessions'[v] = sessions[v]
  BY <1>1 DEF Arrive, TypeInv, TablesOK, DBTypeOK
<1>5. sessions'[w].shift = sessions[w].shift /\ sessions'[w].site # InTransit
  BY <1>1, <1>2, <1>3, SitesAssumption DEF Session
<1>6. ~Travelling(w)'
  BY <1>2, <1>3 DEF Travelling, Session
<1>7. Filed(row, w, sessions[w].shift)
  BY DEF Filed, Arrive
<1>8. ~Closing(row)
  BY DEF Closing
<1>. HIDE DEF row
<1>9. sessions[w].shift <= Len(logs)
  BY <1>1 DEF LedgerInv, ShiftsOpenedBefore
<1>10. \A i \in DOMAIN logs :
         logs[i].worker = w /\ (Closes(i) \/ Confirms(i)) => logs[i].shift # sessions[w].shift
  BY <1>1, NumberUnused
<1>11. /\ RowsComeLater' /\ NothingAfterTheClose' /\ TripConfirmedOnce'
       /\ UnplacedShiftNeedsAnAdministrator'
  BY <1>2, <1>7, <1>8, <1>9, <1>10, AppendKeepsHistory
<1>12. ShiftsOpenedBefore' /\ ClosesAreOlder' /\ ConfirmationsAreOlder' /\ PlaceholderTravels'
  BY <1>1, <1>4, <1>5, <1>6, <1>7, <1>8, AppendKeepsSessions
<1>. QED  BY <1>11, <1>12 DEF LedgerInv

\* Whose row an automatic close is.
LEMMA AutoCloseRowIsItsShifts ==
    ASSUME NEW w
    PROVE  /\ AutoCloseRow(w).worker = w /\ AutoCloseRow(w).shift = sessions[w].shift
           /\ AutoCloseRow(w).site = sessions[w].site
           /\ AutoCloseRow(w).action # "Transit Confirmed"
BY DEF AutoCloseRow

\* One scan of the watcher ends every shift that is due, each with one row.
LEMMA AutoCloseKeepsLedger ==
    ASSUME TypeInv, LedgerInv, ScanAutoClose
    PROVE  LedgerInv'
<1>. DEFINE due == {w \in Workers : Due(w)}
            n == Cardinality(due)
            isNew(i) == i \in DOMAIN logs' /\ i \notin DOMAIN logs
<1>1. n \in Nat
  BY WorkersAssumption, FS_Subset, FS_CardinalityType
<1>2. PICK order \in Bijection(1..n, due) :
         logs' = logs \o [k \in DOMAIN order |-> AutoCloseRow(order[k])]
  BY DEF ScanAutoClose
<1>. HIDE DEF n
<1>3. order \in [1..n -> due] /\ \A k, m \in 1..n : order[k] = order[m] => k = m
  BY <1>2 DEF Bijection, Injection, IsInjective
<1>4. \A w \in due : /\ w \in Workers /\ OnShift(w) /\ ~Travelling(w)
                     /\ sessions[w].shift \in Nat /\ sessions[w].shift <= Len(logs)
                     /\ sessions[w].site # InTransit
  BY OpenSession DEF Due, Travelling, LedgerInv, ShiftsOpenedBefore, PlaceholderTravels
<1>5. \A v \in Workers : OnShift(v)' => v \notin due /\ sessions'[v] = sessions[v]
  BY DEF ScanAutoClose, OnShift, NoSession
<1>6. /\ Len(logs) \in Nat /\ Len(logs') \in Nat /\ Len(logs) <= Len(logs')
      /\ \A i \in DOMAIN logs : /\ i \in Nat /\ i <= Len(logs) /\ i \in DOMAIN logs'
                                /\ logs'[i] = logs[i]
      /\ \A i : isNew(i) =>
            /\ i \in Nat /\ i > Len(logs)
            /\ \E k \in 1..n : i = Len(logs) + k /\ logs'[i] = AutoCloseRow(order[k])
  <2>. DEFINE rows == [k \in DOMAIN order |-> AutoCloseRow(order[k])]
  <2>1. rows \in [1..n -> Row]
    BY <1>3, AutoCloseRowType
  <2>2. rows \in Seq(Row) /\ Len(rows) = n
    BY <1>1, <2>1, SegmentIsSeq
  <2>3. logs \in Seq(Row) /\ Len(logs) \in Nat /\ DOMAIN logs = 1..Len(logs)
    BY DEF TypeInv, TablesOK, DBTypeOK
  <2>4. logs' = logs \o rows
    BY <1>2
  <2>5. /\ logs' \in Seq(Row) /\ Len(logs') = Len(logs) + n
        /\ \A i \in 1..(Len(logs) + n) :
              logs'[i] = IF i <= Len(logs) THEN logs[i] ELSE rows[i - Len(logs)]
    <3>. HIDE DEF rows
    <3>. QED  BY <2>2, <2>3, <2>4, ConcatProperties
  <2>6. DOMAIN logs' = 1..(Len(logs) + n)
    BY <2>5
  <2>7. \A k \in 1..n : rows[k] = AutoCloseRow(order[k])
    BY <1>3
  <2>. HIDE DEF rows
  <2>8. ASSUME NEW i, isNew(i)
        PROVE  /\ i \in Nat /\ i > Len(logs)
               /\ \E k \in 1..n : i = Len(logs) + k /\ logs'[i] = AutoCloseRow(order[k])
    <3>1. i \in 1..(Len(logs) + n) /\ i > Len(logs)
      BY <1>1, <2>3, <2>6, <2>8
    <3>2. i - Len(logs) \in 1..n /\ i = Len(logs) + (i - Len(logs))
      BY <1>1, <2>3, <3>1
    <3>3. logs'[i] = AutoCloseRow(order[i - Len(logs)])
      BY <2>3, <2>5, <2>7, <3>1, <3>2
    <3>. QED  BY <3>1, <3>2, <3>3
  <2>9. /\ Len(logs') \in Nat /\ Len(logs) <= Len(logs')
        /\ \A i \in DOMAIN logs : /\ i \in Nat /\ i <= Len(logs) /\ i \in DOMAIN logs'
                                  /\ logs'[i] = logs[i]
    BY <1>1, <2>3, <2>5, <2>6
  <2>. QED  BY <2>3, <2>8, <2>9
<1>7. \A i : isNew(i) =>
        /\ logs'[i].worker \in due
        /\ logs'[i].shift = sessions[logs'[i].worker].shift
        /\ logs'[i].site = sessions[logs'[i].worker].site
        /\ ~Confirms(i)'
  <2>. SUFFICES ASSUME NEW i, isNew(i)
                PROVE  /\ logs'[i].worker \in due
                       /\ logs'[i].shift = sessions[logs'[i].worker].shift
                       /\ logs'[i].site = sessions[logs'[i].worker].site
                       /\ ~Confirms(i)'
    OBVIOUS
  <2>1. PICK k \in 1..n : logs'[i] = AutoCloseRow(order[k])
    BY <1>6
  <2>. HIDE DEF due, isNew
  <2>2. order[k] \in due
    BY <1>3
  <2>3. /\ logs'[i].worker = order[k] /\ logs'[i].shift = sessions[order[k]].shift
        /\ logs'[i].site = sessions[order[k]].site
    BY <2>1, AutoCloseRowIsItsShifts
  <2>4. logs'[i].action # "Transit Confirmed"
    BY <2>1, AutoCloseRowIsItsShifts
  <2>5. ~Confirms(i)'
    BY <2>4 DEF Confirms
  <2>. QED  BY <2>2, <2>3, <2>5
<1>8. \A i, j : isNew(i) /\ isNew(j) /\ logs'[i].worker = logs'[j].worker => i = j
  <2>. SUFFICES ASSUME NEW i, NEW j, isNew(i), isNew(j), logs'[i].worker = logs'[j].worker
                PROVE  i = j
    OBVIOUS
  <2>1. PICK k \in 1..n : i = Len(logs) + k /\ logs'[i] = AutoCloseRow(order[k])
    BY <1>6
  <2>2. PICK m \in 1..n : j = Len(logs) + m /\ logs'[j] = AutoCloseRow(order[m])
    BY <1>6
  <2>3. order[k] = order[m]
    BY <2>1, <2>2, AutoCloseRowIsItsShifts
  <2>. QED  BY <1>3, <2>1, <2>2, <2>3
<1>9. \A i \in DOMAIN logs : Closes(i)' = Closes(i) /\ Confirms(i)' = Confirms(i)
  BY <1>6 DEF Closes, Confirms
<1>10. \A i \in DOMAIN logs' : i \in DOMAIN logs \/ isNew(i)
  OBVIOUS
<1>. HIDE DEF due, isNew
<1>11. ShiftsOpenedBefore'
  <2>. SUFFICES ASSUME NEW v \in Workers, OnShift(v)'  PROVE sessions'[v].shift <= Len(logs')
    BY DEF ShiftsOpenedBefore
  <2>1. OnShift(v) /\ sessions'[v] = sessions[v]
    BY <1>5 DEF OnShift
  <2>2. sessions[v].shift \in Nat /\ sessions[v].shift <= Len(logs)
    BY <2>1, OpenSession DEF LedgerInv, ShiftsOpenedBefore
  <2>. QED  BY <1>6, <2>1, <2>2
<1>12. RowsComeLater'
  <2>. SUFFICES ASSUME NEW i \in DOMAIN logs'  PROVE logs'[i].shift < i
    BY DEF RowsComeLater
  <2>1. CASE i \in DOMAIN logs
    BY <1>6, <2>1 DEF LedgerInv, RowsComeLater
  <2>2. CASE isNew(i)
    <3>1. i \in Nat /\ i > Len(logs) /\ logs'[i].worker \in due
          /\ logs'[i].shift = sessions[logs'[i].worker].shift
      BY <1>6, <1>7, <2>2
    <3>. QED  BY <1>4, <1>6, <3>1
  <2>. QED  BY <1>10, <2>1, <2>2
<1>13. ClosesAreOlder'
  <2>. SUFFICES ASSUME NEW v \in Workers, NEW i \in DOMAIN logs', OnShift(v)',
                       logs'[i].worker = v, Closes(i)'
                PROVE  i <= sessions'[v].shift
    BY DEF ClosesAreOlder
  <2>1. v \notin due /\ OnShift(v) /\ sessions'[v] = sessions[v]
    BY <1>5 DEF OnShift
  <2>2. i \in DOMAIN logs
    BY <1>7, <1>10, <2>1
  <2>. QED  BY <1>6, <1>9, <2>1, <2>2 DEF LedgerInv, ClosesAreOlder
<1>14. ConfirmationsAreOlder'
  <2>. SUFFICES ASSUME NEW v \in Workers, NEW i \in DOMAIN logs', Travelling(v)',
                       logs'[i].worker = v, Confirms(i)'
                PROVE  i <= sessions'[v].shift
    BY DEF ConfirmationsAreOlder
  <2>1. Travelling(v) /\ sessions'[v] = sessions[v]
    BY <1>5 DEF OnShift, Travelling
  <2>2. i \in DOMAIN logs
    BY <1>7, <1>10
  <2>. QED  BY <1>6, <1>9, <2>1, <2>2 DEF LedgerInv, ConfirmationsAreOlder
<1>15. PlaceholderTravels'
  BY <1>5 DEF LedgerInv, PlaceholderTravels, OnShift
<1>16. NothingAfterTheClose'
  <2>. SUFFICES ASSUME NEW i \in DOMAIN logs', NEW j \in DOMAIN logs', Closes(i)', SameShift(i, j)'
                PROVE  j <= i
    BY DEF NothingAfterTheClose
  <2>1. CASE i \in DOMAIN logs /\ j \in DOMAIN logs
    BY <1>6, <1>9, <2>1 DEF LedgerInv, NothingAfterTheClose, SameShift
  <2>2. CASE i \in DOMAIN logs /\ isNew(j)
    <3>1. /\ logs[i].worker \in due /\ Closes(i)
          /\ logs[i].shift = sessions[logs[i].worker].shift
      BY <1>6, <1>7, <1>9, <2>2 DEF SameShift
    <3>2. logs[i].shift # sessions[logs[i].worker].shift
      BY <1>4, <2>2, <3>1, NumberUnused
    <3>. QED  BY <3>1, <3>2
  <2>3. CASE isNew(i) /\ j \in DOMAIN logs
    BY <1>6, <2>3
  <2>4. CASE isNew(i) /\ isNew(j)
    <3>1. i = j
      BY <1>8, <2>4 DEF SameShift
    <3>2. i \in Nat
      BY <1>6, <2>4
    <3>. QED  BY <3>1, <3>2
  <2>. QED  BY <1>10, <2>1, <2>2, <2>3, <2>4
<1>17. TripConfirmedOnce'
  <2>. SUFFICES ASSUME NEW i \in DOMAIN logs', NEW j \in DOMAIN logs',
                       Confirms(i)', Confirms(j)', SameShift(i, j)'
                PROVE  i = j
    BY DEF TripConfirmedOnce
  <2>1. i \in DOMAIN logs /\ j \in DOMAIN logs
    BY <1>7, <1>10
  <2>. QED  BY <1>6, <1>9, <2>1 DEF LedgerInv, TripConfirmedOnce, SameShift
<1>18. UnplacedShiftNeedsAnAdministrator'
  <2>. SUFFICES ASSUME NEW i \in DOMAIN logs', Closes(i)', logs'[i].site = InTransit
                PROVE  logs'[i].source = "admin_override"
    BY DEF UnplacedShiftNeedsAnAdministrator
  <2>1. i \in DOMAIN logs
    BY <1>4, <1>7, <1>10
  <2>. QED  BY <1>6, <1>9, <2>1 DEF LedgerInv, UnplacedShiftNeedsAnAdministrator
<1>. QED  BY <1>11, <1>12, <1>13, <1>14, <1>15, <1>16, <1>17, <1>18 DEF LedgerInv

-----------------------------------------------------------------------------
(* Every step                                                               *)

\* Requests, answers, sites, rules and the clock move no shift and no row.
LEMMA IdleStepIsQuiet ==
    ASSUME TypeInv, UNCHANGED <<sessions, logs>>
    PROVE  Quiet
BY DEF Quiet

\* A row with other figures or another status is the same row.
LEMMA SameFactsIsQuiet ==
    ASSUME TypeInv, NEW i \in DOMAIN logs, NEW row, logs' = [logs EXCEPT ![i] = row],
           row.worker = logs[i].worker, row.shift = logs[i].shift, row.action = logs[i].action,
           row.site = logs[i].site, row.source = logs[i].source, UNCHANGED sessions
    PROVE  Quiet
<1>1. logs \in Seq(Row)
  BY DEF TypeInv, TablesOK, DBTypeOK
<1>2. Len(logs') = Len(logs) /\ DOMAIN logs' = DOMAIN logs
  BY <1>1
<1>3. \A j \in DOMAIN logs : logs'[j] = IF j = i THEN row ELSE logs[j]
  BY <1>1
<1>. QED  BY <1>2, <1>3 DEF Quiet

\* A correction moves the figures of a row and its status.
LEMMA CorrectionIsQuiet ==
    ASSUME TypeInv, NEW i \in DOMAIN logs, NEW code, NEW approved, NEW overtime, NEW hours,
           Settled(i, code, approved, overtime) \/ EditHours(i, hours)
    PROVE  Quiet
<1>. DEFINE settled == [logs[i] EXCEPT !.code = code, !.approved = approved, !.overtime = overtime]
            edited == [logs[i] EXCEPT !.hours = hours, !.approved = hours,
                                      !.overtime = Max2(0, hours - values.regular)]
<1>1. logs[i] \in Row
  BY DEF TypeInv, TablesOK, DBTypeOK
<1>2. /\ settled.worker = logs[i].worker /\ settled.shift = logs[i].shift
      /\ settled.action = logs[i].action
      /\ settled.site = logs[i].site /\ settled.source = logs[i].source
  BY <1>1 DEF Row
<1>3. /\ edited.worker = logs[i].worker /\ edited.shift = logs[i].shift
      /\ edited.action = logs[i].action
      /\ edited.site = logs[i].site /\ edited.source = logs[i].source
  BY <1>1 DEF Row
<1>4. CASE Settled(i, code, approved, overtime)
  <2>1. logs' = [logs EXCEPT ![i] = settled] /\ UNCHANGED sessions
    BY <1>4 DEF Settled
  <2>. HIDE DEF settled
  <2>. QED  BY <1>2, <2>1, SameFactsIsQuiet
<1>5. CASE EditHours(i, hours)
  <2>1. logs' = [logs EXCEPT ![i] = edited] /\ UNCHANGED sessions
    BY <1>5 DEF EditHours
  <2>. HIDE DEF edited
  <2>. QED  BY <1>3, <2>1, SameFactsIsQuiet
<1>. QED  BY <1>4, <1>5

\* The watcher's announcement marks the session.
LEMMA AnnouncementIsQuiet ==
    ASSUME TypeInv, ScanOvertime
    PROVE  Quiet
<1>1. ASSUME NEW w \in Workers
      PROVE  /\ sessions'[w].clockIn = sessions[w].clockIn
             /\ sessions'[w].shift = sessions[w].shift
             /\ sessions'[w].transit = sessions[w].transit
             /\ sessions'[w].site = sessions[w].site
  <2>1. CASE Crossed(w)
    <3>1. sessions[w] \in Session
      BY <2>1, OpenSession DEF Crossed
    <3>2. sessions'[w] = [sessions[w] EXCEPT !.notified = TRUE]
      BY <2>1 DEF ScanOvertime
    <3>. QED  BY <3>1, <3>2 DEF Session
  <2>2. CASE ~Crossed(w)
    BY <2>2 DEF ScanOvertime
  <2>. QED  BY <2>1, <2>2
<1>. QED  BY <1>1 DEF Quiet, ScanOvertime

\* Every step of a request keeps the inductive invariant.
LEMMA PunchKeepsLedger ==
    ASSUME TypeInv, LedgerInv, PunchNext
    PROVE  LedgerInv'
<1>1. ASSUME UNCHANGED dbVars  PROVE LedgerInv'
  BY <1>1, IdleStepIsQuiet, QuietKeepsLedger DEF dbVars
<1>2. ASSUME NEW r \in Requests, Depart(r)  PROVE LedgerInv'
  <2>1. requests[r].worker \in Workers
    BY <1>2, RequestType DEF Depart, OpensShift
  <2>. QED  BY <1>2, <2>1, DepartureKeepsLedger DEF Depart
<1>3. ASSUME NEW r \in Requests, PunchIn(r)  PROVE LedgerInv'
  <2>. DEFINE q == requests[r]
              row ==
                [worker |-> q.worker, clockIn |-> now, shift |-> Len(logs), action |-> q.action,
                 site |-> q.site, at |-> now, fix |-> q.fix, flagged |-> FALSE,
                 score |-> q.verdict, source |-> "online", code |-> q.verdict, hours |-> 0,
                 overtime |-> 0, approved |-> Null]
  <2>1. /\ q.worker \in Workers /\ q.site \in Sites
        /\ q.action \in {"Clock In", "Transit Checkpoint"}
    BY <1>3, RequestType DEF PunchIn, OpensShift, Fixes, Actions
  <2>2. Filed(row, q.worker, Len(logs))
    BY <1>3 DEF Filed, PunchIn
  <2>3. ~Closing(row) /\ ~Confirming(row)
    BY <2>1 DEF Closing, Confirming
  <2>4. OpenShift(q.worker, q.site, FALSE)
    BY <1>3 DEF PunchIn
  <2>. HIDE DEF row
  <2>. QED  BY <2>1, <2>2, <2>3, <2>4, OpeningKeepsLedger
<1>4. ASSUME NEW r \in Requests, PunchOut(r)  PROVE LedgerInv'
  <2>. DEFINE q == requests[r]
              w == requests[r].worker
              row ==
                [worker |-> w, clockIn |-> sessions[w].clockIn,
                 shift |-> sessions[w].shift, action |-> "Clock Out",
                 site |-> IF q.site # NoSite THEN q.site ELSE ShiftSite(r),
                 at |-> now, fix |-> q.fix, flagged |-> q.site = NoSite, score |-> q.verdict,
                 source |-> "online", code |-> OutCode(r),
                 hours |-> RecordedPaid(Elapsed(w), values),
                 overtime |-> IF HeldForApproval(w) THEN HeldHours(w) ELSE 0, approved |-> Null]
  <2>1. /\ w \in Workers /\ OnShift(w) /\ q.site \in Fixes /\ q.gone \in Fixes
        /\ Travelling(w) /\ q.site = NoSite => q.gone # NoSite
    BY <1>4, RequestType DEF PunchOut, OutRefused, Unconfirmed
  <2>2. Filed(row, w, sessions[w].shift) /\ sessions' = [sessions EXCEPT ![w] = NoSession]
    BY <1>4 DEF Filed, PunchOut, CloseShift
  <2>3. (IF q.site # NoSite THEN q.site ELSE ShiftSite(r)) # InTransit
    <3>1. CASE q.site # NoSite
      BY <2>1, <3>1, SitesAssumption DEF Fixes
    <3>2. CASE q.site = NoSite /\ Travelling(w)
      BY <2>1, <3>2, SitesAssumption DEF Fixes, ShiftSite
    <3>3. CASE q.site = NoSite /\ ~Travelling(w)
      <4>1. sessions[w].site # InTransit
        BY <2>1, <3>3 DEF LedgerInv, PlaceholderTravels, Travelling
      <4>. QED  BY <3>3, <4>1 DEF ShiftSite
    <3>. QED  BY <3>1, <3>2, <3>3
  <2>4. ~Confirming(row) /\ AtHand(row)
    BY <2>3 DEF Confirming, AtHand
  <2>. HIDE DEF row
  <2>. QED  BY <2>1, <2>2, <2>4, ClosingKeepsLedger
<1>5. ASSUME NEW r \in Requests, Arrive(r)  PROVE LedgerInv'
  BY <1>5, ArrivalKeepsLedger
<1>. QED  BY <1>1, <1>2, <1>3, <1>4, <1>5
          DEF PunchNext, Settle, Gate, JudgeFrame, RefuseFrame, RefuseIn, RefuseOut, RefuseArrival

\* Every step of an administrator keeps the inductive invariant.
LEMMA AdminKeepsLedger ==
    ASSUME TypeInv, LedgerInv, AdminNext
    PROVE  LedgerInv'
<1>1. ASSUME UNCHANGED <<sessions, logs>>  PROVE LedgerInv'
  BY <1>1, IdleStepIsQuiet, QuietKeepsLedger
<1>2. ASSUME NEW w \in Workers, NEW site \in Sites, ForceClockIn(w, site)  PROVE LedgerInv'
  <2>. DEFINE row ==
            [worker |-> w, clockIn |-> now, shift |-> Len(logs), action |-> "Clock In", site |-> site,
             at |-> now, fix |-> NoSite, flagged |-> FALSE, score |-> "none",
             source |-> "admin_override", code |-> "approved", hours |-> 0, overtime |-> 0,
             approved |-> Null]
  <2>1. Filed(row, w, Len(logs)) /\ OpenShift(w, site, FALSE)
    BY <1>2 DEF Filed, ForceClockIn
  <2>2. ~Closing(row) /\ ~Confirming(row)
    BY DEF Closing, Confirming
  <2>. HIDE DEF row
  <2>. QED  BY <2>1, <2>2, OpeningKeepsLedger
<1>3. ASSUME NEW w \in Workers, NEW typed \in Typed(Figures), ForceClockOut(w, typed)
      PROVE  LedgerInv'
  <2>. DEFINE hours == IF typed = Blank THEN RecordedPaid(Elapsed(w), values) ELSE typed
              held  == IF typed = Blank THEN HeldHours(w) ELSE Max2(0, typed - values.regular)
              row ==
                [worker |-> w, clockIn |-> sessions[w].clockIn,
                 shift |-> sessions[w].shift, action |-> "Clock Out",
                 site |-> sessions[w].site, at |-> now, fix |-> NoSite, flagged |-> FALSE,
                 score |-> "none", source |-> "admin_override", code |-> "approved",
                 hours |-> hours, overtime |-> held, approved |-> hours]
  <2>1. /\ OnShift(w) /\ Filed(row, w, sessions[w].shift)
        /\ sessions' = [sessions EXCEPT ![w] = NoSession]
    BY <1>3 DEF Filed, ForceClockOut, CloseShift
  <2>2. ~Confirming(row) /\ AtHand(row)
    BY DEF Confirming, AtHand
  <2>. HIDE DEF row
  <2>. QED  BY <2>1, <2>2, ClosingKeepsLedger
<1>4. ASSUME NEW i \in DOMAIN logs,
             \/ \E typed \in Typed(Figures) : ApproveReview(i, typed)
             \/ RejectReview(i)
             \/ \E hours \in Figures : EditHours(i, hours)
      PROVE  LedgerInv'
  <2>1. Quiet
    BY <1>4, CorrectionIsQuiet DEF ApproveReview, RejectReview
  <2>. QED  BY <2>1, QuietKeepsLedger
<1>5. ASSUME NEW w \in Workers,
             \/ \E typed \in Typed(Ceilings) : AcceptCrossing(w, typed)
             \/ DeclineCrossing(w)
      PROVE  UNCHANGED <<sessions, logs>>
  BY <1>5 DEF AcceptCrossing, DeclineCrossing, Decide
<1>6. ASSUME NEW site, AddSite(site) \/ DeleteSite(site)  PROVE UNCHANGED <<sessions, logs>>
  BY <1>6 DEF AddSite, DeleteSite
<1>7. ASSUME NEW rules, UpdateShiftRules(rules)  PROVE UNCHANGED <<sessions, logs>>
  BY <1>7 DEF UpdateShiftRules
<1>. QED  BY <1>1, <1>2, <1>3, <1>4, <1>5, <1>6, <1>7 DEF AdminNext

\* Every step of a tap keeps the inductive invariant.
LEMMA TapKeepsLedger ==
    ASSUME TypeInv, LedgerInv, TapNext
    PROVE  LedgerInv'
<1>1. ASSUME UNCHANGED dbVars  PROVE LedgerInv'
  BY <1>1, IdleStepIsQuiet, QuietKeepsLedger DEF dbVars
<1>2. ASSUME NEW r \in Requests, TapIn(r)  PROVE LedgerInv'
  <2>. DEFINE q == requests[r]
              row ==
                [worker |-> q.worker, clockIn |-> now, shift |-> Len(logs),
                 action |-> "Clock In", site |-> q.site, at |-> now, fix |-> q.fix,
                 flagged |-> FALSE, score |-> "none", source |-> "quick_link",
                 code |-> "approved", hours |-> 0, overtime |-> 0, approved |-> Null]
  <2>1. q.worker \in Workers /\ q.site \in Sites
    BY <1>2, RequestType DEF TapIn, TapRefused, Fixes
  <2>2. Filed(row, q.worker, Len(logs)) /\ OpenShift(q.worker, q.site, FALSE)
    BY <1>2 DEF Filed, TapIn
  <2>3. ~Closing(row) /\ ~Confirming(row)
    BY DEF Closing, Confirming
  <2>. HIDE DEF row
  <2>. QED  BY <2>1, <2>2, <2>3, OpeningKeepsLedger
<1>3. ASSUME NEW r \in Requests, TapOut(r)  PROVE LedgerInv'
  <2>. DEFINE q == requests[r]
              w == requests[r].worker
              held == HeldForApproval(w)
              row ==
                [worker |-> w, clockIn |-> sessions[w].clockIn,
                 shift |-> sessions[w].shift, action |-> "Clock Out",
                 site |-> IF q.site # NoSite THEN q.site ELSE q.gone,
                 at |-> now, fix |-> q.fix, flagged |-> q.site = NoSite, score |-> "none",
                 source |-> "quick_link",
                 code |-> IF held THEN "pending_overtime" ELSE "approved",
                 hours |-> RecordedPaid(Elapsed(w), values),
                 overtime |-> IF held THEN HeldHours(w) ELSE 0, approved |-> Null]
  <2>1. /\ w \in Workers /\ OnShift(w)
        /\ (IF q.site # NoSite THEN q.site ELSE q.gone) # InTransit
    BY <1>3, RequestType, SitesAssumption DEF TapOut, Fixes
  <2>2. Filed(row, w, sessions[w].shift) /\ sessions' = [sessions EXCEPT ![w] = NoSession]
    BY <1>3 DEF Filed, TapOut, CloseShift
  <2>3. ~Confirming(row) /\ AtHand(row)
    BY <2>1 DEF Confirming, AtHand
  <2>. HIDE DEF row
  <2>. QED  BY <2>1, <2>2, <2>3, ClosingKeepsLedger
<1>. QED  BY <1>1, <1>2, <1>3
          DEF TapNext, SettleTap, TapLink, SeeOneFace, RefusePicture, RefuseTap

-----------------------------------------------------------------------------
\* The inductive invariant holds in every behaviour.
THEOREM LedgerIsInvariant == Spec => []LedgerInv
<1>1. Init => LedgerInv
  BY DEF Init, DBInit, LedgerInv, ShiftsOpenedBefore, RowsComeLater, ClosesAreOlder,
         ConfirmationsAreOlder, PlaceholderTravels, NothingAfterTheClose, TripConfirmedOnce,
         UnplacedShiftNeedsAnAdministrator, OnShift, Travelling, NoSession
<1>2. TypeInv /\ LedgerInv /\ [Next]_vars => LedgerInv'
  <2>. SUFFICES ASSUME TypeInv, LedgerInv, [Next]_vars  PROVE LedgerInv'
    OBVIOUS
  <2>1. CASE PunchNext
    BY <2>1, PunchKeepsLedger
  <2>2. CASE AdminNext
    BY <2>2, AdminKeepsLedger
  <2>3. CASE ScanAutoClose
    BY <2>3, AutoCloseKeepsLedger
  <2>4. CASE ScanOvertime
    BY <2>4, AnnouncementIsQuiet, QuietKeepsLedger
  <2>5. CASE Tick \/ (\E w \in LinksToRevoke : RevokeLink(w)) \/ UNCHANGED vars
    BY <2>5, IdleStepIsQuiet, QuietKeepsLedger DEF Tick, RevokeLink, vars, dbVars
  <2>6. CASE TapNext
    BY <2>6, TapKeepsLedger
  <2>. QED  BY <2>1, <2>2, <2>3, <2>4, <2>5, <2>6 DEF Next, WatchNext
<1>. QED  BY <1>1, <1>2, TypesAreInvariant, PTL DEF Spec

\* Whatever order a worker's clock-outs, a forced close, the automatic close and
\* a late arrival take the lock in, nothing is filed for a shift that is over.
THEOREM SettledStaysSettled == Spec => []NothingAfterTheClose
<1>1. LedgerInv => NothingAfterTheClose
  BY DEF LedgerInv
<1>. QED  BY <1>1, LedgerIsInvariant, PTL

\* However many arrivals of a trip are in flight, one is filed.
THEOREM OneConfirmation == Spec => []TripConfirmedOnce
<1>1. LedgerInv => TripConfirmedOnce
  BY DEF LedgerInv
<1>. QED  BY <1>1, LedgerIsInvariant, PTL

\* Neither a punch nor the watcher ever pays a trip that reached no place.
THEOREM UnplacedIsPaidByHand == Spec => []UnplacedShiftNeedsAnAdministrator
<1>1. LedgerInv => UnplacedShiftNeedsAnAdministrator
  BY DEF LedgerInv
<1>. QED  BY <1>1, LedgerIsInvariant, PTL

-----------------------------------------------------------------------------
(* A request without a place                                                *)

\* Whoever punches from no place at all may travel, and taps no link.
FixlessTravel ==
    \A r \in Requests :
        requests[r].stage # "idle" /\ requests[r].fix = NoSite =>
            requests[r].worker \in TransitEnabled /\ requests[r].action # "Tap"

\* No fence and no deleted boundary lies around no place.
LEMMA NoPlaceNoSite ==
    ASSUME TypeInv, NEW w
    PROVE  SiteAt(NoSite) = NoSite /\ GateGone(w, NoSite) = NoSite
BY SitesAssumption DEF SiteAt, GateGone, DeletedSiteAt, TypeInv, TablesOK, DBTypeOK

\* A request that is answered, and one that moves on.
LEMMA FixlessStep ==
    ASSUME TypeInv, FixlessTravel, NEW r \in Requests,
           \/ Finish(r)
           \/ \E q : /\ requests' = [requests EXCEPT ![r] = q]
                     /\ q.stage # "idle" /\ q.fix = NoSite =>
                           q.worker \in TransitEnabled /\ q.action # "Tap"
    PROVE  FixlessTravel'
<1>. SUFFICES ASSUME NEW s \in Requests, requests'[s].stage # "idle", requests'[s].fix = NoSite
              PROVE  requests'[s].worker \in TransitEnabled /\ requests'[s].action # "Tap"
  BY DEF FixlessTravel
<1>1. CASE s # r
  BY <1>1 DEF FixlessTravel, Finish, TypeInv, TablesOK, PunchTypeOK
<1>2. CASE s = r /\ Finish(r)
  BY <1>2 DEF Finish, Idle, TypeInv, TablesOK, PunchTypeOK
<1>3. CASE s = r /\ ~Finish(r)
  BY <1>3 DEF TypeInv, TablesOK, PunchTypeOK
<1>. QED  BY <1>1, <1>2, <1>3

\* A request that moves on carries what it carried.
LEMMA FixlessOn ==
    ASSUME TypeInv, FixlessTravel, NEW r \in Requests, requests[r].stage # "idle",
           NEW stage, NEW verdict,
           \/ requests' = [requests EXCEPT ![r].stage = stage, ![r].verdict = verdict]
           \/ requests' = [requests EXCEPT ![r].stage = stage]
    PROVE  FixlessTravel'
<1>. DEFINE q == requests'[r]
<1>1. requests' = [requests EXCEPT ![r] = q]
  BY DEF TypeInv, TablesOK, PunchTypeOK
<1>2. requests[r] \in InFlight
  BY DEF TypeInv, TablesOK, PunchTypeOK, Idle
<1>3. q.fix = requests[r].fix /\ q.worker = requests[r].worker /\ q.action = requests[r].action
  BY <1>2 DEF InFlight, Carried, TypeInv, TablesOK, PunchTypeOK
<1>4. q.stage # "idle" /\ q.fix = NoSite => q.worker \in TransitEnabled /\ q.action # "Tap"
  BY <1>3 DEF FixlessTravel
<1>. HIDE DEF q
<1>. QED  BY <1>1, <1>4, FixlessStep

\* Only the gates admit a request, and they look at the place.
THEOREM FixlessIsInvariant == Spec => []FixlessTravel
<1>1. Init => FixlessTravel
  BY DEF Init, PunchInit, FixlessTravel, Idle
<1>2. TypeInv /\ FixlessTravel /\ [Next]_vars => FixlessTravel'
  <2>. SUFFICES ASSUME TypeInv, FixlessTravel, [Next]_vars  PROVE FixlessTravel'
    OBVIOUS
  <2>1. ASSUME NEW r \in Requests, NEW w \in Workers, NEW action \in Taps, NEW fix \in Fixes,
               NEW confirmed \in BOOLEAN, Gate(r, w, action, fix, confirmed)
        PROVE  FixlessTravel'
    <3>1. fix = NoSite => w \in TransitEnabled
      BY <2>1, NoPlaceNoSite DEF Gate, Admitted
    <3>2. action # "Tap"
      BY PunchAssumption DEF Actions
    <3>. DEFINE q ==
            [stage |-> IF Travelling(w) /\ action # "Clock Out" THEN "arrive" ELSE "model",
             worker |-> w, action |-> action, fix |-> fix,
             confirmed |-> confirmed /\ action = "Clock Out",
             site |-> SiteAt(fix), gone |-> GateGone(w, fix), verdict |-> "none"]
    <3>3. requests' = [requests EXCEPT ![r] = q]
      BY <2>1 DEF Gate
    <3>4. q.fix = fix /\ q.worker = w /\ q.action = action
      OBVIOUS
    <3>. HIDE DEF q
    <3>. QED  BY <3>1, <3>2, <3>3, <3>4, FixlessStep
  <2>2. ASSUME NEW r \in Requests, NEW w \in Linked, NEW fix \in Fixes,
               NEW confirmed \in BOOLEAN, TapLink(r, w, fix, confirmed)
        PROVE  FixlessTravel'
    <3>1. fix # NoSite
      BY <2>2, NoPlaceNoSite DEF TapLink
    <3>. DEFINE q ==
            [stage |-> "looking", worker |-> w, action |-> "Tap", fix |-> fix,
             confirmed |-> confirmed, site |-> SiteAt(fix), gone |-> GateGone(w, fix),
             verdict |-> "none"]
    <3>2. requests' = [requests EXCEPT ![r] = q] /\ q.fix = fix
      BY <2>2 DEF TapLink
    <3>. HIDE DEF q
    <3>. QED  BY <3>1, <3>2, FixlessStep
  <2>3. ASSUME NEW r \in Requests, Settle(r) \/ SettleTap(r)  PROVE FixlessTravel'
    <3>1. CASE Finish(r)
      BY <3>1, FixlessStep
    <3>2. CASE JudgeFrame(r)
      BY <3>2, FixlessOn DEF JudgeFrame
    <3>3. CASE SeeOneFace(r)
      BY <3>3, FixlessOn DEF SeeOneFace
    <3>. QED  BY <2>3, <3>1, <3>2, <3>3
              DEF Settle, SettleTap, RefuseFrame, Depart, PunchIn, RefuseIn, PunchOut, RefuseOut,
                  Arrive, RefuseArrival, RefusePicture, TapIn, TapOut, RefuseTap
  <2>4. CASE UNCHANGED requests
    BY <2>4 DEF FixlessTravel
  <2>. QED  BY <2>1, <2>2, <2>3, <2>4 DEF Next, PunchNext, TapNext, vars
<1>. QED  BY <1>1, <1>2, TypesAreInvariant, PTL DEF Spec

-----------------------------------------------------------------------------
(* The kinds of step                                                        *)

\* The approved figure of a row, if it has one, is at most its hours.
Within(row) == row.approved # Null => row.approved <= row.hours

\* OrdinaryShiftEndsAtAPlace, of one row.
Ordinary(row) ==
    row.action = "Clock Out" /\ row.fix = NoSite /\ row.source \in {"online", "quick_link"} =>
        row.source = "online" /\ row.worker \in TransitEnabled

\* StandardDayIsEarned, of one row on the day it is filed.
Earned(row) ==
    row.code = "pending_overtime" /\ Ceiling(row.worker) >= values.regular =>
        CreditedHours(row) >= Min2(values.regular, row.hours)

ByLink(row) == row.source = "quick_link" => LinkUsable(row.worker)

\* Nothing is filed, and no shift moves.
Still ==
    /\ \A w \in Workers : /\ sessions'[w].clockIn = sessions[w].clockIn
                          /\ sessions'[w].shift = sessions[w].shift
                          /\ sessions'[w].transit = sessions[w].transit
                          /\ sessions'[w].site = sessions[w].site
    /\ UNCHANGED <<logs, decisions>>
    /\ notices \subseteq notices'

Departed(w) ==
    ~OnShift(w) /\ OpenShift(w, InTransit, TRUE) /\ UNCHANGED <<now, logs, decisions, notices>>

Opened(w, row) ==
    /\ ~OnShift(w)
    /\ \E site \in Sites : OpenShift(w, site, FALSE)
    /\ logs' = Append(logs, row) /\ row \in Row
    /\ row.worker = w /\ row.shift = Len(logs) /\ ByLink(row)
    /\ row.action \in {"Clock In", "Transit Checkpoint"}
    /\ row.code # "pending_overtime" /\ row.approved = Null /\ row.source # "auto_close"
    /\ UNCHANGED <<now, decisions, notices>>

Arrived(w, row) ==
    /\ Travelling(w)
    /\ \E site \in Sites : sessions' = [sessions EXCEPT ![w].site = site, ![w].transit = FALSE]
    /\ logs' = Append(logs, row) /\ row \in Row
    /\ row.worker = w /\ row.shift = sessions[w].shift
    /\ row.action = "Transit Confirmed" /\ row.source = "site_arrival"
    /\ row.code # "pending_overtime" /\ row.approved = Null
    /\ notices \subseteq notices' /\ UNCHANGED decisions

Ended(w, row) ==
    /\ OnShift(w)
    /\ CloseShift(w, row) /\ row \in Row
    /\ row.worker = w /\ row.clockIn = sessions[w].clockIn /\ row.shift = sessions[w].shift
    /\ row.action = "Clock Out" /\ row.source # "auto_close"
    /\ Within(row) /\ Ordinary(row) /\ Earned(row) /\ ByLink(row)
    /\ row.code = "pending_overtime" => <<"crossing", w, row.clockIn>> \in notices'
    /\ row.site = InTransit => row.source = "admin_override" /\ Travelling(w)
    /\ notices \subseteq notices'

Corrected(i, row) ==
    /\ logs' = [logs EXCEPT ![i] = row] /\ row \in Row
    /\ row.worker = logs[i].worker /\ row.shift = logs[i].shift
    /\ row.clockIn = logs[i].clockIn /\ row.action = logs[i].action
    /\ row.site = logs[i].site /\ row.at = logs[i].at /\ row.fix = logs[i].fix
    /\ row.flagged = logs[i].flagged /\ row.score = logs[i].score
    /\ row.source = logs[i].source
    /\ Within(row) /\ row.code # "pending_overtime"
    /\ UNCHANGED <<sessions, decisions, notices>>

Decided(w) ==
    \E decision \in {"authorised", "declined"}, ceiling \in Nat : Decide(w, decision, ceiling)

-----------------------------------------------------------------------------
(* Every step is of one kind                                                *)

\* The steps that write no table.
LEMMA UnwrittenIsStill ==
    ASSUME UNCHANGED <<sessions, logs, decisions, notices>>
    PROVE  Still
BY DEF Still

\* Reading the session of an open shift, the crossing of the line is told with the row.
LEMMA HeldIsTold ==
    ASSUME NEW w, HeldForApproval(w)
    PROVE  <<"crossing", w, sessions[w].clockIn>> \in CrossingNotice(w)
BY DEF HeldForApproval, CrossingNotice

\* The hours held past a ceiling at or above the paid day leave the paid day.
LEMMA HeldLeavesTheDay ==
    ASSUME TypeInv, NEW w \in Workers, OnShift(w), HeldForApproval(w), NEW row \in Row,
           row.worker = w, row.code = "pending_overtime",
           row.hours = RecordedPaid(Elapsed(w), values), row.overtime = HeldHours(w)
    PROVE  Earned(row)
<1>. DEFINE paid == Paid(Elapsed(w), values)
            ceiling == Ceiling(w)
            regular == values.regular
<1>. SUFFICES ASSUME ceiling >= regular
              PROVE  CreditedHours(row) >= Min2(regular, row.hours)
  BY DEF Earned
<1>1. values \in ShiftRules /\ regular \in Nat \ {0} /\ paid \in Nat
  BY FiguresType DEF TypeInv, TablesOK, DBTypeOK, ShiftRules
<1>2. ceiling \in Nat
  BY <1>1, StandingType DEF Ceiling, TypeInv, TablesOK
<1>3. HeldHours(w) = Max2(0, paid - ceiling) /\ HeldHours(w) > 0
  BY DEF HeldHours, HeldForApproval
<1>4. CreditedHours(row) = row.hours - Min2(row.overtime, row.hours)
  BY <1>3 DEF CreditedHours, PayableCodes
<1>5. row.hours = RoundedPaid(paid, values)
  BY DEF RecordedPaid
<1>. HIDE DEF paid, ceiling
<1>6. HeldHours(w) = paid - ceiling /\ paid > regular
  BY <1>1, <1>2, <1>3 DEF Max2
<1>7. row.hours = paid
  BY <1>1, <1>5, <1>6 DEF RoundedPaid, RoundsUp
<1>8. row.hours \in Nat /\ row.overtime \in Nat
  BY DEF Row
<1>. QED  BY <1>1, <1>2, <1>4, <1>6, <1>7, <1>8 DEF Min2

\* One of the kinds, by somebody.
OfAKind ==
    \/ Still
    \/ \E w \in Workers :
          \/ Departed(w)
          \/ \E row \in Row : Opened(w, row) \/ Arrived(w, row) \/ Ended(w, row)
          \/ Decided(w)
    \/ \E i \in DOMAIN logs, row \in Row : Corrected(i, row)
    \/ ScanAutoClose

\* A clock-in or a checkpoint opens a shift.
LEMMA PunchInKind ==
    ASSUME TypeInv, NEW r \in Requests, PunchIn(r)
    PROVE  OfAKind
<1>. DEFINE q == requests[r]
            w == requests[r].worker
            row ==
                [worker |-> q.worker, clockIn |-> now, shift |-> Len(logs), action |-> q.action,
                 site |-> q.site, at |-> now, fix |-> q.fix, flagged |-> FALSE,
                 score |-> q.verdict, source |-> "online", code |-> q.verdict, hours |-> 0,
                 overtime |-> 0, approved |-> Null]
<1>1. /\ w \in Workers /\ q.site \in Sites /\ q.fix \in Fixes /\ q.verdict \in Verdicts
      /\ q.action \in {"Clock In", "Transit Checkpoint"}
  BY RequestType DEF PunchIn, OpensShift, Fixes, Actions
<1>2. now \in Nat /\ Len(logs) \in Nat
  BY DEF TypeInv, TablesOK, DBTypeOK, Moments
<1>3. row \in Row
  BY <1>1, <1>2 DEF Row, Moments, RowActions, Verdicts, PendingCodes, PayableCodes
<1>4. /\ ~OnShift(w) /\ OpenShift(w, q.site, FALSE)
      /\ logs' = Append(logs, row) /\ UNCHANGED <<now, decisions, notices>>
  BY DEF PunchIn
<1>5. row.worker = w /\ row.shift = Len(logs) /\ row.action = q.action
  OBVIOUS
<1>6. ByLink(row) /\ row.code # "pending_overtime" /\ row.approved = Null /\ row.source # "auto_close"
  BY <1>1 DEF ByLink, Verdicts
<1>. HIDE DEF row, w, q
<1>7. Opened(w, row)
  BY <1>1, <1>3, <1>4, <1>5, <1>6 DEF Opened
<1>. QED  BY <1>1, <1>3, <1>7 DEF OfAKind

\* So does a tap.
LEMMA TapInKind ==
    ASSUME TypeInv, NEW r \in Requests, TapIn(r)
    PROVE  OfAKind
<1>. DEFINE q == requests[r]
            w == requests[r].worker
            row ==
                [worker |-> q.worker, clockIn |-> now, shift |-> Len(logs),
                 action |-> "Clock In", site |-> q.site, at |-> now, fix |-> q.fix,
                 flagged |-> FALSE, score |-> "none", source |-> "quick_link",
                 code |-> "approved", hours |-> 0, overtime |-> 0, approved |-> Null]
<1>1. w \in Workers /\ q.site \in Sites /\ q.fix \in Fixes
  BY RequestType DEF TapIn, TapRefused, Fixes
<1>2. now \in Nat /\ Len(logs) \in Nat
  BY DEF TypeInv, TablesOK, DBTypeOK, Moments
<1>3. row \in Row
  BY <1>1, <1>2 DEF Row, Moments, RowActions, PayableCodes
<1>4. /\ ~OnShift(w) /\ LinkUsable(w) /\ OpenShift(w, q.site, FALSE)
      /\ logs' = Append(logs, row) /\ UNCHANGED <<now, decisions, notices>>
  BY DEF TapIn, TapRefused
<1>5. /\ row.worker = w /\ row.shift = Len(logs) /\ row.action = "Clock In"
      /\ row.code # "pending_overtime" /\ row.approved = Null /\ row.source # "auto_close"
  OBVIOUS
<1>. HIDE DEF row, w, q
<1>6. ByLink(row)
  BY <1>4, <1>5 DEF ByLink
<1>7. Opened(w, row)
  BY <1>1, <1>3, <1>4, <1>5, <1>6 DEF Opened
<1>. QED  BY <1>1, <1>3, <1>7 DEF OfAKind

\* A clock-out ends a shift, at a place unless its worker may travel.
LEMMA PunchOutKind ==
    ASSUME TypeInv, LedgerInv, FixlessTravel, NEW r \in Requests, PunchOut(r)
    PROVE  OfAKind
<1>. DEFINE q == requests[r]
            w == requests[r].worker
            held == HeldForApproval(w)
            row ==
                [worker |-> w, clockIn |-> sessions[w].clockIn,
                 shift |-> sessions[w].shift, action |-> "Clock Out",
                 site |-> IF q.site # NoSite THEN q.site ELSE ShiftSite(r),
                 at |-> now, fix |-> q.fix, flagged |-> q.site = NoSite, score |-> q.verdict,
                 source |-> "online", code |-> OutCode(r),
                 hours |-> RecordedPaid(Elapsed(w), values),
                 overtime |-> IF held THEN HeldHours(w) ELSE 0, approved |-> Null]
<1>1. /\ w \in Workers /\ q.fix \in Fixes /\ q.site \in Fixes /\ q.gone \in Fixes
      /\ q.verdict \in Verdicts /\ OnShift(w) /\ ~Unconfirmed(r)
  BY RequestType DEF PunchOut, OutRefused
<1>2. /\ sessions[w] \in Session /\ sessions[w].clockIn \in Nat /\ sessions[w].shift \in Nat
      /\ RecordedPaid(Elapsed(w), values) \in Nat /\ HeldHours(w) \in Nat /\ now \in Nat
  BY <1>1, OpenSession, FiguresType DEF TypeInv, TablesOK, DBTypeOK, Moments
<1>3. /\ row.site \in Sites \cup {InTransit}
      /\ row.site # InTransit
  <2>1. CASE q.site # NoSite
    BY <1>1, <2>1, SitesAssumption DEF Fixes
  <2>2. CASE q.site = NoSite /\ Travelling(w)
    BY <1>1, <2>2, SitesAssumption DEF Fixes, ShiftSite, Unconfirmed
  <2>3. CASE q.site = NoSite /\ ~Travelling(w)
    <3>1. sessions[w].site # InTransit
      BY <1>1, <2>3 DEF LedgerInv, PlaceholderTravels, Travelling
    <3>. QED  BY <1>2, <2>3, <3>1 DEF ShiftSite, Session
  <2>. QED  BY <2>1, <2>2, <2>3
<1>4. OutCode(r) \in PendingCodes \cup PayableCodes /\ (OutCode(r) = "pending_overtime" => held)
  BY <1>1 DEF OutCode, Verdicts, PendingCodes, PayableCodes
<1>5. row \in Row
  BY <1>1, <1>2, <1>3, <1>4 DEF Row, Moments, Verdicts, RowActions
<1>6. q.fix = NoSite => w \in TransitEnabled
  BY DEF FixlessTravel, PunchOut
<1>7. Ordinary(row) /\ ByLink(row) /\ Within(row)
  BY <1>6 DEF Ordinary, ByLink, Within
<1>8. /\ CloseShift(w, row)
      /\ notices' = notices \cup ArrivalNotice(r) \cup (IF held THEN CrossingNotice(w) ELSE {})
  BY DEF PunchOut
<1>9. row.code = "pending_overtime" => <<"crossing", w, row.clockIn>> \in notices'
  BY <1>4, <1>8, HeldIsTold
<1>10. /\ row.worker = w /\ row.clockIn = sessions[w].clockIn /\ row.shift = sessions[w].shift
       /\ row.action = "Clock Out" /\ row.source # "auto_close" /\ row.code = OutCode(r)
       /\ row.hours = RecordedPaid(Elapsed(w), values)
       /\ held => row.overtime = HeldHours(w)
  OBVIOUS
<1>11. notices \subseteq notices'
  BY <1>8
<1>. HIDE DEF row, w, q, held
<1>12. Earned(row)
  <2>. SUFFICES ASSUME row.code = "pending_overtime"  PROVE Earned(row)
    BY DEF Earned
  <2>1. held /\ row.overtime = HeldHours(w)
    BY <1>4, <1>10
  <2>. QED  BY <1>1, <1>5, <1>10, <2>1, HeldLeavesTheDay DEF held
<1>13. Ended(w, row)
  BY <1>1, <1>3, <1>5, <1>7, <1>8, <1>9, <1>10, <1>11, <1>12 DEF Ended
<1>. QED  BY <1>1, <1>5, <1>13 DEF OfAKind

\* So does a tap, always at a place.
LEMMA TapOutKind ==
    ASSUME TypeInv, FixlessTravel, NEW r \in Requests, TapOut(r)
    PROVE  OfAKind
<1>. DEFINE q == requests[r]
            w == requests[r].worker
            held == HeldForApproval(w)
            row ==
                [worker |-> w, clockIn |-> sessions[w].clockIn,
                 shift |-> sessions[w].shift, action |-> "Clock Out",
                 site |-> IF q.site # NoSite THEN q.site ELSE q.gone,
                 at |-> now, fix |-> q.fix, flagged |-> q.site = NoSite, score |-> "none",
                 source |-> "quick_link",
                 code |-> IF held THEN "pending_overtime" ELSE "approved",
                 hours |-> RecordedPaid(Elapsed(w), values),
                 overtime |-> IF held THEN HeldHours(w) ELSE 0, approved |-> Null]
<1>1. /\ w \in Workers /\ q.fix \in Fixes /\ OnShift(w) /\ LinkUsable(w)
      /\ (IF q.site # NoSite THEN q.site ELSE q.gone) \in Sites
  BY RequestType DEF TapOut, TapRefused, Fixes
<1>2. /\ sessions[w].clockIn \in Nat /\ sessions[w].shift \in Nat
      /\ RecordedPaid(Elapsed(w), values) \in Nat /\ HeldHours(w) \in Nat /\ now \in Nat
  BY <1>1, OpenSession, FiguresType DEF TypeInv, TablesOK, DBTypeOK, Moments
<1>3. row \in Row
  BY <1>1, <1>2 DEF Row, Moments, RowActions, PendingCodes, PayableCodes
<1>4. requests[r].action = "Tap"
  <2>. HIDE DEF row, held, w, q
  <2>1. requests[r].stage = "tapped"
    BY DEF TapOut
  <2>2. requests[r] \in InFlight
    BY <2>1 DEF TypeInv, TablesOK, PunchTypeOK, Idle
  <2>. QED  BY <2>1, <2>2 DEF InFlight, Carried
<1>5. row.fix # NoSite
  BY <1>4 DEF FixlessTravel, TapOut
<1>6. Ordinary(row) /\ ByLink(row) /\ Within(row)
  BY <1>1, <1>5 DEF Ordinary, ByLink, Within
<1>7. /\ CloseShift(w, row)
      /\ notices' = notices \cup (IF held THEN CrossingNotice(w) ELSE {})
  BY DEF TapOut
<1>8. row.code = "pending_overtime" => <<"crossing", w, row.clockIn>> \in notices'
  BY <1>7, HeldIsTold
<1>9. row.site # InTransit
  BY <1>1, SitesAssumption
<1>10. /\ row.worker = w /\ row.clockIn = sessions[w].clockIn /\ row.shift = sessions[w].shift
       /\ row.action = "Clock Out" /\ row.source # "auto_close"
       /\ row.hours = RecordedPaid(Elapsed(w), values)
       /\ row.code = "pending_overtime" => held /\ row.overtime = HeldHours(w)
  OBVIOUS
<1>11. notices \subseteq notices'
  BY <1>7
<1>. HIDE DEF row, w, q, held
<1>12. Earned(row)
  <2>. SUFFICES ASSUME row.code = "pending_overtime"  PROVE Earned(row)
    BY DEF Earned
  <2>. QED  BY <1>1, <1>3, <1>10, HeldLeavesTheDay DEF held
<1>13. Ended(w, row)
  BY <1>1, <1>3, <1>6, <1>7, <1>8, <1>9, <1>10, <1>11, <1>12 DEF Ended
<1>. QED  BY <1>1, <1>3, <1>13 DEF OfAKind

\* A departure opens a trip and files nothing.
LEMMA DepartKind ==
    ASSUME TypeInv, NEW r \in Requests, Depart(r)
    PROVE  OfAKind
<1>1. requests[r].worker \in Workers
  BY RequestType DEF Depart, OpensShift
<1>2. Departed(requests[r].worker)
  BY DEF Depart, Departed
<1>. QED  BY <1>1, <1>2 DEF OfAKind

\* An arrival files the milestone of a trip.
LEMMA ArriveKind ==
    ASSUME TypeInv, NEW r \in Requests, Arrive(r)
    PROVE  OfAKind
<1>. DEFINE w == requests[r].worker
            row ==
                [worker |-> w, clockIn |-> sessions[w].clockIn,
                 shift |-> sessions[w].shift, action |-> "Transit Confirmed",
                 site |-> ArrivalSite(r), at |-> now, fix |-> requests[r].fix,
                 flagged |-> requests[r].site = NoSite, score |-> "none",
                 source |-> "site_arrival", code |-> "approved", hours |-> 0, overtime |-> 0,
                 approved |-> Null]
<1>1. w \in Workers /\ Travelling(w) /\ ArrivalSite(r) \in Sites /\ requests[r].fix \in Fixes
  BY RequestType DEF Arrive, ArrivalSite, Fixes, Travelling
<1>2. /\ sessions[w].clockIn \in Nat /\ sessions[w].shift \in Nat /\ now \in Nat
  BY <1>1, OpenSession DEF Travelling, TypeInv, TablesOK, DBTypeOK, Moments
<1>3. row \in Row
  BY <1>1, <1>2 DEF Row, Moments, RowActions, PayableCodes
<1>4. /\ sessions' = [sessions EXCEPT ![w].site = ArrivalSite(r), ![w].transit = FALSE]
      /\ logs' = Append(logs, row) /\ notices \subseteq notices' /\ UNCHANGED decisions
  BY DEF Arrive
<1>5. /\ row.worker = w /\ row.shift = sessions[w].shift /\ row.action = "Transit Confirmed"
      /\ row.source = "site_arrival" /\ row.code # "pending_overtime" /\ row.approved = Null
  OBVIOUS
<1>. HIDE DEF row, w
<1>6. Arrived(w, row)
  BY <1>1, <1>3, <1>4, <1>5 DEF Arrived
<1>. QED  BY <1>1, <1>3, <1>6 DEF OfAKind

\* Every step of a punch is of a kind.
LEMMA PunchKinds ==
    ASSUME TypeInv, LedgerInv, FixlessTravel, PunchNext
    PROVE  OfAKind
<1>1. ASSUME UNCHANGED dbVars  PROVE OfAKind
  BY <1>1, UnwrittenIsStill DEF dbVars, OfAKind
<1>2. ASSUME NEW r \in Requests, NEW w \in Workers, NEW action \in Taps, NEW fix \in Fixes,
             NEW confirmed \in BOOLEAN, Gate(r, w, action, fix, confirmed)
      PROVE  OfAKind
  BY <1>1, <1>2 DEF Gate
<1>3. ASSUME NEW r \in Requests, Settle(r)  PROVE OfAKind
  <2>1. CASE Depart(r) \/ PunchIn(r) \/ PunchOut(r) \/ Arrive(r)
    BY <2>1, DepartKind, PunchInKind, PunchOutKind, ArriveKind
  <2>2. CASE JudgeFrame(r) \/ RefuseFrame(r) \/ RefuseIn(r) \/ RefuseOut(r) \/ RefuseArrival(r)
    BY <2>2, <1>1 DEF JudgeFrame, RefuseFrame, RefuseIn, RefuseOut, RefuseArrival
  <2>. QED  BY <1>3, <2>1, <2>2 DEF Settle
<1>. QED  BY <1>2, <1>3 DEF PunchNext

\* So is every step of a tap.
LEMMA TapKinds ==
    ASSUME TypeInv, FixlessTravel, TapNext
    PROVE  OfAKind
<1>1. ASSUME UNCHANGED dbVars  PROVE OfAKind
  BY <1>1, UnwrittenIsStill DEF dbVars, OfAKind
<1>2. ASSUME NEW r \in Requests, NEW w \in Linked, NEW fix \in Fixes,
             NEW confirmed \in BOOLEAN, TapLink(r, w, fix, confirmed)
      PROVE  OfAKind
  BY <1>1, <1>2 DEF TapLink
<1>3. ASSUME NEW r \in Requests, SettleTap(r)  PROVE OfAKind
  BY <1>1, <1>3, TapInKind, TapOutKind DEF SettleTap, SeeOneFace, RefusePicture, RefuseTap
<1>. QED  BY <1>2, <1>3 DEF TapNext

\* A forced clock-in opens a shift.
LEMMA ForceInKind ==
    ASSUME TypeInv, NEW w \in Workers, NEW site \in Sites, ForceClockIn(w, site)
    PROVE  OfAKind
<1>. DEFINE row ==
                [worker |-> w, clockIn |-> now, shift |-> Len(logs), action |-> "Clock In",
                 site |-> site, at |-> now, fix |-> NoSite, flagged |-> FALSE, score |-> "none",
                 source |-> "admin_override", code |-> "approved", hours |-> 0, overtime |-> 0,
                 approved |-> Null]
<1>1. now \in Nat /\ Len(logs) \in Nat
  BY DEF TypeInv, TablesOK, DBTypeOK, Moments
<1>2. row \in Row
  BY <1>1 DEF Row, Moments, RowActions, PayableCodes, Fixes
<1>3. /\ ~OnShift(w) /\ OpenShift(w, site, FALSE)
      /\ logs' = Append(logs, row) /\ UNCHANGED <<now, decisions, notices>>
  BY DEF ForceClockIn
<1>4. /\ row.worker = w /\ row.shift = Len(logs) /\ row.action = "Clock In"
      /\ row.source = "admin_override" /\ row.code = "approved" /\ row.approved = Null
  OBVIOUS
<1>. HIDE DEF row
<1>5. Opened(w, row)
  BY <1>2, <1>3, <1>4 DEF Opened, ByLink
<1>. QED  BY <1>2, <1>5 DEF OfAKind

\* A forced clock-out ends a shift, on the road too.
LEMMA ForceOutKind ==
    ASSUME TypeInv, LedgerInv, NEW w \in Workers, NEW typed \in Typed(Figures),
           ForceClockOut(w, typed)
    PROVE  OfAKind
<1>. DEFINE hours == IF typed = Blank THEN RecordedPaid(Elapsed(w), values) ELSE typed
            held == IF typed = Blank THEN HeldHours(w) ELSE Max2(0, typed - values.regular)
            row ==
                [worker |-> w, clockIn |-> sessions[w].clockIn,
                 shift |-> sessions[w].shift, action |-> "Clock Out",
                 site |-> sessions[w].site, at |-> now, fix |-> NoSite, flagged |-> FALSE,
                 score |-> "none", source |-> "admin_override", code |-> "approved",
                 hours |-> hours, overtime |-> held, approved |-> hours]
<1>1. OnShift(w)
  BY DEF ForceClockOut
<1>2. /\ sessions[w] \in Session /\ sessions[w].clockIn \in Nat /\ sessions[w].shift \in Nat
      /\ sessions[w].site \in Sites \cup {InTransit}
      /\ RecordedPaid(Elapsed(w), values) \in Nat /\ HeldHours(w) \in Nat /\ now \in Nat
  BY <1>1, OpenSession, FiguresType DEF TypeInv, TablesOK, DBTypeOK, Moments, Session
<1>3. typed # Blank => typed \in Nat
  BY FiguresAssumption DEF Typed, Blank
<1>4. hours \in Nat
  BY <1>2, <1>3
<1>5. held \in Nat
  BY <1>2, <1>3 DEF Max2, TypeInv, TablesOK, DBTypeOK, ShiftRules
<1>. HIDE DEF hours, held
<1>6. row \in Row
  BY <1>2, <1>4, <1>5 DEF Row, Moments, RowActions, PayableCodes, Fixes
<1>7. CloseShift(w, row) /\ notices \subseteq notices'
  BY DEF ForceClockOut, hours, held
<1>8. /\ row.worker = w /\ row.clockIn = sessions[w].clockIn /\ row.shift = sessions[w].shift
      /\ row.action = "Clock Out" /\ row.source = "admin_override" /\ row.code = "approved"
      /\ row.approved = row.hours /\ row.hours \in Nat /\ row.site = sessions[w].site
  BY <1>4
<1>9. sessions[w].site = InTransit => Travelling(w)
  BY <1>1 DEF LedgerInv, PlaceholderTravels, Travelling
<1>. HIDE DEF row
<1>10. Within(row) /\ Ordinary(row) /\ Earned(row) /\ ByLink(row)
  <2>1. Within(row)
    <3>1. row.approved = row.hours /\ row.hours \in Nat
      BY <1>8
    <3>. QED  BY <3>1 DEF Within
  <2>2. Ordinary(row)
    BY <1>8 DEF Ordinary
  <2>3. Earned(row) /\ ByLink(row)
    BY <1>8 DEF Earned, ByLink
  <2>. QED  BY <2>1, <2>2, <2>3
<1>11. Ended(w, row)
  BY <1>1, <1>6, <1>7, <1>8, <1>9, <1>10 DEF Ended
<1>. QED  BY <1>6, <1>11 DEF OfAKind

\* The figures and the status of one row are written.
Rewritten(i, code, hours, approved, overtime) ==
    /\ logs' = [logs EXCEPT ![i] = [logs[i] EXCEPT !.code = code, !.hours = hours,
                                                   !.approved = approved, !.overtime = overtime]]
    /\ UNCHANGED <<sessions, decisions, notices>>

\* A decision or a correction writes them, and approves no more than is recorded.
LEMMA CorrectionKind ==
    ASSUME TypeInv, NEW i \in DOMAIN logs,
           \/ \E typed \in Typed(Figures) : ApproveReview(i, typed)
           \/ RejectReview(i)
           \/ \E hours \in Figures : EditHours(i, hours)
    PROVE  OfAKind
<1>1. logs[i] \in Row /\ logs[i].hours \in Nat /\ values.regular \in Nat
  <2>1. logs[i] \in Row
    BY DEF TypeInv, TablesOK, DBTypeOK
  <2>2. values.regular \in Nat
    BY DEF TypeInv, TablesOK, DBTypeOK, ShiftRules
  <2>. QED  BY <2>1, <2>2 DEF Row
<1>2. ASSUME NEW code \in PayableCodes \cup {"rejected"}, NEW hours \in Nat, NEW approved \in Nat,
             NEW overtime \in Nat, code # "pending_overtime", approved <= hours,
             Rewritten(i, code, hours, approved, overtime)
      PROVE  OfAKind
  <2>. DEFINE row == [logs[i] EXCEPT !.code = code, !.hours = hours,
                                     !.approved = approved, !.overtime = overtime]
  <2>1. row \in Row
    BY <1>1, <1>2 DEF Row
  <2>2. /\ row.worker = logs[i].worker /\ row.shift = logs[i].shift
        /\ row.clockIn = logs[i].clockIn /\ row.action = logs[i].action
        /\ row.site = logs[i].site /\ row.at = logs[i].at /\ row.fix = logs[i].fix
        /\ row.flagged = logs[i].flagged /\ row.score = logs[i].score
        /\ row.source = logs[i].source
    BY <1>1 DEF Row
  <2>3. row.code # "pending_overtime" /\ row.approved <= row.hours
    BY <1>1, <1>2 DEF Row
  <2>4. logs' = [logs EXCEPT ![i] = row] /\ UNCHANGED <<sessions, decisions, notices>>
    BY <1>2 DEF Rewritten
  <2>. HIDE DEF row
  <2>5. Corrected(i, row)
    BY <2>1, <2>2, <2>3, <2>4 DEF Corrected, Within
  <2>. QED  BY <2>1, <2>5 DEF OfAKind
<1>3. ASSUME NEW code, NEW approved, NEW overtime, Settled(i, code, approved, overtime)
      PROVE  Rewritten(i, code, logs[i].hours, approved, overtime)
  <2>1. [logs[i] EXCEPT !.code = code, !.approved = approved, !.overtime = overtime]
          = [logs[i] EXCEPT !.code = code, !.hours = logs[i].hours,
                            !.approved = approved, !.overtime = overtime]
    BY <1>1 DEF Row
  <2>. QED  BY <1>3, <2>1 DEF Settled, Rewritten
<1>4. ASSUME NEW typed \in Typed(Figures), ApproveReview(i, typed)  PROVE OfAKind
  <2>. DEFINE approved == IF typed = Blank THEN logs[i].hours ELSE typed
              overtime == Max2(0, approved - values.regular)
  <2>1. approved \in Nat /\ approved <= logs[i].hours
    BY <1>1, <1>4, FiguresAssumption DEF ApproveReview, Typed, Blank
  <2>2. overtime \in Nat
    BY <1>1, <2>1 DEF Max2
  <2>3. Settled(i, "approved", approved, overtime)
    BY <1>4 DEF ApproveReview
  <2>. HIDE DEF approved, overtime
  <2>4. Rewritten(i, "approved", logs[i].hours, approved, overtime)
    BY <1>3, <2>3
  <2>. QED  BY <1>1, <1>2, <2>1, <2>2, <2>4 DEF PayableCodes
<1>5. ASSUME RejectReview(i)  PROVE OfAKind
  <2>. DEFINE kept == Min2(values.regular, logs[i].hours)
  <2>1. kept \in Nat /\ kept <= logs[i].hours
    BY <1>1 DEF Min2
  <2>2. Settled(i, "overtime_rejected", kept, 0) \/ Settled(i, "rejected", 0, 0)
    BY <1>5 DEF RejectReview
  <2>. HIDE DEF kept
  <2>3. CASE Settled(i, "overtime_rejected", kept, 0)
    <3>1. Rewritten(i, "overtime_rejected", logs[i].hours, kept, 0)
      BY <1>3, <2>3
    <3>. QED  BY <1>1, <1>2, <2>1, <3>1 DEF PayableCodes
  <2>4. CASE Settled(i, "rejected", 0, 0)
    <3>1. Rewritten(i, "rejected", logs[i].hours, 0, 0) /\ 0 <= logs[i].hours
      BY <1>1, <1>3, <2>4
    <3>. QED  BY <1>1, <1>2, <3>1
  <2>. QED  BY <2>2, <2>3, <2>4
<1>6. ASSUME NEW hours \in Figures, EditHours(i, hours)  PROVE OfAKind
  <2>. DEFINE overtime == Max2(0, hours - values.regular)
              code == logs[i].code
  <2>1. hours \in Nat /\ overtime \in Nat
    BY <1>1, FiguresAssumption DEF Max2
  <2>2. code \in PayableCodes \cup {"rejected"} /\ code # "pending_overtime"
    BY <1>1, <1>6 DEF EditHours, InReview, PendingCodes, Row
  <2>3. [logs[i] EXCEPT !.hours = hours, !.approved = hours, !.overtime = overtime]
          = [logs[i] EXCEPT !.code = code, !.hours = hours, !.approved = hours,
                            !.overtime = overtime]
    BY <1>1 DEF Row
  <2>4. /\ logs' = [logs EXCEPT ![i] = [logs[i] EXCEPT !.hours = hours, !.approved = hours,
                                                      !.overtime = overtime]]
        /\ UNCHANGED <<sessions, decisions, notices>>
    BY <1>6 DEF EditHours
  <2>. HIDE DEF overtime, code
  <2>5. Rewritten(i, code, hours, hours, overtime)
    BY <2>3, <2>4 DEF Rewritten
  <2>. QED  BY <1>2, <2>1, <2>2, <2>5
<1>. QED  BY <1>4, <1>5, <1>6

\* An answer writes decisions, and its ceiling is a number.
LEMMA DecideKind ==
    ASSUME TypeInv, NEW w \in Workers,
           \/ \E typed \in Typed(Ceilings) : AcceptCrossing(w, typed)
           \/ DeclineCrossing(w)
    PROVE  OfAKind
<1>1. values.regular \in Nat
  BY DEF TypeInv, TablesOK, DBTypeOK, ShiftRules
<1>2. ASSUME NEW typed \in Typed(Ceilings), AcceptCrossing(w, typed)  PROVE Decided(w)
  <2>1. OnShift(w)
    BY <1>2 DEF AcceptCrossing, Decide, Asked
  <2>2. Paid(Elapsed(w), values) \in Nat
    BY <2>1, FiguresType
  <2>3. (IF typed = Blank THEN Paid(Elapsed(w), values) ELSE typed) \in Nat
    BY <2>2, FiguresAssumption DEF Typed, Blank
  <2>. QED  BY <1>2, <2>3 DEF AcceptCrossing, Decided
<1>3. ASSUME DeclineCrossing(w)  PROVE Decided(w)
  BY <1>1, <1>3 DEF DeclineCrossing, Decided
<1>. QED  BY <1>2, <1>3 DEF OfAKind

\* Every step of an administrator is of a kind.
LEMMA AdminKinds ==
    ASSUME TypeInv, LedgerInv, AdminNext
    PROVE  OfAKind
<1>1. ASSUME UNCHANGED <<sessions, logs, decisions, notices>>  PROVE OfAKind
  BY <1>1, UnwrittenIsStill DEF OfAKind
<1>2. ASSUME NEW site, AddSite(site) \/ DeleteSite(site)  PROVE OfAKind
  BY <1>1, <1>2 DEF AddSite, DeleteSite
<1>3. ASSUME NEW rules, UpdateShiftRules(rules)  PROVE OfAKind
  BY <1>1, <1>3 DEF UpdateShiftRules
<1>. QED  BY <1>2, <1>3, ForceInKind, ForceOutKind, DecideKind, CorrectionKind DEF AdminNext

\* Every step of the service is of one of the kinds.
LEMMA StepKinds ==
    ASSUME TypeInv, LedgerInv, FixlessTravel, [Next]_vars
    PROVE  OfAKind
<1>1. ASSUME UNCHANGED <<sessions, logs, decisions, notices>>  PROVE OfAKind
  BY <1>1, UnwrittenIsStill DEF OfAKind
<1>2. CASE PunchNext
  BY <1>2, PunchKinds
<1>3. CASE TapNext
  BY <1>3, TapKinds
<1>4. CASE AdminNext
  BY <1>4, AdminKinds
<1>5. CASE \E w \in LinksToRevoke : RevokeLink(w)
  BY <1>1, <1>5 DEF RevokeLink, dbVars
<1>6. CASE Tick
  BY <1>1, <1>6 DEF Tick
<1>7. CASE UNCHANGED vars
  BY <1>1, <1>7 DEF vars
<1>8. CASE ScanAutoClose
  BY <1>8 DEF OfAKind
<1>9. CASE ScanOvertime
  <2>1. Quiet
    BY <1>9, AnnouncementIsQuiet
  <2>2. Still
    BY <1>9, <2>1 DEF Quiet, Still, ScanOvertime
  <2>. QED  BY <2>2 DEF OfAKind
<1>. QED  BY <1>2, <1>3, <1>4, <1>5, <1>6, <1>7, <1>8, <1>9 DEF Next, WatchNext

-----------------------------------------------------------------------------
(* What the kinds file                                                      *)

\* One row at the end of the ledger.
LEMMA OneMoreRow ==
    ASSUME TypeInv, NEW row \in Row, logs' = Append(logs, row)
    PROVE  /\ Len(logs) \in Nat /\ DOMAIN logs = 1..Len(logs)
           /\ Len(logs') = Len(logs) + 1 /\ DOMAIN logs' = 1..(Len(logs) + 1)
           /\ logs'[Len(logs) + 1] = row
           /\ \A i \in DOMAIN logs : i \in DOMAIN logs' /\ logs'[i] = logs[i]
<1>1. logs \in Seq(Row)
  BY DEF TypeInv, TablesOK, DBTypeOK
<1>. QED  BY <1>1

\* The one row a step that appends one has filed.
LEMMA TheNewRow ==
    ASSUME TypeInv, NEW row \in Row, logs' = Append(logs, row),
           NEW i \in DOMAIN logs', i \notin DOMAIN logs
    PROVE  logs'[i] = row
<1>1. Len(logs) \in Nat /\ DOMAIN logs = 1..Len(logs) /\ DOMAIN logs' = 1..(Len(logs) + 1)
  BY OneMoreRow
<1>2. i = Len(logs) + 1
  BY <1>1
<1>. QED  BY <1>2, OneMoreRow

\* The rows of a scan, by the worker whose shift each one ends.
ScanFiles(row) ==
    LET due == {w \in Workers : Due(w)}
        new == DOMAIN logs' \ DOMAIN logs
    IN
    /\ row \in [due -> new]
    /\ \A v, w \in due : row[v] = row[w] => v = w
    /\ \A i \in new : \E w \in due : row[w] = i
    /\ \A w \in due : logs'[row[w]] = AutoCloseRow(w)
    /\ \A i \in DOMAIN logs : i \in DOMAIN logs' /\ logs'[i] = logs[i]
    /\ Len(logs) <= Len(logs') /\ new \subseteq Nat
    /\ decisions' = [d \in DOMAIN decisions |->
            IF \E w \in due : d \in LiveDecisions(w, sessions[w].clockIn)
              THEN [decisions[d] EXCEPT !.consumedBy = row[decisions[d].worker]]
              ELSE decisions[d]]

\* A scan files one row for every due shift and spends the shift's answer on it.
LEMMA ScanRows ==
    ASSUME TypeInv, ScanAutoClose
    PROVE  \E row : ScanFiles(row)
<1>. DEFINE due == {w \in Workers : Due(w)}
            n == Cardinality(due)
            new == DOMAIN logs' \ DOMAIN logs
<1>1. n \in Nat
  BY WorkersAssumption, FS_Subset, FS_CardinalityType
<1>2. PICK order \in Bijection(1..n, due) :
         /\ logs' = logs \o [k \in DOMAIN order |-> AutoCloseRow(order[k])]
         /\ decisions' = [d \in DOMAIN decisions |->
                IF \E w \in due : d \in LiveDecisions(w, sessions[w].clockIn)
                  THEN [decisions[d] EXCEPT !.consumedBy =
                            Len(logs) + CHOOSE k \in DOMAIN order : order[k] = decisions[d].worker]
                  ELSE decisions[d]]
  BY DEF ScanAutoClose
<1>. HIDE DEF n
<1>3. /\ order \in [1..n -> due] /\ \A k, m \in 1..n : order[k] = order[m] => k = m
      /\ \A w \in due : \E k \in 1..n : order[k] = w
  BY <1>2 DEF Bijection, Injection, Surjection, IsInjective
<1>. DEFINE rows == [k \in DOMAIN order |-> AutoCloseRow(order[k])]
            place == [w \in due |-> Len(logs) + CHOOSE k \in DOMAIN order : order[k] = w]
<1>4. rows \in [1..n -> Row]
  BY <1>3, AutoCloseRowType
<1>5. rows \in Seq(Row) /\ Len(rows) = n
  BY <1>1, <1>4, SegmentIsSeq
<1>6. logs \in Seq(Row) /\ Len(logs) \in Nat /\ DOMAIN logs = 1..Len(logs)
  BY DEF TypeInv, TablesOK, DBTypeOK
<1>7. /\ logs' \in Seq(Row) /\ Len(logs') = Len(logs) + n
      /\ \A i \in 1..(Len(logs) + n) :
            logs'[i] = IF i <= Len(logs) THEN logs[i] ELSE rows[i - Len(logs)]
  <2>1. logs' = logs \o rows
    BY <1>2
  <2>. HIDE DEF rows
  <2>. QED  BY <1>5, <1>6, <2>1, ConcatProperties
<1>8. \A k \in 1..n : rows[k] = AutoCloseRow(order[k])
  BY <1>3
<1>9. DOMAIN logs' = 1..(Len(logs) + n)
  BY <1>7
<1>10. ASSUME NEW w \in due
       PROVE  \E k \in 1..n : order[k] = w /\ place[w] = Len(logs) + k
  BY <1>3
<1>. HIDE DEF rows, place
<1>11. \A k \in 1..n : Len(logs) + k \in new /\ logs'[Len(logs) + k] = AutoCloseRow(order[k])
  <2>. TAKE k \in 1..n
  <2>1. /\ Len(logs) + k \in 1..(Len(logs) + n) /\ ~(Len(logs) + k <= Len(logs))
        /\ (Len(logs) + k) - Len(logs) = k
    BY <1>1, <1>6
  <2>. QED  BY <1>6, <1>7, <1>8, <1>9, <2>1
<1>12. place \in [due -> new]
  <2>1. place = [w \in due |-> place[w]]
    BY DEF place
  <2>. QED  BY <1>10, <1>11, <2>1
<1>13. \A v, w \in due : place[v] = place[w] => v = w
  <2>. TAKE v, w \in due
  <2>1. PICK k \in 1..n : order[k] = v /\ place[v] = Len(logs) + k
    BY <1>10
  <2>2. PICK m \in 1..n : order[m] = w /\ place[w] = Len(logs) + m
    BY <1>10
  <2>. QED  BY <1>1, <1>6, <2>1, <2>2
<1>14. \A i \in new : \E w \in due : place[w] = i
  <2>. TAKE i \in new
  <2>. DEFINE k == i - Len(logs)
  <2>1. k \in 1..n /\ i = Len(logs) + k
    BY <1>1, <1>6, <1>9
  <2>. HIDE DEF k
  <2>2. order[k] \in due
    BY <1>3, <2>1
  <2>3. PICK m \in 1..n : order[m] = order[k] /\ place[order[k]] = Len(logs) + m
    BY <1>10, <2>2
  <2>. QED  BY <1>3, <2>1, <2>2, <2>3
<1>15. \A w \in due : logs'[place[w]] = AutoCloseRow(w)
  BY <1>10, <1>11
<1>16. /\ \A i \in DOMAIN logs : i \in DOMAIN logs' /\ logs'[i] = logs[i]
       /\ Len(logs) <= Len(logs') /\ new \subseteq Nat
  BY <1>1, <1>6, <1>7, <1>9
<1>17. decisions' = [d \in DOMAIN decisions |->
            IF \E w \in due : d \in LiveDecisions(w, sessions[w].clockIn)
              THEN [decisions[d] EXCEPT !.consumedBy = place[decisions[d].worker]]
              ELSE decisions[d]]
  <2>1. ASSUME NEW d \in DOMAIN decisions, NEW w \in due,
               d \in LiveDecisions(w, sessions[w].clockIn)
        PROVE  place[decisions[d].worker]
                 = Len(logs) + CHOOSE k \in DOMAIN order : order[k] = decisions[d].worker
    BY <2>1 DEF place, LiveDecisions
  <2>. HIDE DEF due
  <2>. QED  BY <1>2, <2>1
<1>. QED  BY <1>12, <1>13, <1>14, <1>15, <1>16, <1>17 DEF ScanFiles

\* What no step moves of a row that is filed.
FactsKept(i) ==
    /\ logs'[i].worker = logs[i].worker /\ logs'[i].shift = logs[i].shift
    /\ logs'[i].clockIn = logs[i].clockIn /\ logs'[i].action = logs[i].action
    /\ logs'[i].site = logs[i].site /\ logs'[i].at = logs[i].at /\ logs'[i].fix = logs[i].fix
    /\ logs'[i].flagged = logs[i].flagged /\ logs'[i].score = logs[i].score
    /\ logs'[i].source = logs[i].source

\* The ledger only grows, and of a row that is filed only the figures and the status move.
LEMMA FactsAreKept ==
    ASSUME TypeInv, OfAKind
    PROVE  /\ Len(logs) <= Len(logs') /\ DOMAIN logs = 1..Len(logs)
           /\ \A i \in DOMAIN logs : i \in DOMAIN logs' /\ FactsKept(i)
<1>1. logs \in Seq(Row) /\ Len(logs) \in Nat
  BY DEF TypeInv, TablesOK, DBTypeOK
<1>2. CASE UNCHANGED logs
  BY <1>1, <1>2 DEF FactsKept
<1>3. ASSUME NEW row \in Row, logs' = Append(logs, row)
      PROVE  /\ Len(logs) <= Len(logs')
             /\ \A i \in DOMAIN logs : i \in DOMAIN logs' /\ FactsKept(i)
  BY <1>1, <1>3, OneMoreRow DEF FactsKept
<1>4. ASSUME NEW i \in DOMAIN logs, NEW row \in Row, Corrected(i, row)
      PROVE  /\ Len(logs) <= Len(logs')
             /\ \A j \in DOMAIN logs : j \in DOMAIN logs' /\ FactsKept(j)
  <2>1. /\ Len(logs') = Len(logs) /\ DOMAIN logs' = DOMAIN logs
        /\ \A j \in DOMAIN logs : logs'[j] = IF j = i THEN row ELSE logs[j]
    BY <1>1, <1>4 DEF Corrected
  <2>. QED  BY <1>1, <1>4, <2>1 DEF Corrected, FactsKept
<1>5. CASE ScanAutoClose
  <2>1. /\ Len(logs) <= Len(logs')
        /\ \A i \in DOMAIN logs : i \in DOMAIN logs' /\ logs'[i] = logs[i]
    BY <1>5, ScanRows DEF ScanFiles
  <2>. QED  BY <1>1, <2>1 DEF FactsKept
<1>6. DOMAIN logs = 1..Len(logs)
  BY <1>1
<1>. QED  BY <1>2, <1>3, <1>4, <1>5, <1>6
         DEF OfAKind, Still, Departed, Opened, Arrived, Ended, CloseShift, Decided, Decide

\* Hours held for approval have been announced, of one row.
ToldIn(row, told) ==
    row.code = "pending_overtime" => <<"crossing", row.worker, row.clockIn>> \in told

\* What a row says on the day it is filed.
FairlyFiled(row) ==
    Within(row) /\ Ordinary(row) /\ ToldIn(row, notices') /\ Earned(row)

\* Every step files fairly.
LEMMA NewRows ==
    ASSUME TypeInv, OfAKind, NEW i \in DOMAIN logs', i \notin DOMAIN logs
    PROVE  FairlyFiled(logs'[i])
<1>1. logs \in Seq(Row) /\ Len(logs) \in Nat
  BY DEF TypeInv, TablesOK, DBTypeOK
<1>2. ~(UNCHANGED logs)
  OBVIOUS
<1>3. ASSUME NEW row \in Row, logs' = Append(logs, row)  PROVE logs'[i] = row
  BY <1>3, TheNewRow
<1>4. ASSUME NEW w \in Workers, NEW row \in Row, Opened(w, row)
      PROVE  logs' = Append(logs, row) /\ FairlyFiled(row)
  BY <1>4 DEF Opened, FairlyFiled, Within, Ordinary, ToldIn, Earned
<1>5. ASSUME NEW w \in Workers, NEW row \in Row, Arrived(w, row)
      PROVE  logs' = Append(logs, row) /\ FairlyFiled(row)
  BY <1>5 DEF Arrived, FairlyFiled, Within, Ordinary, ToldIn, Earned
<1>6. ASSUME NEW w \in Workers, NEW row \in Row, Ended(w, row)
      PROVE  logs' = Append(logs, row) /\ FairlyFiled(row)
  BY <1>6 DEF Ended, CloseShift, FairlyFiled, ToldIn
<1>7. CASE ScanAutoClose
  <2>1. PICK w \in Workers : logs'[i] = AutoCloseRow(w)
    <3>1. PICK row : ScanFiles(row)
      BY <1>7, ScanRows
    <3>2. PICK w \in {v \in Workers : Due(v)} : row[w] = i
      BY <3>1 DEF ScanFiles
    <3>. QED  BY <3>1, <3>2 DEF ScanFiles
  <2>2. /\ AutoCloseRow(w).code = "auto_closed_8h" /\ AutoCloseRow(w).approved = Null
        /\ AutoCloseRow(w).source = "auto_close"
    BY DEF AutoCloseRow
  <2>. QED  BY <2>1, <2>2 DEF FairlyFiled, Within, Ordinary, ToldIn, Earned
<1>8. ASSUME NEW j \in DOMAIN logs, NEW row \in Row, Corrected(j, row)
      PROVE  DOMAIN logs' = DOMAIN logs
  BY <1>1, <1>8 DEF Corrected
<1>. QED  BY <1>2, <1>3, <1>4, <1>5, <1>6, <1>7, <1>8
         DEF OfAKind, Still, Departed, Decided, Decide

-----------------------------------------------------------------------------
(* What a row says                                                          *)

RowsInv ==
    \A i \in DOMAIN logs :
        Within(logs[i]) /\ Ordinary(logs[i]) /\ ToldIn(logs[i], notices)

\* No step takes a notice back.
LEMMA NoticesStay ==
    ASSUME OfAKind
    PROVE  notices \subseteq notices'
BY DEF OfAKind, Still, Departed, Opened, Arrived, Ended, Corrected, Decided, Decide, ScanAutoClose

\* What the rows say stays true.
LEMMA RowsStayFair ==
    ASSUME TypeInv, RowsInv, OfAKind
    PROVE  RowsInv'
<1>. SUFFICES ASSUME NEW i \in DOMAIN logs'
              PROVE  Within(logs'[i]) /\ Ordinary(logs'[i]) /\ ToldIn(logs'[i], notices')
  BY DEF RowsInv, Within, Ordinary, ToldIn
<1>1. CASE i \notin DOMAIN logs
  BY <1>1, NewRows DEF FairlyFiled
<1>2. CASE i \in DOMAIN logs /\ logs'[i] = logs[i]
  BY <1>2, NoticesStay DEF RowsInv, ToldIn
<1>3. CASE i \in DOMAIN logs /\ logs'[i] # logs[i]
  <2>1. logs \in Seq(Row)
    BY DEF TypeInv, TablesOK, DBTypeOK
  <2>2. ASSUME NEW row \in Row, logs' = Append(logs, row)  PROVE FALSE
    BY <1>3, <2>2, OneMoreRow
  <2>3. ~ScanAutoClose
    BY <1>3, ScanRows DEF ScanFiles
  <2>4. PICK j \in DOMAIN logs, row \in Row : Corrected(j, row)
    BY <1>3, <2>2, <2>3
       DEF OfAKind, Still, Departed, Opened, Arrived, Ended, CloseShift, Decided, Decide
  <2>5. logs'[i] = row /\ j = i
    BY <1>3, <2>1, <2>4 DEF Corrected
  <2>6. Within(row) /\ row.code # "pending_overtime"
    BY <2>4 DEF Corrected
  <2>7. Ordinary(row)
    BY <1>3, <2>4, <2>5 DEF Corrected, RowsInv, Ordinary
  <2>. QED  BY <2>5, <2>6, <2>7 DEF ToldIn
<1>. QED  BY <1>1, <1>2, <1>3

\* Every row's facts hold in every behaviour.
THEOREM RowsAreFair == Spec => []RowsInv
<1>1. Init => RowsInv
  BY DEF Init, DBInit, RowsInv
<1>2. TypeInv /\ LedgerInv /\ FixlessTravel /\ RowsInv /\ [Next]_vars => RowsInv'
  BY StepKinds, RowsStayFair
<1>. QED  BY <1>1, <1>2, TypesAreInvariant, LedgerIsInvariant, FixlessIsInvariant, PTL DEF Spec

\* Whoever's hours are held has been told that the line was crossed (announce_crossing).
THEOREM HeldIsAnnounced == Spec => []HeldHoursWereAnnounced
<1>1. RowsInv => HeldHoursWereAnnounced
  BY DEF RowsInv, ToldIn, HeldHoursWereAnnounced
<1>. QED  BY <1>1, RowsAreFair, PTL

\* An account without the travel privilege closes its shift at a place (site_gate).
THEOREM OrdinaryEndsAtAPlace == Spec => []OrdinaryShiftEndsAtAPlace
<1>1. RowsInv => OrdinaryShiftEndsAtAPlace
  BY DEF RowsInv, Ordinary, Closes, OrdinaryShiftEndsAtAPlace
<1>. QED  BY <1>1, RowsAreFair, PTL

\* No decision credits more than the row records (reports._shift_hours).
THEOREM CreditAddsUp == Spec => []CreditAndAwaitingAddUp
<1>1. TypeInv /\ RowsInv => CreditAndAwaitingAddUp
  <2>. SUFFICES ASSUME TypeInv, RowsInv, NEW i \in DOMAIN logs
                PROVE  LET counted == CreditedHours(logs[i]) + AwaitingHours(logs[i]) IN
                       /\ counted <= logs[i].hours
                       /\ logs[i].code \in PendingCodes => counted = logs[i].hours
    BY DEF CreditAndAwaitingAddUp
  <2>1. logs[i] \in Row
    BY DEF TypeInv, TablesOK, DBTypeOK
  <2>2. /\ logs[i].hours \in Nat /\ logs[i].overtime \in Nat
        /\ logs[i].approved \in Nat \cup {Null}
        /\ logs[i].code \in PayableCodes \cup PendingCodes \cup {"rejected"}
    BY <2>1 DEF Row
  <2>3. logs[i].approved # Null => logs[i].approved <= logs[i].hours
    BY DEF RowsInv, Within
  <2>4. CASE logs[i].code \in PayableCodes
    BY <2>2, <2>3, <2>4 DEF CreditedHours, AwaitingHours, PayableCodes, PendingCodes, Null
  <2>5. CASE logs[i].code \notin PayableCodes
    BY <2>2, <2>5 DEF CreditedHours, AwaitingHours, PayableCodes, PendingCodes, Min2
  <2>. QED  BY <2>4, <2>5
<1>. QED  BY <1>1, RowsAreFair, TypesAreInvariant, PTL

\* The ledger is append-only about what happened.
THEOREM LedgerIsKept == Spec => LedgerKeepsItsFacts
<1>1. TypeInv /\ LedgerInv /\ FixlessTravel /\ [Next]_vars =>
        [/\ Len(logs') >= Len(logs)
         /\ \A i \in DOMAIN logs : \A f \in {"worker", "shift", "clockIn", "action", "site", "at",
                                             "fix", "flagged", "score", "source"} :
                logs'[i][f] = logs[i][f]]_vars
  <2>. SUFFICES ASSUME TypeInv, OfAKind
                PROVE  /\ Len(logs') >= Len(logs)
                       /\ \A i \in DOMAIN logs :
                             \A f \in {"worker", "shift", "clockIn", "action", "site", "at",
                                       "fix", "flagged", "score", "source"} :
                                logs'[i][f] = logs[i][f]
    BY StepKinds
  <2>1. Len(logs') >= Len(logs)
    <3>1. Len(logs) \in Nat /\ Len(logs) <= Len(logs')
      BY FactsAreKept DEF TypeInv, TablesOK, DBTypeOK
    <3>. QED  BY <3>1
  <2>2. ASSUME NEW i \in DOMAIN logs  PROVE FactsKept(i)
    BY FactsAreKept
  <2>. QED  BY <2>1, <2>2 DEF FactsKept
<1>. QED  BY <1>1, TypesAreInvariant, LedgerIsInvariant, FixlessIsInvariant, PTL
          DEF Spec, LedgerKeepsItsFacts

\* The standard day is earned the moment the shift is filed.
THEOREM DayIsEarned == Spec => StandardDayIsEarned
<1>1. TypeInv /\ LedgerInv /\ FixlessTravel /\ [Next]_vars =>
        [\A i \in DOMAIN logs' \ DOMAIN logs :
            logs'[i].code = "pending_overtime" /\ Ceiling(logs'[i].worker) >= values.regular =>
                CreditedHours(logs'[i]) >= Min2(values.regular, logs'[i].hours)]_vars
  BY StepKinds, NewRows DEF FairlyFiled, Earned
<1>. QED  BY <1>1, TypesAreInvariant, LedgerIsInvariant, FixlessIsInvariant, PTL
          DEF Spec, StandardDayIsEarned

-----------------------------------------------------------------------------
(* Answers                                                                  *)

\* An answer waits for its shift, is spent by that shift's clock-out, or gave way to a
\* later one, and never two of them.
Follows(d) ==
    LET a == decisions[d] IN
    \/ a.supersededBy \in d + 1 .. Len(decisions) /\ a.consumedBy = Null
    \/ /\ a.consumedBy = Null /\ a.supersededBy = Null
       /\ sessions[a.worker].clockIn = a.clockIn
    \/ /\ a.consumedBy \in ClosingRows(a.worker, a.clockIn)
       /\ a.supersededBy = Null

AnswersInv ==
    /\ \A d \in DOMAIN decisions : Follows(d)
    /\ OneStandingAnswer

Live(d) == decisions[d].consumedBy = Null /\ decisions[d].supersededBy = Null

\* OneStandingAnswer, said with Live.
LEMMA OneLive ==
    ASSUME TypeInv
    PROVE  OneStandingAnswer <=>
              \A d, e \in DOMAIN decisions :
                  (/\ decisions[d].worker = decisions[e].worker
                   /\ decisions[d].clockIn = decisions[e].clockIn
                   /\ Live(d) /\ Live(e)) => d = e
<1>1. \A d, e \in DOMAIN decisions :
        {decisions[d].consumedBy, decisions[d].supersededBy,
         decisions[e].consumedBy, decisions[e].supersededBy} = {Null} <=> Live(d) /\ Live(e)
  BY DEF Live
<1>. QED  BY <1>1 DEF OneStandingAnswer

\* A row that ends a shift goes on doing so.
LEMMA ClosingRowsStay ==
    ASSUME TypeInv, OfAKind, NEW w, NEW c
    PROVE  ClosingRows(w, c) \subseteq ClosingRows(w, c)'
BY FactsAreKept DEF ClosingRows, FactsKept

\* Row i of the next ledger ends the shift that answer d is about.
EndsIts(d, i) ==
    /\ i \in DOMAIN logs' /\ logs'[i].action = "Clock Out"
    /\ logs'[i].worker = decisions[d].worker /\ logs'[i].clockIn = decisions[d].clockIn

\* The answers of a step that asks nothing: spent by a row that ends their shift, or kept.
Spent(d) ==
    \/ decisions'[d] = decisions[d] /\ (Live(d) => sessions'[decisions[d].worker].clockIn
                                                      = sessions[decisions[d].worker].clockIn)
    \/ \E i : EndsIts(d, i) /\ Live(d) /\ decisions'[d] = [decisions[d] EXCEPT !.consumedBy = i]

\* Such a step keeps the answers with their shifts.
LEMMA SpendingKeepsAnswers ==
    ASSUME TypeInv, AnswersInv, OfAKind, DOMAIN decisions' = DOMAIN decisions,
           Len(decisions') = Len(decisions),
           \A d \in DOMAIN decisions : Spent(d)
    PROVE  AnswersInv'
<1>1. \A d \in DOMAIN decisions : decisions[d] \in Decision
  BY DEF TypeInv, TablesOK, DBTypeOK
<1>2. ASSUME NEW d \in DOMAIN decisions
      PROVE  /\ decisions'[d].worker = decisions[d].worker
             /\ decisions'[d].clockIn = decisions[d].clockIn
             /\ decisions'[d].supersededBy = decisions[d].supersededBy
             /\ Live(d)' => Live(d)
             /\ Follows(d)'
  <2>1. CASE decisions'[d] = decisions[d] /\ (Live(d) =>
                sessions'[decisions[d].worker].clockIn = sessions[decisions[d].worker].clockIn)
    BY <2>1, ClosingRowsStay DEF AnswersInv, Follows, Live
  <2>2. CASE \E i : EndsIts(d, i) /\ Live(d) /\ decisions'[d] = [decisions[d] EXCEPT !.consumedBy = i]
    <3>1. PICK i : EndsIts(d, i) /\ Live(d) /\ decisions'[d] = [decisions[d] EXCEPT !.consumedBy = i]
      BY <2>2
    <3>2. /\ decisions'[d].worker = decisions[d].worker
          /\ decisions'[d].clockIn = decisions[d].clockIn
          /\ decisions'[d].supersededBy = decisions[d].supersededBy
          /\ decisions'[d].consumedBy = i
      BY <1>1, <3>1 DEF Decision
    <3>. QED  BY <3>1, <3>2 DEF Follows, Live, ClosingRows, EndsIts
  <2>. QED  BY <2>1, <2>2 DEF Spent
<1>3. OneStandingAnswer'
  <2>1. \A d, e \in DOMAIN decisions' :
            {decisions'[d].consumedBy, decisions'[d].supersededBy,
             decisions'[e].consumedBy, decisions'[e].supersededBy} = {Null}
              => Live(d)' /\ Live(e)'
    BY DEF Live
  <2>2. \A d, e \in DOMAIN decisions :
                  (/\ decisions[d].worker = decisions[e].worker
                   /\ decisions[d].clockIn = decisions[e].clockIn
                   /\ Live(d) /\ Live(e)) => d = e
    BY OneLive DEF AnswersInv
  <2>. QED  BY <1>2, <2>1, <2>2 DEF OneStandingAnswer
<1>. QED  BY <1>2, <1>3 DEF AnswersInv

\* Whose answer is live is on shift, and for that very shift.
LEMMA LiveIsOnShift ==
    ASSUME TypeInv, AnswersInv, NEW d \in DOMAIN decisions, Live(d)
    PROVE  /\ decisions[d].worker \in Workers /\ decisions[d].clockIn \in Nat
           /\ sessions[decisions[d].worker].clockIn = decisions[d].clockIn
           /\ OnShift(decisions[d].worker)
           /\ d \in LiveDecisions(decisions[d].worker, sessions[decisions[d].worker].clockIn)
<1>1. decisions[d] \in Decision
  BY DEF TypeInv, TablesOK, DBTypeOK
<1>2. decisions[d].worker \in Workers /\ decisions[d].clockIn \in Nat
  BY <1>1 DEF Decision, Moments
<1>3. d \in Nat /\ Len(decisions) \in Nat
  BY DEF TypeInv, TablesOK, DBTypeOK
<1>4. sessions[decisions[d].worker].clockIn = decisions[d].clockIn
  <2>1. Null \notin Nat
    BY DEF Null
  <2>2. Null \notin d + 1 .. Len(decisions)
    BY <1>3 DEF Null
  <2>3. Null \notin ClosingRows(decisions[d].worker, decisions[d].clockIn)
    <3>1. DOMAIN logs = 1..Len(logs)
      BY DEF TypeInv, TablesOK, DBTypeOK
    <3>. QED  BY <3>1 DEF Null, ClosingRows
  <2>. QED  BY <2>2, <2>3 DEF AnswersInv, Follows, Live
<1>. QED  BY <1>2, <1>4 DEF OnShift, LiveDecisions, Live, Null

\* A step that leaves the answers alone, and the shifts of the live ones.
LEMMA UnaskedKeepsAnswers ==
    ASSUME TypeInv, AnswersInv, OfAKind, UNCHANGED decisions,
           \A w \in Workers : OnShift(w) => sessions'[w].clockIn = sessions[w].clockIn
    PROVE  AnswersInv'
<1>1. ASSUME NEW d \in DOMAIN decisions  PROVE Spent(d)
  BY <1>1, LiveIsOnShift DEF Spent
<1>. QED  BY <1>1, SpendingKeepsAnswers

\* The clock-out of a shift spends its answer.
LEMMA EndKeepsAnswers ==
    ASSUME TypeInv, AnswersInv, NEW w \in Workers, NEW row \in Row, Ended(w, row)
    PROVE  AnswersInv'
<1>. DEFINE n == Len(logs) + 1
<1>1. /\ OnShift(w) /\ sessions' = [sessions EXCEPT ![w] = NoSession]
      /\ logs' = Append(logs, row) /\ decisions' = Consumed(w, n)
      /\ row.worker = w /\ row.clockIn = sessions[w].clockIn /\ row.action = "Clock Out"
  BY DEF Ended, CloseShift
<1>2. n \in DOMAIN logs' /\ logs'[n] = row
  <2>1. Len(logs) \in Nat /\ DOMAIN logs' = 1..(Len(logs) + 1) /\ logs'[Len(logs) + 1] = row
    BY <1>1, OneMoreRow
  <2>. QED  BY <2>1
<1>. HIDE DEF n
<1>3. ASSUME NEW d \in DOMAIN decisions  PROVE Spent(d)
  <2>1. CASE d \in LiveDecisions(w, sessions[w].clockIn)
    <3>1. decisions[d].worker = w /\ decisions[d].clockIn = sessions[w].clockIn /\ Live(d)
      BY <2>1 DEF LiveDecisions, Live
    <3>2. decisions'[d] = [decisions[d] EXCEPT !.consumedBy = n]
      BY <1>1, <2>1 DEF Consumed
    <3>3. EndsIts(d, n)
      BY <1>1, <1>2, <3>1 DEF EndsIts
    <3>. QED  BY <3>1, <3>2, <3>3 DEF Spent
  <2>2. CASE d \notin LiveDecisions(w, sessions[w].clockIn)
    <3>1. decisions'[d] = decisions[d]
      BY <1>1, <2>2 DEF Consumed
    <3>2. Live(d) => /\ decisions[d].worker \in Workers
                     /\ decisions[d].worker # w
      BY <2>2, LiveIsOnShift
    <3>3. sessions \in [Workers -> Session \cup {NoSession}]
      BY DEF TypeInv, TablesOK, DBTypeOK
    <3>. QED  BY <1>1, <3>1, <3>2, <3>3 DEF Spent
  <2>. QED  BY <2>1, <2>2
<1>4. OfAKind
  BY DEF OfAKind
<1>5. DOMAIN decisions' = DOMAIN decisions /\ Len(decisions') = Len(decisions)
  <2>1. decisions \in Seq(Decision)
    BY DEF TypeInv, TablesOK, DBTypeOK
  <2>2. DOMAIN decisions = 1..Len(decisions) /\ Len(decisions) \in Nat
    BY <2>1
  <2>3. DOMAIN decisions' = DOMAIN decisions
    BY <1>1 DEF Consumed
  <2>4. decisions' \in Seq(Decision)
    BY CloseShiftType DEF Ended, TypeInv, TablesOK
  <2>. QED  BY <2>2, <2>3, <2>4
<1>. QED  BY <1>3, <1>4, <1>5, SpendingKeepsAnswers

\* So does each automatic close.
LEMMA ScanKeepsAnswers ==
    ASSUME TypeInv, AnswersInv, ScanAutoClose
    PROVE  AnswersInv'
<1>1. PICK row : ScanFiles(row)
  BY ScanRows
<1>. DEFINE due == {w \in Workers : Due(w)}
<1>2. /\ row \in [due -> DOMAIN logs' \ DOMAIN logs]
      /\ \A w \in due : logs'[row[w]] = AutoCloseRow(w)
      /\ decisions' = [d \in DOMAIN decisions |->
            IF \E w \in due : d \in LiveDecisions(w, sessions[w].clockIn)
              THEN [decisions[d] EXCEPT !.consumedBy = row[decisions[d].worker]]
              ELSE decisions[d]]
  BY <1>1 DEF ScanFiles
<1>3. ASSUME NEW d \in DOMAIN decisions  PROVE Spent(d)
  <2>1. ASSUME NEW w \in due, d \in LiveDecisions(w, sessions[w].clockIn)
        PROVE  Spent(d)
    <3>1. decisions[d].worker = w /\ decisions[d].clockIn = sessions[w].clockIn /\ Live(d)
      BY <2>1 DEF LiveDecisions, Live
    <3>2. decisions'[d] = [decisions[d] EXCEPT !.consumedBy = row[w]]
      BY <1>2, <2>1, <3>1
    <3>3. row[w] \in DOMAIN logs' /\ logs'[row[w]] = AutoCloseRow(w)
      BY <1>2
    <3>4. /\ AutoCloseRow(w).worker = w /\ AutoCloseRow(w).clockIn = sessions[w].clockIn
          /\ AutoCloseRow(w).action = "Clock Out"
      BY DEF AutoCloseRow
    <3>5. EndsIts(d, row[w])
      BY <3>1, <3>3, <3>4 DEF EndsIts
    <3>. QED  BY <3>1, <3>2, <3>5 DEF Spent
  <2>2. CASE ~\E w \in due : d \in LiveDecisions(w, sessions[w].clockIn)
    <3>1. decisions'[d] = decisions[d]
      BY <1>2, <2>2
    <3>2. Live(d) => decisions[d].worker \in Workers /\ decisions[d].worker \notin due
      BY <2>2, LiveIsOnShift
    <3>. QED  BY <3>1, <3>2 DEF Spent, ScanAutoClose
  <2>. QED  BY <2>1, <2>2
<1>4. OfAKind
  BY DEF OfAKind
<1>5. DOMAIN decisions' = DOMAIN decisions /\ Len(decisions') = Len(decisions)
  BY <1>2 DEF TypeInv, TablesOK, DBTypeOK
<1>. QED  BY <1>3, <1>4, <1>5, SpendingKeepsAnswers

\* A new answer takes the place of the one that stood.
LEMMA DecidingKeepsAnswers ==
    ASSUME TypeInv, AnswersInv, NEW w \in Workers, Decided(w)
    PROVE  AnswersInv'
<1>. DEFINE n == Len(decisions)
            c == sessions[w].clockIn
<1>1. PICK decision \in {"authorised", "declined"}, ceiling \in Nat : Decide(w, decision, ceiling)
  BY DEF Decided
<1>. DEFINE row ==
            [worker |-> w, clockIn |-> sessions[w].clockIn, decision |-> decision,
             hours |-> ceiling, recorded |-> Paid(Elapsed(w), values),
             consumedBy |-> Null, supersededBy |-> Null]
<1>2. decisions' = Append(Superseded(w), row) /\ UNCHANGED <<sessions, logs>>
  BY <1>1 DEF Decide
<1>3. row.worker = w /\ row.clockIn = c /\ row.consumedBy = Null /\ row.supersededBy = Null
  OBVIOUS
<1>. HIDE DEF row
<1>4. decisions \in Seq(Decision) /\ n \in Nat /\ DOMAIN decisions = 1..n
  BY DEF TypeInv, TablesOK, DBTypeOK
<1>5. Superseded(w) \in Seq({Superseded(w)[d] : d \in 1..n}) /\ Len(Superseded(w)) = n
  <2>1. Superseded(w) \in [1..n -> {Superseded(w)[d] : d \in 1..n}]
    BY <1>4 DEF Superseded
  <2>. QED  BY <1>4, <2>1, SegmentIsSeq
<1>6. /\ DOMAIN decisions' = 1..(n + 1) /\ Len(decisions') = n + 1
      /\ decisions'[n + 1] = row
      /\ \A d \in 1..n : decisions'[d] = Superseded(w)[d]
  <2>. DEFINE s == Superseded(w)
  <2>1. s \in Seq({Superseded(w)[d] : d \in 1..n}) /\ Len(s) = n /\ decisions' = Append(s, row)
    BY <1>2, <1>5
  <2>. HIDE DEF s
  <2>2. /\ DOMAIN decisions' = 1..(n + 1) /\ Len(decisions') = n + 1
        /\ decisions'[n + 1] = row /\ \A d \in 1..n : decisions'[d] = s[d]
    BY <1>4, <2>1
  <2>. QED  BY <2>2 DEF s
<1>. HIDE DEF n
<1>7. ASSUME NEW d \in 1..n
      PROVE  /\ decisions'[d].worker = decisions[d].worker
             /\ decisions'[d].clockIn = decisions[d].clockIn
             /\ Live(d)' => Live(d) /\ ~(decisions[d].worker = w /\ decisions[d].clockIn = c)
             /\ Follows(d)'
  <2>1. decisions[d] \in Decision
    BY <1>4
  <2>2. CASE d \in LiveDecisions(w, c)
    <3>1. decisions'[d] = [decisions[d] EXCEPT !.supersededBy = n + 1]
      BY <1>4, <1>6, <2>2 DEF Superseded, n
    <3>2. /\ decisions'[d].worker = decisions[d].worker
          /\ decisions'[d].clockIn = decisions[d].clockIn
          /\ decisions'[d].consumedBy = Null /\ decisions'[d].supersededBy = n + 1
      BY <2>1, <2>2, <3>1 DEF Decision, LiveDecisions
    <3>3. n + 1 \in d + 1 .. Len(decisions') /\ n + 1 # Null
      BY <1>4, <1>6 DEF Null
    <3>. QED  BY <3>2, <3>3 DEF Follows, Live
  <2>3. CASE d \notin LiveDecisions(w, c)
    <3>1. decisions'[d] = decisions[d]
      BY <1>4, <1>6, <2>3 DEF Superseded
    <3>2. Live(d) => ~(decisions[d].worker = w /\ decisions[d].clockIn = c)
      BY <1>4, <2>3 DEF LiveDecisions, Live
    <3>3. decisions[d].supersededBy \in d + 1 .. Len(decisions) =>
             decisions[d].supersededBy \in d + 1 .. Len(decisions')
      BY <1>4, <1>6 DEF n
    <3>. QED  BY <1>2, <1>4, <3>1, <3>2, <3>3 DEF AnswersInv, Follows, Live, ClosingRows
  <2>. QED  BY <2>2, <2>3
<1>8. ASSUME NEW m, m = n + 1  PROVE Follows(m)'
  BY <1>2, <1>3, <1>6, <1>8 DEF Follows
<1>9. \A d \in DOMAIN decisions' : d \in 1..n \/ d = n + 1
  BY <1>4, <1>6
<1>10. OneStandingAnswer'
  <2>1. \A d, e \in DOMAIN decisions' :
            {decisions'[d].consumedBy, decisions'[d].supersededBy,
             decisions'[e].consumedBy, decisions'[e].supersededBy} = {Null}
              => Live(d)' /\ Live(e)'
    BY DEF Live
  <2>2. \A d, e \in DOMAIN decisions :
                  (/\ decisions[d].worker = decisions[e].worker
                   /\ decisions[d].clockIn = decisions[e].clockIn
                   /\ Live(d) /\ Live(e)) => d = e
    BY OneLive DEF AnswersInv
  <2>. SUFFICES ASSUME NEW d \in DOMAIN decisions', NEW e \in DOMAIN decisions',
                       decisions'[d].worker = decisions'[e].worker,
                       decisions'[d].clockIn = decisions'[e].clockIn, Live(d)', Live(e)'
                PROVE  d = e
    BY <2>1 DEF OneStandingAnswer
  <2>3. CASE d \in 1..n /\ e \in 1..n
    BY <1>4, <1>7, <2>2, <2>3
  <2>4. CASE d = n + 1 /\ e \in 1..n
    BY <1>3, <1>6, <1>7, <2>4
  <2>5. CASE d \in 1..n /\ e = n + 1
    BY <1>3, <1>6, <1>7, <2>5
  <2>. QED  BY <1>9, <2>3, <2>4, <2>5
<1>11. ASSUME NEW d \in DOMAIN decisions'  PROVE Follows(d)'
  BY <1>7, <1>8, <1>9
<1>. QED  BY <1>10, <1>11 DEF AnswersInv

\* Answers follow their shifts in every behaviour.
THEOREM AnswersAreInvariant == Spec => []AnswersInv
<1>1. Init => AnswersInv
  BY DEF Init, DBInit, AnswersInv, OneStandingAnswer
<1>2. TypeInv /\ LedgerInv /\ FixlessTravel /\ AnswersInv /\ [Next]_vars => AnswersInv'
  <2>. SUFFICES ASSUME TypeInv, AnswersInv, OfAKind  PROVE AnswersInv'
    BY StepKinds
  <2>1. CASE Still
    BY <2>1, UnaskedKeepsAnswers DEF Still
  <2>2. ASSUME NEW w \in Workers, Departed(w)  PROVE AnswersInv'
    <3>1. \A v \in Workers : OnShift(v) => sessions'[v].clockIn = sessions[v].clockIn
      BY <2>2 DEF Departed, OpenShift, TypeInv, TablesOK, DBTypeOK
    <3>. QED  BY <2>2, <3>1, UnaskedKeepsAnswers DEF Departed
  <2>3. ASSUME NEW w \in Workers, NEW row \in Row, Opened(w, row)  PROVE AnswersInv'
    <3>1. \A v \in Workers : OnShift(v) => sessions'[v].clockIn = sessions[v].clockIn
      BY <2>3 DEF Opened, OpenShift, TypeInv, TablesOK, DBTypeOK
    <3>. QED  BY <2>3, <3>1, UnaskedKeepsAnswers DEF Opened
  <2>4. ASSUME NEW w \in Workers, NEW row \in Row, Arrived(w, row)  PROVE AnswersInv'
    <3>1. PICK site \in Sites :
             sessions' = [sessions EXCEPT ![w].site = site, ![w].transit = FALSE]
      BY <2>4 DEF Arrived
    <3>2. sessions[w] \in Session
      BY <2>4, OpenSession DEF Arrived, Travelling
    <3>3. sessions'[w] = [[sessions[w] EXCEPT !.site = site] EXCEPT !.transit = FALSE]
      BY <3>1 DEF TypeInv, TablesOK, DBTypeOK
    <3>4. sessions'[w].clockIn = sessions[w].clockIn
      BY <3>2, <3>3 DEF Session
    <3>5. \A v \in Workers \ {w} : sessions'[v] = sessions[v]
      BY <3>1 DEF TypeInv, TablesOK, DBTypeOK
    <3>6. \A v \in Workers : OnShift(v) => sessions'[v].clockIn = sessions[v].clockIn
      BY <3>4, <3>5
    <3>. QED  BY <2>4, <3>6, UnaskedKeepsAnswers DEF Arrived
  <2>5. ASSUME NEW i \in DOMAIN logs, NEW row \in Row, Corrected(i, row)  PROVE AnswersInv'
    BY <2>5, UnaskedKeepsAnswers DEF Corrected
  <2>. QED  BY <2>1, <2>2, <2>3, <2>4, <2>5, EndKeepsAnswers, DecidingKeepsAnswers,
               ScanKeepsAnswers DEF OfAKind
<1>. QED  BY <1>1, <1>2, TypesAreInvariant, LedgerIsInvariant, FixlessIsInvariant, PTL DEF Spec

\* At most one answer stands per shift (idx_overtime_authorisations_live).
THEOREM OneAnswerStands == Spec => []OneStandingAnswer
<1>1. AnswersInv => OneStandingAnswer
  BY DEF AnswersInv
<1>. QED  BY <1>1, AnswersAreInvariant, PTL

\* An answer lives and dies with its shift (overtime.consume_authorisation).
THEOREM AnswersFollow == Spec => []AnswerFollowsItsShift
<1>1. AnswersInv => AnswerFollowsItsShift
  BY DEF AnswersInv, Follows, AnswerFollowsItsShift
<1>. QED  BY <1>1, AnswersAreInvariant, PTL

-----------------------------------------------------------------------------
(* What the automatic close files                                           *)

\* Paid hours reach a limit where paid_limit_at says, and not before.
LEMMA LimitIsReached ==
    ASSUME NEW rules \in ShiftRules, NEW e \in Nat, NEW limit \in Nat \ {0}
    PROVE  /\ PaidLimitAt(limit, rules) \in Nat /\ limit <= PaidLimitAt(limit, rules)
           /\ Paid(PaidLimitAt(limit, rules), rules) = limit
           /\ Paid(e, rules) >= limit => PaidLimitAt(limit, rules) <= e
<1>1. rules.breakAfter \in Nat /\ rules.break \in Nat
  BY DEF ShiftRules
<1>2. CASE limit >= rules.breakAfter
  BY <1>1, <1>2 DEF Paid, BreakTaken, Min2, PaidLimitAt
<1>3. CASE limit < rules.breakAfter
  BY <1>1, <1>3 DEF Paid, BreakTaken, Min2, PaidLimitAt
<1>. QED  BY <1>1, <1>2, <1>3

\* A close files its limit, at the moment the limit ran out.
LEMMA CloseFilesTheLimit ==
    ASSUME TypeInv, NEW w \in Workers, Due(w)
    PROVE  /\ AutoCloseRow(w).hours = Limit(w)
           /\ AutoCloseRow(w).clockIn + Limit(w) <= AutoCloseRow(w).at
           /\ AutoCloseRow(w).at <= now
<1>. DEFINE limit == Limit(w)
            ran == PaidLimitAt(limit, values)
            start == sessions[w].clockIn
<1>1. values \in ShiftRules /\ values.regular \in Nat \ {0} /\ now \in Nat
  BY DEF TypeInv, TablesOK, DBTypeOK, ShiftRules, Moments
<1>2. OnShift(w) /\ start \in Nat /\ start <= now
  BY OpenSession DEF Due, TypeInv, StartedInThePast
<1>3. limit \in Nat \ {0} /\ limit >= values.regular
  BY <1>1, StandingType DEF Limit, Max2, TypeInv, TablesOK
<1>4. now - start \in Nat /\ Paid(now - start, values) >= limit
  BY <1>1, <1>2 DEF Due, Elapsed
<1>. HIDE DEF limit
<1>5. ran \in Nat /\ limit <= ran /\ Paid(ran, values) = limit /\ ran <= now - start
  BY <1>1, <1>3, <1>4, LimitIsReached
<1>. HIDE DEF ran, start
<1>6. ClosedAt(w) = start + ran
  BY <1>1, <1>2, <1>5 DEF ClosedAt, Min2, ran, limit, start
<1>7. RecordedPaid(ran, values) = limit
  BY <1>1, <1>3, <1>5 DEF RecordedPaid, RoundedPaid, RoundsUp
<1>8. ClosedAt(w) - start = ran
  BY <1>2, <1>5, <1>6
<1>9. /\ AutoCloseRow(w).hours = RecordedPaid(ClosedAt(w) - start, values)
      /\ AutoCloseRow(w).clockIn = start /\ AutoCloseRow(w).at = ClosedAt(w)
  BY DEF AutoCloseRow, start
<1>10. start + limit <= start + ran /\ start + ran <= now
  BY <1>1, <1>2, <1>3, <1>5 DEF start
<1>11. AutoCloseRow(w).hours = limit
  BY <1>7, <1>8, <1>9
<1>12. AutoCloseRow(w).clockIn + limit <= AutoCloseRow(w).at /\ AutoCloseRow(w).at <= now
  BY <1>6, <1>9, <1>10
<1>. QED  BY <1>11, <1>12 DEF limit

\* Only a scan files an automatic close.
LEMMA OnlyTheScanCloses ==
    ASSUME TypeInv, OfAKind, NEW i \in DOMAIN logs', i \notin DOMAIN logs,
           logs'[i].source = "auto_close"
    PROVE  ScanAutoClose
<1>1. logs \in Seq(Row) /\ Len(logs) \in Nat
  BY DEF TypeInv, TablesOK, DBTypeOK
<1>2. ~(UNCHANGED logs)
  OBVIOUS
<1>3. ASSUME NEW row \in Row, logs' = Append(logs, row)  PROVE row.source = "auto_close"
  BY <1>3, TheNewRow
<1>4. ASSUME NEW j \in DOMAIN logs, NEW row \in Row, Corrected(j, row)
      PROVE  DOMAIN logs' = DOMAIN logs
  BY <1>1, <1>4 DEF Corrected
<1>. QED  BY <1>2, <1>3, <1>4
         DEF OfAKind, Still, Departed, Opened, Arrived, Ended, CloseShift, Decided, Decide

\* The automatic close files the ceiling of the answer it spends, or the paid day.
THEOREM CloseFilesItsLimit == Spec => AutoCloseFilesTheLimit
<1>1. TypeInv /\ LedgerInv /\ FixlessTravel /\ AnswersInv /\ [Next]_vars =>
        [\A i \in DOMAIN logs' \ DOMAIN logs :
          logs'[i].source = "auto_close" =>
              /\ \A d \in DOMAIN decisions' :
                    decisions'[d].consumedBy = i =>
                        logs'[i].hours = Max2(values.regular, decisions'[d].hours)
              /\ (\A d \in DOMAIN decisions' : decisions'[d].consumedBy # i) =>
                    logs'[i].hours = values.regular
              /\ logs'[i].clockIn + logs'[i].hours <= logs'[i].at /\ logs'[i].at <= now]_vars
  <2>. SUFFICES ASSUME TypeInv, AnswersInv, OfAKind,
                       NEW i \in DOMAIN logs', i \notin DOMAIN logs,
                       logs'[i].source = "auto_close"
                PROVE  /\ \A d \in DOMAIN decisions' :
                             decisions'[d].consumedBy = i =>
                                 logs'[i].hours = Max2(values.regular, decisions'[d].hours)
                       /\ (\A d \in DOMAIN decisions' : decisions'[d].consumedBy # i) =>
                             logs'[i].hours = values.regular
                       /\ logs'[i].clockIn + logs'[i].hours <= logs'[i].at
                       /\ logs'[i].at <= now
    BY StepKinds
  <2>1. PICK row : ScanFiles(row)
    BY OnlyTheScanCloses, ScanRows
  <2>. DEFINE due == {v \in Workers : Due(v)}
  <2>2. PICK w \in due : row[w] = i
    BY <2>1 DEF ScanFiles
  <2>3. logs'[i] = AutoCloseRow(w)
    BY <2>1, <2>2 DEF ScanFiles
  <2>4. /\ logs'[i].hours = Limit(w) /\ logs'[i].clockIn + logs'[i].hours <= logs'[i].at
        /\ logs'[i].at <= now
    BY <2>2, <2>3, CloseFilesTheLimit
  <2>5. decisions' = [d \in DOMAIN decisions |->
            IF \E v \in due : d \in LiveDecisions(v, sessions[v].clockIn)
              THEN [decisions[d] EXCEPT !.consumedBy = row[decisions[d].worker]]
              ELSE decisions[d]]
    BY <2>1 DEF ScanFiles
  <2>6. ASSUME NEW d \in LiveDecisions(w, sessions[w].clockIn)
        PROVE  /\ d \in DOMAIN decisions' /\ decisions'[d].consumedBy = i
               /\ decisions'[d].hours = decisions[d].hours /\ Standing(w) = decisions[d]
    <3>1. /\ d \in DOMAIN decisions /\ decisions[d].worker = w
          /\ decisions[d].clockIn = sessions[w].clockIn /\ Live(d)
      BY DEF LiveDecisions, Live
    <3>2. decisions[d] \in Decision
      BY <3>1 DEF TypeInv, TablesOK, DBTypeOK
    <3>3. decisions'[d] = [decisions[d] EXCEPT !.consumedBy = i]
      BY <2>2, <2>5, <3>1
    <3>4. ASSUME NEW e \in LiveDecisions(w, sessions[w].clockIn)  PROVE e = d
      <4>1. /\ e \in DOMAIN decisions /\ decisions[e].worker = w
            /\ decisions[e].clockIn = sessions[w].clockIn /\ Live(e)
        BY DEF LiveDecisions, Live
      <4>. QED  BY <3>1, <4>1, OneLive DEF AnswersInv
    <3>5. d <= d
      BY <3>1 DEF TypeInv, TablesOK, DBTypeOK
    <3>6. Standing(w) = decisions[d]
      <4>1. (CHOOSE x \in LiveDecisions(w, sessions[w].clockIn) :
                \A e \in LiveDecisions(w, sessions[w].clockIn) : e <= x) = d
        BY <3>4, <3>5
      <4>. QED  BY <4>1 DEF Standing
    <3>. QED  BY <2>5, <3>1, <3>2, <3>3, <3>6 DEF Decision
  <2>7. ASSUME NEW d \in DOMAIN decisions', decisions'[d].consumedBy = i
        PROVE  d \in LiveDecisions(w, sessions[w].clockIn)
    <3>1. d \in DOMAIN decisions /\ decisions[d] \in Decision
      BY <2>5 DEF TypeInv, TablesOK, DBTypeOK
    <3>2. decisions[d].consumedBy # i
      <4>1. decisions[d].consumedBy = Null \/ decisions[d].consumedBy \in DOMAIN logs
        BY <3>1 DEF AnswersInv, Follows, ClosingRows
      <4>2. i \in Nat
        <5>1. i \in DOMAIN logs' /\ i \notin DOMAIN logs
          OBVIOUS
        <5>. QED  BY <2>1, <5>1 DEF ScanFiles
      <4>. QED  BY <4>1, <4>2 DEF Null
    <3>3. PICK v \in due : d \in LiveDecisions(v, sessions[v].clockIn)
      BY <2>5, <2>7, <3>1, <3>2
    <3>4. decisions[d].worker = v
      BY <3>3 DEF LiveDecisions
    <3>5. decisions'[d] = [decisions[d] EXCEPT !.consumedBy = row[v]]
      BY <2>5, <3>1, <3>3, <3>4
    <3>6. decisions'[d].consumedBy = row[v]
      BY <3>1, <3>5 DEF Decision
    <3>7. v = w
      BY <2>1, <2>2, <2>7, <3>6 DEF ScanFiles
    <3>. QED  BY <3>3, <3>7
  <2>8. CASE Answered(w)
    <3>1. PICK d : d \in LiveDecisions(w, sessions[w].clockIn)
      BY <2>8 DEF Answered
    <3>2. \A e \in DOMAIN decisions' :
             decisions'[e].consumedBy = i =>
                logs'[i].hours = Max2(values.regular, decisions'[e].hours)
      BY <2>4, <2>6, <2>7, <2>8 DEF Limit
    <3>. QED  BY <2>4, <2>6, <3>1, <3>2
  <2>9. CASE ~Answered(w)
    BY <2>4, <2>7, <2>9 DEF Answered, Limit
  <2>. QED  BY <2>8, <2>9
<1>. QED  BY <1>1, TypesAreInvariant, LedgerIsInvariant, FixlessIsInvariant, AnswersAreInvariant,
             PTL DEF Spec, AutoCloseFilesTheLimit

-----------------------------------------------------------------------------
(* The promise of ShiftLifecycle                                            *)

\* What the record of a clock-out says; two rows have two records.
LEMMA EndingSays ==
    /\ \A i : /\ Ending(i).worker = logs[i].worker /\ Ending(i).shift = logs[i].shift
              /\ Ending(i).by = HandOf(i)
              /\ Ending(i).placed = (logs[i].site # InTransit)
    /\ \A i, j : Ending(i) = Ending(j) => i = j
<1>1. \A i : Ending(i).id = i
  BY DEF Ending
<1>2. \A i, j : Ending(i) = Ending(j) => i = j
  BY <1>1
<1>3. \A i : /\ Ending(i).worker = logs[i].worker /\ Ending(i).shift = logs[i].shift
             /\ Ending(i).by = HandOf(i)
             /\ Ending(i).placed = (logs[i].site # InTransit)
  BY DEF Ending
<1>. QED  BY <1>2, <1>3

\* The record of a row that is filed does not move.
LEMMA EndingStays ==
    ASSUME TypeInv, OfAKind, NEW i \in DOMAIN logs
    PROVE  /\ i \in DOMAIN logs' /\ (Closes(i)' <=> Closes(i))
           /\ Ending(i)' = Ending(i)
<1>1. i \in DOMAIN logs' /\ FactsKept(i)
  BY FactsAreKept
<1>. QED  BY <1>1 DEF FactsKept, Closes, Ending, HandOf

\* A step that files no clock-out ends nothing.
LEMMA NothingEnds ==
    ASSUME TypeInv, OfAKind, \A i \in DOMAIN logs' \ DOMAIN logs : logs'[i].action # "Clock Out"
    PROVE  Endings' = Endings
<1>1. \A i : i \in DOMAIN logs' /\ Closes(i)' <=> i \in DOMAIN logs /\ Closes(i)
  BY EndingStays DEF Closes
<1>2. \A i \in DOMAIN logs : Ending(i)' = Ending(i)
  BY EndingStays
<1>3. \A e : e \in Endings' <=> \E i \in DOMAIN logs' : Closes(i)' /\ e = Ending(i)'
  BY DEF Endings
<1>4. \A e : e \in Endings <=> \E i \in DOMAIN logs : Closes(i) /\ e = Ending(i)
  BY DEF Endings
<1>5. ASSUME NEW e \in Endings'  PROVE e \in Endings
  <2>1. PICK i \in DOMAIN logs' : Closes(i)' /\ e = Ending(i)'
    BY <1>3
  <2>2. i \in DOMAIN logs /\ Closes(i)
    BY <1>1, <2>1
  <2>. QED  BY <1>2, <1>4, <2>1, <2>2
<1>6. ASSUME NEW e \in Endings  PROVE e \in Endings'
  <2>1. PICK i \in DOMAIN logs : Closes(i) /\ e = Ending(i)
    BY <1>4
  <2>2. i \in DOMAIN logs' /\ Closes(i)'
    BY <1>1, <2>1
  <2>. QED  BY <1>2, <1>3, <2>1, <2>2
<1>. QED  BY <1>5, <1>6

\* A shift is over in the promise when a clock-out is filed for it.
LEMMA OverMeansFiled ==
    ASSUME NEW w, NEW n
    PROVE  Lifecycle!Over(w, n) <=>
              \E i \in DOMAIN logs : Closes(i) /\ logs[i].worker = w /\ logs[i].shift = n
<1>1. \A e : e \in Endings <=> \E i \in DOMAIN logs : Closes(i) /\ e = Ending(i)
  BY DEF Endings
<1>. QED  BY <1>1, EndingSays DEF Lifecycle!Over

\* Opening a shift starts one in the promise.
LEMMA OpeningStarts ==
    ASSUME TypeInv, LedgerInv, OfAKind, NEW w \in Workers, NEW site, NEW transit \in BOOLEAN,
           ~OnShift(w), OpenShift(w, site, transit), Endings' = Endings
    PROVE  \E to \in {"travelling", "working"} : Lifecycle!Start(w, to)
<1>. DEFINE to == IF transit THEN "travelling" ELSE "working"
<1>1. /\ sessions \in [Workers -> Session \cup {NoSession}] /\ now \in Nat /\ Len(logs) \in Nat
  BY DEF TypeInv, TablesOK, DBTypeOK, Moments
<1>2. \A v \in Workers \ {w} : sessions'[v] = sessions[v]
  BY <1>1 DEF OpenShift
<1>3. sessions'[w] = [clockIn |-> now, shift |-> Len(logs), site |-> site, transit |-> transit,
                      notified |-> FALSE]
  BY <1>1 DEF OpenShift
<1>4. /\ sessions'[w].clockIn = now /\ sessions'[w].shift = Len(logs)
      /\ sessions'[w].transit = transit
  BY <1>3
<1>5. PhaseOf(w) = "off" /\ \A v \in Workers \ {w} : PhaseOf(v)' = PhaseOf(v)
  BY <1>2 DEF PhaseOf, OnShift
<1>6. PhaseOf(w)' = to
  BY <1>1, <1>4 DEF PhaseOf, OnShift, Null
<1>. HIDE DEF to
<1>7. Phases[w] = "off" /\ Phases' = [Phases EXCEPT ![w] = to]
  BY <1>5, <1>6 DEF Phases
<1>8. Currents' = [Currents EXCEPT ![w] = Len(logs)] /\ Currents'[w] = Len(logs)
  BY <1>2, <1>4 DEF Currents
<1>9. ~Lifecycle!Over(w, Len(logs))
  <2>1. ASSUME NEW i \in DOMAIN logs  PROVE logs[i].shift # Len(logs)
    <3>1. DOMAIN logs = 1..Len(logs) /\ logs[i] \in Row
      BY DEF TypeInv, TablesOK, DBTypeOK
    <3>2. logs[i].shift < i /\ logs[i].shift \in Nat
      BY <3>1 DEF LedgerInv, RowsComeLater, Row
    <3>. QED  BY <1>1, <3>1, <3>2
  <2>. QED  BY <2>1, OverMeansFiled
<1>10. to \in {"travelling", "working"}
  BY DEF to
<1>. QED  BY <1>1, <1>7, <1>8, <1>9, <1>10 DEF Lifecycle!Start

\* Neither a shift nor a close: the promise stutters.
LEMMA StillnessStutters ==
    ASSUME TypeInv, OfAKind, Endings' = Endings,
           \A w \in Workers : /\ sessions'[w].clockIn = sessions[w].clockIn
                              /\ sessions'[w].shift = sessions[w].shift
                              /\ sessions'[w].transit = sessions[w].transit
    PROVE  UNCHANGED Lifecycle!lifecycleVars
<1>1. \A w \in Workers : PhaseOf(w)' = PhaseOf(w)
  BY DEF PhaseOf, OnShift
<1>2. Phases' = Phases
  BY <1>1 DEF Phases
<1>3. Currents' = Currents
  BY DEF Currents
<1>. QED  BY <1>2, <1>3 DEF Lifecycle!lifecycleVars

\* The place of a trip is reached.
LEMMA ArrivalReaches ==
    ASSUME TypeInv, OfAKind, NEW w \in Workers, NEW row \in Row, Arrived(w, row)
    PROVE  Lifecycle!Reach(w)
<1>1. PICK site \in Sites : sessions' = [sessions EXCEPT ![w].site = site, ![w].transit = FALSE]
  BY DEF Arrived
<1>2. sessions[w] \in Session /\ OnShift(w) /\ sessions[w].transit = TRUE
  <2>1. OnShift(w) /\ sessions[w].transit
    BY DEF Arrived, Travelling
  <2>2. sessions[w] \in Session
    BY <2>1, OpenSession
  <2>. QED  BY <2>1, <2>2 DEF Session
<1>3. sessions'[w] = [[sessions[w] EXCEPT !.site = site] EXCEPT !.transit = FALSE]
  BY <1>1 DEF TypeInv, TablesOK, DBTypeOK
<1>4. /\ sessions'[w].clockIn = sessions[w].clockIn /\ sessions'[w].shift = sessions[w].shift
      /\ sessions'[w].transit = FALSE
  BY <1>2, <1>3 DEF Session
<1>5. \A v \in Workers \ {w} : sessions'[v] = sessions[v]
  BY <1>1 DEF TypeInv, TablesOK, DBTypeOK
<1>6. /\ PhaseOf(w) = "travelling" /\ PhaseOf(w)' = "working"
      /\ \A v \in Workers \ {w} : PhaseOf(v)' = PhaseOf(v)
  BY <1>2, <1>4, <1>5 DEF PhaseOf, OnShift
<1>7. Phases[w] = "travelling" /\ Phases' = [Phases EXCEPT ![w] = "working"]
  BY <1>6 DEF Phases
<1>8. Currents' = Currents
  BY <1>4, <1>5 DEF Currents
<1>9. Endings' = Endings
  <2>1. ASSUME NEW i \in DOMAIN logs' \ DOMAIN logs  PROVE logs'[i].action # "Clock Out"
    <3>1. logs' = Append(logs, row) /\ row.action = "Transit Confirmed"
      BY DEF Arrived
    <3>. QED  BY <3>1, TheNewRow
  <2>. QED  BY <2>1, NothingEnds
<1>. QED  BY <1>7, <1>8, <1>9 DEF Lifecycle!Reach

\* What the records of the next ledger say.
LEMMA EndingWillSay ==
    /\ \A i : /\ Ending(i)'.worker = logs'[i].worker /\ Ending(i)'.shift = logs'[i].shift
              /\ Ending(i)'.by = HandOf(i)'
              /\ Ending(i)'.placed = (logs'[i].site # InTransit)
    /\ \A i, j : Ending(i)' = Ending(j)' => i = j
<1>1. \A i : Ending(i)'.id = i
  BY DEF Ending
<1>2. \A i, j : Ending(i)' = Ending(j)' => i = j
  BY <1>1
<1>3. \A i : /\ Ending(i)'.worker = logs'[i].worker /\ Ending(i)'.shift = logs'[i].shift
             /\ Ending(i)'.by = HandOf(i)'
             /\ Ending(i)'.placed = (logs'[i].site # InTransit)
  BY DEF Ending
<1>. QED  BY <1>2, <1>3

\* One row of a step that ends shifts: a clock-out of a worker of the step, at its hand.
EndsOne(i, who, hand) ==
    /\ logs'[i].action = "Clock Out" /\ logs'[i].worker \in who
    /\ logs'[i].shift = sessions[logs'[i].worker].shift
    /\ HandOf(i)' = hand
    /\ logs'[i].site = InTransit => Travelling(logs'[i].worker) /\ hand = "administrator"

\* A step that ends shifts, each with one row, ends them in the promise.
LEMMA ClosingEnds ==
    ASSUME TypeInv, LedgerInv, OfAKind, NEW who \in SUBSET Workers, who # {}, NEW hand,
           \A w \in who : OnShift(w) /\ (Travelling(w) => hand # "system"),
           \A w \in who : \E i \in DOMAIN logs' \ DOMAIN logs : logs'[i].worker = w,
           \A i \in DOMAIN logs' \ DOMAIN logs : EndsOne(i, who, hand),
           \A i, j \in DOMAIN logs' \ DOMAIN logs : logs'[i].worker = logs'[j].worker => i = j,
           \A w \in Workers : sessions'[w] = IF w \in who THEN NoSession ELSE sessions[w]
    PROVE  Lifecycle!End(who, hand)
<1>. DEFINE new == DOMAIN logs' \ DOMAIN logs
            fresh == Endings' \ Endings
<1>1. \A e : e \in Endings <=> \E i \in DOMAIN logs : Closes(i) /\ e = Ending(i)
  BY DEF Endings
<1>2. \A e : e \in Endings' <=> \E i \in DOMAIN logs' : Closes(i)' /\ e = Ending(i)'
  BY DEF Endings
<1>3. \A i \in DOMAIN logs : i \in DOMAIN logs' /\ (Closes(i)' <=> Closes(i)) /\ Ending(i)' = Ending(i)
  BY EndingStays
<1>4. Endings \subseteq Endings'
  BY <1>1, <1>2, <1>3
<1>5. ASSUME NEW e \in fresh  PROVE \E i \in new : e = Ending(i)'
  <2>1. PICK i \in DOMAIN logs' : Closes(i)' /\ e = Ending(i)'
    BY <1>2
  <2>2. i \notin DOMAIN logs
    BY <1>1, <1>3, <2>1
  <2>. QED  BY <2>1, <2>2
<1>6. ASSUME NEW i \in new  PROVE Ending(i)' \in fresh
  <2>1. Closes(i)'
    BY DEF EndsOne, Closes
  <2>2. Ending(i)' \in Endings'
    BY <1>2, <2>1
  <2>3. ASSUME Ending(i)' \in Endings  PROVE FALSE
    <3>1. PICK j \in DOMAIN logs : Ending(i)' = Ending(j)
      BY <1>1, <2>3
    <3>2. Ending(i)' = Ending(j)'
      BY <1>3, <3>1
    <3>. QED  BY <3>2, EndingWillSay
  <2>. QED  BY <2>2, <2>3
<1>. HIDE DEF new, fresh
<1>7. ASSUME NEW w \in who
      PROVE  /\ Phases[w] # "off" /\ (Phases[w] = "travelling" => hand # "system")
             /\ ~Lifecycle!Over(w, Currents[w])
             /\ \E e \in fresh : e.worker = w
  <2>1. Phases[w] # "off" /\ (Phases[w] = "travelling" => hand # "system")
    BY DEF Phases, PhaseOf, Travelling
  <2>2. ~Lifecycle!Over(w, Currents[w])
    <3>1. Currents[w] = sessions[w].shift
      BY DEF Currents
    <3>2. \A i \in DOMAIN logs : Closes(i) /\ logs[i].worker = w => logs[i].shift # sessions[w].shift
      BY NumberUnused
    <3>. QED  BY <3>1, <3>2, OverMeansFiled
  <2>3. \E e \in fresh : e.worker = w
    <3>1. PICK i \in new : logs'[i].worker = w
      BY DEF new
    <3>2. Ending(i)' \in fresh /\ Ending(i)'.worker = w
      BY <1>6, <3>1, EndingWillSay
    <3>. QED  BY <3>2
  <2>. QED  BY <2>1, <2>2, <2>3
<1>8. ASSUME NEW e \in fresh  PROVE Lifecycle!Closes(e, who, hand)
  <2>1. PICK i \in new : e = Ending(i)'
    BY <1>5
  <2>2. EndsOne(i, who, hand)
    BY DEF new
  <2>3. /\ e.worker = logs'[i].worker /\ e.shift = logs'[i].shift /\ e.by = HandOf(i)'
        /\ e.placed = (logs'[i].site # InTransit)
    BY <2>1, EndingWillSay
  <2>4. e.worker \in who /\ e.worker \in Workers
    BY <2>2, <2>3 DEF EndsOne
  <2>5. e.shift = Currents[e.worker] /\ e.by = hand
    BY <2>2, <2>3, <2>4 DEF EndsOne, Currents
  <2>6. e.placed \/ (Phases[e.worker] = "travelling" /\ hand = "administrator")
    <3>1. CASE logs'[i].site = InTransit
      <4>1. Travelling(e.worker) /\ hand = "administrator"
        BY <2>2, <2>3, <3>1 DEF EndsOne
      <4>. QED  BY <2>4, <4>1 DEF Phases, PhaseOf, Travelling
    <3>2. CASE logs'[i].site # InTransit
      BY <2>3, <3>2
    <3>. QED  BY <3>1, <3>2
  <2>. QED  BY <2>4, <2>5, <2>6 DEF Lifecycle!Closes
<1>9. ASSUME NEW e \in fresh, NEW f \in fresh, e.worker = f.worker  PROVE e = f
  <2>1. PICK i \in new : e = Ending(i)'
    BY <1>5
  <2>2. PICK j \in new : f = Ending(j)'
    BY <1>5
  <2>3. logs'[i].worker = logs'[j].worker
    BY <1>9, <2>1, <2>2, EndingWillSay
  <2>4. i = j
    BY <2>3 DEF new
  <2>. QED  BY <2>1, <2>2, <2>4
<1>10. Phases' = [w \in Workers |-> IF w \in who THEN "off" ELSE Phases[w]]
  <2>1. \A w \in Workers : PhaseOf(w)' = IF w \in who THEN "off" ELSE PhaseOf(w)
    BY DEF PhaseOf, OnShift, NoSession
  <2>. QED  BY <2>1 DEF Phases
<1>11. Currents' = [w \in Workers |-> IF w \in who THEN Lifecycle!NoShift ELSE Currents[w]]
  BY DEF Currents, NoSession, Lifecycle!NoShift, Null
<1>. QED  BY <1>4, <1>7, <1>8, <1>9, <1>10, <1>11 DEF Lifecycle!End, fresh

\* A clock-out ends one shift.
LEMMA EndingEnds ==
    ASSUME TypeInv, LedgerInv, NEW w \in Workers, NEW row \in Row, Ended(w, row)
    PROVE  \E hand \in Lifecycle!Hands : Lifecycle!End({w}, hand)
<1>. DEFINE hand == IF row.source = "admin_override" THEN "administrator" ELSE "worker"
            n == Len(logs) + 1
<1>1. /\ OnShift(w) /\ sessions' = [sessions EXCEPT ![w] = NoSession]
      /\ logs' = Append(logs, row)
      /\ row.worker = w /\ row.shift = sessions[w].shift
      /\ row.action = "Clock Out" /\ row.source # "auto_close"
      /\ row.site = InTransit => row.source = "admin_override" /\ Travelling(w)
  BY DEF Ended, CloseShift
<1>2. /\ n \in DOMAIN logs' /\ n \notin DOMAIN logs /\ logs'[n] = row
      /\ \A i \in DOMAIN logs' \ DOMAIN logs : i = n
  <2>1. /\ Len(logs) \in Nat /\ DOMAIN logs = 1..Len(logs) /\ DOMAIN logs' = 1..(Len(logs) + 1)
        /\ logs'[Len(logs) + 1] = row
    BY <1>1, OneMoreRow
  <2>. QED  BY <2>1
<1>3. \A i \in DOMAIN logs' \ DOMAIN logs : i = n /\ logs'[i] = row
  BY <1>2
<1>. HIDE DEF n
<1>4. OfAKind
  BY DEF OfAKind
<1>5. ASSUME NEW i \in DOMAIN logs' \ DOMAIN logs  PROVE EndsOne(i, {w}, hand)
  <2>1. logs'[i] = row
    BY <1>3
  <2>2. HandOf(i)' = hand
    BY <1>1, <2>1 DEF HandOf
  <2>. QED  BY <1>1, <2>1, <2>2 DEF EndsOne
<1>6. hand # "system" /\ hand \in Lifecycle!Hands
  BY DEF Lifecycle!Hands
<1>. HIDE DEF hand
<1>7. \A v \in Workers : sessions'[v] = IF v \in {w} THEN NoSession ELSE sessions[v]
  BY <1>1 DEF TypeInv, TablesOK, DBTypeOK
<1>8. \A v \in {w} : \E i \in DOMAIN logs' \ DOMAIN logs : logs'[i].worker = v
  BY <1>1, <1>2
<1>9. \A i, j \in DOMAIN logs' \ DOMAIN logs : logs'[i].worker = logs'[j].worker => i = j
  BY <1>3
<1>10. {w} \in SUBSET Workers /\ {w} # {} /\ \A v \in {w} : OnShift(v)
  BY <1>1
<1>11. Lifecycle!End({w}, hand)
  BY <1>4, <1>5, <1>6, <1>7, <1>8, <1>9, <1>10, ClosingEnds
<1>. QED  BY <1>6, <1>11

\* A scan ends every shift that is due, at nobody's hand.
LEMMA ScanEnds ==
    ASSUME TypeInv, LedgerInv, ScanAutoClose, \E w \in Workers : Due(w)
    PROVE  \E who \in SUBSET Workers : Lifecycle!End(who, "system")
<1>. DEFINE due == {w \in Workers : Due(w)}
<1>1. PICK row : ScanFiles(row)
  BY ScanRows
<1>2. ASSUME NEW i \in DOMAIN logs' \ DOMAIN logs
      PROVE  \E w \in due : row[w] = i /\ logs'[i] = AutoCloseRow(w)
  BY <1>1 DEF ScanFiles
<1>3. ASSUME NEW w \in due
      PROVE  /\ OnShift(w) /\ ~Travelling(w) /\ sessions[w].site # InTransit
             /\ row[w] \in DOMAIN logs' \ DOMAIN logs /\ logs'[row[w]] = AutoCloseRow(w)
  <2>1. OnShift(w) /\ ~sessions[w].transit
    BY DEF Due
  <2>2. sessions[w].site # InTransit
    BY <2>1 DEF LedgerInv, PlaceholderTravels
  <2>3. row[w] \in DOMAIN logs' \ DOMAIN logs /\ logs'[row[w]] = AutoCloseRow(w)
    BY <1>1 DEF ScanFiles
  <2>. QED  BY <2>1, <2>2, <2>3 DEF Travelling
<1>4. \A w : /\ AutoCloseRow(w).worker = w /\ AutoCloseRow(w).shift = sessions[w].shift
             /\ AutoCloseRow(w).site = sessions[w].site /\ AutoCloseRow(w).action = "Clock Out"
             /\ AutoCloseRow(w).source = "auto_close"
  BY DEF AutoCloseRow
<1>5. \A v, w \in due : row[v] = row[w] => v = w
  BY <1>1 DEF ScanFiles
<1>6. \A w \in Workers : sessions'[w] = IF w \in due THEN NoSession ELSE sessions[w]
  BY DEF ScanAutoClose
<1>7. due \in SUBSET Workers /\ due # {}
  OBVIOUS
<1>8. OfAKind
  BY DEF OfAKind
<1>. HIDE DEF due
<1>9. ASSUME NEW i \in DOMAIN logs' \ DOMAIN logs  PROVE EndsOne(i, due, "system")
  <2>1. PICK w \in due : row[w] = i /\ logs'[i] = AutoCloseRow(w)
    BY <1>2
  <2>2. HandOf(i)' = "system"
    BY <1>4, <2>1 DEF HandOf
  <2>3. /\ logs'[i].worker = w /\ logs'[i].shift = sessions[w].shift
        /\ logs'[i].action = "Clock Out" /\ logs'[i].site = sessions[w].site
    BY <1>4, <2>1
  <2>4. logs'[i].site # InTransit
    BY <1>3, <2>1, <2>3
  <2>. QED  BY <2>2, <2>3, <2>4 DEF EndsOne
<1>10. \A w \in due : \E i \in DOMAIN logs' \ DOMAIN logs : logs'[i].worker = w
  BY <1>3, <1>4
<1>11. ASSUME NEW i \in DOMAIN logs' \ DOMAIN logs, NEW j \in DOMAIN logs' \ DOMAIN logs,
              logs'[i].worker = logs'[j].worker
       PROVE  i = j
  <2>1. PICK v \in due : row[v] = i /\ logs'[i] = AutoCloseRow(v)
    BY <1>2
  <2>2. PICK w \in due : row[w] = j /\ logs'[j] = AutoCloseRow(w)
    BY <1>2
  <2>3. logs'[i].worker = v /\ logs'[j].worker = w
    <3>1. AutoCloseRow(v).worker = v /\ AutoCloseRow(w).worker = w
      BY <1>4
    <3>. QED  BY <2>1, <2>2, <3>1
  <2>. QED  BY <1>11, <2>1, <2>2, <2>3
<1>12. \A w \in due : OnShift(w) /\ (Travelling(w) => "system" # "system")
  BY <1>3
<1>13. Lifecycle!End(due, "system")
  BY <1>6, <1>7, <1>8, <1>9, <1>10, <1>11, <1>12, ClosingEnds
<1>. QED  BY <1>7, <1>13

\* The service keeps the promise of ShiftLifecycle: one record ends each shift, once, and a
\* trip without a place is never the system's to end.
THEOREM LifecycleIsImplemented == Spec => ImplementsLifecycle
<1>1. Init => Lifecycle!Init
  <2>. SUFFICES ASSUME Init  PROVE Lifecycle!Init
    OBVIOUS
  <2>1. \A w \in Workers : ~OnShift(w) /\ sessions[w].shift = Null
    BY DEF Init, DBInit, NoSession, OnShift
  <2>2. DOMAIN logs = {}
    BY DEF Init, DBInit
  <2>3. Phases = [w \in Workers |-> "off"]
    BY <2>1 DEF Phases, PhaseOf
  <2>4. Currents = [w \in Workers |-> Lifecycle!NoShift]
    BY <2>1 DEF Currents, Lifecycle!NoShift, Null
  <2>5. Endings = {}
    BY <2>2 DEF Endings
  <2>. QED  BY <2>3, <2>4, <2>5 DEF Lifecycle!Init
<1>2. TypeInv /\ LedgerInv /\ FixlessTravel /\ [Next]_vars =>
        [Lifecycle!Next]_(Lifecycle!lifecycleVars)
  <2>. SUFFICES ASSUME TypeInv, LedgerInv, OfAKind
                PROVE  Lifecycle!Next \/ UNCHANGED Lifecycle!lifecycleVars
    BY StepKinds
  <2>1. logs \in Seq(Row)
    BY DEF TypeInv, TablesOK, DBTypeOK
  <2>2. CASE Still
    <3>1. Endings' = Endings
      BY <2>2, NothingEnds DEF Still
    <3>. QED  BY <2>2, <3>1, StillnessStutters DEF Still
  <2>3. ASSUME NEW w \in Workers, Departed(w)  PROVE Lifecycle!Next
    <3>1. Endings' = Endings
      BY <2>3, NothingEnds DEF Departed
    <3>. QED  BY <2>3, <3>1, OpeningStarts DEF Departed, Lifecycle!Next
  <2>4. ASSUME NEW w \in Workers, NEW row \in Row, Opened(w, row)  PROVE Lifecycle!Next
    <3>1. ASSUME NEW i \in DOMAIN logs' \ DOMAIN logs  PROVE logs'[i].action # "Clock Out"
      BY <2>4, TheNewRow DEF Opened
    <3>2. Endings' = Endings
      BY <3>1, NothingEnds
    <3>. QED  BY <2>4, <3>2, OpeningStarts DEF Opened, Lifecycle!Next
  <2>5. ASSUME NEW w \in Workers, NEW row \in Row, Arrived(w, row)  PROVE Lifecycle!Next
    BY <2>5, ArrivalReaches DEF Lifecycle!Next
  <2>6. ASSUME NEW w \in Workers, NEW row \in Row, Ended(w, row)  PROVE Lifecycle!Next
    BY <2>6, EndingEnds DEF Lifecycle!Next
  <2>7. ASSUME NEW i \in DOMAIN logs, NEW row \in Row, Corrected(i, row)
        PROVE  UNCHANGED Lifecycle!lifecycleVars
    <3>1. DOMAIN logs' = DOMAIN logs
      BY <2>1, <2>7 DEF Corrected
    <3>2. Endings' = Endings
      BY <3>1, NothingEnds
    <3>. QED  BY <2>7, <3>2, StillnessStutters DEF Corrected
  <2>8. ASSUME NEW w \in Workers, Decided(w)  PROVE UNCHANGED Lifecycle!lifecycleVars
    <3>1. UNCHANGED <<sessions, logs>>
      BY <2>8 DEF Decided, Decide
    <3>2. Endings' = Endings
      BY <3>1, NothingEnds
    <3>. QED  BY <3>1, <3>2, StillnessStutters
  <2>9. CASE ScanAutoClose /\ \E w \in Workers : Due(w)
    <3>1. "system" \in Lifecycle!Hands
      BY DEF Lifecycle!Hands
    <3>. QED  BY <2>9, <3>1, ScanEnds DEF Lifecycle!Next
  <2>10. CASE ScanAutoClose /\ ~\E w \in Workers : Due(w)
    <3>1. PICK row : ScanFiles(row)
      BY <2>10, ScanRows
    <3>2. DOMAIN logs' \ DOMAIN logs = {}
      BY <2>10, <3>1 DEF ScanFiles
    <3>3. Endings' = Endings
      BY <3>2, NothingEnds
    <3>4. \A w \in Workers : sessions'[w] = sessions[w]
      BY <2>10 DEF ScanAutoClose
    <3>. QED  BY <3>3, <3>4, StillnessStutters
  <2>. QED  BY <2>2, <2>3, <2>4, <2>5, <2>6, <2>7, <2>8, <2>9, <2>10 DEF OfAKind
<1>. QED  BY <1>1, <1>2, TypesAreInvariant, LedgerIsInvariant, FixlessIsInvariant, PTL
          DEF Spec, ImplementsLifecycle, Lifecycle!Spec

-----------------------------------------------------------------------------
(* The uses of a link                                                       *)

LinkRows(w) == {i \in DOMAIN logs : logs[i].worker = w /\ logs[i].source = "quick_link"}

\* A step files at most one row by a link, and that link is usable.
LEMMA NewLinkRow ==
    ASSUME TypeInv, OfAKind, NEW i \in DOMAIN logs', i \notin DOMAIN logs,
           logs'[i].source = "quick_link"
    PROVE  LinkUsable(logs'[i].worker) /\ DOMAIN logs' = DOMAIN logs \cup {i}
<1>1. logs \in Seq(Row)
  BY DEF TypeInv, TablesOK, DBTypeOK
<1>2. ~(UNCHANGED logs)
  OBVIOUS
<1>3. ASSUME NEW row \in Row, logs' = Append(logs, row)
      PROVE  logs'[i] = row /\ DOMAIN logs' = DOMAIN logs \cup {i}
  <2>1. /\ Len(logs) \in Nat /\ DOMAIN logs = 1..Len(logs) /\ DOMAIN logs' = 1..(Len(logs) + 1)
    BY <1>3, OneMoreRow
  <2>2. i = Len(logs) + 1
    BY <2>1
  <2>3. DOMAIN logs' = DOMAIN logs \cup {i}
    BY <2>1, <2>2
  <2>. QED  BY <1>3, <2>3, TheNewRow
<1>4. ASSUME NEW j \in DOMAIN logs, NEW row \in Row, Corrected(j, row)
      PROVE  DOMAIN logs' = DOMAIN logs
  BY <1>1, <1>4 DEF Corrected
<1>5. ~ScanAutoClose
  <2>1. ASSUME ScanAutoClose  PROVE FALSE
    <3>1. PICK row : ScanFiles(row)
      BY <2>1, ScanRows
    <3>2. PICK w \in {v \in Workers : Due(v)} : row[w] = i /\ logs'[i] = AutoCloseRow(w)
      BY <3>1 DEF ScanFiles
    <3>3. AutoCloseRow(w).source = "auto_close"
      BY DEF AutoCloseRow
    <3>. QED  BY <3>2, <3>3
  <2>. QED  BY <2>1
<1>6. ASSUME NEW w \in Workers, NEW row \in Row, Opened(w, row) \/ Ended(w, row)
      PROVE  logs' = Append(logs, row) /\ ByLink(row)
  BY <1>6 DEF Opened, Ended, CloseShift
<1>7. ASSUME NEW w \in Workers, NEW row \in Row, Arrived(w, row)  PROVE FALSE
  <2>1. logs' = Append(logs, row) /\ row.source = "site_arrival"
    BY <1>7 DEF Arrived
  <2>. QED  BY <1>3, <2>1
<1>8. PICK w \in Workers, row \in Row : Opened(w, row) \/ Ended(w, row)
  BY <1>2, <1>4, <1>5, <1>7 DEF OfAKind, Still, Departed, Decided, Decide
<1>9. logs'[i] = row /\ DOMAIN logs' = DOMAIN logs \cup {i} /\ ByLink(row)
  BY <1>3, <1>6, <1>8
<1>. QED  BY <1>9 DEF ByLink

\* The rows of a link grow by one usable row, or not at all.
LEMMA LinkRowsGrow ==
    ASSUME TypeInv, OfAKind, NEW w
    PROVE  \/ LinkRows(w)' = LinkRows(w)
           \/ LinkUsable(w) /\ \E i : i \notin LinkRows(w) /\ LinkRows(w)' = LinkRows(w) \cup {i}
<1>1. ASSUME NEW i \in DOMAIN logs
      PROVE  i \in DOMAIN logs' /\ (i \in LinkRows(w)' <=> i \in LinkRows(w))
  <2>1. i \in DOMAIN logs' /\ FactsKept(i)
    BY FactsAreKept
  <2>. QED  BY <2>1 DEF FactsKept, LinkRows
<1>2. CASE \E i \in LinkRows(w)' : i \notin DOMAIN logs
  <2>1. PICK i \in LinkRows(w)' : i \notin DOMAIN logs
    BY <1>2
  <2>2. i \in DOMAIN logs' /\ logs'[i].worker = w /\ logs'[i].source = "quick_link"
    BY DEF LinkRows
  <2>3. LinkUsable(w) /\ DOMAIN logs' = DOMAIN logs \cup {i}
    BY <2>1, <2>2, NewLinkRow
  <2>4. i \notin LinkRows(w) /\ LinkRows(w) \subseteq DOMAIN logs /\ LinkRows(w)' \subseteq DOMAIN logs'
    BY <2>1 DEF LinkRows
  <2>5. LinkRows(w)' = LinkRows(w) \cup {i}
    BY <1>1, <2>3, <2>4
  <2>. QED  BY <2>3, <2>4, <2>5
<1>3. CASE \A i \in LinkRows(w)' : i \in DOMAIN logs
  <2>1. LinkRows(w) \subseteq DOMAIN logs
    BY DEF LinkRows
  <2>. QED  BY <1>1, <1>3, <2>1
<1>. QED  BY <1>2, <1>3

\* A link that is spent or revoked files nothing.
THEOREM SpentLinksRest == Spec => SpentLinkFilesNothing
<1>1. TypeInv /\ LedgerInv /\ FixlessTravel /\ [Next]_vars =>
        [\A w \in Linked :
          Uses(w)' # Uses(w) =>
              /\ w \notin revokedLinks
              /\ Uses(w)' = Uses(w) + 1
              /\ LinkUses > 0 => Uses(w)' <= LinkUses]_vars
  <2>. SUFFICES ASSUME TypeInv, OfAKind, NEW w \in Linked, Uses(w)' # Uses(w)
                PROVE  /\ w \notin revokedLinks
                       /\ Uses(w)' = Uses(w) + 1
                       /\ LinkUses > 0 => Uses(w)' <= LinkUses
    BY StepKinds
  <2>1. IsFiniteSet(LinkRows(w))
    <3>1. DOMAIN logs = 1..Len(logs) /\ Len(logs) \in Nat
      BY DEF TypeInv, TablesOK, DBTypeOK
    <3>2. IsFiniteSet(1..Len(logs))
      BY <3>1, FS_Interval
    <3>3. LinkRows(w) \subseteq 1..Len(logs)
      BY <3>1 DEF LinkRows
    <3>. QED  BY <3>2, <3>3, FS_Subset
  <2>2. Uses(w) = Cardinality(LinkRows(w)) /\ Uses(w)' = Cardinality(LinkRows(w)')
    BY DEF Uses, LinkRows
  <2>3. PICK i : LinkUsable(w) /\ i \notin LinkRows(w) /\ LinkRows(w)' = LinkRows(w) \cup {i}
    BY <2>2, LinkRowsGrow
  <2>4. Uses(w) \in Nat /\ Uses(w)' = Uses(w) + 1
    BY <2>1, <2>2, <2>3, FS_AddElement, FS_CardinalityType
  <2>5. LinkUses \in Nat
    BY LinksAssumption
  <2>. QED  BY <2>3, <2>4, <2>5 DEF LinkUsable
<1>. QED  BY <1>1, TypesAreInvariant, LedgerIsInvariant, FixlessIsInvariant, PTL
          DEF Spec, SpentLinkFilesNothing
=============================================================================
