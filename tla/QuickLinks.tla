------------------------------ MODULE QuickLinks ------------------------------
(***************************************************************************)
(* Quick clock links (backend/quick_links.py): a link punches for one worker, *)
(* without a password and without naming an action.  A tap is read against   *)
(* the link and the fence, waits for the face models to count the faces, and *)
(* is settled in one write transaction that reads the link and the open       *)
(* shift again and decides there whether the tap is an arrival or a departure. *)
(*                                                                          *)
(* Every worker of Linked has one link, issued before the run.  Its use      *)
(* counter goes up in the transaction that files the tap's row and in no      *)
(* other, so it is read off the ledger.  Expiry ends a link as a revocation   *)
(* does and is left out.                                                    *)
(***************************************************************************)
EXTENDS Punch

CONSTANTS
    Linked,         \* the workers who were issued a link
    LinkUses,       \* quick_links.max_uses, 0 for as many taps as the shift needs
    LinksToRevoke   \* bound: the workers whose link is revoked in a run

ASSUME LinksAssumption ==
    Linked \subseteq Workers /\ LinkUses \in Nat /\ LinksToRevoke \subseteq Linked

VARIABLE revokedLinks   \* the workers whose link has a revoked_at
linkVars == <<revokedLinks>>

LinkTypeOK == revokedLinks \subseteq Linked
LinkInit == revokedLinks = {}

Uses(w) == Cardinality({i \in DOMAIN logs : logs[i].worker = w /\ logs[i].source = "quick_link"})

\* quick_links._link_state
LinkUsable(w) == w \notin revokedLinks /\ (LinkUses = 0 \/ Uses(w) < LinkUses)

-----------------------------------------------------------------------------
(* The tap, up to its write transaction                                     *)

\* The link is live and the phone is inside a fence, or inside the last known
\* boundary of a deleted site while a shift is open.
TapLink(r, w, fix, confirmed) ==
    /\ requests[r] = Idle
    /\ LinkUsable(w)
    /\ SiteAt(fix) # NoSite \/ GateGone(w, fix) # NoSite
    /\ OnShift(w) \/ MayAskToOpen
    /\ requests' = [requests EXCEPT ![r] =
            [stage |-> "looking", worker |-> w, action |-> "Tap", fix |-> fix,
             confirmed |-> confirmed, site |-> SiteAt(fix), gone |-> GateGone(w, fix),
             verdict |-> "none"]]
    /\ UNCHANGED dbVars

\* One face is in the picture; whose it is, nobody asks
SeeOneFace(r) ==
    /\ requests[r].stage = "looking"
    /\ requests' = [requests EXCEPT ![r].stage = "tapped"]
    /\ UNCHANGED dbVars

\* No face or several, a presentation attack, a full queue
RefusePicture(r) ==
    /\ requests[r].stage = "looking"
    /\ Finish(r)
    /\ UNCHANGED dbVars

-----------------------------------------------------------------------------
(* The write transaction                                                    *)

\* Broken on purpose, for the mutation checks: the link is not read again under the lock.
TapRefusedUnread(r) ==
    LET w == requests[r].worker IN
    \/ OnShift(w) /\ (FlaggedForReview(w) \/ TooEarly(r))
    \/ ~OnShift(w) /\ requests[r].site = NoSite

\* A tap with no open shift opens one, and a deleted site opens none
TapRefused(r) ==
    LET w == requests[r].worker IN
    \/ ~LinkUsable(w)
    \/ OnShift(w) /\ (FlaggedForReview(w) \/ TooEarly(r))
    \/ ~OnShift(w) /\ requests[r].site = NoSite

TapIn(r) ==
    LET q == requests[r] IN
    /\ q.stage = "tapped" /\ ~TapRefused(r)
    /\ ~OnShift(q.worker)
    /\ OpenShift(q.worker, q.site, FALSE)
    /\ logs' = Append(logs,
            [worker |-> q.worker, clockIn |-> now, shift |-> Len(logs), action |-> "Clock In",
             site |-> q.site, at |-> now, fix |-> q.fix, flagged |-> FALSE, score |-> "none",
             source |-> "quick_link", code |-> "approved", hours |-> 0, overtime |-> 0,
             approved |-> Null])
    /\ Finish(r)
    /\ UNCHANGED <<now, values, live, deleted, decisions, notices>>

\* A trip that was never confirmed ends here too, at the place of the tap
TapOut(r) ==
    LET q == requests[r]
        w == q.worker
        held == HeldForApproval(w)
    IN
    /\ q.stage = "tapped" /\ ~TapRefused(r)
    /\ OnShift(w)
    /\ CloseShift(w,
            [worker |-> w, clockIn |-> sessions[w].clockIn,
             shift |-> sessions[w].shift, action |-> "Clock Out",
             site |-> IF q.site # NoSite THEN q.site ELSE q.gone,
             at |-> now, fix |-> q.fix, flagged |-> q.site = NoSite, score |-> "none",
             source |-> "quick_link", code |-> IF held THEN "pending_overtime" ELSE "approved",
             hours |-> RecordedPaid(Elapsed(w), values),
             overtime |-> IF held THEN HeldHours(w) ELSE 0, approved |-> Null])
    /\ notices' = notices \cup (IF held THEN CrossingNotice(w) ELSE {})
    /\ Finish(r)
    /\ UNCHANGED <<now, values, live, deleted>>

RefuseTap(r) ==
    /\ requests[r].stage = "tapped" /\ TapRefused(r)
    /\ Finish(r)
    /\ UNCHANGED dbVars

\* POST /admin/quick_links/{id}/revoke
RevokeLink(w) ==
    /\ w \notin revokedLinks
    /\ revokedLinks' = revokedLinks \cup {w}
    /\ UNCHANGED dbVars

-----------------------------------------------------------------------------
SettleTap(r) ==
    SeeOneFace(r) \/ RefusePicture(r) \/ TapIn(r) \/ TapOut(r) \/ RefuseTap(r)

TapNext ==
    \E r \in Requests :
        \/ \E w \in Linked, fix \in Fixes, confirmed \in BOOLEAN : TapLink(r, w, fix, confirmed)
        \/ SettleTap(r)
=============================================================================
