--------------------------- MODULE OrderExecutor ---------------------------
(***************************************************************************)
(* McpOrderExecutor (mt5_adapter/mcp_order_executor.py): submit (LIMIT and *)
(* MARKET), cancel and close_position, one call at a time, against an      *)
(* account that moves on its own and an MCP connection that can lose,      *)
(* delay or cut any call.  Every `await' of the code is a step of its own, *)
(* so the account may change between any two reads; what the code does     *)
(* between two awaits is one step.  The leftover reconciliation and the    *)
(* manual adoption are run by a human with the same store and a session of *)
(* their own, never while another operation runs.                          *)
(***************************************************************************)
EXTENDS Broker

CONSTANTS
    Ops,        \* the operations a caller may ask for in this instance
    Hazards,    \* the disturbances that may happen in this instance
    Attempts    \* how often a verification read is tried (the code: 3)

OpKinds == {"LIMIT", "MARKET", "cancel", "close", "reconcile"}

\* "trader": a human trades in the terminal; "stops": SL/TP trigger; "late":
\* a request given up by the client may still be carried out; "files": a
\* record file is damaged; "adopt": a human adopts a position.
HazardKinds == {"trader", "stops", "late", "files", "adopt"}

ASSUME OpsAssumption      == Ops \subseteq OpKinds
ASSUME HazardsAssumption  == Hazards \subseteq HazardKinds
ASSUME AttemptsAssumption == Attempts \in Nat \ {0}

VARIABLES
    store, bad,         \* the state store: statuses, unreadable files
    pc,                 \* where the running operation is
    op, target,         \* the operation and the ticket it is about
    local_open,         \* StateStore.all_open() as of the posture check
    seen,               \* live tickets read so far by the posture check
    report,             \* its ReconciliationReport
    tries,              \* verification reads made so far
    result,             \* how the last operation ended
    base                \* history: the live, locally unknown tickets when
                        \* local_open was read

\* Locals of the posture check, which go out of scope once it has decided.
checkVars == <<local_open, seen, report>>
snapVars == <<checkVars, base>>
callVars == <<op, target>>
vars == <<brokerVars, store, bad, pc, callVars, snapVars, tries, result>>

ReadPcs == {"gate", "positions", "orders", "verify", "verify_sltp", "volume", "confirm"}
SendPcs == {"place", "modify", "act"}
WaitPcs == {"placed", "modified", "acted"}
Pcs     == {"idle", "deals", "decide"} \cup ReadPcs \cup SendPcs \cup WaitPcs

\* "ok", "unverified", "rejected": an ExecutionResult was returned; "blocked",
\* "invalid", "sltp_failed": ExecutionBlockedError, InvalidOrderPlanError or
\* NotImplementedError, SlTpAttachmentFailedError was raised; "error": the raw
\* exception of a call or of the store got out; "crash": the process died.
Results == {"none", "ok", "unverified", "rejected", "blocked", "invalid",
            "sltp_failed", "error", "crash"}

NoSnapshot == [positions |-> {}, orders |-> {}]
NoReport   == [matched |-> {}, local_only |-> {}, unknown_real |-> {}]

TypeOK ==
    /\ BrokerTypeOK
    /\ store \in [Tickets -> Statuses]
    /\ bad \subseteq Tickets
    /\ pc \in Pcs
    /\ op \in OpKinds \cup {"none"}
    /\ target \in Tickets \cup {NoTicket}
    /\ local_open \subseteq Tickets
    /\ seen \subseteq Tickets
    /\ report \in [matched : SUBSET Tickets, local_only : SUBSET Tickets,
                   unknown_real : SUBSET Tickets]
    /\ base \in [positions : SUBSET Tickets, orders : SUBSET Tickets]
    /\ tries \in 0 .. Attempts
    /\ result \in Results

Init ==
    /\ BrokerInit
    /\ store = [t \in Tickets |-> "NONE"] /\ bad = {}
    /\ pc = "idle" /\ op = "none" /\ target = NoTicket
    /\ local_open = {} /\ seen = {} /\ report = NoReport /\ base = NoSnapshot
    /\ tries = 0 /\ result = "none"

ForgetCheck == local_open' = {} /\ seen' = {} /\ report' = NoReport

\* The operation is over: a result is returned or an exception leaves it.
End(r) ==
    /\ pc' = "idle" /\ result' = r /\ tries' = 0
    /\ ForgetCheck /\ base' = NoSnapshot
    /\ UNCHANGED callVars

Goto(p) == pc' = p /\ UNCHANGED <<callVars, snapVars, tries, result>>

-----------------------------------------------------------------------------
(* The caller starts an operation. *)

\* submit(order_plan); the account gate is the first thing awaited.
Submit(o) ==
    /\ pc = "idle" /\ o \in Ops \cap {"LIMIT", "MARKET"}
    /\ pc' = "gate" /\ op' = o /\ target' = NoTicket /\ result' = "none"
    /\ UNCHANGED <<brokerVars, store, bad, snapVars, tries>>

\* cancel(ticket), close_position(ticket): any ticket a caller can have seen.
Manage(o, t) ==
    /\ pc = "idle" /\ o \in Ops \cap {"cancel", "close"}
    /\ kind[t] \notin {"unused", "late"}
    /\ pc' = "gate" /\ op' = o /\ target' = t /\ result' = "none"
    /\ UNCHANGED <<brokerVars, store, bad, snapVars, tries>>

-----------------------------------------------------------------------------
(* _current_posture(): the store first, then two live reads, then, for     *)
(* unattributed tickets, the deal history.                                 *)

\* all_open() raises StateLoadError: posture BLOCKED, every operation refuses.
LoadFails ==
    /\ pc = "gate" /\ bad # {}
    /\ End("blocked")
    /\ UNCHANGED <<brokerVars, store, bad>>

LoadLocal ==
    /\ pc = "gate" /\ bad = {}
    /\ local_open' = AllOpen(store)
    /\ base' = [positions |-> Positions \ AllOpen(store), orders |-> Orders \ AllOpen(store)]
    /\ pc' = "positions"
    /\ UNCHANGED <<brokerVars, store, bad, callVars, seen, report, tries, result>>

ReadPositions ==
    /\ pc = "positions"
    /\ seen' = Positions
    /\ pc' = "orders"
    /\ UNCHANGED <<brokerVars, store, bad, callVars, local_open, report, base, tries, result>>

\* Whether _current_posture() goes on to _explain_unknown_real() and gets to
\* its get_deals() call (all_records() raises inside the try otherwise).
AsksForDeals(unknown) == unknown # {} /\ local_open # {} /\ bad = {}

\* Mutant: the reads are repeated as long as a ticket is unattributed.
ReadOrdersUntilClean ==
    /\ pc = "orders" /\ op # "reconcile"
    /\ report' = Reconcile(local_open, seen, Orders)
    /\ seen' = {}
    /\ pc' = IF report'.unknown_real # {} THEN "positions" ELSE "decide"
    /\ UNCHANGED <<brokerVars, store, bad, callVars, local_open, base, tries, result>>

ReadOrders ==
    /\ pc = "orders" /\ op # "reconcile"
    /\ report' = Reconcile(local_open, seen, Orders)
    /\ seen' = {}
    /\ pc' = IF AsksForDeals(report'.unknown_real) THEN "deals" ELSE "decide"
    /\ UNCHANGED <<brokerVars, store, bad, callVars, local_open, base, tries, result>>

\* Mutant: any closing order of a known position explains its ticket, whether
\* or not its deal is in the history.
ExplainOneWithoutDeal(a) == closes[a] \in local_open /\ own[closes[a]] # "foreign"

\* Mutant: the deal's position may be closed already.
ExplainOneOfClosed(a) == deal[a] = "matching" /\ store[closes[a]] # "NONE" /\ own[closes[a]] # "foreign"

\* _explain_one(): exactly one closing deal of the order a, linked to a
\* locally open position, consistent with the record in symbol, volume, side,
\* stop price and time (deal "matching").  An adopted record has no requested
\* stops, so nothing matches it.
ExplainOne(a) ==
    /\ deal[a] = "matching"
    /\ closes[a] \in local_open
    /\ own[closes[a]] # "foreign"

\* _explain_unknown_real(): the explained tickets leave unknown_real and the
\* positions they closed are recorded CLOSED.  The writes are outside the try:
\* a record that became unreadable meanwhile raises after some of them.
ExplainUnknownReal ==
    /\ pc = "deals" /\ op # "reconcile"
    /\ LET explained == {a \in report.unknown_real : ExplainOne(a)}
           evidence  == {closes[a] : a \in explained}
       IN  \/ /\ \A t \in evidence : LoadOne(bad, t)
              /\ store' = RecordClosed(store, evidence)
              /\ report' = [report EXCEPT !.unknown_real = @ \ explained]
              /\ pc' = "decide"
              /\ UNCHANGED <<callVars, local_open, seen, base, tries, result>>
           \/ /\ \E t \in evidence : ~ LoadOne(bad, t)
              /\ \E done \in SUBSET (evidence \ bad) : store' = RecordClosed(store, done)
              /\ End("error")
    /\ UNCHANGED <<brokerVars, bad>>

\* get_deals() raises: the report stays as it is (fail closed).
DealsUnavailable ==
    /\ pc = "deals" /\ op # "reconcile"
    /\ Goto("decide")
    /\ UNCHANGED <<brokerVars, store, bad>>

-----------------------------------------------------------------------------
(* What the posture allows. *)

Posture == DeterminePosture(FALSE, report.unknown_real)

\* The check is passed: the call is made next.
Proceed(p) ==
    /\ pc' = p /\ ForgetCheck
    /\ UNCHANGED <<callVars, base, tries, result>>

\* submit(): only in NORMAL; a MARKET plan with bad stops is refused unsent.
DecideSubmit ==
    /\ pc = "decide" /\ op \in {"LIMIT", "MARKET"}
    /\ \/ Posture = "NORMAL" /\ Proceed("place")
       \/ Posture = "NORMAL" /\ op = "MARKET" /\ End("invalid")
       \/ Posture # "NORMAL" /\ End("blocked")
    /\ UNCHANGED <<brokerVars, store, bad>>

\* Mutant: MANAGE_ONLY lets every ticket through.
AttributableAlways(t) == TRUE

\* The ticket is in the report's matched or local_only part.
Attributable(t) == t \in report.matched \cup report.local_only

\* cancel() and close_position(); the latter re-reads the position when the
\* caller named a volume.
DecideManage ==
    /\ pc = "decide" /\ op \in {"cancel", "close"}
    /\ \/ /\ Posture = "NORMAL" \/ Attributable(target)
          /\ Proceed("act")
       \/ /\ Posture = "NORMAL" \/ Attributable(target)
          /\ op = "close" /\ Proceed("volume")
       \/ /\ Posture # "NORMAL" /\ ~ Attributable(target)
          /\ End("blocked")
    /\ UNCHANGED <<brokerVars, store, bad>>

CheckVolume ==
    /\ pc = "volume"
    /\ \/ target \in Positions /\ Goto("act")
       \/ target \in Positions /\ End("invalid")      \* a partial close
       \/ target \notin Positions /\ End("blocked")
    /\ UNCHANGED <<brokerVars, store, bad>>

-----------------------------------------------------------------------------
(* _submit_limit() and _submit_market(): placing the order. *)

\* The broker carries the placement out as ticket t; the answer is on its way.
PlaceServed(t) ==
    /\ pc = "place" /\ kind[t] = "unused"
    /\ OpenTicket(t, op)
    /\ pc' = "placed" /\ target' = t /\ base' = NoSnapshot
    /\ UNCHANGED <<closes, deal, late, store, bad, op, checkVars, tries, result>>

\* Not done: nothing was opened, nothing is recorded.
PlaceRejected ==
    /\ pc = "place"
    /\ End("rejected")
    /\ UNCHANGED <<brokerVars, store, bad>>

\* Mutant: the MARKET record is written as if its stops were attached.
SubmissionStatusOpen(o) == "OPEN"

SubmissionStatus(o) == IF o = "MARKET" THEN "OPEN_UNPROTECTED" ELSE "OPEN"

\* Mutant: the record is left for the end of the operation.
RecordPlacedLater ==
    /\ pc = "placed"
    /\ tries' = 1 /\ pc' = "verify"
    /\ UNCHANGED <<brokerVars, store, bad, callVars, snapVars, result>>

\* The confirmed-done answer arrives: the record is written before anything else.
RecordPlaced ==
    /\ pc = "placed"
    /\ store' = RecordSubmission(store, target, SubmissionStatus(op))
    /\ tries' = 1 /\ pc' = "verify"
    /\ UNCHANGED <<brokerVars, bad, callVars, snapVars, result>>

\* Mutant: one attempt too many.
MayRetryTooOften == tries <= Attempts

\* `attempt < attempts - 1': another read follows.
MayRetry == tries < Attempts

\* One read of _verify_present() (LIMIT) or _verify_position_present() (MARKET).
\* For MARKET the outcome only goes into the final result.
VerifyPlaced ==
    /\ pc = "verify"
    /\ LET found == target \in (IF op = "LIMIT" THEN Orders ELSE Positions)
       IN  \/ /\ ~ found /\ MayRetry
              /\ tries' = tries + 1
              /\ UNCHANGED <<pc, callVars, snapVars, result>>
           \/ /\ found \/ tries = Attempts
              /\ op = "LIMIT"
              /\ End(IF found THEN "ok" ELSE "unverified")
           \/ /\ found \/ tries = Attempts
              /\ op = "MARKET"
              /\ pc' = "modify" /\ tries' = 0
              /\ UNCHANGED <<callVars, snapVars, result>>
    /\ UNCHANGED <<brokerVars, store, bad>>

-----------------------------------------------------------------------------
(* _submit_market(): the one attempt to attach SL/TP. *)

ModifyServed ==
    /\ pc = "modify" /\ CanServe("modify_position", target)
    /\ \E exact \in BOOLEAN : Serve("modify_position", target, exact)
    /\ Goto("modified")
    /\ UNCHANGED <<own, closes, deal, late, store, bad>>

ModifyRejected ==
    /\ pc = "modify"
    /\ End("sltp_failed")
    /\ UNCHANGED <<brokerVars, store, bad>>

ModifyDone ==
    /\ pc = "modified"
    /\ pc' = "verify_sltp" /\ tries' = 1
    /\ UNCHANGED <<brokerVars, store, bad, callVars, snapVars, result>>

\* A live read shows the position with the requested stops.
SeenAttached == target \in Positions /\ attached[target]

\* One read of _verify_sl_tp_attached() and what follows the last one.
VerifySlTp ==
    /\ pc = "verify_sltp"
    /\ \/ /\ SeenAttached /\ LoadOne(bad, target)
          /\ store' = MarkSlTpAttached(store, target)
          /\ End("ok")
       \/ /\ SeenAttached /\ ~ LoadOne(bad, target)
          /\ End("error") /\ UNCHANGED store
       \/ /\ ~ SeenAttached /\ tries = Attempts
          /\ End("sltp_failed") /\ UNCHANGED store
       \/ /\ ~ SeenAttached /\ MayRetry
          /\ tries' = tries + 1
          /\ UNCHANGED <<pc, callVars, snapVars, result, store>>
    /\ UNCHANGED <<brokerVars, bad>>

-----------------------------------------------------------------------------
(* cancel() and close_position(): the call and the record. *)

Tool(o) == CASE o = "cancel" -> "cancel_pending_order"
             [] o = "close"  -> "close_position"
             [] OTHER        -> "modify_position"

ActServed ==
    /\ pc = "act" /\ CanServe(Tool(op), target)
    /\ Serve(Tool(op), target, TRUE)
    /\ pc' = "acted" /\ base' = NoSnapshot
    /\ UNCHANGED <<own, closes, deal, late, store, bad, callVars, checkVars, tries, result>>

\* Mutant: a rejected call is recorded like a confirmed one.
ActRejectedRecords ==
    /\ pc = "act"
    /\ store' = IF op = "cancel" THEN RecordCancelled(store, {target})
                                 ELSE RecordClosed(store, {target})
    /\ End("rejected")
    /\ UNCHANGED <<brokerVars, bad>>

ActRejected ==
    /\ pc = "act"
    /\ End("rejected")
    /\ UNCHANGED <<brokerVars, store, bad>>

ActDone ==
    /\ pc = "acted"
    /\ Goto("confirm")
    /\ UNCHANGED <<brokerVars, store, bad>>

\* The confirming read, then the record, whatever the read showed.
ConfirmAct ==
    /\ pc = "confirm"
    /\ \/ /\ LoadOne(bad, target)
          /\ store' = IF op = "cancel" THEN RecordCancelled(store, {target})
                                       ELSE RecordClosed(store, {target})
          /\ End("ok")
       \/ /\ ~ LoadOne(bad, target)
          /\ End("error") /\ UNCHANGED store
    /\ UNCHANGED <<brokerVars, bad>>

-----------------------------------------------------------------------------
(* Failures: a read raises, an answer or a request is lost, the process    *)
(* dies.                                                                   *)

ReadRaises ==
    /\ pc \in ReadPcs \/ (pc = "deals" /\ op = "reconcile")
    /\ End("error")
    /\ UNCHANGED <<brokerVars, store, bad>>

\* Mutant: a placement whose answer is lost is sent once more.
AnswerLostResends ==
    /\ pc \in WaitPcs
    /\ \/ End("error")
       \/ pc = "modified" /\ End("sltp_failed")
       \/ pc = "placed" /\ Goto("place")
    /\ UNCHANGED <<brokerVars, store, bad>>

\* Timeout, dropped connection or an unreadable answer after the broker acted.
\* Only an exception of modify_position itself is turned into
\* SlTpAttachmentFailedError; an unparsable answer raises from outside the try.
AnswerLost ==
    /\ pc \in WaitPcs
    /\ \/ End("error")
       \/ pc = "modified" /\ End("sltp_failed")
    /\ UNCHANGED <<brokerVars, store, bad>>

\* The request leaves the client but nobody waits for it any more.
RequestOverdue ==
    \/ /\ pc = "place" /\ "late" \in Hazards
       /\ \E t \in Tickets : /\ kind[t] = "unused"
                             /\ kind' = [kind EXCEPT ![t] = "late"]
                             /\ own' = [own EXCEPT ![t] = op]
       /\ UNCHANGED <<attached, closes, deal, late>>
    \/ /\ pc \in {"modify", "act"} /\ "late" \in Hazards
       /\ late' = late \cup {[tool |-> Tool(op), ticket |-> target]}
       /\ UNCHANGED <<kind, own, attached, closes, deal>>

RequestLost ==
    /\ pc \in SendPcs
    /\ RequestOverdue \/ UNCHANGED brokerVars
    /\ End(IF pc = "modify" THEN "sltp_failed" ELSE "error")
    /\ UNCHANGED <<store, bad>>

Crash ==
    /\ pc # "idle"
    /\ RequestOverdue \/ UNCHANGED brokerVars
    /\ End("crash")
    /\ UNCHANGED <<store, bad>>

-----------------------------------------------------------------------------
(* The human's tools: the leftover reconciliation script, the adoption of  *)
(* a position opened in the terminal, and the files of the store.          *)

ReconcileStart ==
    /\ pc = "idle" /\ "reconcile" \in Ops
    /\ pc' = "positions" /\ op' = "reconcile" /\ target' = NoTicket /\ result' = "none"
    /\ UNCHANGED <<brokerVars, store, bad, snapVars, tries>>

ReconcileReadOrders ==
    /\ pc = "orders" /\ op = "reconcile"
    /\ seen' = seen \cup Orders /\ pc' = "deals"
    /\ UNCHANGED <<brokerVars, store, bad, callVars, local_open, report, base, tries, result>>

\* With the deal history read, the chosen open records that are in neither
\* live read become CLOSED (a closing deal exists) or CANCELLED (none does).
ReconcileLeftovers ==
    /\ pc = "deals" /\ op = "reconcile" /\ bad = {}
    /\ \E chosen \in SUBSET AllOpen(store) :
          LET gone   == chosen \ seen
              closed == {t \in gone : kind[t] = "closed"}
          IN  store' = RecordCancelled(RecordClosed(store, closed), gone \ closed)
    /\ End("ok")
    /\ UNCHANGED <<brokerVars, bad>>

Adopt(t) ==
    /\ pc = "idle" /\ "adopt" \in Hazards
    /\ kind[t] = "position" /\ own[t] = "foreign"
    /\ store[t] \notin OpenStatuses
    /\ store' = RecordManualAdoption(store, t)
    /\ UNCHANGED <<brokerVars, bad, pc, callVars, snapVars, tries, result>>

\* A record file is damaged from outside, and put right again.
Corrupt(t) ==
    /\ "files" \in Hazards /\ store[t] # "NONE" /\ t \notin bad
    /\ bad' = bad \cup {t}
    /\ UNCHANGED <<brokerVars, store, pc, callVars, snapVars, tries, result>>

Repair(t) ==
    /\ t \in bad
    /\ bad' = bad \ {t}
    /\ UNCHANGED <<brokerVars, store, pc, callVars, snapVars, tries, result>>

-----------------------------------------------------------------------------

\* The running operation takes its next step.
Step ==
    \/ LoadFails \/ LoadLocal \/ ReadPositions \/ ReadOrders
    \/ ExplainUnknownReal \/ DealsUnavailable
    \/ DecideSubmit \/ DecideManage \/ CheckVolume
    \/ (\E t \in Tickets : PlaceServed(t)) \/ PlaceRejected \/ RecordPlaced \/ VerifyPlaced
    \/ ModifyServed \/ ModifyRejected \/ ModifyDone \/ VerifySlTp
    \/ ActServed \/ ActRejected \/ ActDone \/ ConfirmAct
    \/ ReadRaises \/ AnswerLost \/ RequestLost
    \/ ReconcileReadOrders \/ ReconcileLeftovers

Start ==
    \/ \E o \in Ops : Submit(o)
    \/ \E o \in Ops, t \in Tickets : Manage(o, t)
    \/ ReconcileStart

Human == \E t \in Tickets : Adopt(t) \/ Corrupt(t) \/ Repair(t)

Environment ==
    /\ \/ Market
       \/ "trader" \in Hazards /\ Trader
       \/ "stops" \in Hazards /\ Stops
       \/ Overdue
    /\ UNCHANGED <<store, bad, pc, callVars, snapVars, tries, result>>

Next == Start \/ Step \/ Crash \/ Human \/ Environment

Spec == Init /\ [][Next]_vars

\* Every await ends: reads and calls return, raise, or time out after 30 s
\* (McpClient.call_tool), so a running operation keeps moving.
FairSpec == Spec /\ WF_vars(Step)

-----------------------------------------------------------------------------
(* Properties. *)

\* The unattributed tickets that the running posture check cannot miss: live
\* when all_open() was read, without an open record then, and still the same
\* thing (position or pending order) now.  MT5's own artifacts are left out.
SteadyUnknown ==
    {t \in Tickets :
        /\ own[t] # "artifact"
        /\ \/ t \in base.positions /\ kind[t] = "position"
           \/ t \in base.orders /\ kind[t] = "pending"}

\* submit() never gets to place an order past a ticket that was on the account,
\* unattributed, during the whole posture check (an order whose answer was
\* lost, a late placement, a human's trade): state/policy.py MANAGE_ONLY.
NoBlindSubmit == pc = "place" => SteadyUnknown = {}

\* cancel() and close_position() never act on such a ticket.
NoBlindManagement == pc = "act" => target \notin SteadyUnknown

\* submit() passes the closing order of a stop only if this very check has
\* written its position off: one that is still listed after its position was
\* recorded CLOSED blocks submissions until it disappears.
StopsAreAccounted ==
    [][pc = "decide" /\ pc' = "place" =>
        \A a \in base.orders :
            own[a] = "artifact" /\ kind[a] = "pending"
                => closes[a] \in local_open /\ store[closes[a]] = "CLOSED"]_vars

\* README: "If live tickets exist with no local record, the executor refuses
\* new orders".  Live throughout the check is enough here, even when a pending
\* order turned into a position meanwhile.
RefusesWhileUnattributed ==
    pc = "place" =>
        ~ \E t \in base.positions \cup base.orders :
              Live(t) /\ own[t] # "artifact"

\* A record says CLOSED only when the position is really closed: no live
\* position is forgotten by close_position(), by the automatic reconciliation
\* of stop closes, or by the leftover script, however reads and account
\* interleave.
ClosedIsClosed == \A t \in Tickets : store[t] = "CLOSED" => kind[t] = "closed"

\* store.py, all_closed(): "a cancelled order never filled".
CancelledNeverFilled == \A t \in Tickets : store[t] = "CANCELLED" => kind[t] = "cancelled"

\* state/models.py: a naked position never looks like a protected one.  A
\* MARKET record says OPEN only if the requested stops were on the position.
OpenIsProtected ==
    \A t \in Tickets : store[t] = "OPEN" /\ own[t] = "MARKET" => attached[t]

\* The MARKET record is durable before stops are requested: a position that
\* got its stops through us, also through a late call or before a crash, is
\* never without a record.
RecordedBeforeProtected ==
    \A t \in Tickets : own[t] = "MARKET" /\ attached[t] => store[t] # "NONE"

\* A record that says CLOSED is never changed again: no late answer, second
\* close, adoption or leftover run brings it back or relabels it.
ClosedIsFinal ==
    [][\A t \in Tickets : store[t] = "CLOSED" => store'[t] = "CLOSED"]_vars

\* Every operation ends, whatever is lost on the way: reads and retries are
\* bounded and every call returns or times out.
OperationEnds == pc # "idle" ~> pc = "idle"

\* The account book's view of the executor: its reads are one look, its retries
\* and requests on the way are no steps at all.
BookAccount ==
    [t \in Tickets |->
        IF kind[t] \in {"unused", "late"} THEN "absent"
        ELSE IF kind[t] = "pending" /\ own[t] = "artifact" THEN "closing"
        ELSE kind[t]]

BookPhase ==
    IF pc = "idle" THEN "rest"
    ELSE IF op = "reconcile" THEN "tidying"
    ELSE CASE pc = "gate"                                         -> "asked"
           [] pc \in {"positions", "orders", "deals", "decide"}   -> "looked"
           [] pc \in {"place", "volume", "act"}                   -> "cleared"
           [] pc \in {"placed", "acted", "confirm"}               -> "done"
           [] pc \in {"verify", "modify", "modified", "verify_sltp"} -> "kept"

Book == INSTANCE AccountBook WITH
            account <- BookAccount, records <- store, phase <- BookPhase,
            doing <- op, about <- target, suspects <- SteadyUnknown

\* Although it reads store, positions, orders and deals at four moments of a
\* moving account, and any call may be lost, late or cut, the executor does
\* what one atomic look and at most one call per look would have done.
BookIsKept == Book!Spec

-----------------------------------------------------------------------------
(* The inductive invariant behind the safety properties; proved in         *)
(* OrderExecutorProofs.                                                    *)

\* Which operation is at which step, and that its ticket is known by then.
OpInv ==
    /\ pc # "idle" => op # "none"
    /\ pc = "gate" => op # "reconcile"
    /\ pc \in {"place", "placed", "verify"} => op \in {"LIMIT", "MARKET"}
    /\ pc \in {"modify", "modified", "verify_sltp"} => op = "MARKET"
    /\ pc \in {"volume", "act", "acted", "confirm"} => op \in {"cancel", "close"}
    /\ pc \in {"gate", "positions", "orders", "deals", "decide"} /\ op \in {"cancel", "close"}
          => target \in Tickets
    /\ pc \in {"placed", "verify", "modify", "modified", "verify_sltp",
               "volume", "act", "acted", "confirm"} => target \in Tickets

\* What the account guarantees about its tickets.
BrokerInv ==
    \A t \in Tickets :
        /\ kind[t] \in {"unused", "late"} => ~ attached[t]
        /\ own[t] = "artifact" => closes[t] \in Tickets /\ kind[t] \in {"pending", "closed"}
        /\ deal[t] # "none" => own[t] = "artifact" /\ kind[closes[t]] = "closed"
        /\ kind[t] = "unused" => own[t] = "none"
        /\ kind[t] = "late" => own[t] \in {"LIMIT", "MARKET"}

\* What else the records say about the account, at rest and in the middle of
\* the operations that write them.
WrittenInv ==
    /\ \A t \in Tickets :
          /\ kind[t] \in {"unused", "late"} => store[t] = "NONE"
          /\ store[t] = "OPEN" /\ own[t] = "MARKET" => attached[t]
          /\ own[t] = "MARKET" /\ attached[t] => store[t] # "NONE"
    /\ pc = "placed" => /\ store[target] = "NONE" /\ own[target] = op
                        /\ kind[target] \notin {"unused", "late"}
    /\ pc \in {"verify", "modify", "modified", "verify_sltp"} => store[target] # "NONE"
    /\ pc \in {"acted", "confirm"} =>
          kind[target] = IF op = "cancel" THEN "cancelled" ELSE "closed"
    /\ \A c \in late : c.tool = "modify_position" => store[c.ticket] # "NONE"

RecordInv == WrittenInv /\ ClosedIsClosed

\* What the posture check has made sure of so far.
CheckInv ==
    /\ \A t \in base.positions : kind[t] \in {"position", "closed"}
    /\ \A t \in base.orders : kind[t] \in {"pending", "position", "cancelled", "closed"}
    /\ (base.positions \cup base.orders) \cap local_open = {}
    /\ pc = "orders" => \A t \in base.positions : kind[t] = "position" => t \in seen
    /\ pc \in {"deals", "decide"} /\ op # "reconcile" =>
          /\ SteadyUnknown \subseteq report.unknown_real
          /\ report.matched \cup report.local_only \subseteq local_open
    /\ pc = "place" => SteadyUnknown = {}
    /\ pc \in {"volume", "act"} => target \notin SteadyUnknown

\* What the account book rests on besides: the snapshot is dropped with the
\* operation's one call, what was read from the store still stands when stops are
\* written off, and nobody else writes the record of the running submission.
BookInv ==
    /\ pc \notin {"positions", "orders", "deals", "decide", "place", "volume", "act"}
          \/ op = "reconcile" => base = NoSnapshot
    /\ pc \in {"positions", "orders", "deals"} /\ op # "reconcile" =>
          local_open \subseteq AllOpen(store)
    /\ pc \in {"verify", "modify", "modified", "verify_sltp"} =>
          store[target] = SubmissionStatus(op)

IndInv == TypeOK /\ OpInv /\ BrokerInv /\ RecordInv /\ CheckInv /\ BookInv

=============================================================================
