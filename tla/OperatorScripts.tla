-------------------------- MODULE OperatorScripts --------------------------
(***************************************************************************)
(* The one-off operator scripts (scripts/run_demo_execution_*.py) that put *)
(* the account and the state store in order again after a stopped run:     *)
(* they read live state, compare it with the premise they were written     *)
(* for, then record, cancel or close a fixed list of tickets, some of them *)
(* through the executor of OrderExecutor.  Others only report what they    *)
(* read.  All of them share one shape, so each is a row of the table       *)
(* below, interpreted by the same actions; every await is a step, and the  *)
(* account moves between any two of them.                                  *)
(***************************************************************************)
EXTENDS OrderExecutor, Sequences, Functions

CONSTANT Scripts    \* the rows of the table that may be run in this instance

\* How a script sees a ticket in its own reads, and what it does about it.
Views == {"position", "order", "dealt", "gone"}
Acts  == {"leave", "close", "cancel", "CLOSED", "CANCELLED", "adopt", "attach"}

\* A part of a script's ticket list: what kinds of order were listed, the
\* views the premise allows (any other aborts the whole script), the act for
\* each view, the final test.
JobOn(of, need, act, done) == [of |-> of, need |-> need, act |-> act, done |-> done]
Job(need, act, done) == JobOn(Owners, need, act, done)

Always(a) == [v \in Views |-> a]

-----------------------------------------------------------------------------
(* The table. *)

\* The reads, in order, before anything is decided; how the tickets are chosen
\* ("listed" in the script, the "open" records among a list or a date, or
\* "all" open records); whether the deals asked for reach back to every close;
\* the jobs; whether one ticket's exception is caught; reads made at the end.
Script(reads, scope, window, jobs, tolerant, again) ==
    [reads |-> reads, scope |-> scope, window |-> window, jobs |-> jobs, writes |-> TRUE,
     submit |-> "none", tolerant |-> tolerant, again |-> again]

\* The same reads and verdicts, printed only.
ReportOnly(s) == [s EXCEPT !.writes = FALSE]

LiveViews == {"position", "order"}

\* A closing deal makes it CLOSED, none CANCELLED, a live ticket is left alone.
ByDeals == [v \in Views |-> CASE v = "dealt" -> "CLOSED" [] v = "gone" -> "CANCELLED" [] OTHER -> "leave"]

\* Leftovers settled on the evidence of the deal history; an exception between
\* two records ends the script.
ByDealHistory(reads, scope, window) ==
    Script(reads, scope, window, <<Job(Views, ByDeals, "unchecked")>>, FALSE, <<>>)

Reconcile20260807Leftovers ==
    ByDealHistory(<<"positions", "orders", "deals", "store">>, "open", "covering")
Reconcile20260810AfternoonLeftovers ==
    ByDealHistory(<<"positions", "orders", "deals", "store">>, "open", "covering")
ReconcileRun6Leftovers ==
    ByDealHistory(<<"positions", "orders", "deals", "store">>, "open", "covering")
ReconcileRun7Leftovers ==
    ByDealHistory(<<"positions", "orders", "deals", "store">>, "open", "covering")
Reconcile20260813Backlog ==
    ByDealHistory(<<"positions", "orders", "store", "deals">>, "all", "covering")

\* The preflight reports give the same verdicts for all open records, from
\* deals of the last days only.
Check20260810AfternoonPreflight ==
    ReportOnly(ByDealHistory(<<"positions", "orders", "deals", "store">>, "all", "recent"))
Check20260811LunchPreflight ==
    ReportOnly(ByDealHistory(<<"positions", "orders", "deals", "store">>, "all", "recent"))
Check20260811HomeMachinePreflight ==
    ReportOnly(ByDealHistory(<<"positions", "orders", "deals", "store">>, "all", "recent"))
Check20260811Step7Preflight ==
    ReportOnly(ByDealHistory(<<"positions", "orders", "deals", "store">>, "all", "recent"))
Check20260811Run10PostCompletionReconcile ==
    ReportOnly(ByDealHistory(<<"positions", "orders", "deals", "store">>, "all", "recent"))
CheckKillswitchSmokeTestPostStop ==
    ReportOnly(ByDealHistory(<<"positions", "orders", "deals", "store">>, "listed", "covering"))

\* Leftovers recorded because none of them is live: one live ticket aborts.
IfAllAbsent(act) ==
    Script(<<"positions", "orders", "lookup">>, "listed", "none",
           <<Job(Views \ LiveViews, Always(act), "recorded")>>, TRUE, <<"lookup">>)

Step25ReconcileLeftoverTickets   == IfAllAbsent("CLOSED")
ReconcileFifthLoopRunLeftovers   == IfAllAbsent("CLOSED")
Reconcile171653005_171652845     == IfAllAbsent("CLOSED")
ReconcileStep29Final5Tickets     == IfAllAbsent("CLOSED")
Reconcile171908077               == IfAllAbsent("CLOSED")
Reconcile171651878               == IfAllAbsent("CLOSED")
Reconcile171651879               == IfAllAbsent("CLOSED")
ReconcileManualCancel5GridOrders == IfAllAbsent("CANCELLED")

\* The protected tickets one by one; the unprotected one is only looked at.
ReconcileStep30Run ==
    Script(<<"positions", "orders">>, "listed", "none",
           <<Job(Views, Always("leave"), "unchecked"),
             Job(Views, [v \in Views |-> IF v \in LiveViews THEN "leave" ELSE "CLOSED"], "unchecked")>>,
           TRUE, <<>>)

\* Pending orders cancelled: all of them must still be pending.
CancelListed ==
    Script(<<"orders", "lookup">>, "listed", "none",
           <<Job({"order"}, Always("cancel"), "no_order")>>, TRUE, <<"orders", "lookup">>)

CancelPipelineCycleOrders        == CancelListed
Cancel20260807RemainingGridOrders == CancelListed

\* An unprotected position closed: it must still be there.
CloseUnprotected ==
    Script(<<"positions", "lookup">>, "listed", "none",
           <<Job({"position"}, Always("close"), "no_position")>>, TRUE, <<"positions", "lookup">>)

CloseUnprotectedRunnerPosition           == CloseUnprotected
CloseUnprotectedRunnerPosition_171651880 == CloseUnprotected
CloseUnprotectedRunnerPosition_171653006 == CloseUnprotected
CloseUnprotectedRunnerPosition_171654324 == CloseUnprotected

\* No lookup, no try, no second look.
Close171979510 ==
    Script(<<"positions">>, "listed", "none",
           <<Job({"position"}, Always("close"), "unchecked")>>, FALSE, <<>>)

\* Close one, cancel one, record the runner's position that is gone already
\* (looked for among the positions only).
ClosePipelineOpenItems ==
    Script(<<"positions", "orders", "lookup">>, "listed", "none",
           <<Job({"position"}, Always("close"), "no_position"),
             Job({"order"}, Always("cancel"), "no_order"),
             JobOn({"MARKET"}, Views \ {"position"}, Always("CLOSED"), "recorded")>>,
           TRUE, <<"positions", "orders", "lookup">>)

\* Record the one that is gone, then cancel the other.
CloseStep19GridTickets ==
    Script(<<"positions", "orders", "lookup">>, "listed", "none",
           <<Job(Views \ LiveViews, Always("CLOSED"), "recorded"),
             Job({"order"}, Always("cancel"), "no_order")>>,
           TRUE, <<"positions", "orders", "lookup">>)

\* Whatever each ticket was in the one pair of reads at the start.
CleanupLoopRun ==
    Script(<<"positions", "orders">>, "listed", "none",
           <<Job(Views, [v \in Views |-> CASE v = "position" -> "close" [] v = "order" -> "cancel"
                                            [] OTHER -> "CLOSED"], "not_live")>>,
           TRUE, <<"positions", "orders", "lookup">>)

\* One more attempt to attach the stops of an unprotected position.
RetrySltp171979510 ==
    Script(<<"positions">>, "listed", "none",
           <<Job({"position"}, Always("attach"), "unchecked")>>, FALSE, <<>>)

\* A human's position adopted and closed.
CloseSmokeTest ==
    Script(<<"positions">>, "listed", "none",
           <<JobOn({"foreign"}, {"position"}, Always("adopt"), "unchecked")>>, FALSE, <<"lookup", "positions">>)

\* Smoke tests: a small order of their own, cancelled or closed at once.
\* The MARKET ones refuse to start while an earlier one's record is open; the
\* second gets its order from a runner cycle, which may also decline.
SmokeTest ==
    [Script(<<"other">>, "listed", "none",
            <<Job(Views, Always("cancel"), "unchecked")>>, FALSE, <<>>) EXCEPT !.submit = "LIMIT"]
MarketSmokeTest ==
    [Script(<<"positions", "store", "other">>, "open", "none",
            <<Job({}, Always("close"), "no_position")>>, FALSE, <<"positions">>) EXCEPT !.submit = "MARKET"]
RunnerSltpSmokeTest ==
    [Script(<<"positions", "store", "other">>, "open", "none",
            <<Job({}, Always("close"), "no_position")>>, FALSE, <<"positions">>) EXCEPT !.submit = "MARKET"]

\* Where each listed ticket is now.
StatusReport ==
    ReportOnly(Script(<<"positions", "orders", "lookup">>, "listed", "none",
                      <<Job(Views, Always("leave"), "unchecked")>>, FALSE, <<>>))

LoopRunStatusCheck             == StatusReport
Step25TicketStatusCheck        == StatusReport
ReadonlyCheck5GridOrders       == StatusReport
ReconcileStep29RemainingTickets == StatusReport

\* Everything live, without the store.
Check20260807PreStep7ResumeState ==
    [StatusReport EXCEPT !.reads = <<"positions", "orders">>]

\* Live state, the strategies' open records and deals up to an unstated end,
\* which get_deals() may answer incompletely.
CheckStep5SmokeTestState ==
    [StatusReport EXCEPT !.reads = <<"positions", "orders", "deals", "store">>, !.window = "partial"]

\* The same question to get_deals() with and without an end date.
ProbeGetDealsGap ==
    [StatusReport EXCEPT !.reads = <<"deals", "deals", "deals", "deals">>, !.window = "partial"]

\* All there is about a ticket nobody placed: live state, order history, deals.
InvestigateTicket ==
    [StatusReport EXCEPT !.reads = <<"positions", "orders", "other", "deals", "store">>,
                         !.window = "covering"]
InvestigateTicket171909600 == InvestigateTicket
InvestigateTicket171922069 == InvestigateTicket

\* Every row of the table; equal rows are one.
AllScripts ==
    {Reconcile20260807Leftovers, Reconcile20260813Backlog, Check20260811LunchPreflight,
     CheckKillswitchSmokeTestPostStop, Step25ReconcileLeftoverTickets,
     ReconcileManualCancel5GridOrders, ReconcileStep30Run, CancelPipelineCycleOrders,
     CloseUnprotectedRunnerPosition, Close171979510, ClosePipelineOpenItems,
     CloseStep19GridTickets, CleanupLoopRun, RetrySltp171979510, CloseSmokeTest, SmokeTest,
     MarketSmokeTest, LoopRunStatusCheck, Check20260807PreStep7ResumeState,
     CheckStep5SmokeTestState, ProbeGetDealsGap, InvestigateTicket171909600}

ASSUME ScriptsAssumption == Scripts \subseteq AllScripts

-----------------------------------------------------------------------------

VARIABLES
    script,     \* the running row
    spc, at,    \* where it is; the number of its next read
    listed,     \* its tickets: the job each belongs to, 0 for none
    snap,       \* what it has read
    todo,       \* tickets it has still to act on
    verdict,    \* what it printed last
    before      \* history: what every ticket was when it started

scriptVars == <<script, spc, at, listed, snap, todo, verdict, before>>
execVars   == <<pc, callVars, snapVars, tries, result>>
allVars    == <<vars, scriptVars>>

NoReads  == [positions |-> {}, orders |-> {}, deals |-> {}, open |-> {}]

\* The tickets the script is about, once it has read the store.
Targets == {t \in Tickets : listed[t] > 0 /\ (script.scope = "listed" \/ t \in snap.open)}

View(t) == IF t \in snap.positions THEN "position"
           ELSE IF t \in snap.orders THEN "order"
           ELSE IF t \in snap.deals THEN "dealt" ELSE "gone"

JobOf(t) == script.jobs[listed[t]]
Act(t)   == JobOf(t).act[View(t)]

\* What the executor, or an earlier script, leaves behind: a ticket and its
\* record.
Left(k, o, a, st) == [kind |-> k, own |-> o, attached |-> a, store |-> st]
LeftTickets ==
    {Left("unused", "none", FALSE, "NONE"), Left("pending", "foreign", FALSE, "NONE"),
     Left("position", "foreign", FALSE, "NONE"), Left("cancelled", "LIMIT", TRUE, "CANCELLED")}
    \cup {Left(k, "LIMIT", TRUE, "OPEN") : k \in {"pending", "position", "cancelled", "closed"}}
    \cup {Left("position", "MARKET", TRUE, "OPEN")}
    \cup {Left("closed", "MARKET", TRUE, st) : st \in {"OPEN", "CLOSED"}}
    \cup {Left(k, "MARKET", FALSE, "OPEN_UNPROTECTED") : k \in {"position", "closed"}}

\* A human starts script s for the tickets of l, never beside another program;
\* a record's file may be unreadable.
Launch(s, l) ==
    /\ \A t \in Tickets : l[t] > 0 => kind[t] # "unused" /\ own[t] \in s.jobs[l[t]].of
    /\ s.scope = "listed" /\ s.submit = "none" => \E t \in Tickets : l[t] > 0
    /\ s.scope = "all" => \A t \in Tickets : l[t] > 0 \/ kind[t] = "unused"
    /\ script = s /\ listed = l /\ before = kind
    /\ spc = IF s.reads = <<>> THEN "decide" ELSE "read"

ScriptInit ==
    /\ \E left \in [Tickets -> LeftTickets] :
          /\ kind = [t \in Tickets |-> left[t].kind]
          /\ own = [t \in Tickets |-> left[t].own]
          /\ attached = [t \in Tickets |-> left[t].attached]
          /\ store = [t \in Tickets |-> left[t].store]
    /\ closes = [t \in Tickets |-> NoTicket] /\ deal = [t \in Tickets |-> "none"] /\ late = {}
    /\ bad \in {B \in SUBSET Tickets : B = {} \/ "files" \in Hazards}
    /\ \A t \in bad : store[t] # "NONE"
    /\ pc = "idle" /\ op = "none" /\ target = NoTicket
    /\ local_open = {} /\ seen = {} /\ report = NoReport /\ base = NoSnapshot
    /\ tries = 0 /\ result = "none"
    /\ \E s \in Scripts : \E l \in [Tickets -> 0 .. Len(s.jobs)] : Launch(s, l)
    /\ at = 1 /\ snap = NoReads /\ todo = {} /\ verdict = "none"

ScriptTypeOK ==
    /\ script \in Scripts
    /\ spc \in {"read", "decide", "submitted", "act", "call", "adopted",
                "attach", "attached", "recheck", "again", "done", "dead"}
    /\ at \in 1 .. 5
    /\ listed \in [Tickets -> 0 .. 3]
    /\ snap \in [positions : SUBSET Tickets, orders : SUBSET Tickets,
                 deals : SUBSET Tickets, open : SUBSET Tickets]
    /\ todo \subseteq Tickets
    /\ verdict \in {"none", "PASSED", "FAILED", "ABORT", "error", "reported"}
    /\ before \in [Tickets -> Kinds]

Goes(p) == spc' = p /\ UNCHANGED <<script, at, listed, snap, todo, verdict, before>>

\* The script has printed its last line (or its traceback).
Finish(v) == spc' = "done" /\ verdict' = v /\ UNCHANGED <<script, at, listed, snap, todo, before>>

Over == {"done", "dead"}

Quiet == UNCHANGED <<brokerVars, store, bad, execVars>>

-----------------------------------------------------------------------------
(* Reading. *)

\* Positions with a closing deal (entry OUT) in the deal history.
ClosingDeals == {t \in Tickets : kind[t] = "closed" /\ own[t] # "artifact"}

\* Mutant: any deal of the ticket counts, its opening one too.
OutsAnyDeal == {t \in Tickets : kind[t] \in {"position", "closed"} /\ own[t] # "artifact"}

\* The outs of each ticket as the script finds them.
Outs == ClosingDeals

\* {p.ticket for p in get_positions()}.
LivePositions == Positions

\* One read; all_records() and lookup() raise on an unreadable file.
ReadTo(r, reads) ==
    \/ r = "positions" /\ reads = [snap EXCEPT !.positions = LivePositions]
    \/ r = "orders" /\ reads = [snap EXCEPT !.orders = Orders]
    \/ r = "store" /\ bad = {} /\ reads = [snap EXCEPT !.open = AllOpen(store)]
    \/ r = "other" /\ reads = snap
    \/ r = "lookup" /\ Targets \cap bad = {} /\ reads = snap
    \/ /\ r = "deals"
       /\ \E missed \in SUBSET Outs :
             /\ script.window = "covering" => missed = {}
             /\ script.window = "recent" => \A t \in missed : before[t] = "closed"
             /\ reads = [snap EXCEPT !.deals = Outs \ missed]

Advance(reads, after) ==
    /\ at' = IF at < Len(reads) THEN at + 1 ELSE 1
    /\ spc' = IF at < Len(reads) THEN spc ELSE after
    /\ UNCHANGED <<script, listed, todo, verdict, before>>

Read ==
    /\ spc = "read"
    /\ ReadTo(script.reads[at], snap')
    /\ Advance(script.reads, "decide")
    /\ Quiet

\* A read raises: nothing in main() catches it.
ReadFailed ==
    /\ spc \in {"read", "again", "recheck"}
    /\ Finish("error")
    /\ Quiet

\* Mutant: one ticket that fits the premise is enough.
PremiseForSome == Targets = {} \/ \E t \in Targets : View(t) \in JobOf(t).need

\* Every ticket is as the script's premise says.
Premise == \A t \in Targets : View(t) \in JobOf(t).need

Decide ==
    /\ spc = "decide"
    /\ \/ ~ Premise /\ Finish("ABORT") /\ Quiet
       \/ Premise /\ ~ script.writes /\ Finish("reported") /\ Quiet
       \/ /\ Premise /\ script.writes /\ script.submit = "none"
          /\ todo' = {t \in Targets : Act(t) # "leave"} /\ spc' = "act"
          /\ UNCHANGED <<script, at, listed, snap, verdict, before>>
          /\ Quiet
       \/ Premise /\ script.submit # "none" /\ Submit(script.submit) /\ Goes("submitted")

-----------------------------------------------------------------------------
(* Acting on the tickets: job by job, and CLOSED before CANCELLED. *)

Rank(t) == 2 * listed[t] + (IF Act(t) = "CANCELLED" THEN 1 ELSE 0)

MayAct(t) == spc = "act" /\ t \in todo /\ \A u \in todo : Rank(t) <= Rank(u)

\* An exception: caught per ticket, or the end of the script.
Raised(left) ==
    \/ ~ script.tolerant /\ Finish("error")
    \/ /\ script.tolerant /\ todo' = left /\ spc' = "act"
       /\ UNCHANGED <<script, at, listed, snap, verdict, before>>

ActOn(t, p) ==
    /\ todo' = todo \ {t} /\ spc' = p
    /\ UNCHANGED <<script, at, listed, snap, verdict, before>>

Record(t) ==
    /\ MayAct(t) /\ Act(t) \in TerminalStatuses
    /\ \/ LoadOne(bad, t) /\ store' = Transition(store, {t}, Act(t)) /\ ActOn(t, "act")
       \/ ~ LoadOne(bad, t) /\ UNCHANGED store /\ Raised(todo \ {t})
    /\ UNCHANGED <<brokerVars, bad, execVars>>

\* executor.cancel() or close_position(), one attempt.
Call(t) ==
    /\ MayAct(t) /\ Act(t) \in {"cancel", "close"}
    /\ Manage(Act(t), t)
    /\ ActOn(t, "call")

CallReturned ==
    /\ spc = "call" /\ pc = "idle"
    /\ \/ result \in {"ok", "rejected"} /\ Goes("act")
       \/ result \notin {"ok", "rejected"} /\ Raised(todo)
    /\ Quiet

\* record_manual_adoption() of an exact match, then its close.
AdoptTarget(t) ==
    /\ MayAct(t) /\ Act(t) = "adopt"
    /\ \/ store' = RecordManualAdoption(store, t) /\ bad' = bad \ {t} /\ Goes("adopted")
       \/ UNCHANGED <<store, bad>> /\ Finish("ABORT")       \* a mismatch
    /\ UNCHANGED <<brokerVars, execVars>>

CloseAdopted(t) ==
    /\ spc = "adopted" /\ t \in todo
    /\ Manage("close", t)
    /\ ActOn(t, "call")

\* result.ticket: set when the order was confirmed done.
GotTicket == result \in {"ok", "unverified"}

\* submit() returned: the smoke tests go on with the ticket they were given.
Submitted ==
    /\ spc = "submitted" /\ pc = "idle"
    /\ \/ /\ GotTicket
          /\ listed' = [t \in Tickets |-> IF t = target THEN 1 ELSE 0]
          /\ snap' = [NoReads EXCEPT !.open = {target}]
          /\ todo' = {target} /\ spc' = "act"
          /\ UNCHANGED <<script, at, verdict, before>>
       \/ ~ GotTicket /\ Finish("error")
    /\ Quiet

-----------------------------------------------------------------------------
(* retry_sltp: one modify_position() of its own, then a look at the result. *)

\* Returns when the position shows stops already or the price is past one.
AttachStart(t) ==
    /\ MayAct(t) /\ Act(t) = "attach"
    /\ Goes("attach") \/ Finish("ABORT")
    /\ Quiet

AttachCall(t) ==
    /\ spc = "attach" /\ t \in todo
    /\ \/ /\ CanServe("modify_position", t)
          /\ \E exact \in BOOLEAN : Serve("modify_position", t, exact)
          /\ Goes("attached")
          /\ UNCHANGED <<own, closes, deal, late, store, bad, execVars>>
       \/ (Finish("FAILED") \/ Finish("error")) /\ Quiet    \* not done, or it raised

AttachAnswer ==
    /\ spc = "attached"
    /\ Goes("recheck") \/ Finish("error")
    /\ Quiet

\* Mutant: the done retcode is enough.
StopsSeenByRetcode(t) == TRUE

\* The position is re-read with the intended stops.
StopsSeen(t) == t \in Positions /\ attached[t]

AttachRecheck(t) ==
    /\ spc = "recheck" /\ t \in todo
    /\ \/ StopsSeen(t) /\ LoadOne(bad, t) /\ store' = MarkSlTpAttached(store, t) /\ Finish("PASSED")
       \/ StopsSeen(t) /\ ~ LoadOne(bad, t) /\ UNCHANGED store /\ Finish("error")
       \/ ~ StopsSeen(t) /\ UNCHANGED store /\ Finish("FAILED")
    /\ UNCHANGED <<brokerVars, bad, execVars>>

-----------------------------------------------------------------------------
(* The last reads and the verdict. *)

ActsDone ==
    /\ spc = "act" /\ todo = {}
    /\ \/ script.again # <<>> /\ Goes("again")
       \/ script.again = <<>> /\ Finish("reported")
    /\ Quiet

\* Mutant: nobody looks again.
ResolvedUnseen(t) == TRUE

\* The ticket is where the script wanted it.
Resolved(t) ==
    CASE JobOf(t).done = "no_position" -> t \notin snap'.positions
      [] JobOf(t).done = "no_order"    -> t \notin snap'.orders
      [] JobOf(t).done = "not_live"    -> t \notin snap'.positions \cup snap'.orders
      [] JobOf(t).done = "recorded"    -> store[t] = Act(t)

ReadAgain ==
    /\ spc = "again"
    /\ ReadTo(script.again[at], snap')
    /\ IF at < Len(script.again)
       THEN Advance(script.again, "done")
       ELSE /\ spc' = "done" /\ at' = 1
            /\ verdict' = IF \E t \in Targets : JobOf(t).done = "unchecked" THEN "reported"
                          ELSE IF \A t \in Targets : Resolved(t) THEN "PASSED" ELSE "FAILED"
            /\ UNCHANGED <<script, listed, todo, before>>
    /\ Quiet

\* The process is killed, with the executor's call it may be waiting for.
ScriptCrash ==
    /\ spc \notin Over
    /\ \/ pc # "idle" /\ Crash
       \/ pc = "idle" /\ Quiet
    /\ spc' = "dead" /\ at' = 1 /\ snap' = NoReads /\ todo' = {} /\ verdict' = "none"
    /\ UNCHANGED <<script, listed, before>>

-----------------------------------------------------------------------------

ScriptStep ==
    \/ Read \/ ReadFailed \/ Decide \/ CallReturned \/ Submitted
    \/ AttachAnswer \/ ActsDone \/ ReadAgain
    \/ \E t \in Tickets :
          \/ Record(t) \/ Call(t) \/ AdoptTarget(t) \/ CloseAdopted(t)
          \/ AttachStart(t) \/ AttachCall(t) \/ AttachRecheck(t)
    \/ Step /\ UNCHANGED scriptVars

ScriptNext ==
    \/ ScriptStep
    \/ ScriptCrash
    \/ spc \notin Over /\ Environment /\ UNCHANGED scriptVars

ScriptSpec == ScriptInit /\ [][ScriptNext]_allVars

-----------------------------------------------------------------------------
(* Properties. *)

\* Still the same live thing as when the script started.
Steady(t) == Live(t) /\ kind[t] = before[t]

\* Its first reads are complete.
HasRead == spc \notin {"read", "dead"} /\ verdict # "error"

\* No script writes a live ticket off: a record becomes terminal only if the
\* ticket is gone or has changed since the script started.
SparesLive ==
    [][\A t \in Tickets : store'[t] # store[t] /\ store'[t] \in TerminalStatuses => ~ Steady(t)]_allVars

\* On the evidence of a deal, CLOSED means closed, however the fill and the
\* close fall between the script's reads, and also for the reports.
ClosedNeedsDeal ==
    HasRead /\ script.window # "none"
        => \A t \in Targets : Act(t) = "CLOSED" => kind[t] = "closed"

\* PASSED: what was a position when the script started, and is on its list, is
\* closed by now.
PassedIsGone ==
    verdict = "PASSED" /\ script # RetrySltp171979510
        => \A t \in Targets : before[t] = "position" => kind[t] = "closed"

-----------------------------------------------------------------------------
(* The inductive invariant behind them; proved in OperatorScriptsProofs.   *)

\* The executor, run by a script: types, control, account and records, but not
\* ClosedIsClosed, since the rows of IfAllAbsent record CLOSED on absence alone.
ExecutorInv ==
    /\ TypeOK /\ OpInv /\ BrokerInv /\ WrittenInv
    /\ op # "reconcile"
    /\ result \in {"ok", "unverified"} => target \in Tickets
    /\ \A t \in Tickets : own[t] = "MARKET" => kind[t] # "pending"
    /\ script.submit = "none" =>
          /\ op \notin {"LIMIT", "MARKET"}
          /\ \A t \in Tickets : own[t] = "MARKET" => store[t] # "NONE"

\* What a ticket was at the start limits what it can be by now.
ForwardInv ==
    \A t \in Tickets :
        /\ before[t] = "position" => kind[t] \in {"position", "closed"}
        /\ before[t] = "pending" => kind[t] \in {"pending", "position", "cancelled", "closed"}

\* The states in which the script works on its list, with the reads it decided on.
Acting == {"act", "call", "adopted", "attach", "attached", "recheck"}

\* The list: tickets of the kinds it names, once they exist.
ListInv ==
    /\ \A t \in Tickets :
          /\ listed[t] \in 0 .. Len(script.jobs)
          /\ script.submit = "none" /\ listed[t] > 0
                => own[t] \in JobOf(t).of /\ kind[t] \notin {"unused", "late"}
    /\ todo \subseteq Targets /\ (spc \in {"read", "decide", "submitted"} => todo = {})
    /\ spc = "submitted" => script.submit # "none"
    /\ spc \notin {"read", "again", "done"} => at = 1
    /\ spc = "again" => at \in 1 .. Len(script.again)
    /\ spc \notin Over => verdict = "none"
    /\ spc \notin {"submitted", "call"} \cup Over => pc = "idle"
    /\ spc \in {"attach", "attached", "recheck"} => script = RetrySltp171979510

\* The read r has been made.
ReadSoFar(r) == \E i \in 1 .. Len(script.reads) : script.reads[i] = r /\ (spc = "read" => i < at)

\* What the reads cannot have missed, and what they cannot have made up.
ReadInv ==
    /\ spc \in {"read", "decide"} \cup Acting /\ script.submit = "none" =>
          \A t \in Tickets : Steady(t) =>
              /\ kind[t] = "position" /\ ReadSoFar("positions") => t \in snap.positions
              /\ kind[t] = "pending" /\ ReadSoFar("orders") => t \in snap.orders
    /\ spc = "again" /\ (\E i \in 1 .. Len(script.again) : i < at /\ script.again[i] = "positions") =>
          \A t \in Tickets : Steady(t) /\ kind[t] = "position" => t \in snap.positions
    /\ \A t \in snap.deals : kind[t] = "closed"
    /\ \A t \in snap.orders : before[t] # "position"

\* What the decision rests on: the premise held for these reads, and where the
\* last look does not ask for positions, none of them still is one.
DecidedInv ==
    /\ spc \in Acting /\ script.submit = "none" => Premise
    /\ spc \in Acting \cup {"again"} /\ script.submit = "none" =>
          \A t \in Targets : JobOf(t).done \in {"no_order", "recorded"} /\ before[t] = "position"
                                => kind[t] = "closed"

ScriptInv ==
    /\ ScriptTypeOK /\ ExecutorInv /\ ForwardInv /\ ListInv /\ ReadInv /\ DecidedInv
    /\ PassedIsGone

=============================================================================
