----------------------- MODULE OperatorScriptsProofs -----------------------
(***************************************************************************)
(* Proofs about OperatorScripts for every selection of rows of the table,  *)
(* every set of tickets, operations and disturbances.  The executor's own  *)
(* lemmas (OrderExecutorProofs) carry over, since a script's step is a     *)
(* step of the executor, or a write to a record, or one attachment call.   *)
(***************************************************************************)
EXTENDS OperatorScripts, OrderExecutorProofs

USE DEF brokerVars, checkVars, snapVars, callVars, vars, execVars, scriptVars, allVars

-----------------------------------------------------------------------------
(* The table. *)

ReadsIt(s, r) == \E i \in 1 .. Len(s.reads) : s.reads[i] = r
LooksAgain(s, r) == \E i \in 1 .. Len(s.again) : s.again[i] = r

\* A record is written off only on a view that both live reads exclude, after
\* both of them; on a deal if deals are asked for.
ActOK(s, j, v) ==
    /\ j.act[v] \in TerminalStatuses =>
          /\ s.submit = "none"
          /\ v \in j.need =>
                /\ ReadsIt(s, "positions") /\ ReadsIt(s, "orders")
                /\ v \in {"dealt", "gone"} \/ (j.of = {"MARKET"} /\ v # "position")
    /\ s.window # "none" /\ j.act[v] = "CLOSED" => v = "dealt"
    /\ j.act[v] = "attach" => s = RetrySltp171979510 /\ s.submit = "none"
    /\ j.act[v] = "adopt" => s.submit = "none" /\ j.of = {"foreign"}

\* Each kind of final test looks at what it needs.
DoneOK(s, j) ==
    /\ j.done \in {"no_position", "no_order", "not_live", "recorded", "unchecked"}
    /\ j.done \in {"no_position", "not_live"} => LooksAgain(s, "positions")
    /\ j.done = "no_order" => j.need = {"order"} /\ s.submit = "none"
    /\ j.done = "recorded" => "position" \notin j.need /\ ReadsIt(s, "positions") /\ s.submit = "none"

RowOK(s) ==
    /\ s.submit \in {"none", "LIMIT", "MARKET"}
    /\ Len(s.reads) \in 0 .. 5 /\ Len(s.again) \in 0 .. 5 /\ Len(s.jobs) \in 1 .. 3
    /\ s.again # <<>> => Len(s.again) > 0
    /\ \A i \in 1 .. Len(s.again) : s.again[i] \in {"positions", "orders", "lookup"}
    /\ \A i \in 1 .. Len(s.jobs) : DoneOK(s, s.jobs[i]) /\ \A v \in Views : ActOK(s, s.jobs[i], v)

\* Every row of the table is made like this.
LEMMA RowsOK == ASSUME NEW s \in Scripts PROVE RowOK(s)
<1> USE DEF RowOK, DoneOK, ActOK, ReadsIt, LooksAgain, TerminalStatuses, Views, LiveViews, Owners,
            Script, ReportOnly, JobOn, Job, Always
<1>1. CASE s = Reconcile20260807Leftovers
  <2> USE <1>1 DEF Reconcile20260807Leftovers, ByDealHistory, ByDeals
  <2>1. Len(s.reads) = 4 /\ Len(s.again) = 0 /\ Len(s.jobs) = 1 /\ s.submit = "none"
        /\ (s.again # <<>> => Len(s.again) > 0)
    OBVIOUS
  <2>2. ReadsIt(s, "positions") /\ ReadsIt(s, "orders")
    BY <2>1
  <2>3. DoneOK(s, s.jobs[1])
    BY <2>2
  <2>4. \A v \in Views : ActOK(s, s.jobs[1], v)
    BY <2>2
  <2>5. \A i \in 1 .. Len(s.again) : s.again[i] \in {"positions", "orders", "lookup"}
    BY <2>1
  <2> QED
    <3> HIDE DEF DoneOK, ActOK, Reconcile20260807Leftovers, ByDealHistory, ByDeals, Script, JobOn, Job
    <3> QED
      BY <2>1, <2>3, <2>4, <2>5 DEF RowOK
<1>2. CASE s = Reconcile20260813Backlog
  <2> USE <1>2 DEF Reconcile20260813Backlog, ByDealHistory, ByDeals
  <2>1. Len(s.reads) = 4 /\ Len(s.again) = 0 /\ Len(s.jobs) = 1 /\ s.submit = "none"
        /\ (s.again # <<>> => Len(s.again) > 0)
    OBVIOUS
  <2>2. ReadsIt(s, "positions") /\ ReadsIt(s, "orders")
    BY <2>1
  <2>3. DoneOK(s, s.jobs[1])
    BY <2>2
  <2>4. \A v \in Views : ActOK(s, s.jobs[1], v)
    BY <2>2
  <2>5. \A i \in 1 .. Len(s.again) : s.again[i] \in {"positions", "orders", "lookup"}
    BY <2>1
  <2> QED
    <3> HIDE DEF DoneOK, ActOK, Reconcile20260813Backlog, ByDealHistory, ByDeals, Script, JobOn, Job
    <3> QED
      BY <2>1, <2>3, <2>4, <2>5 DEF RowOK
<1>3. CASE s = Check20260811LunchPreflight
  <2> USE <1>3 DEF Check20260811LunchPreflight, ByDealHistory, ByDeals
  <2>1. Len(s.reads) = 4 /\ Len(s.again) = 0 /\ Len(s.jobs) = 1 /\ s.submit = "none"
        /\ (s.again # <<>> => Len(s.again) > 0)
    OBVIOUS
  <2>2. ReadsIt(s, "positions") /\ ReadsIt(s, "orders")
    BY <2>1
  <2>3. DoneOK(s, s.jobs[1])
    BY <2>2
  <2>4. \A v \in Views : ActOK(s, s.jobs[1], v)
    BY <2>2
  <2>5. \A i \in 1 .. Len(s.again) : s.again[i] \in {"positions", "orders", "lookup"}
    BY <2>1
  <2> QED
    <3> HIDE DEF DoneOK, ActOK, Check20260811LunchPreflight, ByDealHistory, ByDeals, Script, JobOn, Job
    <3> QED
      BY <2>1, <2>3, <2>4, <2>5 DEF RowOK
<1>4. CASE s = CheckKillswitchSmokeTestPostStop
  <2> USE <1>4 DEF CheckKillswitchSmokeTestPostStop, ByDealHistory, ByDeals
  <2>1. Len(s.reads) = 4 /\ Len(s.again) = 0 /\ Len(s.jobs) = 1 /\ s.submit = "none"
        /\ (s.again # <<>> => Len(s.again) > 0)
    OBVIOUS
  <2>2. ReadsIt(s, "positions") /\ ReadsIt(s, "orders")
    BY <2>1
  <2>3. DoneOK(s, s.jobs[1])
    BY <2>2
  <2>4. \A v \in Views : ActOK(s, s.jobs[1], v)
    BY <2>2
  <2>5. \A i \in 1 .. Len(s.again) : s.again[i] \in {"positions", "orders", "lookup"}
    BY <2>1
  <2> QED
    <3> HIDE DEF DoneOK, ActOK, CheckKillswitchSmokeTestPostStop, ByDealHistory, ByDeals, Script, JobOn, Job
    <3> QED
      BY <2>1, <2>3, <2>4, <2>5 DEF RowOK
<1>5. CASE s = Step25ReconcileLeftoverTickets
  <2> USE <1>5 DEF Step25ReconcileLeftoverTickets, IfAllAbsent
  <2>1. Len(s.reads) = 3 /\ Len(s.again) = 1 /\ Len(s.jobs) = 1 /\ s.submit = "none"
        /\ (s.again # <<>> => Len(s.again) > 0)
    OBVIOUS
  <2>2. ReadsIt(s, "positions") /\ ReadsIt(s, "orders")
    BY <2>1
  <2>3. DoneOK(s, s.jobs[1])
    BY <2>2
  <2>4. \A v \in Views : ActOK(s, s.jobs[1], v)
    BY <2>2
  <2>5. \A i \in 1 .. Len(s.again) : s.again[i] \in {"positions", "orders", "lookup"}
    BY <2>1
  <2> QED
    <3> HIDE DEF DoneOK, ActOK, Step25ReconcileLeftoverTickets, IfAllAbsent, Script, JobOn, Job
    <3> QED
      BY <2>1, <2>3, <2>4, <2>5 DEF RowOK
<1>6. CASE s = ReconcileManualCancel5GridOrders
  <2> USE <1>6 DEF ReconcileManualCancel5GridOrders, IfAllAbsent
  <2>1. Len(s.reads) = 3 /\ Len(s.again) = 1 /\ Len(s.jobs) = 1 /\ s.submit = "none"
        /\ (s.again # <<>> => Len(s.again) > 0)
    OBVIOUS
  <2>2. ReadsIt(s, "positions") /\ ReadsIt(s, "orders")
    BY <2>1
  <2>3. DoneOK(s, s.jobs[1])
    BY <2>2
  <2>4. \A v \in Views : ActOK(s, s.jobs[1], v)
    BY <2>2
  <2>5. \A i \in 1 .. Len(s.again) : s.again[i] \in {"positions", "orders", "lookup"}
    BY <2>1
  <2> QED
    <3> HIDE DEF DoneOK, ActOK, ReconcileManualCancel5GridOrders, IfAllAbsent, Script, JobOn, Job
    <3> QED
      BY <2>1, <2>3, <2>4, <2>5 DEF RowOK
<1>7. CASE s = ReconcileStep30Run
  <2> USE <1>7 DEF ReconcileStep30Run
  <2>1. Len(s.reads) = 2 /\ Len(s.again) = 0 /\ Len(s.jobs) = 2 /\ s.submit = "none"
        /\ (s.again # <<>> => Len(s.again) > 0)
    OBVIOUS
  <2>2. ReadsIt(s, "positions") /\ ReadsIt(s, "orders")
    BY <2>1
  <2>3. DoneOK(s, s.jobs[1])
    BY <2>2
  <2>4. \A v \in Views : ActOK(s, s.jobs[1], v)
    BY <2>2
  <2>5. DoneOK(s, s.jobs[2])
    BY <2>2
  <2>6. \A v \in Views : ActOK(s, s.jobs[2], v)
    BY <2>2
  <2>7. \A i \in 1 .. Len(s.again) : s.again[i] \in {"positions", "orders", "lookup"}
    BY <2>1
  <2> QED
    <3> HIDE DEF DoneOK, ActOK, ReconcileStep30Run, Script, JobOn, Job
    <3> QED
      BY <2>1, <2>3, <2>4, <2>5, <2>6, <2>7 DEF RowOK
<1>8. CASE s = CancelPipelineCycleOrders
  BY <1>8 DEF CancelPipelineCycleOrders, CancelListed
<1>9. CASE s = CloseUnprotectedRunnerPosition
  BY <1>9 DEF CloseUnprotectedRunnerPosition, CloseUnprotected
<1>10. CASE s = Close171979510
  BY <1>10 DEF Close171979510
<1>11. CASE s = ClosePipelineOpenItems
  <2> USE <1>11 DEF ClosePipelineOpenItems
  <2>1. Len(s.reads) = 3 /\ Len(s.again) = 3 /\ Len(s.jobs) = 3 /\ s.submit = "none"
        /\ (s.again # <<>> => Len(s.again) > 0)
    OBVIOUS
  <2>2. ReadsIt(s, "positions") /\ ReadsIt(s, "orders") /\ LooksAgain(s, "positions")
    BY <2>1
  <2>3. DoneOK(s, s.jobs[1])
    BY <2>2
  <2>4. \A v \in Views : ActOK(s, s.jobs[1], v)
    BY <2>2
  <2>5. DoneOK(s, s.jobs[2])
    BY <2>2
  <2>6. \A v \in Views : ActOK(s, s.jobs[2], v)
    BY <2>2
  <2>7. DoneOK(s, s.jobs[3])
    BY <2>2
  <2>8. \A v \in Views : ActOK(s, s.jobs[3], v)
    BY <2>2
  <2>9. \A i \in 1 .. Len(s.again) : s.again[i] \in {"positions", "orders", "lookup"}
    BY <2>1
  <2> QED
    <3> HIDE DEF DoneOK, ActOK, ClosePipelineOpenItems, Script, JobOn, Job
    <3> QED
      BY <2>1, <2>3, <2>4, <2>5, <2>6, <2>7, <2>8, <2>9 DEF RowOK
<1>12. CASE s = CloseStep19GridTickets
  <2> USE <1>12 DEF CloseStep19GridTickets
  <2>1. Len(s.reads) = 3 /\ Len(s.again) = 3 /\ Len(s.jobs) = 2 /\ s.submit = "none"
        /\ (s.again # <<>> => Len(s.again) > 0)
    OBVIOUS
  <2>2. ReadsIt(s, "positions") /\ ReadsIt(s, "orders")
    BY <2>1
  <2>3. DoneOK(s, s.jobs[1])
    BY <2>2
  <2>4. \A v \in Views : ActOK(s, s.jobs[1], v)
    BY <2>2
  <2>5. DoneOK(s, s.jobs[2])
    BY <2>2
  <2>6. \A v \in Views : ActOK(s, s.jobs[2], v)
    BY <2>2
  <2>7. \A i \in 1 .. Len(s.again) : s.again[i] \in {"positions", "orders", "lookup"}
    BY <2>1
  <2> QED
    <3> HIDE DEF DoneOK, ActOK, CloseStep19GridTickets, Script, JobOn, Job
    <3> QED
      BY <2>1, <2>3, <2>4, <2>5, <2>6, <2>7 DEF RowOK
<1>13. CASE s = CleanupLoopRun
  <2> USE <1>13 DEF CleanupLoopRun
  <2>1. Len(s.reads) = 2 /\ Len(s.again) = 3 /\ Len(s.jobs) = 1 /\ s.submit = "none"
        /\ (s.again # <<>> => Len(s.again) > 0)
    OBVIOUS
  <2>2. ReadsIt(s, "positions") /\ ReadsIt(s, "orders") /\ LooksAgain(s, "positions")
    BY <2>1
  <2>3. DoneOK(s, s.jobs[1])
    BY <2>2
  <2>4. \A v \in Views : ActOK(s, s.jobs[1], v)
    BY <2>2
  <2>5. \A i \in 1 .. Len(s.again) : s.again[i] \in {"positions", "orders", "lookup"}
    BY <2>1
  <2> QED
    <3> HIDE DEF DoneOK, ActOK, CleanupLoopRun, Script, JobOn, Job
    <3> QED
      BY <2>1, <2>3, <2>4, <2>5 DEF RowOK
<1>14. CASE s = RetrySltp171979510
  BY <1>14 DEF RetrySltp171979510
<1>15. CASE s = CloseSmokeTest
  BY <1>15 DEF CloseSmokeTest
<1>16. CASE s = SmokeTest
  BY <1>16 DEF SmokeTest
<1>17. CASE s = MarketSmokeTest
  BY <1>17 DEF MarketSmokeTest
<1>18. CASE s = LoopRunStatusCheck
  BY <1>18 DEF LoopRunStatusCheck, StatusReport
<1>19. CASE s = Check20260807PreStep7ResumeState
  BY <1>19 DEF Check20260807PreStep7ResumeState, StatusReport
<1>20. CASE s = CheckStep5SmokeTestState
  BY <1>20 DEF CheckStep5SmokeTestState, StatusReport
<1>21. CASE s = ProbeGetDealsGap
  BY <1>21 DEF ProbeGetDealsGap, StatusReport
<1>22. CASE s = InvestigateTicket171909600
  BY <1>22 DEF InvestigateTicket171909600, InvestigateTicket, StatusReport
<1> QED
  BY <1>1, <1>2, <1>3, <1>4, <1>5, <1>6, <1>7, <1>8, <1>9, <1>10, <1>11, <1>12, <1>13, <1>14, <1>15, <1>16, <1>17, <1>18, <1>19, <1>20, <1>21, <1>22, ScriptsAssumption
     DEF AllScripts

-----------------------------------------------------------------------------
(* The executor and the account under a script. *)

\* The owner of an order is settled when it exists.
LEMMA OwnStep ==
  ASSUME TypeOK, OpInv, BrokerInv, [Next]_vars, NEW t \in Tickets
  PROVE  /\ kind[t] \notin {"unused", "late"} =>
               own'[t] = own[t] /\ kind'[t] \notin {"unused", "late"}
         /\ own[t] # "MARKET" /\ own'[t] = "MARKET" => op = "MARKET"
         /\ (own[t] = "MARKET" => kind[t] # "pending") => (own'[t] = "MARKET" => kind'[t] # "pending")
<1> USE TicketsAssumption DEF BrokerInv, OpInv, TypeOK, BrokerTypeOK
<1>1. CASE UNCHANGED <<kind, own>>
  BY <1>1
<1>2. CASE \E u \in Tickets : PlaceServed(u)
  BY <1>2 DEF PlaceServed, OpenTicket
<1>3. CASE ModifyServed
  BY <1>3 DEF ModifyServed, Serve
<1>4. CASE ActServed
  BY <1>4 DEF ActServed, CanServe, Serve, Tool
<1>5. CASE RequestLost
  BY <1>5 DEF RequestLost, RequestOverdue
<1>6. CASE Crash
  BY <1>6 DEF Crash, RequestOverdue
<1>7. CASE Environment /\ Market
  BY <1>7 DEF Environment, Market, Fill
<1>8. CASE Environment /\ (\E u \in Tickets : ManualOpen(u))
  BY <1>8 DEF Environment, ManualOpen
<1>9. CASE Environment /\ (\E u \in Tickets : ManualRemove(u))
  BY <1>9 DEF Environment, ManualRemove, Live
<1>10. CASE Environment /\ (\E p, a \in Tickets : StopTriggers(p, a))
  BY <1>10 DEF Environment, StopTriggers
<1>11. CASE Environment /\ (\E a \in Tickets : StopDeal(a))
  BY <1>11 DEF Environment, StopDeal
<1>12. CASE Environment /\ (\E a \in Tickets : ArtifactSettles(a))
  BY <1>12 DEF Environment, ArtifactSettles
<1>13. CASE Environment /\ (\E u \in Tickets : LateOpen(u))
  BY <1>13 DEF Environment, LateOpen, OpenTicket
<1>14. CASE Environment /\ (\E u \in Tickets : LateOpenDropped(u))
  BY <1>14 DEF Environment, LateOpenDropped
<1>15. CASE Environment /\ (\E c \in late : LateCall(c))
  <2>1. PICK c \in late : LateCall(c)
    BY <1>15
  <2> QED
    BY <2>1, LateCallEffect
<1> QED
  BY <1>1, <1>2, <1>3, <1>4, <1>5, <1>6, <1>7, <1>8, <1>9, <1>10, <1>11, <1>12, <1>13,
     <1>14, <1>15, NextActions
     DEF Submit, Manage, ReconcileStart, LoadFails, LoadLocal, ReadPositions, ReadOrders,
         ExplainUnknownReal, DealsUnavailable, DecideSubmit, DecideManage, CheckVolume,
         PlaceRejected, RecordPlaced, VerifyPlaced, ModifyRejected, ModifyDone, VerifySlTp,
         ActRejected, ActDone, ConfirmAct, ReadRaises, AnswerLost, ReconcileReadOrders,
         ReconcileLeftovers, Adopt, Corrupt, Repair

\* A call that returned a ticket has one.
LEMMA ResultStep ==
  ASSUME TypeOK, OpInv, [Next]_vars, op # "reconcile",
         result \in {"ok", "unverified"} => target \in Tickets
  PROVE  result' \in {"ok", "unverified"} => target' \in Tickets
<1> USE DEF OpInv, End, Goto, Proceed, ForgetCheck
<1>1. CASE VerifyPlaced
  BY <1>1 DEF VerifyPlaced
<1>2. CASE VerifySlTp
  BY <1>2 DEF VerifySlTp
<1>3. CASE ConfirmAct
  BY <1>3 DEF ConfirmAct
<1>4. CASE \E t \in Tickets : PlaceServed(t)
  BY <1>4 DEF PlaceServed
<1> QED
  BY <1>1, <1>2, <1>3, <1>4, NextActions
     DEF Submit, Manage, ReconcileStart, LoadFails, LoadLocal, ReadPositions, ReadOrders,
         ExplainUnknownReal, DealsUnavailable, DecideSubmit, DecideManage, CheckVolume,
         PlaceRejected, RecordPlaced, ModifyServed, ModifyRejected, ModifyDone, ActServed,
         ActRejected, ActDone, ReadRaises, AnswerLost, RequestLost, ReconcileReadOrders,
         ReconcileLeftovers, Crash, Adopt, Corrupt, Repair, Environment

\* The steps of a script that are not steps of the executor.
OwnWrites == \E t \in Tickets : Record(t) \/ AdoptTarget(t) \/ AttachCall(t) \/ AttachRecheck(t)

\* All others are, and only Decide and Call start an operation.
LEMMA ExecutorMoves ==
  ASSUME [ScriptNext]_allVars, ~ OwnWrites
  PROVE  /\ [Next]_vars
         /\ op' = op \/ op' \in {"cancel", "close"} \/ (op' = script.submit /\ script.submit # "none")
<1>1. CASE Quiet
  BY <1>1 DEF Quiet
<1>2. CASE Step \/ Crash \/ Environment
  <2>1. [Next]_vars
    BY <1>2 DEF Next
  <2>2. op' = op
    BY <1>2 DEF Step, LoadFails, LoadLocal, ReadPositions, ReadOrders,
         ExplainUnknownReal, DealsUnavailable, DecideSubmit, DecideManage, CheckVolume,
         PlaceServed, PlaceRejected, RecordPlaced, VerifyPlaced, ModifyServed,
         ModifyRejected, ModifyDone, VerifySlTp, ActServed, ActRejected, ActDone,
         ConfirmAct, ReadRaises, AnswerLost, RequestLost, ReconcileReadOrders,
         ReconcileLeftovers, Crash, Environment, End, Goto, Proceed
  <2> QED
    BY <2>1, <2>2
<1>3. CASE script.submit # "none" /\ Submit(script.submit)
  <2>1. script.submit \in Ops
    BY <1>3 DEF Submit
  <2>2. Next
    BY <1>3, <2>1 DEF Next, Start
  <2> QED
    BY <1>3, <2>2 DEF Submit
<1>4. CASE \E t \in Tickets : \E o \in {"cancel", "close"} : Manage(o, t)
  <2>1. PICK t \in Tickets, o \in {"cancel", "close"} : Manage(o, t)
    BY <1>4
  <2>2. o \in Ops
    BY <2>1 DEF Manage
  <2>3. Next
    BY <2>1, <2>2 DEF Next, Start
  <2> QED
    BY <2>1, <2>3 DEF Manage
<1>5. CASE UNCHANGED allVars
  BY <1>5
<1>6. CASE \E t \in Tickets : AttachStart(t)
  BY <1>1, <1>6 DEF AttachStart
<1>7. CASE \E t \in Tickets : Call(t) \/ CloseAdopted(t)
  BY <1>4, <1>7 DEF Call, CloseAdopted
<1>8. CASE Decide
  BY <1>1, <1>3, <1>8 DEF Decide
<1>9. CASE Read \/ ReadFailed \/ CallReturned \/ Submitted \/ AttachAnswer \/ ActsDone \/ ReadAgain
  BY <1>1, <1>9 DEF Read, ReadFailed, CallReturned, Submitted, AttachAnswer, ActsDone, ReadAgain
<1>10. CASE ScriptCrash
  BY <1>1, <1>2, <1>10 DEF ScriptCrash
<1> QED
  BY <1>2, <1>5, <1>6, <1>7, <1>8, <1>9, <1>10 DEF ScriptNext, ScriptStep, OwnWrites

\* What a script's list is about stays the same while it runs; it changes only
\* with the order a smoke test has placed.
LEMMA ScriptStands ==
  ASSUME [ScriptNext]_allVars
  PROVE  script' = script /\ before' = before
BY DEF ScriptNext, ScriptStep, Read, ReadFailed, Decide, CallReturned, Submitted, AttachAnswer,
       ActsDone, ReadAgain, Record, Call, AdoptTarget, CloseAdopted, AttachStart, AttachCall,
       AttachRecheck, ScriptCrash, Advance, Finish, Goes, Raised, ActOn

\* The rows' names of positions and orders are what the account knows.
LEMMA RowOf ==
  ASSUME ScriptTypeOK, ListInv, NEW t \in Tickets, listed[t] > 0
  PROVE  /\ RowOK(script)
         /\ DoneOK(script, JobOf(t))
         /\ View(t) \in Views /\ \A v \in Views : ActOK(script, JobOf(t), v)
<1>1. RowOK(script)
  BY RowsOK DEF ScriptTypeOK
<1>2. listed[t] \in 1 .. Len(script.jobs)
  BY <1>1 DEF ListInv, RowOK, ScriptTypeOK
<1>3. View(t) \in Views
  BY DEF View, Views
<1> QED
  BY <1>1, <1>2, <1>3 DEF RowOK, JobOf

\* A script's own writes touch no ticket's kind and owner.
LEMMA WritesLeaveKinds ==
  ASSUME TypeOK, OwnWrites
  PROVE  UNCHANGED <<kind, own, closes, deal, late, execVars>>
<1> USE DEF TypeOK, BrokerTypeOK
<1>1. ASSUME NEW t \in Tickets, AttachCall(t)
      PROVE  UNCHANGED <<kind, own, closes, deal, late, execVars>>
  BY <1>1 DEF AttachCall, Serve, Quiet
<1>2. ASSUME NEW t \in Tickets, Record(t) \/ AdoptTarget(t) \/ AttachRecheck(t)
      PROVE  UNCHANGED <<kind, own, closes, deal, late, execVars>>
  BY <1>2 DEF Record, AdoptTarget, AttachRecheck
<1> QED
  BY <1>1, <1>2 DEF OwnWrites

\* On the account every ticket moves forward only and keeps its owner.
LEMMA AccountStep ==
  ASSUME ExecutorInv, [ScriptNext]_allVars, NEW t \in Tickets
  PROVE  /\ kind[t] \in {"cancelled", "closed"} => kind'[t] = kind[t]
         /\ kind[t] = "position" => kind'[t] \in {"position", "closed"}
         /\ kind[t] = "pending" => kind'[t] \in {"pending", "position", "cancelled", "closed"}
         /\ kind[t] \notin {"unused", "late"} =>
               own'[t] = own[t] /\ kind'[t] \notin {"unused", "late"}
<1>1. CASE OwnWrites
  BY <1>1, WritesLeaveKinds DEF ExecutorInv
<1>2. CASE ~ OwnWrites
  BY <1>2, ExecutorMoves, KindStep, OwnStep DEF ExecutorInv
<1> QED
  BY <1>1, <1>2

\* A write that closes a record, or opens that of a ticket which may be open,
\* leaves the records true.
LEMMA WrittenKept ==
  ASSUME TypeOK, WrittenInv, pc = "idle", UNCHANGED <<kind, own, attached, late, execVars>>,
         \A u \in Tickets :
            \/ store'[u] = store[u]
            \/ store[u] # "NONE" /\ store'[u] \in {"CANCELLED", "CLOSED"}
            \/ /\ kind[u] \notin {"unused", "late"} /\ (own[u] # "MARKET" \/ attached[u])
               /\ store'[u] = "OPEN"
  PROVE  WrittenInv'
<1>1. \A t \in Tickets :
         /\ kind'[t] \in {"unused", "late"} => store'[t] = "NONE"
         /\ store'[t] = "OPEN" /\ own'[t] = "MARKET" => attached'[t]
         /\ own'[t] = "MARKET" /\ attached'[t] => store'[t] # "NONE"
  BY DEF WrittenInv
<1>2. \A c \in late' : c.tool = "modify_position" => store'[c.ticket] # "NONE"
  BY DEF WrittenInv, TypeOK, BrokerTypeOK, Calls
<1>3. pc' = "idle"
  OBVIOUS
<1> QED
  BY <1>1, <1>2, <1>3 DEF WrittenInv

\* The executor's part of the invariant.
LEMMA ExecutorStep ==
  ASSUME ScriptTypeOK, ExecutorInv, ListInv, [ScriptNext]_allVars
  PROVE  ExecutorInv'
<1> USE TicketsAssumption
<1>1. script' = script
  BY ScriptStands
<1>2. CASE ~ OwnWrites
  <2>1. /\ [Next]_vars /\ op' # "reconcile"
        /\ script.submit = "none" => op' \notin {"LIMIT", "MARKET"}
    <3>1. script.submit \in {"none", "LIMIT", "MARKET"}
      BY RowsOK DEF ScriptTypeOK, RowOK
    <3> QED
      BY <1>2, <3>1, ExecutorMoves DEF ExecutorInv
  <2>2. TypeOK' /\ OpInv' /\ BrokerInv' /\ WrittenInv'
    BY <2>1, TypeStep, BrokerStep, WrittenStep DEF ExecutorInv
  <2>3. result' \in {"ok", "unverified"} => target' \in Tickets
    BY <2>1, ResultStep DEF ExecutorInv
  <2>4. \A t \in Tickets : own'[t] = "MARKET" => kind'[t] # "pending"
    BY <2>1, OwnStep DEF ExecutorInv
  <2>5. script.submit = "none" => \A t \in Tickets : own'[t] = "MARKET" => store'[t] # "NONE"
    BY <2>1, OwnStep, RecordedStep DEF ExecutorInv
  <2> QED
    BY <1>1, <2>1, <2>2, <2>3, <2>4, <2>5 DEF ExecutorInv
<1>3. CASE OwnWrites
  <2> USE DEF ExecutorInv, TypeOK, BrokerTypeOK, OpInv, BrokerInv, WrittenInv
  <2>1. UNCHANGED <<kind, own, closes, deal, late, execVars>>
    BY <1>3, WritesLeaveKinds
  <2>2. CASE \E t \in Tickets : Record(t)
    <3>1. PICK t \in Tickets : Record(t)
      BY <2>2
    <3>2. /\ pc = "idle" /\ store' \in [Tickets -> Statuses] /\ bad' = bad /\ attached' = attached
          /\ \A u \in Tickets : store'[u] = store[u] \/ (store[u] # "NONE" /\ store'[u] \in TerminalStatuses)
      BY <3>1 DEF Record, MayAct, ListInv, Over, Transition, Statuses
    <3> USE <1>1, <2>1, <3>1, <3>2
    <3>5. TypeOK'
      BY DEF TerminalStatuses
    <3>6. OpInv'
      OBVIOUS
    <3>7. BrokerInv'
      OBVIOUS
    <3>8. WrittenInv'
      <4> HIDE DEF WrittenInv
      <4> QED
        BY WrittenKept DEF TerminalStatuses
    <3> QED
      BY <3>5, <3>6, <3>7, <3>8 DEF TerminalStatuses
  <2>3. CASE \E t \in Tickets : AdoptTarget(t)
    <3>1. PICK t \in Tickets : AdoptTarget(t)
      BY <2>3
    <3>2. pc = "idle" /\ listed[t] > 0 /\ Act(t) = "adopt"
      BY <3>1 DEF AdoptTarget, MayAct, ListInv, Targets, Over
    <3>3. own[t] = "foreign" /\ kind[t] \notin {"unused", "late"}
      BY <3>2, RowOf DEF ActOK, ListInv, Act
    <3>4. /\ attached' = attached /\ bad' \subseteq Tickets
          /\ store' = store \/ store' = [store EXCEPT ![t] = "OPEN"]
      BY <3>1 DEF AdoptTarget, RecordManualAdoption
    <3> USE <1>1, <2>1, <3>2, <3>3, <3>4
    <3>5. TypeOK'
      BY DEF Statuses, OpenStatuses
    <3>6. OpInv'
      OBVIOUS
    <3>7. BrokerInv'
      OBVIOUS
    <3>8. WrittenInv'
      <4>1. \A u \in Tickets : u # t => store'[u] = store[u]
        OBVIOUS
      <4>2. store'[t] = store[t] \/ (kind[t] \notin {"unused", "late"} /\ store'[t] = "OPEN")
        OBVIOUS
      <4> HIDE DEF WrittenInv
      <4> QED
        BY <4>1, <4>2, WrittenKept
    <3> QED
      BY <3>5, <3>6, <3>7, <3>8 DEF Statuses, OpenStatuses
  <2>4. CASE \E t \in Tickets : AttachCall(t)
    <3>1. PICK t \in Tickets : AttachCall(t)
      BY <2>4
    <3>2. pc = "idle" /\ script.submit = "none"
      BY <3>1 DEF AttachCall, ListInv, Over, RetrySltp171979510, Script
    <3>3. /\ store' = store /\ bad' = bad
          /\ \/ attached' = attached
             \/ /\ kind[t] = "position"
                /\ attached' \in [Tickets -> BOOLEAN]
                /\ \A u \in Tickets : u # t => attached'[u] = attached[u]
                /\ attached[t] => attached'[t]
      BY <3>1 DEF AttachCall, CanServe, Serve, Quiet
    <3> QED
      BY <1>1, <2>1, <3>2, <3>3
  <2>5. CASE \E t \in Tickets : AttachRecheck(t)
    <3>1. PICK t \in Tickets : AttachRecheck(t)
      BY <2>5
    <3>2. pc = "idle"
      BY <3>1 DEF AttachRecheck, ListInv, Over
    <3>3. /\ attached' = attached /\ bad' = bad
          /\ store' = store \/ (attached[t] /\ store[t] # "NONE" /\ store' = [store EXCEPT ![t] = "OPEN"])
      BY <3>1 DEF AttachRecheck, StopsSeen, MarkSlTpAttached
    <3> USE <1>1, <2>1, <3>2, <3>3
    <3>5. TypeOK'
      BY DEF Statuses, OpenStatuses
    <3>6. OpInv'
      OBVIOUS
    <3>7. BrokerInv'
      OBVIOUS
    <3>8. WrittenInv'
      <4>1. \A u \in Tickets : u # t => store'[u] = store[u]
        OBVIOUS
      <4>2. store'[t] = store[t] \/ (kind[t] \notin {"unused", "late"} /\ store'[t] = "OPEN")
        OBVIOUS
      <4> HIDE DEF WrittenInv
      <4> QED
        BY <4>1, <4>2, WrittenKept
    <3> QED
      BY <3>5, <3>6, <3>7, <3>8 DEF Statuses, OpenStatuses
  <2> QED
    BY <1>3, <2>2, <2>3, <2>4, <2>5 DEF OwnWrites
<1> QED
  BY <1>2, <1>3

-----------------------------------------------------------------------------
(* The script's own part of the invariant. *)

\* What one read changes.
LEMMA ReadFacts ==
  ASSUME ScriptTypeOK, NEW r, ReadTo(r, snap')
  PROVE  /\ snap' \in [positions : SUBSET Tickets, orders : SUBSET Tickets,
                       deals : SUBSET Tickets, open : SUBSET Tickets]
         /\ snap'.positions = IF r = "positions" THEN Positions ELSE snap.positions
         /\ snap'.orders = IF r = "orders" THEN Orders ELSE snap.orders
         /\ snap'.deals = snap.deals \/ \A t \in snap'.deals : kind[t] = "closed"
         /\ r # "store" => snap'.open = snap.open
<1> USE DEF ScriptTypeOK, Positions, Orders
<1>1. CASE r = "positions" /\ snap' = [snap EXCEPT !.positions = LivePositions]
  BY <1>1 DEF LivePositions
<1>2. CASE r = "orders" /\ snap' = [snap EXCEPT !.orders = Orders]
  BY <1>2
<1>3. CASE r = "store" /\ snap' = [snap EXCEPT !.open = AllOpen(store)]
  BY <1>3 DEF AllOpen
<1>4. CASE r \in {"other", "lookup"} /\ snap' = snap
  BY <1>4
<1>5. CASE r = "deals" /\ \E missed : snap' = [snap EXCEPT !.deals = Outs \ missed]
  <2>1. PICK missed : r = "deals" /\ snap' = [snap EXCEPT !.deals = Outs \ missed]
    BY <1>5
  <2>2. Outs \ missed \subseteq {t \in Tickets : kind[t] = "closed"}
    BY DEF Outs, ClosingDeals
  <2> QED
    BY <2>1, <2>2
<1> QED
  BY <1>1, <1>2, <1>3, <1>4, <1>5 DEF ReadTo

\* The script's variables keep their types.
LEMMA ScriptTypeStep ==
  ASSUME ScriptTypeOK, ExecutorInv, ListInv, [ScriptNext]_allVars
  PROVE  ScriptTypeOK'
<1> USE DEF ScriptTypeOK, Goes, Finish
<1>0. RowOK(script)
  BY RowsOK
<1>1. CASE Read
  <2>1. snap' \in [positions : SUBSET Tickets, orders : SUBSET Tickets,
                   deals : SUBSET Tickets, open : SUBSET Tickets]
    <3>1. ReadTo(script.reads[at], snap')
      BY <1>1 DEF Read
    <3> QED
      BY <3>1, ReadFacts
  <2>2. at' \in 1 .. 5
    <3>1. Len(script.reads) \in 0 .. 5
      BY <1>0 DEF RowOK
    <3>2. at' = IF at < Len(script.reads) THEN at + 1 ELSE 1
      BY <1>1 DEF Read, Advance
    <3>3. \A n \in 0 .. 5, a \in 1 .. 5 : (IF a < n THEN a + 1 ELSE 1) \in 1 .. 5
      OBVIOUS
    <3>4. at \in 1 .. 5
      OBVIOUS
    <3> QED
      <4> HIDE DEF ScriptTypeOK
      <4> QED
        BY <3>1, <3>2, <3>3, <3>4
  <2> QED
    BY <1>1, <2>1, <2>2 DEF Read, Advance
<1>2. CASE ReadFailed
  BY <1>2 DEF ReadFailed
<1>3. CASE Decide
  BY <1>3 DEF Decide, Targets
<1>4. CASE CallReturned
  BY <1>4 DEF CallReturned, Raised
<1>5. CASE Submitted
  BY <1>5 DEF Submitted, GotTicket, NoReads, ExecutorInv
<1>6. CASE AttachAnswer
  BY <1>6 DEF AttachAnswer
<1>7. CASE ActsDone
  BY <1>7 DEF ActsDone
<1>8. CASE ReadAgain
  <2>1. snap' \in [positions : SUBSET Tickets, orders : SUBSET Tickets,
                   deals : SUBSET Tickets, open : SUBSET Tickets]
    <3>1. ReadTo(script.again[at], snap')
      BY <1>8 DEF ReadAgain
    <3> QED
      BY <3>1, ReadFacts
  <2>2. at' \in 1 .. 5
    <3>1. Len(script.again) \in 0 .. 5
      BY <1>0 DEF RowOK
    <3>2. at' = IF at < Len(script.again) THEN at + 1 ELSE 1
      BY <1>8 DEF ReadAgain, Advance
    <3>3. \A n \in 0 .. 5, a \in 1 .. 5 : (IF a < n THEN a + 1 ELSE 1) \in 1 .. 5
      OBVIOUS
    <3>4. at \in 1 .. 5
      OBVIOUS
    <3> QED
      <4> HIDE DEF ScriptTypeOK
      <4> QED
        BY <3>1, <3>2, <3>3, <3>4
  <2>3. spc' \in {"again", "done"} /\ verdict' \in {verdict, "reported", "PASSED", "FAILED"}
    BY <1>8 DEF ReadAgain, Advance
  <2> QED
    BY <1>8, <2>1, <2>2, <2>3 DEF ReadAgain, Advance
<1>9. CASE \E t \in Tickets : Record(t)
  BY <1>9 DEF Record, ActOn, Raised
<1>10. CASE \E t \in Tickets : Call(t) \/ CloseAdopted(t)
  BY <1>10 DEF Call, CloseAdopted, ActOn
<1>11. CASE \E t \in Tickets : AdoptTarget(t)
  BY <1>11 DEF AdoptTarget
<1>12. CASE \E t \in Tickets : AttachStart(t)
  BY <1>12 DEF AttachStart
<1>13. CASE \E t \in Tickets : AttachCall(t)
  BY <1>13 DEF AttachCall
<1>14. CASE \E t \in Tickets : AttachRecheck(t)
  BY <1>14 DEF AttachRecheck
<1>15. CASE UNCHANGED scriptVars
  BY <1>15
<1>16. CASE ScriptCrash
  BY <1>16 DEF ScriptCrash, NoReads
<1> QED
  BY <1>1, <1>2, <1>3, <1>4, <1>5, <1>6, <1>7, <1>8, <1>9, <1>10, <1>11, <1>12, <1>13,
     <1>14, <1>15, <1>16 DEF ScriptNext, ScriptStep

\* What a ticket was at the start limits what it can become.
LEMMA ForwardStep ==
  ASSUME ExecutorInv, ForwardInv, [ScriptNext]_allVars
  PROVE  ForwardInv'
BY AccountStep, ScriptStands DEF ForwardInv

\* A ticket that still is what it was at the start was so before this step.
LEMMA SteadyStep ==
  ASSUME ExecutorInv, ForwardInv, [ScriptNext]_allVars, NEW t \in Tickets, Steady(t)'
  PROVE  Steady(t) /\ kind'[t] = kind[t] /\ before'[t] = before[t]
BY AccountStep, ScriptStands DEF ForwardInv, Steady, Live

\* The executor only moves while an operation runs.
LEMMA StepRuns ==
  ASSUME Step
  PROVE  pc # "idle"
BY DEF Step, LoadFails, LoadLocal, ReadPositions, ReadOrders, ExplainUnknownReal,
       DealsUnavailable, DecideSubmit, DecideManage, CheckVolume, PlaceServed, PlaceRejected,
       RecordPlaced, VerifyPlaced, ModifyServed, ModifyRejected, ModifyDone, VerifySlTp,
       ActServed, ActRejected, ActDone, ConfirmAct, ReadRaises, AnswerLost, RequestLost,
       ReconcileReadOrders, ReconcileLeftovers, ReadPcs, SendPcs, WaitPcs

\* The parts of ListInv: the list, what is left of it, and where the script is.
LEMMA ListStep ==
  ASSUME ScriptTypeOK, ExecutorInv, ListInv, [ScriptNext]_allVars
  PROVE  ListInv'
<1> DEFINE L1 == \A t \in Tickets :
                    /\ listed[t] \in 0 .. Len(script.jobs)
                    /\ script.submit = "none" /\ listed[t] > 0
                          => own[t] \in JobOf(t).of /\ kind[t] \notin {"unused", "late"}
           L2 == todo \subseteq Targets
           L3 == /\ spc \in {"read", "decide", "submitted"} => todo = {}
                 /\ spc = "submitted" => script.submit # "none"
                 /\ spc \notin {"read", "again", "done"} => at = 1
                 /\ spc = "again" => at \in 1 .. Len(script.again)
                 /\ spc \notin Over => verdict = "none"
                 /\ spc \in {"attach", "attached", "recheck"} => script = RetrySltp171979510
                 /\ spc \notin {"submitted", "call"} \cup Over => pc = "idle"
<1>1. script' = script
  BY ScriptStands
<1>2. RowOK(script)
  BY RowsOK DEF ScriptTypeOK
<1>3. listed' = listed \/ Submitted
  BY DEF ScriptNext, ScriptStep, Read, ReadFailed, Decide, CallReturned, AttachAnswer,
         ActsDone, ReadAgain, Record, Call, AdoptTarget, CloseAdopted, AttachStart, AttachCall,
         AttachRecheck, ScriptCrash, Advance, Finish, Goes, Raised, ActOn
<1>4. L1'
  <2>1. CASE listed' = listed
    <3>1. \A t \in Tickets : own[t] \in JobOf(t).of => own[t] \in (JobOf(t).of)'
      BY <1>1, <2>1 DEF JobOf
    <3> QED
      BY <1>1, <2>1, <3>1, AccountStep DEF ListInv, JobOf
  <2>2. CASE Submitted /\ listed' = [t \in Tickets |-> IF t = target THEN 1 ELSE 0]
    <3>1. script.submit # "none"
      BY <2>2 DEF Submitted, ListInv
    <3>2. 0 \in 0 .. Len(script.jobs) /\ 1 \in 0 .. Len(script.jobs)
      <4>1. Len(script.jobs) \in 1 .. 3
        BY <1>2 DEF RowOK
      <4>2. \A n \in 1 .. 3 : 0 \in 0 .. n /\ 1 \in 0 .. n
        OBVIOUS
      <4> QED
        BY <4>1, <4>2
    <3>3. \A t \in Tickets : listed'[t] \in {0, 1}
      BY <2>2
    <3> QED
      BY <1>1, <3>1, <3>2, <3>3
  <2>3. Submitted => listed' \in {listed, [t \in Tickets |-> IF t = target THEN 1 ELSE 0]}
    BY Zenon DEF Submitted, Finish
  <2> QED
    BY <1>3, <2>1, <2>2, <2>3
<1>5. L2' /\ L3'
  <2> USE <1>1 DEF ListInv, Over, Goes, Finish
  <2>0. listed' = listed /\ snap'.open = snap.open => Targets' = Targets
    BY DEF Targets
  <2>1. CASE Read
    BY <2>1 DEF Read, Advance, Quiet
  <2>2. CASE ReadFailed
    BY <2>2, <2>0 DEF ReadFailed, Quiet
  <2>3. CASE Decide
    BY <2>3, <2>0 DEF Decide, Quiet, Submit
  <2>4. CASE CallReturned
    BY <2>4, <2>0 DEF CallReturned, Raised, Quiet
  <2>5. CASE Submitted
    BY <2>5, <2>0 DEF Submitted, GotTicket, NoReads, ExecutorInv, Quiet, Targets
  <2>6. CASE AttachAnswer
    BY <2>6, <2>0 DEF AttachAnswer, Quiet
  <2>7. CASE ActsDone
    BY <2>7, <2>0, <1>2 DEF ActsDone, Quiet, RowOK
  <2>8. CASE ReadAgain
    <3>1. ReadTo(script.again[at], snap') /\ spc = "again"
      BY <2>8 DEF ReadAgain
    <3>2. snap'.open = snap.open
      <4>1. script.again[at] # "store"
        BY <1>2, <3>1 DEF RowOK
      <4> QED
        BY <3>1, <4>1, ReadFacts
    <3>3. Targets' = Targets
      BY <2>8, <3>2, <2>0 DEF ReadAgain, Advance
    <3>4. at' \in 1 .. Len(script.again) \/ (spc' = "done" /\ at' = 1)
      BY <2>8, <3>1 DEF ReadAgain, Advance, ScriptTypeOK
    <3> QED
      BY <2>8, <3>3, <3>4 DEF ReadAgain, Advance, Quiet
  <2>9. CASE \E t \in Tickets : Record(t)
    BY <2>9, <2>0 DEF Record, MayAct, ActOn, Raised
  <2>10. CASE \E t \in Tickets : Call(t) \/ CloseAdopted(t)
    BY <2>10, <2>0 DEF Call, MayAct, CloseAdopted, ActOn
  <2>11. CASE \E t \in Tickets : AdoptTarget(t)
    BY <2>11, <2>0 DEF AdoptTarget, MayAct
  <2>12. CASE \E t \in Tickets : AttachStart(t)
    <3>1. PICK t \in Tickets : AttachStart(t)
      BY <2>12
    <3>2. script = RetrySltp171979510
      BY <3>1, RowOf DEF AttachStart, MayAct, Targets, Act, ActOK
    <3> QED
      BY <2>0, <3>1, <3>2 DEF AttachStart, MayAct, Quiet
  <2>13. CASE \E t \in Tickets : AttachCall(t)
    BY <2>13, <2>0 DEF AttachCall, Quiet
  <2>14. CASE \E t \in Tickets : AttachRecheck(t)
    BY <2>14, <2>0 DEF AttachRecheck
  <2>15. CASE Step /\ UNCHANGED scriptVars
    BY <2>15, <2>0, StepRuns
  <2>16. CASE ScriptCrash
    BY <2>16 DEF ScriptCrash
  <2>17. CASE Environment /\ UNCHANGED scriptVars
    BY <2>17, <2>0 DEF Environment
  <2>18. CASE UNCHANGED allVars
    BY <2>18, <2>0
  <2> QED
    BY <2>1, <2>2, <2>3, <2>4, <2>5, <2>6, <2>7, <2>8, <2>9, <2>10, <2>11, <2>12, <2>13,
       <2>14, <2>15, <2>16, <2>17, <2>18 DEF ScriptNext, ScriptStep
<1> QED
  BY <1>4, <1>5 DEF ListInv

\* Where the steps lead that neither read nor start over.
LEMMA OtherMoves ==
  ASSUME [ScriptNext]_allVars, ~ Read, ~ ReadAgain, ~ Submitted, ~ ScriptCrash
  PROVE  /\ listed' = listed /\ snap' = snap /\ at' = at
         /\ \/ spc' = spc \/ spc' = "done"
            \/ spc = "decide" /\ spc' = "submitted" /\ script.submit # "none"
            \/ spc = "decide" /\ spc' = "act" /\ Premise
            \/ spc \in Acting /\ spc' \in Acting
            \/ spc = "call" /\ spc' = "act"
            \/ spc = "act" /\ spc' = "again"
         /\ verdict' = verdict \/ verdict' # "PASSED" \/ spc = "recheck"
<1> USE DEF Goes, Finish, Acting
<1>1. CASE ReadFailed
  BY <1>1 DEF ReadFailed
<1>2. CASE Decide
  BY <1>2 DEF Decide
<1>3. CASE CallReturned
  BY <1>3 DEF CallReturned, Raised
<1>4. CASE AttachAnswer
  BY <1>4 DEF AttachAnswer
<1>5. CASE ActsDone
  BY <1>5 DEF ActsDone
<1>6. CASE \E t \in Tickets : Record(t)
  BY <1>6 DEF Record, MayAct, ActOn, Raised
<1>7. CASE \E t \in Tickets : Call(t) \/ CloseAdopted(t)
  BY <1>7 DEF Call, MayAct, CloseAdopted, ActOn
<1>8. CASE \E t \in Tickets : AdoptTarget(t)
  BY <1>8 DEF AdoptTarget, MayAct
<1>9. CASE \E t \in Tickets : AttachStart(t)
  BY <1>9 DEF AttachStart, MayAct
<1>10. CASE \E t \in Tickets : AttachCall(t)
  BY <1>10 DEF AttachCall
<1>11. CASE \E t \in Tickets : AttachRecheck(t)
  BY <1>11 DEF AttachRecheck
<1>12. CASE UNCHANGED scriptVars
  BY <1>12
<1> QED
  BY <1>1, <1>2, <1>3, <1>4, <1>5, <1>6, <1>7, <1>8, <1>9, <1>10, <1>11, <1>12
     DEF ScriptNext, ScriptStep

\* The steps that do.
LEMMA SubmittedOrCrash ==
  ASSUME ScriptTypeOK, ListInv, Submitted \/ ScriptCrash
  PROVE  /\ \/ script.submit # "none" /\ spc' \in {"act", "done"}
            \/ spc' = "dead"
         /\ snap'.deals \subseteq snap.deals /\ snap'.orders \subseteq snap.orders
         /\ verdict' # "PASSED"
<1>1. CASE Submitted
  <2>1. spc = "submitted" /\ script.submit # "none" /\ verdict = "none"
    BY <1>1 DEF Submitted, ListInv, Over
  <2> QED
    BY <1>1, <2>1 DEF Submitted, NoReads, Finish
<1>2. CASE ScriptCrash
  BY <1>2 DEF ScriptCrash, NoReads
<1> QED
  BY <1>1, <1>2

\* A read finds every ticket that stays what it was at the start.
LEMMA ReadStep ==
  ASSUME ScriptTypeOK, ExecutorInv, ForwardInv, ListInv, ReadInv, [ScriptNext]_allVars
  PROVE  ReadInv'
<1> DEFINE R1 == spc \in {"read", "decide"} \cup Acting /\ script.submit = "none" =>
                    \A t \in Tickets : Steady(t) =>
                       /\ kind[t] = "position" /\ ReadSoFar("positions") => t \in snap.positions
                       /\ kind[t] = "pending" /\ ReadSoFar("orders") => t \in snap.orders
           R2 == spc = "again" /\ (\E i \in 1 .. Len(script.again) :
                                      i < at /\ script.again[i] = "positions") =>
                    \A t \in Tickets : Steady(t) /\ kind[t] = "position" => t \in snap.positions
           R3 == \A t \in snap.deals : kind[t] = "closed"
           R4 == \A t \in snap.orders : before[t] # "position"
<1>0. script' = script /\ before' = before
  BY ScriptStands
<1>1. \A t \in Tickets : Steady(t)' => Steady(t) /\ kind'[t] = kind[t]
  BY SteadyStep
<1>2. \A t \in Tickets : kind[t] = "closed" => kind'[t] = "closed"
  BY AccountStep
<1>3. RowOK(script)
  BY RowsOK DEF ScriptTypeOK
<1>4. CASE Read
  <2>1. ReadTo(script.reads[at], snap') /\ spc = "read"
    BY <1>4 DEF Read
  <2>2. kind' = kind /\ spc' \in {"read", "decide"}
    BY <1>4 DEF Read, Advance, Quiet
  <2>3. \A r : ReadSoFar(r)' => script.reads[at] = r \/ ReadSoFar(r)
    <3> SUFFICES ASSUME NEW r, NEW i \in 1 .. Len(script.reads), script.reads[i] = r, i # at,
                        spc' = "read" => i < at'
                 PROVE  i < at
      BY <1>0, <2>1 DEF ReadSoFar
    <3>1. Len(script.reads) \in 0 .. 5 /\ at \in 1 .. 5
      BY <1>3 DEF RowOK, ScriptTypeOK
    <3>2. IF at < Len(script.reads) THEN at' = at + 1 /\ spc' = "read" ELSE spc' = "decide"
      BY <1>4 DEF Read, Advance
    <3> QED
      BY <3>1, <3>2
  <2>4. R1'
    <3> SUFFICES ASSUME script.submit = "none", NEW t \in Tickets, Steady(t)
                 PROVE  /\ kind[t] = "position" /\ ReadSoFar("positions")' => t \in snap'.positions
                        /\ kind[t] = "pending" /\ ReadSoFar("orders")' => t \in snap'.orders
      BY <1>0, <1>1, <2>2
    <3>1. kind[t] = "position" /\ ReadSoFar("positions")' => t \in snap'.positions
      BY <2>1, <2>3, ReadFacts DEF ReadInv, Positions
    <3>2. kind[t] = "pending" /\ ReadSoFar("orders")' => t \in snap'.orders
      BY <2>1, <2>3, ReadFacts DEF ReadInv, Orders
    <3> QED
      BY <3>1, <3>2
  <2>5. R3'
    BY <2>1, <2>2, ReadFacts DEF ReadInv
  <2>6. R4'
    BY <1>0, <2>1, ReadFacts DEF ReadInv, Orders, ForwardInv
  <2> QED
    BY <2>2, <2>4, <2>5, <2>6 DEF ReadInv
<1>5. CASE ReadAgain
  <2>1. ReadTo(script.again[at], snap') /\ spc = "again"
    BY <1>5 DEF ReadAgain
  <2>2. kind' = kind /\ (spc' = "done" \/ (spc' = "again" /\ at' = at + 1))
    BY <1>5 DEF ReadAgain, Advance, Quiet
  <2>3. R2'
    <3> SUFFICES ASSUME at' = at + 1, NEW i \in 1 .. Len(script.again), i < at',
                        script.again[i] = "positions",
                        NEW t \in Tickets, Steady(t), kind[t] = "position"
                 PROVE  t \in snap'.positions
      BY <1>0, <1>1, <2>2
    <3>1. i = at \/ i < at
      BY <1>3 DEF RowOK, ScriptTypeOK
    <3> QED
      BY <2>1, <3>1, ReadFacts DEF ReadInv, Positions
  <2>4. R3'
    BY <2>1, <2>2, ReadFacts DEF ReadInv
  <2>5. R4'
    BY <1>0, <2>1, ReadFacts DEF ReadInv, Orders, ForwardInv
  <2> QED
    BY <2>2, <2>3, <2>4, <2>5 DEF ReadInv, Acting
<1>6. CASE Submitted \/ ScriptCrash
  <2>1. R1' /\ R2'
    BY <1>0, <1>6, SubmittedOrCrash DEF Acting
  <2>2. R3' /\ R4'
    BY <1>0, <1>2, <1>6, SubmittedOrCrash DEF ReadInv, ScriptTypeOK
  <2> QED
    BY <2>1, <2>2 DEF ReadInv
<1>7. CASE ~ Read /\ ~ ReadAgain /\ ~ Submitted /\ ~ ScriptCrash
  <2>1. snap' = snap /\ at' = at
    BY <1>7, OtherMoves
  <2>2. R1'
    <3> SUFFICES ASSUME spc' \in {"read", "decide"} \cup Acting, script.submit = "none"
                 PROVE  /\ spc \in {"read", "decide"} \cup Acting
                        /\ \A r : ReadSoFar(r)' => ReadSoFar(r)
      BY <1>0, <1>1, <2>1 DEF ReadInv
    <3>1. spc' = spc \/ (spc \in {"decide"} \cup Acting /\ spc' \in Acting)
      BY <1>7, OtherMoves DEF Acting
    <3> QED
      BY <1>0, <2>1, <3>1 DEF ReadSoFar, Acting
  <2>3. R2'
    <3>1. spc' = "again" => spc = "again" \/ at = 1
      BY <1>7, OtherMoves DEF ListInv, Acting
    <3> QED
      BY <1>0, <1>1, <2>1, <3>1 DEF ReadInv
  <2>4. R3' /\ R4'
    BY <1>0, <1>2, <2>1 DEF ReadInv, ScriptTypeOK
  <2> QED
    BY <2>2, <2>3, <2>4 DEF ReadInv
<1> QED
  BY <1>4, <1>5, <1>6, <1>7

\* When the premise holds, a ticket whose final test is about orders or records
\* only is no position any more.
LEMMA PremiseTells ==
  ASSUME ScriptTypeOK, ForwardInv, ListInv, ReadInv, Premise,
         spc = "decide", script.submit = "none",
         NEW t \in Targets, JobOf(t).done \in {"no_order", "recorded"}, before[t] = "position"
  PROVE  kind[t] = "closed"
<1>1. t \in Tickets /\ listed[t] > 0 /\ View(t) \in JobOf(t).need
  BY DEF Targets, Premise
<1>2. DoneOK(script, JobOf(t))
  BY <1>1, RowOf
<1>3. CASE JobOf(t).done = "no_order"
  <2>1. t \in snap.orders
    BY <1>1, <1>2, <1>3 DEF DoneOK, View
  <2> QED
    BY <2>1 DEF ReadInv
<1>4. CASE JobOf(t).done = "recorded"
  <2>1. View(t) # "position" /\ ReadSoFar("positions")
    BY <1>1, <1>2, <1>4 DEF DoneOK, ReadsIt, ReadSoFar
  <2>2. t \notin snap.positions
    BY <2>1 DEF View
  <2>3. ~ (Steady(t) /\ kind[t] = "position")
    BY <1>1, <2>1, <2>2 DEF ReadInv
  <2> QED
    BY <1>1, <2>3 DEF ForwardInv, Steady, Live
<1> QED
  BY <1>3, <1>4

\* The decision stands on reads that do not change while the script acts.
LEMMA DecidedStep ==
  ASSUME ScriptTypeOK, ExecutorInv, ForwardInv, ListInv, ReadInv, DecidedInv, [ScriptNext]_allVars
  PROVE  DecidedInv'
<1> DEFINE Known == \A t \in Targets : JobOf(t).done \in {"no_order", "recorded"} /\ before[t] = "position"
                                         => kind[t] = "closed"
<1>0. script' = script /\ before' = before
  BY ScriptStands
<1>1. \A t \in Tickets : kind[t] = "closed" => kind'[t] = "closed"
  BY AccountStep
<1>2. listed' = listed /\ snap'.open = snap.open => Targets' = Targets
  BY <1>0 DEF Targets
<1>3. listed' = listed => \A t : JobOf(t)' = JobOf(t)
  BY <1>0 DEF JobOf
<1>4. ASSUME Known, listed' = listed, snap'.open = snap.open
      PROVE  Known'
  BY <1>0, <1>1, <1>2, <1>3, <1>4 DEF Targets
<1>5. CASE Read
  BY <1>5 DEF Read, Advance, DecidedInv, Acting
<1>6. CASE ReadAgain
  <2>1. ReadTo(script.again[at], snap') /\ spc = "again" /\ listed' = listed
    BY <1>6 DEF ReadAgain, Advance
  <2>2. script.again[at] # "store"
    BY <2>1, RowsOK DEF ListInv, RowOK, ScriptTypeOK
  <2>3. snap'.open = snap.open
    BY <2>1, <2>2, ReadFacts
  <2>4. spc' \in {"again", "done"}
    BY <1>6 DEF ReadAgain, Advance
  <2> QED
    BY <1>0, <1>4, <2>1, <2>3, <2>4 DEF DecidedInv, Acting
<1>7. CASE Submitted \/ ScriptCrash
  BY <1>0, <1>7, SubmittedOrCrash DEF DecidedInv, Acting
<1>8. CASE ~ Read /\ ~ ReadAgain /\ ~ Submitted /\ ~ ScriptCrash
  <2>1. listed' = listed /\ snap' = snap
    BY <1>8, OtherMoves
  <2>2. Premise' = Premise
    <3>1. \A t : View(t)' = View(t)
      BY <2>1 DEF View
    <3> QED
      BY <1>2, <1>3, <2>1, <3>1 DEF Premise
  <2>3. spc' \in Acting \cup {"again"} => spc \in Acting \cup {"again"} \/ (spc = "decide" /\ Premise)
    BY <1>8, OtherMoves DEF Acting
  <2>4. spc' \in Acting => spc \in Acting \/ (spc = "decide" /\ Premise)
    BY <1>8, OtherMoves DEF Acting
  <2>5. spc = "decide" /\ Premise /\ script.submit = "none" => Known
    BY PremiseTells
  <2> QED
    BY <1>0, <1>4, <2>1, <2>2, <2>3, <2>4, <2>5 DEF DecidedInv
<1> QED
  BY <1>5, <1>6, <1>7, <1>8

\* A verdict is only printed after the last look.
LEMMA PassedStep ==
  ASSUME ScriptTypeOK, ExecutorInv, ForwardInv, ListInv, ReadInv, DecidedInv, PassedIsGone,
         [ScriptNext]_allVars
  PROVE  PassedIsGone'
<1>0. script' = script /\ before' = before
  BY ScriptStands
<1>1. \A t \in Tickets : kind[t] = "closed" => kind'[t] = "closed"
  BY AccountStep
<1>2. CASE ReadAgain
  <2>1. ReadTo(script.again[at], snap') /\ spc = "again" /\ listed' = listed /\ kind' = kind
    BY <1>2 DEF ReadAgain, Advance, Quiet
  <2>2. script.again[at] # "store" /\ at \in 1 .. Len(script.again)
    BY <2>1, RowsOK DEF ListInv, RowOK, ScriptTypeOK
  <2>3. Targets' = Targets
    BY <1>0, <2>1, <2>2, ReadFacts DEF Targets
  <2> SUFFICES ASSUME verdict' = "PASSED", NEW t \in Targets, before[t] = "position"
               PROVE  kind[t] = "closed"
    BY <1>0, <2>1, <2>3 DEF PassedIsGone
  <2>4. t \in Tickets /\ listed[t] > 0
    BY DEF Targets
  <2>5. DoneOK(script, JobOf(t))
    BY <2>4, RowOf
  <2>6. verdict = "none"
    BY <2>1 DEF ListInv, Over
  <2>7. ~ (at < Len(script.again)) /\ JobOf(t).done # "unchecked" /\ Resolved(t)
    BY <1>2, <2>6 DEF ReadAgain, Advance
  <2>8. CASE JobOf(t).done \in {"no_position", "not_live"}
    <3>1. t \notin snap'.positions
      BY <2>7, <2>8 DEF Resolved
    <3>2. PICK i \in 1 .. Len(script.again) : script.again[i] = "positions"
      BY <2>5, <2>8 DEF DoneOK, LooksAgain
    <3>3. i = at \/ i < at
      <4>1. Len(script.again) \in 0 .. 5
        BY RowsOK DEF ScriptTypeOK, RowOK
      <4> QED
        BY <2>2, <2>7, <4>1
    <3>4. ~ (Steady(t) /\ kind[t] = "position")
      BY <2>1, <2>4, <3>1, <3>2, <3>3, ReadFacts DEF ReadInv, Positions
    <3> QED
      BY <2>4, <3>4 DEF ForwardInv, Steady, Live
  <2>9. CASE JobOf(t).done \in {"no_order", "recorded"}
    BY <2>1, <2>5, <2>9 DEF DoneOK, DecidedInv
  <2> QED
    BY <2>5, <2>7, <2>8, <2>9 DEF DoneOK
<1>3. CASE Read
  BY <1>3 DEF Read, Advance, PassedIsGone, ListInv, Over
<1>4. CASE Submitted \/ ScriptCrash
  BY <1>4, SubmittedOrCrash DEF PassedIsGone
<1>5. CASE ~ Read /\ ~ ReadAgain /\ ~ Submitted /\ ~ ScriptCrash
  <2>1. listed' = listed /\ snap' = snap
    BY <1>5, OtherMoves
  <2>2. Targets' = Targets
    BY <1>0, <2>1 DEF Targets
  <2>3. verdict' = "PASSED" => verdict = "PASSED" \/ script = RetrySltp171979510
    BY <1>5, OtherMoves DEF ListInv
  <2> QED
    BY <1>0, <1>1, <2>2, <2>3 DEF PassedIsGone, Targets
<1> QED
  BY <1>2, <1>3, <1>4, <1>5

-----------------------------------------------------------------------------

\* What the executor and earlier scripts leave behind.
LeftOK(f) ==
    /\ f.kind \in {"unused", "pending", "position", "cancelled", "closed"}
    /\ f.own \in {"none", "foreign", "LIMIT", "MARKET"} /\ f.attached \in BOOLEAN
    /\ f.store \in Statuses
    /\ f.kind = "unused" => f.own = "none" /\ ~ f.attached /\ f.store = "NONE"
    /\ f.own = "MARKET" => f.kind # "pending" /\ f.store # "NONE"
    /\ f.own = "MARKET" /\ f.store = "OPEN" => f.attached

LEMMA LeftBehind == ASSUME NEW f \in LeftTickets PROVE LeftOK(f)
<1> USE DEF LeftOK, Left, Statuses, OpenStatuses, TerminalStatuses
<1>1. ASSUME NEW k \in {"pending", "position", "cancelled", "closed"}, f = Left(k, "LIMIT", TRUE, "OPEN")
      PROVE  LeftOK(f)
  BY <1>1
<1>2. ASSUME NEW st \in {"OPEN", "CLOSED"}, f = Left("closed", "MARKET", TRUE, st)
      PROVE  LeftOK(f)
  BY <1>2
<1>3. ASSUME NEW k \in {"position", "closed"}, f = Left(k, "MARKET", FALSE, "OPEN_UNPROTECTED")
      PROVE  LeftOK(f)
  BY <1>3
<1>4. CASE f = Left("unused", "none", FALSE, "NONE")
  BY <1>4
<1>5. CASE f = Left("pending", "foreign", FALSE, "NONE")
  BY <1>5
<1>6. CASE f = Left("position", "foreign", FALSE, "NONE")
  BY <1>6
<1>7. CASE f = Left("cancelled", "LIMIT", TRUE, "CANCELLED")
  BY <1>7
<1>8. CASE f = Left("position", "MARKET", TRUE, "OPEN")
  BY <1>8
<1> HIDE DEF LeftOK, Left, Statuses, OpenStatuses, TerminalStatuses
<1> QED
  BY <1>1, <1>2, <1>3, <1>4, <1>5, <1>6, <1>7, <1>8 DEF LeftTickets

\* ScriptInv holds at every start and is kept by every step.
THEOREM ScriptInvHolds == ScriptSpec => []ScriptInv
<1>1. ScriptInit => ScriptInv
  <2> SUFFICES ASSUME ScriptInit
               PROVE  ScriptInv
    OBVIOUS
  <2>0. PICK s \in Scripts : \E l \in [Tickets -> 0 .. Len(s.jobs)] : Launch(s, l)
    BY DEF ScriptInit
  <2>1. PICK l \in [Tickets -> 0 .. Len(s.jobs)] : Launch(s, l)
    BY <2>0
  <2>2. script = s /\ listed = l /\ before = kind
    BY <2>1 DEF Launch
  <2>3. RowOK(s)
    BY RowsOK
  <2>4. PICK left \in [Tickets -> LeftTickets] :
           /\ kind = [t \in Tickets |-> left[t].kind]
           /\ own = [t \in Tickets |-> left[t].own]
           /\ attached = [t \in Tickets |-> left[t].attached]
           /\ store = [t \in Tickets |-> left[t].store]
    BY DEF ScriptInit
  <2>5. \A t \in Tickets :
           /\ kind[t] \in {"unused", "pending", "position", "cancelled", "closed"}
           /\ own[t] \in {"none", "foreign", "LIMIT", "MARKET"} /\ attached[t] \in BOOLEAN
           /\ store[t] \in Statuses
           /\ kind[t] = "unused" => own[t] = "none" /\ ~ attached[t] /\ store[t] = "NONE"
           /\ own[t] = "MARKET" => kind[t] # "pending" /\ store[t] # "NONE"
           /\ own[t] = "MARKET" /\ store[t] = "OPEN" => attached[t]
    <3> SUFFICES ASSUME NEW t \in Tickets
                 PROVE  LeftOK(left[t])
      BY <2>4 DEF LeftOK
    <3> QED
      BY LeftBehind
  <2>6. ExecutorInv
    <3>1. TypeOK
      <4>1. kind \in [Tickets -> Kinds] /\ own \in [Tickets -> Owners]
        BY <2>4, <2>5 DEF Kinds, Owners
      <4>2. attached \in [Tickets -> BOOLEAN] /\ store \in [Tickets -> Statuses]
        BY <2>4, <2>5
      <4>3. bad \subseteq Tickets /\ late = {} /\ closes \in [Tickets -> Tickets \cup {NoTicket}]
            /\ deal \in [Tickets -> Deals]
        BY DEF ScriptInit, Deals
      <4> QED
        BY <4>1, <4>2, <4>3, AttemptsAssumption
           DEF ScriptInit, TypeOK, BrokerTypeOK, NoReport, NoSnapshot, Pcs, Results
    <3>2. OpInv
      BY DEF ScriptInit, OpInv
    <3>3. BrokerInv
      BY <2>5 DEF ScriptInit, BrokerInv
    <3>4. WrittenInv
      BY <2>5 DEF ScriptInit, WrittenInv
    <3> QED
      BY <2>5, <3>1, <3>2, <3>3, <3>4 DEF ScriptInit, ExecutorInv
  <2>7. ScriptTypeOK
    <3>1. listed \in [Tickets -> 0 .. 3]
      <4>1. Len(s.jobs) \in 1 .. 3
        BY <2>3 DEF RowOK
      <4>2. \A n \in 1 .. 3 : 0 .. n \subseteq 0 .. 3
        OBVIOUS
      <4> QED
        BY <2>2, <4>1, <4>2
    <3>2. before \in [Tickets -> Kinds]
      BY <2>2, <2>6 DEF ExecutorInv, TypeOK, BrokerTypeOK
    <3> QED
      BY <2>1, <2>2, <3>1, <3>2 DEF ScriptInit, Launch, ScriptTypeOK, NoReads
  <2>8. ForwardInv
    BY <2>2 DEF ForwardInv
  <2>9. ListInv
    <3>1. \A t \in Tickets : /\ listed[t] \in 0 .. Len(script.jobs)
                             /\ listed[t] > 0 => own[t] \in JobOf(t).of /\ kind[t] \notin {"unused", "late"}
      BY <2>1, <2>2, <2>5 DEF Launch, JobOf
    <3> QED
      BY <2>1, <3>1 DEF ScriptInit, Launch, ListInv, Over
  <2>10. ReadInv
    BY <2>1 DEF ScriptInit, Launch, ReadInv, ReadSoFar, NoReads, Acting
  <2>11. DecidedInv /\ PassedIsGone
    BY <2>1 DEF ScriptInit, Launch, DecidedInv, PassedIsGone, Acting
  <2> QED
    BY <2>6, <2>7, <2>8, <2>9, <2>10, <2>11 DEF ScriptInv
<1>2. ScriptInv /\ [ScriptNext]_allVars => ScriptInv'
  BY ScriptTypeStep, ExecutorStep, ForwardStep, ListStep, ReadStep, DecidedStep, PassedStep
     DEF ScriptInv
<1> QED
  BY <1>1, <1>2, PTL DEF ScriptSpec

\* On the evidence of a deal, CLOSED means closed: a deal that a read has found
\* was the last of its position.
THEOREM DealsAreEvidence == ScriptSpec => []ClosedNeedsDeal
<1>1. ScriptInv => ClosedNeedsDeal
  <2> SUFFICES ASSUME ScriptInv, script.window # "none", NEW t \in Targets, Act(t) = "CLOSED"
               PROVE  kind[t] = "closed"
    BY DEF ClosedNeedsDeal
  <2>1. t \in Tickets /\ listed[t] > 0
    BY DEF Targets
  <2>2. View(t) = "dealt"
    BY <2>1, RowOf DEF ScriptInv, ActOK, Act
  <2>3. t \in snap.deals
    BY <2>2 DEF View
  <2> QED
    BY <2>3 DEF ScriptInv, ReadInv
<1> QED
  BY <1>1, ScriptInvHolds, PTL

\* PASSED is never printed while a position of the list is still open.
THEOREM PassedMeansGone == ScriptSpec => []PassedIsGone
<1>1. ScriptInv => PassedIsGone
  BY DEF ScriptInv
<1> QED
  BY <1>1, ScriptInvHolds, PTL

\* A MARKET record is OPEN only if the stops were attached, with the scripts'
\* own writes (adoption, second attachment, records) as well.
THEOREM OpenStillMeansProtected == ScriptSpec => []OpenIsProtected
<1>1. ScriptInv => OpenIsProtected
  BY DEF ScriptInv, ExecutorInv, WrittenInv, OpenIsProtected
<1> QED
  BY <1>1, ScriptInvHolds, PTL

\* A script writes off what both its live reads have missed: no ticket that was
\* live from its start on.
LEMMA SparesStep ==
  ASSUME ScriptInv, [ScriptNext]_allVars, NEW t \in Tickets,
         store'[t] # store[t], store'[t] \in TerminalStatuses
  PROVE  ~ Steady(t)
<1> USE DEF ScriptInv
<1>1. CASE ~ OwnWrites
  <2>1. [Next]_vars
    BY <1>1, ExecutorMoves
  <2>2. kind[t] \in {"closed", "cancelled"}
    BY <2>1, TerminalStep DEF ExecutorInv, TerminalStatuses
  <2> QED
    BY <2>2 DEF Steady, Live
<1>2. CASE \E u \in Tickets : AdoptTarget(u) \/ AttachCall(u) \/ AttachRecheck(u)
  <2>1. PICK u \in Tickets : AdoptTarget(u) \/ AttachCall(u) \/ AttachRecheck(u)
    BY <1>2
  <2>2. store' = store \/ store' = [store EXCEPT ![u] = "OPEN"] \/ store' = MarkSlTpAttached(store, u)
    BY <2>1 DEF AdoptTarget, AttachCall, AttachRecheck, RecordManualAdoption, Quiet
  <2>3. store \in [Tickets -> Statuses]
    BY DEF ExecutorInv, TypeOK
  <2> QED
    BY <2>2, <2>3 DEF MarkSlTpAttached, TerminalStatuses
<1>3. CASE \E u \in Tickets : Record(u)
  <2>1. PICK u \in Tickets : Record(u)
    BY <1>3
  <2>2. u = t /\ spc = "act" /\ t \in Targets /\ Act(t) \in TerminalStatuses
    BY <2>1 DEF Record, MayAct, Transition, ListInv, ExecutorInv, TypeOK
  <2>3. t \in Tickets /\ listed[t] > 0
    BY <2>2 DEF Targets
  <2>4. View(t) \in Views /\ ActOK(script, JobOf(t), View(t))
    BY <2>3, RowOf
  <2>5. script.submit = "none"
    BY <2>2, <2>4 DEF ActOK, Act
  <2>6. View(t) \in JobOf(t).need
    BY <2>2, <2>5 DEF DecidedInv, Acting, Premise
  <2>7. /\ ReadsIt(script, "positions") /\ ReadsIt(script, "orders")
        /\ View(t) \in {"dealt", "gone"} \/ (JobOf(t).of = {"MARKET"} /\ View(t) # "position")
    BY <2>2, <2>4, <2>6 DEF ActOK, Act
  <2>8. ReadSoFar("positions") /\ ReadSoFar("orders")
    BY <2>2, <2>7 DEF ReadsIt, ReadSoFar
  <2>9. Steady(t) => kind[t] = "pending"
    <3>1. t \notin snap.positions
      BY <2>7 DEF View
    <3> QED
      BY <2>2, <2>5, <2>8, <3>1 DEF ReadInv, Acting, Steady, Live
  <2>10. CASE JobOf(t).of = {"MARKET"}
    <3>1. own[t] = "MARKET"
      BY <2>3, <2>5, <2>10 DEF ListInv
    <3> QED
      BY <2>9, <3>1 DEF ExecutorInv
  <2>11. CASE View(t) \in {"dealt", "gone"}
    <3>1. t \notin snap.orders
      BY <2>11 DEF View
    <3> QED
      BY <2>2, <2>5, <2>8, <2>9, <3>1 DEF ReadInv, Acting
  <2> QED
    BY <2>7, <2>10, <2>11
<1> QED
  BY <1>1, <1>2, <1>3 DEF OwnWrites

\* No script writes a live ticket off.
THEOREM ScriptsSpareLive == ScriptSpec => SparesLive
<1>1. ScriptInv /\ [ScriptNext]_allVars =>
        [\A t \in Tickets : store'[t] # store[t] /\ store'[t] \in TerminalStatuses => ~ Steady(t)]_allVars
  BY SparesStep
<1> QED
  BY <1>1, ScriptInvHolds, PTL DEF ScriptSpec, SparesLive
=============================================================================
