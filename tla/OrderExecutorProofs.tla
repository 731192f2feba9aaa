------------------------ MODULE OrderExecutorProofs ------------------------
(***************************************************************************)
(* Proofs about OrderExecutor for every set of tickets, operations and     *)
(* hazards and every number of attempts.  IndInv is shown inductive in     *)
(* five layers: types and control (OpInv), the account (BrokerInv), the    *)
(* records against the account (RecordInv), the posture check against the  *)
(* account (CheckInv), what the account book rests on (BookInv).  The      *)
(* refinement of AccountBook is at the end.                                *)
(***************************************************************************)
EXTENDS OrderExecutor, TLAPS

USE DEF brokerVars, checkVars, snapVars, callVars, vars

\* Next, one action at a time.
LEMMA NextActions ==
  ASSUME [Next]_vars
  PROVE
         \/ (\E o \in Ops : Submit(o))
         \/ (\E o \in Ops, t \in Tickets : Manage(o, t))
         \/ ReconcileStart
         \/ LoadFails
         \/ LoadLocal
         \/ ReadPositions
         \/ ReadOrders
         \/ ExplainUnknownReal
         \/ DealsUnavailable
         \/ DecideSubmit
         \/ DecideManage
         \/ CheckVolume
         \/ (\E t \in Tickets : PlaceServed(t))
         \/ PlaceRejected
         \/ RecordPlaced
         \/ VerifyPlaced
         \/ ModifyServed
         \/ ModifyRejected
         \/ ModifyDone
         \/ VerifySlTp
         \/ ActServed
         \/ ActRejected
         \/ ActDone
         \/ ConfirmAct
         \/ ReadRaises
         \/ AnswerLost
         \/ RequestLost
         \/ ReconcileReadOrders
         \/ ReconcileLeftovers
         \/ Crash
         \/ (\E t \in Tickets : Adopt(t))
         \/ (\E t \in Tickets : Corrupt(t))
         \/ (\E t \in Tickets : Repair(t))
         \/ Environment /\ Market
         \/ Environment /\ (\E t \in Tickets : ManualOpen(t))
         \/ Environment /\ (\E t \in Tickets : ManualRemove(t))
         \/ Environment /\ (\E p, a \in Tickets : StopTriggers(p, a))
         \/ Environment /\ (\E a \in Tickets : StopDeal(a))
         \/ Environment /\ (\E a \in Tickets : ArtifactSettles(a))
         \/ Environment /\ (\E t \in Tickets : LateOpen(t))
         \/ Environment /\ (\E t \in Tickets : LateOpenDropped(t))
         \/ Environment /\ (\E c \in late : LateCall(c))
         \/ UNCHANGED vars
BY DEF Next, Start, Step, Human, Environment, Market, Trader, Stops, Overdue

\* What the end of an operation leaves behind is well typed.
LEMMA EndTypes ==
  ASSUME TypeOK, NEW r \in Results, End(r)
  PROVE  /\ pc' = "idle" /\ op' = op /\ target' = target
         /\ local_open' = {} /\ seen' = {}
         /\ report' \in [matched : SUBSET Tickets, local_only : SUBSET Tickets,
                         unknown_real : SUBSET Tickets]
         /\ base' \in [positions : SUBSET Tickets, orders : SUBSET Tickets]
         /\ tries' \in 0 .. Attempts
         /\ result' \in Results
BY AttemptsAssumption DEF End, ForgetCheck, NoReport, NoSnapshot

\* Types and control are preserved by every step.
LEMMA TypeStep ==
  ASSUME TypeOK, OpInv, BrokerInv,
         [Next]_vars
  PROVE  TypeOK' /\ OpInv'
<1> USE OpsAssumption, AttemptsAssumption DEF OpInv, TypeOK, BrokerTypeOK, OpKinds,
    Pcs, ReadPcs, SendPcs, WaitPcs, Results, Statuses, OpenStatuses,
    TerminalStatuses, Kinds, Owners, Deals, Calls, Tools
<1>1. CASE \E o \in Ops : Submit(o)
  BY <1>1 DEF Submit
<1>2. CASE \E o \in Ops, t \in Tickets : Manage(o, t)
  BY <1>2 DEF Manage
<1>3. CASE ReconcileStart
  BY <1>3 DEF ReconcileStart
<1>4. CASE LoadFails
  BY <1>4, EndTypes DEF LoadFails
<1>5. CASE LoadLocal
  BY <1>5 DEF LoadLocal, AllOpen, Positions, Orders
<1>6. CASE ReadPositions
  BY <1>6 DEF ReadPositions, Positions
<1>7. CASE ReadOrders
  BY <1>7 DEF ReadOrders, Reconcile, AsksForDeals, Orders
<1>8. CASE ExplainUnknownReal
  BY <1>8, EndTypes DEF ExplainUnknownReal, ExplainOne, RecordClosed, Transition,
     LoadOne
<1>9. CASE DealsUnavailable
  BY <1>9 DEF DealsUnavailable, Goto
<1>10. CASE DecideSubmit
  BY <1>10, EndTypes DEF DecideSubmit, Goto, Proceed, ForgetCheck, NoReport,
     Posture, DeterminePosture
<1>11. CASE DecideManage
  BY <1>11, EndTypes DEF DecideManage, Goto, Proceed, ForgetCheck, NoReport,
     Posture, DeterminePosture, Attributable
<1>12. CASE CheckVolume
  BY <1>12, EndTypes DEF CheckVolume, Goto, Positions
<1>13. CASE \E t \in Tickets : PlaceServed(t)
  BY <1>13 DEF PlaceServed, OpenTicket, NoSnapshot
<1>14. CASE PlaceRejected
  BY <1>14, EndTypes DEF PlaceRejected
<1>15. CASE RecordPlaced
  BY <1>15 DEF RecordPlaced, RecordSubmission, SubmissionStatus
<1>16. CASE VerifyPlaced
  BY <1>16, EndTypes DEF VerifyPlaced, MayRetry
<1>17. CASE ModifyServed
  BY <1>17 DEF ModifyServed, CanServe, Serve, Goto
<1>18. CASE ModifyRejected
  BY <1>18, EndTypes DEF ModifyRejected
<1>19. CASE ModifyDone
  BY <1>19 DEF ModifyDone
<1>20. CASE VerifySlTp
  BY <1>20, EndTypes DEF VerifySlTp, SeenAttached, Positions, MayRetry,
     MarkSlTpAttached, LoadOne
<1>21. CASE ActServed
  BY <1>21 DEF ActServed, CanServe, Serve, Tool, NoSnapshot
<1>22. CASE ActRejected
  BY <1>22, EndTypes DEF ActRejected
<1>23. CASE ActDone
  BY <1>23 DEF ActDone, Goto
<1>24. CASE ConfirmAct
  BY <1>24, EndTypes DEF ConfirmAct, RecordCancelled, RecordClosed, Transition,
     LoadOne
<1>25. CASE ReadRaises
  BY <1>25, EndTypes DEF ReadRaises
<1>26. CASE AnswerLost
  BY <1>26, EndTypes DEF AnswerLost
<1>27. CASE RequestLost
  BY <1>27, EndTypes DEF RequestLost, RequestOverdue, Tool
<1>28. CASE ReconcileReadOrders
  BY <1>28 DEF ReconcileReadOrders, Orders
<1>29. CASE ReconcileLeftovers
  BY <1>29, EndTypes DEF ReconcileLeftovers, AllOpen, RecordCancelled, RecordClosed,
     Transition
<1>30. CASE Crash
  BY <1>30, EndTypes DEF Crash, RequestOverdue, Tool
<1>31. CASE \E t \in Tickets : Adopt(t)
  BY <1>31 DEF Adopt, RecordManualAdoption
<1>32. CASE \E t \in Tickets : Corrupt(t)
  BY <1>32 DEF Corrupt
<1>33. CASE \E t \in Tickets : Repair(t)
  BY <1>33 DEF Repair
<1>34. CASE Environment /\ Market
  BY <1>34 DEF Environment, Market, Fill
<1>35. CASE Environment /\ (\E t \in Tickets : ManualOpen(t))
  BY <1>35 DEF Environment, ManualOpen
<1>36. CASE Environment /\ (\E t \in Tickets : ManualRemove(t))
  BY <1>36 DEF Environment, ManualRemove, Live
<1>37. CASE Environment /\ (\E p, a \in Tickets : StopTriggers(p, a))
  BY <1>37 DEF Environment, StopTriggers
<1>38. CASE Environment /\ (\E a \in Tickets : StopDeal(a))
  <2>1. PICK a \in Tickets : Environment /\ StopDeal(a)
    BY <1>38
  <2>2. kind' \in [Tickets -> Kinds]
    BY <2>1 DEF StopDeal
  <2>3. deal' \in [Tickets -> Deals]
    BY <2>1 DEF StopDeal
  <2>4. UNCHANGED <<own, attached, closes, late>>
    BY <2>1 DEF StopDeal
  <2> QED
    BY <2>1, <2>2, <2>3, <2>4 DEF Environment
<1>39. CASE Environment /\ (\E a \in Tickets : ArtifactSettles(a))
  BY <1>39 DEF Environment, ArtifactSettles
<1>40. CASE Environment /\ (\E t \in Tickets : LateOpen(t))
  BY <1>40 DEF Environment, LateOpen, OpenTicket
<1>41. CASE Environment /\ (\E t \in Tickets : LateOpenDropped(t))
  BY <1>41 DEF Environment, LateOpenDropped
<1>42. CASE Environment /\ (\E c \in late : LateCall(c))
  <2>1. PICK c \in late : Environment /\ LateCall(c)
    BY <1>42
  <2>2. c \in Calls /\ late' \subseteq Calls /\ UNCHANGED <<own, closes, deal>>
    BY <2>1 DEF LateCall
  <2>3. CASE Serve(c.tool, c.ticket, TRUE)
    <3>1. kind' \in [Tickets -> Kinds]
      BY <2>2, <2>3 DEF Serve
    <3>2. attached' \in [Tickets -> BOOLEAN]
      BY <2>2, <2>3, Zenon DEF Serve
    <3> QED
      BY <2>1, <2>2, <3>1, <3>2 DEF Environment
  <2>4. CASE UNCHANGED <<kind, attached>>
    BY <2>1, <2>2, <2>4 DEF Environment
  <2> QED
    BY <2>1, <2>3, <2>4 DEF LateCall
<1>43. CASE UNCHANGED vars
  BY <1>43
<1> QED   BY <1>1, <1>2, <1>3, <1>4, <1>5, <1>6, <1>7, <1>8, <1>9, <1>10, <1>11,
     <1>12, <1>13, <1>14, <1>15, <1>16, <1>17, <1>18, <1>19, <1>20, <1>21, <1>22,
     <1>23, <1>24, <1>25, <1>26, <1>27, <1>28, <1>29, <1>30, <1>31, <1>32, <1>33,
     <1>34, <1>35, <1>36, <1>37, <1>38, <1>39, <1>40, <1>41, <1>42, <1>43,
     NextActions

\* A call carried out late moves one ticket forward, if any.
LEMMA LateCallEffect ==
  ASSUME TypeOK, NEW c \in late, LateCall(c)
  PROVE  /\ late' \subseteq late
         /\ UNCHANGED <<own, closes, deal>>
         /\ \A t \in Tickets :
               /\ \/ kind'[t] = kind[t]
                  \/ kind[t] = "pending" /\ kind'[t] = "cancelled"
                  \/ kind[t] = "position" /\ kind'[t] = "closed"
               /\ \/ attached'[t] = attached[t]
                  \/ /\ attached'[t] /\ kind[t] = "position"
                     /\ t = c.ticket /\ c.tool = "modify_position"
<1>1. c.tool \in Tools /\ c.ticket \in Tickets
  BY DEF TypeOK, BrokerTypeOK, Calls
<1>2. late' \subseteq late /\ UNCHANGED <<own, closes, deal>>
  BY DEF LateCall
<1>3. CASE UNCHANGED <<kind, attached>>
  BY <1>2, <1>3
<1>4. CASE CanServe(c.tool, c.ticket) /\ Serve(c.tool, c.ticket, TRUE)
  <2> USE <1>1, <1>2, <1>4 DEF CanServe, Serve, Tools, TypeOK, BrokerTypeOK
  <2>1. CASE c.tool = "cancel_pending_order"
    BY <2>1
  <2>2. CASE c.tool = "close_position"
    BY <2>2
  <2>3. CASE c.tool = "modify_position"
    BY <2>3
  <2> QED
    BY <2>1, <2>2, <2>3
<1> QED
  BY <1>3, <1>4 DEF LateCall

\* The account keeps its guarantees.
LEMMA BrokerStep ==
  ASSUME TypeOK, OpInv, BrokerInv,
         [Next]_vars
  PROVE  BrokerInv'
<1> USE TicketsAssumption DEF BrokerInv, OpInv, TypeOK, BrokerTypeOK, Kinds, Owners,
    Deals, Calls, Tools
<1>1. CASE \E o \in Ops : Submit(o)
  BY <1>1 DEF Submit
<1>2. CASE \E o \in Ops, t \in Tickets : Manage(o, t)
  BY <1>2 DEF Manage
<1>3. CASE ReconcileStart
  BY <1>3 DEF ReconcileStart
<1>4. CASE LoadFails
  BY <1>4 DEF LoadFails, End, ForgetCheck, NoReport, NoSnapshot
<1>5. CASE LoadLocal
  BY <1>5 DEF LoadLocal, AllOpen, OpenStatuses, Positions, Orders
<1>6. CASE ReadPositions
  BY <1>6 DEF ReadPositions, Positions
<1>7. CASE ReadOrders
  BY <1>7 DEF ReadOrders, Reconcile, AsksForDeals, Orders
<1>8. CASE ExplainUnknownReal
  BY <1>8 DEF ExplainUnknownReal, ExplainOne, RecordClosed, Transition, LoadOne,
     End, ForgetCheck, NoReport, NoSnapshot
<1>9. CASE DealsUnavailable
  BY <1>9 DEF DealsUnavailable, Goto
<1>10. CASE DecideSubmit
  BY <1>10 DEF DecideSubmit, Goto, Proceed, ForgetCheck, NoReport, Posture,
     DeterminePosture, End, NoSnapshot
<1>11. CASE DecideManage
  BY <1>11 DEF DecideManage, Goto, Proceed, ForgetCheck, NoReport, Posture,
     DeterminePosture, Attributable, End, NoSnapshot
<1>12. CASE CheckVolume
  BY <1>12 DEF CheckVolume, Goto, Positions, End, ForgetCheck, NoReport, NoSnapshot
<1>13. CASE \E t \in Tickets : PlaceServed(t)
  BY <1>13 DEF PlaceServed, OpenTicket, NoSnapshot
<1>14. CASE PlaceRejected
  BY <1>14 DEF PlaceRejected, End, ForgetCheck, NoReport, NoSnapshot
<1>15. CASE RecordPlaced
  BY <1>15 DEF RecordPlaced, RecordSubmission, SubmissionStatus
<1>16. CASE VerifyPlaced
  BY <1>16 DEF VerifyPlaced, MayRetry, End, ForgetCheck, NoReport, NoSnapshot
<1>17. CASE ModifyServed
  BY <1>17 DEF ModifyServed, CanServe, Serve, Goto
<1>18. CASE ModifyRejected
  BY <1>18 DEF ModifyRejected, End, ForgetCheck, NoReport, NoSnapshot
<1>19. CASE ModifyDone
  BY <1>19 DEF ModifyDone
<1>20. CASE VerifySlTp
  BY <1>20 DEF VerifySlTp, SeenAttached, Positions, MayRetry, MarkSlTpAttached,
     LoadOne, End, ForgetCheck, NoReport, NoSnapshot
<1>21. CASE ActServed
  BY <1>21 DEF ActServed, CanServe, Serve, Tool, NoSnapshot
<1>22. CASE ActRejected
  BY <1>22 DEF ActRejected, End, ForgetCheck, NoReport, NoSnapshot
<1>23. CASE ActDone
  BY <1>23 DEF ActDone, Goto
<1>24. CASE ConfirmAct
  BY <1>24 DEF ConfirmAct, RecordCancelled, RecordClosed, Transition, LoadOne, End,
     ForgetCheck, NoReport, NoSnapshot
<1>25. CASE ReadRaises
  BY <1>25 DEF ReadRaises, End, ForgetCheck, NoReport, NoSnapshot
<1>26. CASE AnswerLost
  BY <1>26 DEF AnswerLost, End, ForgetCheck, NoReport, NoSnapshot
<1>27. CASE RequestLost
  BY <1>27 DEF RequestLost, RequestOverdue, Tool, SendPcs, End, ForgetCheck,
     NoReport, NoSnapshot
<1>28. CASE ReconcileReadOrders
  BY <1>28 DEF ReconcileReadOrders, Orders
<1>29. CASE ReconcileLeftovers
  BY <1>29 DEF ReconcileLeftovers, AllOpen, OpenStatuses, RecordCancelled,
     RecordClosed, Transition, End, ForgetCheck, NoReport, NoSnapshot
<1>30. CASE Crash
  BY <1>30 DEF Crash, RequestOverdue, Tool, End, ForgetCheck, NoReport, NoSnapshot
<1>31. CASE \E t \in Tickets : Adopt(t)
  BY <1>31 DEF Adopt, RecordManualAdoption, OpenStatuses
<1>32. CASE \E t \in Tickets : Corrupt(t)
  BY <1>32 DEF Corrupt
<1>33. CASE \E t \in Tickets : Repair(t)
  BY <1>33 DEF Repair
<1>34. CASE Environment /\ Market
  BY <1>34 DEF Environment, Market, Fill
<1>35. CASE Environment /\ (\E t \in Tickets : ManualOpen(t))
  BY <1>35 DEF Environment, ManualOpen
<1>36. CASE Environment /\ (\E t \in Tickets : ManualRemove(t))
  BY <1>36 DEF Environment, ManualRemove, Live
<1>37. CASE Environment /\ (\E p, a \in Tickets : StopTriggers(p, a))
  BY <1>37 DEF Environment, StopTriggers
<1>38. CASE Environment /\ (\E a \in Tickets : StopDeal(a))
  BY <1>38 DEF Environment, StopDeal
<1>39. CASE Environment /\ (\E a \in Tickets : ArtifactSettles(a))
  BY <1>39 DEF Environment, ArtifactSettles
<1>40. CASE Environment /\ (\E t \in Tickets : LateOpen(t))
  BY <1>40 DEF Environment, LateOpen, OpenTicket
<1>41. CASE Environment /\ (\E t \in Tickets : LateOpenDropped(t))
  BY <1>41 DEF Environment, LateOpenDropped
<1>42. CASE Environment /\ (\E c \in late : LateCall(c))
  BY <1>42 DEF Environment, LateCall, CanServe, Serve
<1>43. CASE UNCHANGED vars
  BY <1>43
<1> QED   BY <1>1, <1>2, <1>3, <1>4, <1>5, <1>6, <1>7, <1>8, <1>9, <1>10, <1>11,
     <1>12, <1>13, <1>14, <1>15, <1>16, <1>17, <1>18, <1>19, <1>20, <1>21, <1>22,
     <1>23, <1>24, <1>25, <1>26, <1>27, <1>28, <1>29, <1>30, <1>31, <1>32, <1>33,
     <1>34, <1>35, <1>36, <1>37, <1>38, <1>39, <1>40, <1>41, <1>42, <1>43,
     NextActions

\* A ticket only moves forward: a pending order never comes back, a position
\* can only be closed, and what is over stays over.
LEMMA KindStep ==
  ASSUME TypeOK, OpInv, BrokerInv, [Next]_vars, NEW t \in Tickets
  PROVE  /\ kind[t] \in {"cancelled", "closed"} => kind'[t] = kind[t]
         /\ kind[t] = "position" => kind'[t] \in {"position", "closed"}
         /\ kind[t] = "pending" => kind'[t] \in {"pending", "position", "cancelled", "closed"}
<1> USE TicketsAssumption DEF BrokerInv, OpInv, TypeOK, BrokerTypeOK
<1>1. CASE UNCHANGED kind
  BY <1>1
<1>2. CASE \E u \in Tickets : PlaceServed(u)
  BY <1>2 DEF PlaceServed, OpenTicket
<1>3. CASE ModifyServed
  BY <1>3 DEF ModifyServed, Serve
<1>4. CASE ActServed
  BY <1>4 DEF ActServed, CanServe, Serve, Tool
<1>5. CASE RequestLost
  BY <1>5 DEF RequestLost, RequestOverdue
<1>6. CASE Crash
  BY <1>6 DEF Crash, RequestOverdue
<1>7. CASE Environment /\ Market
  BY <1>7 DEF Environment, Market, Fill
<1>8. CASE Environment /\ (\E u \in Tickets : ManualOpen(u))
  BY <1>8 DEF Environment, ManualOpen
<1>9. CASE Environment /\ (\E u \in Tickets : ManualRemove(u))
  BY <1>9 DEF Environment, ManualRemove, Live
<1>10. CASE Environment /\ (\E p, a \in Tickets : StopTriggers(p, a))
  BY <1>10 DEF Environment, StopTriggers
<1>11. CASE Environment /\ (\E a \in Tickets : StopDeal(a))
  BY <1>11 DEF Environment, StopDeal
<1>12. CASE Environment /\ (\E a \in Tickets : ArtifactSettles(a))
  BY <1>12 DEF Environment, ArtifactSettles
<1>13. CASE Environment /\ (\E u \in Tickets : LateOpen(u))
  BY <1>13 DEF Environment, LateOpen, OpenTicket
<1>14. CASE Environment /\ (\E u \in Tickets : LateOpenDropped(u))
  BY <1>14 DEF Environment, LateOpenDropped
<1>15. CASE Environment /\ (\E c \in late : LateCall(c))
  BY <1>15, LateCallEffect DEF Environment
<1> QED
  BY <1>1, <1>2, <1>3, <1>4, <1>5, <1>6, <1>7, <1>8, <1>9, <1>10, <1>11, <1>12, <1>13,
     <1>14, <1>15, NextActions
     DEF Submit, Manage, ReconcileStart, LoadFails, LoadLocal, ReadPositions, ReadOrders,
         ExplainUnknownReal, DealsUnavailable, DecideSubmit, DecideManage, CheckVolume,
         PlaceRejected, RecordPlaced, VerifyPlaced, ModifyRejected, ModifyDone, VerifySlTp,
         ActRejected, ActDone, ConfirmAct, ReadRaises, AnswerLost, ReconcileReadOrders,
         ReconcileLeftovers, Adopt, Corrupt, Repair

\* The records keep saying true things about the account, whatever CLOSED
\* records there were before.
LEMMA WrittenStep ==
  ASSUME TypeOK, OpInv, BrokerInv, WrittenInv,
         [Next]_vars
  PROVE  WrittenInv'
<1> USE TicketsAssumption DEF WrittenInv, OpInv, BrokerInv, TypeOK, BrokerTypeOK,
    Calls
<1>1. CASE \E o \in Ops : Submit(o)
  BY <1>1 DEF Submit
<1>2. CASE \E o \in Ops, t \in Tickets : Manage(o, t)
  BY <1>2 DEF Manage
<1>3. CASE ReconcileStart
  BY <1>3 DEF ReconcileStart
<1>4. CASE LoadFails
  BY <1>4 DEF LoadFails, End, ForgetCheck, NoReport, NoSnapshot
<1>5. CASE LoadLocal
  BY <1>5 DEF LoadLocal, AllOpen, OpenStatuses, Positions, Orders
<1>6. CASE ReadPositions
  BY <1>6 DEF ReadPositions, Positions
<1>7. CASE ReadOrders
  BY <1>7 DEF ReadOrders, Reconcile, AsksForDeals, Orders
<1>8. CASE ExplainUnknownReal
  <2> DEFINE evidence == {closes[a] : a \in {b \in report.unknown_real : ExplainOne(b)}}
  <2>1. \A t \in evidence : t \in Tickets /\ kind[t] = "closed"
    BY DEF ExplainOne
  <2>2. PICK done \in SUBSET evidence : store' = RecordClosed(store, done)
    BY <1>8 DEF ExplainUnknownReal
  <2>3. \A t \in Tickets : \/ store'[t] = store[t]
                           \/ store[t] # "NONE" /\ store'[t] = "CLOSED" /\ kind[t] = "closed"
    BY <2>1, <2>2 DEF RecordClosed, Transition
  <2>4. pc' \in {"decide", "idle"} /\ UNCHANGED brokerVars
    BY <1>8 DEF ExplainUnknownReal, End
  <2> QED
    BY <2>3, <2>4
<1>9. CASE DealsUnavailable
  BY <1>9 DEF DealsUnavailable, Goto
<1>10. CASE DecideSubmit
  BY <1>10 DEF DecideSubmit, Goto, Proceed, ForgetCheck, NoReport, Posture,
     DeterminePosture, End, NoSnapshot
<1>11. CASE DecideManage
  BY <1>11 DEF DecideManage, Goto, Proceed, ForgetCheck, NoReport, Posture,
     DeterminePosture, Attributable, End, NoSnapshot
<1>12. CASE CheckVolume
  BY <1>12 DEF CheckVolume, Goto, Positions, End, ForgetCheck, NoReport, NoSnapshot
<1>13. CASE \E t \in Tickets : PlaceServed(t)
  BY <1>13 DEF PlaceServed, OpenTicket, NoSnapshot
<1>14. CASE PlaceRejected
  BY <1>14 DEF PlaceRejected, End, ForgetCheck, NoReport, NoSnapshot
<1>15. CASE RecordPlaced
  BY <1>15 DEF RecordPlaced, RecordSubmission, SubmissionStatus
<1>16. CASE VerifyPlaced
  BY <1>16 DEF VerifyPlaced, MayRetry, End, ForgetCheck, NoReport, NoSnapshot
<1>17. CASE ModifyServed
  BY <1>17 DEF ModifyServed, CanServe, Serve, Goto
<1>18. CASE ModifyRejected
  BY <1>18 DEF ModifyRejected, End, ForgetCheck, NoReport, NoSnapshot
<1>19. CASE ModifyDone
  BY <1>19 DEF ModifyDone
<1>20. CASE VerifySlTp
  <2>1. \A t \in Tickets : \/ store'[t] = store[t]
                           \/ store[t] # "NONE" /\ store'[t] = "OPEN" /\ attached[t] /\ kind[t] = "position"
    BY <1>20 DEF VerifySlTp, SeenAttached, Positions, MarkSlTpAttached
  <2>2. pc' \in {"verify_sltp", "idle"} /\ UNCHANGED <<brokerVars, callVars>>
    BY <1>20 DEF VerifySlTp, End
  <2> QED
    BY <1>20, <2>1, <2>2 DEF VerifySlTp
<1>21. CASE ActServed
  BY <1>21 DEF ActServed, CanServe, Serve, Tool, NoSnapshot
<1>22. CASE ActRejected
  BY <1>22 DEF ActRejected, End, ForgetCheck, NoReport, NoSnapshot
<1>23. CASE ActDone
  BY <1>23 DEF ActDone, Goto
<1>24. CASE ConfirmAct
  <2>1. \A t \in Tickets :
           \/ store'[t] = store[t]
           \/ store[t] # "NONE" /\ store'[t] = "CANCELLED"
           \/ store[t] # "NONE" /\ store'[t] = "CLOSED" /\ kind[t] = "closed"
    BY <1>24 DEF ConfirmAct, RecordCancelled, RecordClosed, Transition
  <2>2. pc' = "idle" /\ UNCHANGED brokerVars
    BY <1>24 DEF ConfirmAct, End
  <2> QED
    BY <2>1, <2>2
<1>25. CASE ReadRaises
  BY <1>25 DEF ReadRaises, End, ForgetCheck, NoReport, NoSnapshot
<1>26. CASE AnswerLost
  BY <1>26 DEF AnswerLost, End, ForgetCheck, NoReport, NoSnapshot
<1>27. CASE RequestLost
  BY <1>27 DEF RequestLost, RequestOverdue, Tool, SendPcs, End, ForgetCheck,
     NoReport, NoSnapshot
<1>28. CASE ReconcileReadOrders
  BY <1>28 DEF ReconcileReadOrders, Orders
<1>29. CASE ReconcileLeftovers
  <2>1. \A t \in Tickets :
           \/ store'[t] = store[t]
           \/ store[t] # "NONE" /\ store'[t] = "CANCELLED"
           \/ store[t] # "NONE" /\ store'[t] = "CLOSED" /\ kind[t] = "closed"
    BY <1>29 DEF ReconcileLeftovers, RecordCancelled, RecordClosed, Transition
  <2>2. pc' = "idle" /\ UNCHANGED brokerVars
    BY <1>29 DEF ReconcileLeftovers, End
  <2> QED
    BY <2>1, <2>2
<1>30. CASE Crash
  BY <1>30 DEF Crash, RequestOverdue, Tool, End, ForgetCheck, NoReport, NoSnapshot
<1>31. CASE \E t \in Tickets : Adopt(t)
  BY <1>31 DEF Adopt, RecordManualAdoption, OpenStatuses
<1>32. CASE \E t \in Tickets : Corrupt(t)
  BY <1>32 DEF Corrupt
<1>33. CASE \E t \in Tickets : Repair(t)
  BY <1>33 DEF Repair
<1>34. CASE Environment /\ Market
  BY <1>34 DEF Environment, Market, Fill
<1>35. CASE Environment /\ (\E t \in Tickets : ManualOpen(t))
  BY <1>35 DEF Environment, ManualOpen
<1>36. CASE Environment /\ (\E t \in Tickets : ManualRemove(t))
  BY <1>36 DEF Environment, ManualRemove, Live
<1>37. CASE Environment /\ (\E p, a \in Tickets : StopTriggers(p, a))
  BY <1>37 DEF Environment, StopTriggers
<1>38. CASE Environment /\ (\E a \in Tickets : StopDeal(a))
  BY <1>38 DEF Environment, StopDeal
<1>39. CASE Environment /\ (\E a \in Tickets : ArtifactSettles(a))
  BY <1>39 DEF Environment, ArtifactSettles
<1>40. CASE Environment /\ (\E t \in Tickets : LateOpen(t))
  BY <1>40 DEF Environment, LateOpen, OpenTicket
<1>41. CASE Environment /\ (\E t \in Tickets : LateOpenDropped(t))
  BY <1>41 DEF Environment, LateOpenDropped
<1>42. CASE Environment /\ (\E c \in late : LateCall(c))
  <2>1. PICK c \in late : Environment /\ LateCall(c)
    BY <1>42
  <2> QED
    BY <2>1, LateCallEffect DEF Environment
<1>43. CASE UNCHANGED vars
  BY <1>43
<1> QED   BY <1>1, <1>2, <1>3, <1>4, <1>5, <1>6, <1>7, <1>8, <1>9, <1>10, <1>11,
     <1>12, <1>13, <1>14, <1>15, <1>16, <1>17, <1>18, <1>19, <1>20, <1>21, <1>22,
     <1>23, <1>24, <1>25, <1>26, <1>27, <1>28, <1>29, <1>30, <1>31, <1>32, <1>33,
     <1>34, <1>35, <1>36, <1>37, <1>38, <1>39, <1>40, <1>41, <1>42, <1>43,
     NextActions

\* A record becomes CLOSED only of a closed position; without the leftover
\* script it becomes CANCELLED only of an order that was removed.
LEMMA TerminalStep ==
  ASSUME TypeOK, OpInv, BrokerInv, WrittenInv, [Next]_vars,
         NEW t \in Tickets, store'[t] # store[t]
  PROVE  /\ store'[t] = "CLOSED" => kind[t] = "closed"
         /\ store'[t] = "CANCELLED" /\ op # "reconcile" => kind[t] = "cancelled"
<1> USE TicketsAssumption DEF TypeOK, OpInv, WrittenInv
<1>1. CASE UNCHANGED store
  BY <1>1
<1>2. CASE RecordPlaced
  BY <1>2 DEF RecordPlaced, RecordSubmission, SubmissionStatus
<1>3. CASE ExplainUnknownReal
  <2> DEFINE evidence == {closes[a] : a \in {b \in report.unknown_real : ExplainOne(b)}}
  <2>1. \A u \in evidence : u \in Tickets /\ kind[u] = "closed"
    BY DEF ExplainOne, BrokerInv
  <2>2. PICK done \in SUBSET evidence : store' = RecordClosed(store, done)
    BY <1>3 DEF ExplainUnknownReal
  <2> QED
    BY <2>1, <2>2 DEF RecordClosed, Transition
<1>4. CASE VerifySlTp
  BY <1>4 DEF VerifySlTp, MarkSlTpAttached
<1>5. CASE ConfirmAct
  <2>1. t = target
    BY <1>5 DEF ConfirmAct, RecordCancelled, RecordClosed, Transition
  <2> QED
    BY <1>5, <2>1 DEF ConfirmAct, RecordCancelled, RecordClosed, Transition
<1>6. CASE ReconcileLeftovers
  BY <1>6 DEF ReconcileLeftovers, RecordCancelled, RecordClosed, Transition
<1>7. CASE \E u \in Tickets : Adopt(u)
  BY <1>7 DEF Adopt, RecordManualAdoption
<1> QED
  BY <1>1, <1>2, <1>3, <1>4, <1>5, <1>6, <1>7, NextActions
     DEF Submit, Manage, ReconcileStart, LoadFails, LoadLocal, ReadPositions, ReadOrders,
         DealsUnavailable, DecideSubmit, DecideManage, CheckVolume, PlaceServed,
         PlaceRejected, VerifyPlaced, ModifyServed, ModifyRejected, ModifyDone, ActServed,
         ActRejected, ActDone, ReadRaises, AnswerLost, RequestLost, ReconcileReadOrders,
         Crash, Corrupt, Repair, Environment

\* All that the records say stays true.
LEMMA RecordStep ==
  ASSUME TypeOK, OpInv, BrokerInv, RecordInv, [Next]_vars
  PROVE  RecordInv'
<1>1. WrittenInv'
  BY WrittenStep DEF RecordInv
<1>2. ASSUME NEW t \in Tickets, store'[t] = "CLOSED"
      PROVE  kind'[t] = "closed"
  <2>1. kind[t] = "closed"
    BY <1>2, TerminalStep DEF RecordInv, ClosedIsClosed
  <2> QED
    BY <2>1, KindStep
<1> QED
  BY <1>1, <1>2 DEF RecordInv, ClosedIsClosed

\* The posture check overlooks no steady ticket.
LEMMA CheckStep ==
  ASSUME TypeOK, OpInv, BrokerInv, CheckInv,
         [Next]_vars
  PROVE  CheckInv'
<1> USE TicketsAssumption DEF CheckInv, SteadyUnknown, OpInv, BrokerInv, TypeOK,
    BrokerTypeOK
<1>1. CASE \E o \in Ops : Submit(o)
  BY <1>1 DEF Submit
<1>2. CASE \E o \in Ops, t \in Tickets : Manage(o, t)
  BY <1>2 DEF Manage
<1>3. CASE ReconcileStart
  BY <1>3 DEF ReconcileStart
<1>4. CASE LoadFails
  BY <1>4 DEF LoadFails, End, ForgetCheck, NoReport, NoSnapshot
<1>5. CASE LoadLocal
  BY <1>5 DEF LoadLocal, AllOpen, OpenStatuses, Positions, Orders
<1>6. CASE ReadPositions
  BY <1>6 DEF ReadPositions, Positions
<1>7. CASE ReadOrders
  BY <1>7 DEF ReadOrders, Reconcile, AsksForDeals, Orders
<1>8. CASE ExplainUnknownReal
  BY <1>8 DEF ExplainUnknownReal, ExplainOne, RecordClosed, Transition, LoadOne,
     End, ForgetCheck, NoReport, NoSnapshot
<1>9. CASE DealsUnavailable
  BY <1>9 DEF DealsUnavailable, Goto
<1>10. CASE DecideSubmit
  BY <1>10 DEF DecideSubmit, Goto, Proceed, ForgetCheck, NoReport, Posture,
     DeterminePosture, End, NoSnapshot
<1>11. CASE DecideManage
  BY <1>11 DEF DecideManage, Goto, Proceed, ForgetCheck, NoReport, Posture,
     DeterminePosture, Attributable, End, NoSnapshot
<1>12. CASE CheckVolume
  BY <1>12 DEF CheckVolume, Goto, Positions, End, ForgetCheck, NoReport, NoSnapshot
<1>13. CASE \E t \in Tickets : PlaceServed(t)
  BY <1>13 DEF PlaceServed, OpenTicket, NoSnapshot
<1>14. CASE PlaceRejected
  BY <1>14 DEF PlaceRejected, End, ForgetCheck, NoReport, NoSnapshot
<1>15. CASE RecordPlaced
  BY <1>15 DEF RecordPlaced, RecordSubmission, SubmissionStatus
<1>16. CASE VerifyPlaced
  BY <1>16 DEF VerifyPlaced, MayRetry, End, ForgetCheck, NoReport, NoSnapshot
<1>17. CASE ModifyServed
  BY <1>17 DEF ModifyServed, CanServe, Serve, Goto
<1>18. CASE ModifyRejected
  BY <1>18 DEF ModifyRejected, End, ForgetCheck, NoReport, NoSnapshot
<1>19. CASE ModifyDone
  BY <1>19 DEF ModifyDone
<1>20. CASE VerifySlTp
  BY <1>20 DEF VerifySlTp, SeenAttached, Positions, MayRetry, MarkSlTpAttached,
     LoadOne, End, ForgetCheck, NoReport, NoSnapshot
<1>21. CASE ActServed
  BY <1>21 DEF ActServed, CanServe, Serve, Tool, NoSnapshot
<1>22. CASE ActRejected
  BY <1>22 DEF ActRejected, End, ForgetCheck, NoReport, NoSnapshot
<1>23. CASE ActDone
  BY <1>23 DEF ActDone, Goto
<1>24. CASE ConfirmAct
  BY <1>24 DEF ConfirmAct, RecordCancelled, RecordClosed, Transition, LoadOne, End,
     ForgetCheck, NoReport, NoSnapshot
<1>25. CASE ReadRaises
  BY <1>25 DEF ReadRaises, End, ForgetCheck, NoReport, NoSnapshot
<1>26. CASE AnswerLost
  BY <1>26 DEF AnswerLost, End, ForgetCheck, NoReport, NoSnapshot
<1>27. CASE RequestLost
  BY <1>27 DEF RequestLost, RequestOverdue, Tool, SendPcs, End, ForgetCheck,
     NoReport, NoSnapshot
<1>28. CASE ReconcileReadOrders
  BY <1>28 DEF ReconcileReadOrders, Orders
<1>29. CASE ReconcileLeftovers
  BY <1>29 DEF ReconcileLeftovers, AllOpen, OpenStatuses, RecordCancelled,
     RecordClosed, Transition, End, ForgetCheck, NoReport, NoSnapshot
<1>30. CASE Crash
  BY <1>30 DEF Crash, RequestOverdue, Tool, End, ForgetCheck, NoReport, NoSnapshot
<1>31. CASE \E t \in Tickets : Adopt(t)
  BY <1>31 DEF Adopt, RecordManualAdoption, OpenStatuses
<1>32. CASE \E t \in Tickets : Corrupt(t)
  BY <1>32 DEF Corrupt
<1>33. CASE \E t \in Tickets : Repair(t)
  BY <1>33 DEF Repair
<1>34. CASE Environment /\ Market
  BY <1>34 DEF Environment, Market, Fill
<1>35. CASE Environment /\ (\E t \in Tickets : ManualOpen(t))
  BY <1>35 DEF Environment, ManualOpen
<1>36. CASE Environment /\ (\E t \in Tickets : ManualRemove(t))
  BY <1>36 DEF Environment, ManualRemove, Live
<1>37. CASE Environment /\ (\E p, a \in Tickets : StopTriggers(p, a))
  BY <1>37 DEF Environment, StopTriggers
<1>38. CASE Environment /\ (\E a \in Tickets : StopDeal(a))
  BY <1>38 DEF Environment, StopDeal
<1>39. CASE Environment /\ (\E a \in Tickets : ArtifactSettles(a))
  BY <1>39 DEF Environment, ArtifactSettles
<1>40. CASE Environment /\ (\E t \in Tickets : LateOpen(t))
  BY <1>40 DEF Environment, LateOpen, OpenTicket
<1>41. CASE Environment /\ (\E t \in Tickets : LateOpenDropped(t))
  BY <1>41 DEF Environment, LateOpenDropped
<1>42. CASE Environment /\ (\E c \in late : LateCall(c))
  <2>1. PICK c \in late : Environment /\ LateCall(c)
    BY <1>42
  <2> QED
    BY <2>1, LateCallEffect DEF Environment
<1>43. CASE UNCHANGED vars
  BY <1>43
<1> QED   BY <1>1, <1>2, <1>3, <1>4, <1>5, <1>6, <1>7, <1>8, <1>9, <1>10, <1>11,
     <1>12, <1>13, <1>14, <1>15, <1>16, <1>17, <1>18, <1>19, <1>20, <1>21, <1>22,
     <1>23, <1>24, <1>25, <1>26, <1>27, <1>28, <1>29, <1>30, <1>31, <1>32, <1>33,
     <1>34, <1>35, <1>36, <1>37, <1>38, <1>39, <1>40, <1>41, <1>42, <1>43,
     NextActions

\* What the account book rests on is preserved by every step.
LEMMA BookStep ==
  ASSUME TypeOK, OpInv, BookInv, [Next]_vars
  PROVE  BookInv'
<1> USE TicketsAssumption DEF TypeOK, OpInv, BookInv, AllOpen, SubmissionStatus
<1>0. ASSUME NEW r, End(r)
      PROVE  BookInv'
  BY <1>0 DEF End
<1>1. CASE UNCHANGED <<store, pc, op, target, local_open, base>>
  BY <1>1
<1>2. CASE \E o \in Ops : Submit(o)
  BY <1>2 DEF Submit
<1>3. CASE \E o \in Ops, t \in Tickets : Manage(o, t)
  BY <1>3 DEF Manage
<1>4. CASE ReconcileStart
  BY <1>4 DEF ReconcileStart
<1>5. CASE LoadLocal
  BY <1>5 DEF LoadLocal
<1>6. CASE ReadPositions
  BY <1>6 DEF ReadPositions
<1>7. CASE ReadOrders
  BY <1>7 DEF ReadOrders
<1>8. CASE ExplainUnknownReal
  <2>1. CASE pc' = "decide" /\ UNCHANGED <<op, base>>
    BY <1>8, <2>1 DEF ExplainUnknownReal
  <2> QED
    BY <1>0, <1>8, <2>1 DEF ExplainUnknownReal
<1>9. CASE DealsUnavailable
  BY <1>9 DEF DealsUnavailable, Goto
<1>10. CASE DecideSubmit \/ DecideManage
  <2>1. CASE pc' \in {"place", "volume", "act"} /\ UNCHANGED <<op, base>>
    BY <1>10, <2>1 DEF DecideSubmit, DecideManage
  <2> QED
    BY <1>0, <1>10, <2>1 DEF DecideSubmit, DecideManage, Proceed
<1>11. CASE CheckVolume
  BY <1>0, <1>11 DEF CheckVolume, Goto
<1>12. CASE \E t \in Tickets : PlaceServed(t)
  BY <1>12 DEF PlaceServed
<1>13. CASE RecordPlaced
  BY <1>13 DEF RecordPlaced, RecordSubmission
<1>14. CASE VerifyPlaced
  BY <1>0, <1>14 DEF VerifyPlaced
<1>15. CASE ModifyServed \/ ModifyDone
  BY <1>15 DEF ModifyServed, ModifyDone, Goto
<1>16. CASE VerifySlTp
  BY <1>0, <1>16 DEF VerifySlTp
<1>17. CASE ActServed \/ ActDone
  BY <1>17 DEF ActServed, ActDone, Goto
<1>18. CASE ReconcileReadOrders
  BY <1>18 DEF ReconcileReadOrders
<1>19. CASE \E t \in Tickets : Adopt(t)
  BY <1>19 DEF Adopt
<1>20. CASE \E r : End(r)
  BY <1>0, <1>20
<1>21. Environment \/ UNCHANGED vars \/ (\E t \in Tickets : Corrupt(t) \/ Repair(t))
          => UNCHANGED <<store, pc, op, target, local_open, base>>
  BY DEF Environment, Corrupt, Repair
<1>22. LoadFails \/ PlaceRejected \/ ModifyRejected \/ ActRejected \/ ConfirmAct \/ ReadRaises
          \/ AnswerLost \/ RequestLost \/ ReconcileLeftovers \/ Crash => \E r : End(r)
  BY DEF LoadFails, PlaceRejected, ModifyRejected, ActRejected, ConfirmAct, ReadRaises,
     AnswerLost, RequestLost, ReconcileLeftovers, Crash
<1> QED
  BY <1>1, <1>2, <1>3, <1>4, <1>5, <1>6, <1>7, <1>8, <1>9, <1>10, <1>11, <1>12, <1>13,
     <1>14, <1>15, <1>16, <1>17, <1>18, <1>19, <1>20, <1>21, <1>22, NextActions

\* IndInv is inductive.
THEOREM IndInvHolds == Spec => []IndInv
<1>1. Init => IndInv
  BY TicketsAssumption, AttemptsAssumption
     DEF Init, BrokerInit, IndInv, TypeOK, BrokerTypeOK, OpInv, BrokerInv, RecordInv,
         WrittenInv, ClosedIsClosed, CheckInv, BookInv, SteadyUnknown, NoReport, NoSnapshot,
         Statuses, Kinds, Owners, Deals, Pcs, Results
<1>2. IndInv /\ [Next]_vars => IndInv'
  BY TypeStep, BrokerStep, RecordStep, CheckStep, BookStep DEF IndInv
<1> QED
  BY <1>1, <1>2, PTL DEF Spec

\* Every variable of the executor, the store and the account keeps its type.
THEOREM TypeCorrect == Spec => []TypeOK
BY IndInvHolds, PTL DEF IndInv

\* submit() never places an order past a ticket that was on the account,
\* unattributed and unchanged in kind, during the whole posture check.
THEOREM SubmitIsNeverBlind == Spec => []NoBlindSubmit
<1>1. IndInv => NoBlindSubmit
  BY DEF IndInv, CheckInv, NoBlindSubmit
<1> QED
  BY <1>1, IndInvHolds, PTL

\* Nor do cancel() and close_position() ever act on such a ticket.
THEOREM ManagementIsNeverBlind == Spec => []NoBlindManagement
<1>1. IndInv => NoBlindManagement
  BY DEF IndInv, CheckInv, NoBlindManagement
<1> QED
  BY <1>1, IndInvHolds, PTL

\* A CLOSED record belongs to a closed position: none is forgotten.
THEOREM NoPositionIsForgotten == Spec => []ClosedIsClosed
<1>1. IndInv => ClosedIsClosed
  BY DEF IndInv, RecordInv
<1> QED
  BY <1>1, IndInvHolds, PTL

\* A MARKET record is OPEN only if the requested stops were attached.
THEOREM OpenMeansProtected == Spec => []OpenIsProtected
<1>1. IndInv => OpenIsProtected
  BY DEF IndInv, RecordInv, WrittenInv, OpenIsProtected
<1> QED
  BY <1>1, IndInvHolds, PTL

\* A MARKET position never has its stops before it has its record.
THEOREM RecordPrecedesProtection == Spec => []RecordedBeforeProtected
<1>1. IndInv => RecordedBeforeProtected
  BY DEF IndInv, RecordInv, WrittenInv, RecordedBeforeProtected
<1> QED
  BY <1>1, IndInvHolds, PTL

\* No step takes a record out of CLOSED: the ticket of a new submission is
\* fresh, the ticket of a cancel, an attachment or an adoption was seen alive,
\* and the leftover script only touches open records.
LEMMA ClosedStep ==
  ASSUME IndInv, [Next]_vars, NEW t \in Tickets, store[t] = "CLOSED"
  PROVE  store'[t] = "CLOSED"
<1> USE TicketsAssumption DEF IndInv, TypeOK, OpInv, RecordInv, WrittenInv, ClosedIsClosed
<1>1. CASE UNCHANGED store
  BY <1>1
<1>2. CASE RecordPlaced
  BY <1>2 DEF RecordPlaced, RecordSubmission
<1>3. CASE ExplainUnknownReal
  <2>1. \E done \in SUBSET Tickets : store' = RecordClosed(store, done)
    BY <1>3 DEF ExplainUnknownReal, BrokerTypeOK, BrokerInv, ExplainOne
  <2> QED
    BY <2>1 DEF RecordClosed, Transition
<1>4. CASE VerifySlTp
  BY <1>4 DEF VerifySlTp, SeenAttached, Positions, MarkSlTpAttached
<1>5. CASE ConfirmAct
  BY <1>5 DEF ConfirmAct, RecordCancelled, RecordClosed, Transition
<1>6. CASE ReconcileLeftovers
  BY <1>6 DEF ReconcileLeftovers, AllOpen, OpenStatuses, RecordCancelled, RecordClosed, Transition
<1>7. CASE \E u \in Tickets : Adopt(u)
  BY <1>7 DEF Adopt, RecordManualAdoption
<1> QED
  BY <1>1, <1>2, <1>3, <1>4, <1>5, <1>6, <1>7, NextActions
     DEF Submit, Manage, ReconcileStart, LoadFails, LoadLocal, ReadPositions, ReadOrders,
         DealsUnavailable, DecideSubmit, DecideManage, CheckVolume, PlaceServed,
         PlaceRejected, VerifyPlaced, ModifyServed, ModifyRejected, ModifyDone, ActServed,
         ActRejected, ActDone, ReadRaises, AnswerLost, RequestLost, ReconcileReadOrders,
         Crash, Corrupt, Repair, Environment

\* A record that says CLOSED says so for ever.
THEOREM ClosedStaysClosed == Spec => ClosedIsFinal
<1>1. IndInv /\ [Next]_vars =>
          [\A t \in Tickets : store[t] = "CLOSED" => store'[t] = "CLOSED"]_vars
  BY ClosedStep
<1> QED
  BY <1>1, IndInvHolds, PTL DEF Spec, ClosedIsFinal

-----------------------------------------------------------------------------

\* A closing order of a stop that was listed when the check began is
\* unattributed, until the check writes its position off.
StopInv ==
    \A a \in base.orders : own[a] = "artifact" /\ kind[a] = "pending" =>
        /\ pc = "deals" /\ op # "reconcile" => a \in report.unknown_real
        /\ pc = "decide" => \/ a \in report.unknown_real
                            \/ closes[a] \in local_open /\ store[closes[a]] = "CLOSED"

\* The records the check started from.
LocalInv == \A t \in local_open : store[t] # "NONE"

\* A record stays a record.
LEMMA RecordedStep ==
  ASSUME TypeOK, OpInv, BrokerInv, [Next]_vars, NEW t \in Tickets, store[t] # "NONE"
  PROVE  store'[t] # "NONE"
<1> USE TicketsAssumption DEF TypeOK, OpInv
<1>1. CASE UNCHANGED store
  BY <1>1
<1>2. CASE RecordPlaced
  BY <1>2 DEF RecordPlaced, RecordSubmission, SubmissionStatus
<1>3. CASE ExplainUnknownReal
  <2>1. \E done \in SUBSET Tickets : store' = RecordClosed(store, done)
    BY <1>3 DEF ExplainUnknownReal, BrokerTypeOK, BrokerInv, ExplainOne
  <2> QED
    BY <2>1 DEF RecordClosed, Transition
<1>4. CASE VerifySlTp
  BY <1>4 DEF VerifySlTp, MarkSlTpAttached
<1>5. CASE ConfirmAct
  BY <1>5 DEF ConfirmAct, RecordCancelled, RecordClosed, Transition
<1>6. CASE ReconcileLeftovers
  BY <1>6 DEF ReconcileLeftovers, RecordCancelled, RecordClosed, Transition
<1>7. CASE \E u \in Tickets : Adopt(u)
  BY <1>7 DEF Adopt, RecordManualAdoption
<1> QED
  BY <1>1, <1>2, <1>3, <1>4, <1>5, <1>6, <1>7, NextActions
     DEF Submit, Manage, ReconcileStart, LoadFails, LoadLocal, ReadPositions, ReadOrders,
         DealsUnavailable, DecideSubmit, DecideManage, CheckVolume, PlaceServed,
         PlaceRejected, VerifyPlaced, ModifyServed, ModifyRejected, ModifyDone, ActServed,
         ActRejected, ActDone, ReadRaises, AnswerLost, RequestLost, ReconcileReadOrders,
         Crash, Corrupt, Repair, Environment

\* What the check started from stays recorded.
LEMMA LocalStep ==
  ASSUME IndInv, LocalInv, [Next]_vars
  PROVE  LocalInv'
<1>1. \A t \in Tickets : store[t] # "NONE" => store'[t] # "NONE"
  BY RecordedStep DEF IndInv
<1>2. CASE UNCHANGED local_open
  BY <1>1, <1>2 DEF LocalInv, IndInv, TypeOK
<1>3. CASE local_open' = {}
  BY <1>3 DEF LocalInv
<1>4. CASE LoadLocal
  BY <1>4 DEF LoadLocal, AllOpen, OpenStatuses, LocalInv
<1> QED
  BY <1>2, <1>3, <1>4, NextActions
     DEF Submit, Manage, ReconcileStart, LoadFails, ReadPositions, ReadOrders,
         ExplainUnknownReal, DealsUnavailable, DecideSubmit, DecideManage, CheckVolume,
         Proceed, Goto, End, ForgetCheck, PlaceServed, PlaceRejected, RecordPlaced, VerifyPlaced,
         ModifyServed, ModifyRejected, ModifyDone, VerifySlTp, ActServed, ActRejected, ActDone,
         ConfirmAct, ReadRaises, AnswerLost, RequestLost, ReconcileReadOrders,
         ReconcileLeftovers, Crash, Adopt, Corrupt, Repair, Environment

\* On the account a listed order goes forward only, and an artifact belongs to
\* its position for good.
LEMMA ListedOrderStep ==
  ASSUME IndInv, Environment, NEW t \in base.orders, kind'[t] = "pending"
  PROVE  kind[t] = "pending" /\ own'[t] = own[t] /\ closes'[t] = closes[t]
<1> USE TicketsAssumption DEF IndInv, TypeOK, BrokerTypeOK, CheckInv
<1>1. t \in Tickets /\ kind[t] \in {"pending", "position", "cancelled", "closed"}
  OBVIOUS
<1>2. CASE Market
  BY <1>1, <1>2 DEF Market, Fill
<1>3. CASE \E u \in Tickets : ManualOpen(u)
  BY <1>1, <1>3 DEF ManualOpen
<1>4. CASE \E u \in Tickets : ManualRemove(u)
  BY <1>1, <1>4 DEF ManualRemove
<1>5. CASE \E p, a \in Tickets : StopTriggers(p, a)
  BY <1>1, <1>5 DEF StopTriggers
<1>6. CASE \E a \in Tickets : StopDeal(a)
  BY <1>1, <1>6 DEF StopDeal, BrokerInv
<1>7. CASE \E a \in Tickets : ArtifactSettles(a)
  BY <1>1, <1>7 DEF ArtifactSettles
<1>8. CASE \E u \in Tickets : LateOpen(u) \/ LateOpenDropped(u)
  BY <1>1, <1>8 DEF LateOpen, OpenTicket, LateOpenDropped
<1>9. CASE \E c \in late : LateCall(c)
  BY <1>1, <1>9, LateCallEffect
<1> QED
  BY <1>2, <1>3, <1>4, <1>5, <1>6, <1>7, <1>8, <1>9
     DEF Environment, Trader, Stops, Overdue

\* The check keeps account of the closing orders.
LEMMA StopStep ==
  ASSUME IndInv, LocalInv, StopInv, [Next]_vars
  PROVE  StopInv'
<1> USE TicketsAssumption
<1>1. CASE pc' \notin {"deals", "decide"}
  BY <1>1 DEF StopInv
\* Most steps leave the check alone.
<1>2. CASE /\ UNCHANGED <<pc, op, base, report, local_open>>
           /\ \A t \in base.orders : kind'[t] = "pending" =>
                 kind[t] = "pending" /\ own'[t] = own[t] /\ closes'[t] = closes[t]
  <2>1. \A t \in base.orders : own[t] = "artifact" => closes[t] \in Tickets
    BY DEF IndInv, TypeOK, BrokerInv
  <2>2. \A t \in Tickets : store[t] = "CLOSED" => store'[t] = "CLOSED"
    BY ClosedStep
  <2> QED BY <1>2, <2>1, <2>2 DEF StopInv
<1>3. CASE Environment
  BY <1>3, <1>2, ListedOrderStep DEF Environment
<1>4. CASE UNCHANGED vars
  BY <1>4, <1>2
<1>5. CASE \E t \in Tickets : Adopt(t) \/ Corrupt(t) \/ Repair(t)
  BY <1>5, <1>2 DEF Adopt, Corrupt, Repair
<1>6. CASE ReadOrders
  BY <1>6 DEF ReadOrders, Reconcile, Orders, StopInv, IndInv, CheckInv, TypeOK
<1>7. CASE ExplainUnknownReal
  <2>1. \A a \in base.orders : own[a] = "artifact" => closes[a] \in Tickets
    BY DEF IndInv, TypeOK, BrokerInv
  <2>2. CASE pc' = "decide"
    <3> DEFINE explained == {a \in report.unknown_real : ExplainOne(a)}
               evidence  == {closes[a] : a \in explained}
    <3>1. /\ store' = RecordClosed(store, evidence)
          /\ report' = [report EXCEPT !.unknown_real = @ \ explained]
          /\ UNCHANGED <<base, own, kind, closes, local_open, op>>
          /\ pc = "deals" /\ op # "reconcile"
      BY <1>7, <2>2 DEF ExplainUnknownReal, End
    <3>2. \A t \in local_open \cap evidence : store'[t] = "CLOSED"
      <4> HIDE DEF evidence
      <4> QED BY <3>1 DEF RecordClosed, Transition, LocalInv, IndInv, TypeOK
    <3>3. report'.unknown_real = report.unknown_real \ explained
      BY <3>1 DEF IndInv, TypeOK
    <3>4. \A a \in explained : closes[a] \in local_open /\ closes[a] \in evidence
      BY DEF ExplainOne
    <3> HIDE DEF explained, evidence
    <3> QED BY <2>1, <2>2, <3>1, <3>2, <3>3, <3>4 DEF StopInv
  <2>3. CASE pc' # "decide"
    BY <1>1, <1>7, <2>3 DEF ExplainUnknownReal, End
  <2> QED BY <2>2, <2>3
<1>8. CASE DealsUnavailable
  BY <1>8 DEF DealsUnavailable, Goto, StopInv
<1>9. CASE ReconcileReadOrders
  BY <1>9 DEF ReconcileReadOrders, StopInv
<1> QED
  BY <1>1, <1>3, <1>4, <1>5, <1>6, <1>7, <1>8, <1>9, NextActions
     DEF Submit, Manage, ReconcileStart, LoadFails, LoadLocal, ReadPositions,
         DecideSubmit, DecideManage, CheckVolume, Proceed, PlaceServed, PlaceRejected, RecordPlaced,
         VerifyPlaced, ModifyServed, ModifyRejected, ModifyDone, VerifySlTp, ActServed,
         ActRejected, ActDone, ConfirmAct, ReadRaises, AnswerLost, RequestLost,
         ReconcileLeftovers, Crash, Goto, End

\* submit() goes on past the closing order of a stop only when the same check
\* has recorded its position CLOSED.
THEOREM StopsAreWrittenOff == Spec => StopsAreAccounted
<1>1. Init => LocalInv /\ StopInv
  BY DEF Init, LocalInv, StopInv, NoSnapshot
<1>2. IndInv /\ LocalInv /\ StopInv /\ [Next]_vars => LocalInv' /\ StopInv'
  BY LocalStep, StopStep
<1>3. IndInv /\ StopInv /\ [Next]_vars =>
          [pc = "decide" /\ pc' = "place" =>
              \A a \in base.orders :
                  own[a] = "artifact" /\ kind[a] = "pending"
                      => closes[a] \in local_open /\ store[closes[a]] = "CLOSED"]_vars
  <2> SUFFICES ASSUME IndInv, StopInv, [Next]_vars, pc = "decide", pc' = "place"
               PROVE  report.unknown_real = {}
    BY DEF StopInv
  <2>1. DecideSubmit
    BY NextActions
       DEF Submit, Manage, ReconcileStart, LoadFails, LoadLocal, ReadPositions, ReadOrders,
         ExplainUnknownReal, DealsUnavailable, DecideManage, CheckVolume, Proceed,
         PlaceServed, PlaceRejected, RecordPlaced,
         VerifyPlaced, ModifyServed, ModifyRejected, ModifyDone, VerifySlTp, ActServed,
         ActRejected, ActDone, ConfirmAct, ReadRaises, AnswerLost, RequestLost,
         ReconcileReadOrders, ReconcileLeftovers, Crash, Goto, End, Adopt, Corrupt, Repair,
         Environment
  <2> QED BY <2>1 DEF DecideSubmit, Posture, DeterminePosture, End
<1> QED
  BY <1>1, <1>2, <1>3, IndInvHolds, PTL DEF Spec, StopsAreAccounted


-----------------------------------------------------------------------------

\* Without the leftover script no operation is one.
NoReconcile == op # "reconcile"

\* Only a confirmed cancel writes CANCELLED, of an order it has removed; an
\* order that was removed stays so.
LEMMA CancelledStep ==
  ASSUME "reconcile" \notin Ops, IndInv, NoReconcile, CancelledNeverFilled, [Next]_vars
  PROVE  NoReconcile' /\ CancelledNeverFilled'
<1> USE TicketsAssumption DEF IndInv, TypeOK, OpInv, NoReconcile
<1>1. NoReconcile'
  BY NextActions
     DEF Submit, Manage, ReconcileStart, LoadFails, LoadLocal, ReadPositions, ReadOrders,
         ExplainUnknownReal, DealsUnavailable, DecideSubmit, DecideManage, CheckVolume,
         PlaceServed, PlaceRejected, RecordPlaced, VerifyPlaced, ModifyServed,
         ModifyRejected, ModifyDone, VerifySlTp, ActServed, ActRejected, ActDone,
         ConfirmAct, ReadRaises, AnswerLost, RequestLost, ReconcileReadOrders,
         ReconcileLeftovers, Crash, Adopt, Corrupt, Repair, Environment, End, Goto, Proceed
<1>2. ASSUME NEW t \in Tickets, store'[t] = "CANCELLED"
      PROVE  kind'[t] = "cancelled"
  <2>1. kind[t] = "cancelled"
    BY <1>2, TerminalStep DEF RecordInv, CancelledNeverFilled
  <2> QED
    BY <2>1, KindStep
<1> QED
  BY <1>1, <1>2 DEF CancelledNeverFilled

\* A record says CANCELLED only of an order that never filled (all_closed()):
\* the executor never runs beside the leftover script, which concludes it from
\* a deal history it may have read too early.
THEOREM CancelledMeansNeverFilled ==
  ASSUME "reconcile" \notin Ops
  PROVE  Spec => []CancelledNeverFilled
<1>1. Init => NoReconcile /\ CancelledNeverFilled
  BY DEF Init, NoReconcile, CancelledNeverFilled
<1>2. IndInv /\ NoReconcile /\ CancelledNeverFilled /\ [Next]_vars
          => NoReconcile' /\ CancelledNeverFilled'
  BY CancelledStep
<1> QED
  BY <1>1, <1>2, IndInvHolds, PTL DEF Spec

-----------------------------------------------------------------------------
(* The executor implements AccountBook.                                    *)

\* Nothing the book sees has changed.
LEMMA BookStands ==
  ASSUME \A t \in Tickets :
            \/ kind'[t] = kind[t] /\ own'[t] = own[t]
            \/ kind[t] \in {"unused", "late"} /\ kind'[t] \in {"unused", "late"},
         UNCHANGED base
  PROVE  BookAccount' = BookAccount /\ SteadyUnknown' = SteadyUnknown
<1>1. BookAccount' = BookAccount
  BY DEF BookAccount
<1>2. SteadyUnknown' = SteadyUnknown
  BY DEF SteadyUnknown
<1> QED
  BY <1>1, <1>2

\* An event on the account concerns one ticket, which is no longer steady.
LEMMA BookMoves ==
  ASSUME TypeOK, CheckInv, NEW t \in Tickets, kind' \in [Tickets -> Kinds],
         \A u \in Tickets \ {t} : kind'[u] = kind[u] /\ own'[u] = own[u],
         own'[t] = own[t] \/ kind[t] \in {"unused", "late"},
         BookAccount'[t] \in Book!Onward(BookAccount[t]),
         UNCHANGED <<store, pc, op, target, base>>
  PROVE  Book!Move(t)
<1> DEFINE s == BookAccount'[t]
<1>1. BookAccount' = [BookAccount EXCEPT ![t] = s]
  BY DEF BookAccount
<1>2. kind'[t] # kind[t]
  BY DEF BookAccount, Book!Onward
<1>3. t \notin SteadyUnknown'
  BY <1>2 DEF SteadyUnknown, CheckInv, BookAccount, Book!Onward
<1>4. SteadyUnknown' = SteadyUnknown \ {t}
  BY <1>3 DEF SteadyUnknown
<1>5. BookPhase' = BookPhase
  BY DEF BookPhase
<1> HIDE DEF s
<1> QED
  BY <1>1, <1>4, <1>5 DEF Book!Move, s

\* Without a snapshot nothing is suspected.
LEMMA NoSuspects ==
  /\ base = NoSnapshot => SteadyUnknown = {}
  /\ base' = NoSnapshot => SteadyUnknown' = {}
BY DEF NoSnapshot, SteadyUnknown

\* An operation ends without a record.
LEMMA BookLeaves ==
  ASSUME TypeOK, pc # "idle", NEW r, End(r), UNCHANGED store, BookAccount' = BookAccount
  PROVE  Book!Leave
<1>1. BookPhase' = "rest" /\ BookPhase # "rest"
  BY DEF BookPhase, End, TypeOK, Pcs, ReadPcs, SendPcs, WaitPcs
<1>2. SteadyUnknown' = {}
  BY NoSuspects DEF End
<1> QED
  BY <1>1, <1>2 DEF Book!Leave, End

\* A request that is given up does not change the account yet.
LEMMA OverdueUnseen ==
  ASSUME TypeOK, RequestOverdue \/ UNCHANGED brokerVars
  PROVE  BookAccount' = BookAccount
<1>1. CASE UNCHANGED brokerVars
  BY <1>1 DEF BookAccount
<1>2. CASE RequestOverdue
  BY <1>2 DEF RequestOverdue, BookAccount, TypeOK, BrokerTypeOK
<1> QED
  BY <1>1, <1>2

\* The account's own steps.
LEMMA BookEnvironment ==
  ASSUME IndInv, Environment
  PROVE  [Book!Next]_(Book!bookVars)
<1> USE DEF IndInv, TypeOK, BrokerTypeOK, Environment
<1>1. CASE \E t \in Tickets :
             /\ kind' \in [Tickets -> Kinds]
             /\ \A u \in Tickets \ {t} : kind'[u] = kind[u] /\ own'[u] = own[u]
             /\ own'[t] = own[t] \/ kind[t] \in {"unused", "late"}
             /\ BookAccount'[t] \in Book!Onward(BookAccount[t])
  BY <1>1, BookMoves DEF Book!Next
<1>2. CASE \A t \in Tickets :
             \/ kind'[t] = kind[t] /\ own'[t] = own[t]
             \/ kind[t] \in {"unused", "late"} /\ kind'[t] \in {"unused", "late"}
  <2>1. BookAccount' = BookAccount /\ SteadyUnknown' = SteadyUnknown
    BY <1>2, BookStands
  <2>2. BookPhase' = BookPhase
    BY DEF BookPhase
  <2> QED
    BY <2>1, <2>2 DEF Book!bookVars
<1>3. CASE Market
  <2>1. PICK t \in Tickets : Fill(t)
    BY <1>3 DEF Market
  <2>2. BookAccount[t] = "pending" /\ BookAccount'[t] = "position"
    BY <2>1 DEF Fill, BookAccount
  <2>3. "position" \in Book!Onward("pending")
    BY DEF Book!Onward
  <2> QED
    BY <1>1, <2>1, <2>2, <2>3 DEF Fill, Kinds
<1>4. CASE Trader
  <2>1. PICK t \in Tickets : ManualOpen(t) \/ ManualRemove(t)
    BY <1>4 DEF Trader
  <2>2. CASE ManualOpen(t)
    <3>1. BookAccount[t] = "absent" /\ BookAccount'[t] \in {"pending", "position"}
      BY <2>2 DEF ManualOpen, BookAccount
    <3>2. {"pending", "position"} \subseteq Book!Onward("absent")
      BY DEF Book!Onward
    <3> QED
      BY <1>1, <2>2, <3>1, <3>2 DEF ManualOpen, Kinds
  <2>3. CASE ManualRemove(t)
    <3>1. \/ BookAccount[t] = "pending" /\ BookAccount'[t] = "cancelled"
          \/ BookAccount[t] = "position" /\ BookAccount'[t] = "closed"
      BY <2>3 DEF ManualRemove, Live, BookAccount
    <3>2. "cancelled" \in Book!Onward("pending") /\ "closed" \in Book!Onward("position")
      BY DEF Book!Onward
    <3> QED
      BY <1>1, <2>3, <3>1, <3>2 DEF ManualRemove, Kinds
  <2> QED
    BY <2>1, <2>2, <2>3
<1>5. CASE \E p, a \in Tickets : StopTriggers(p, a)
  <2>1. PICK p \in Tickets, a \in Tickets : StopTriggers(p, a)
    BY <1>5
  <2>2. BookAccount[a] = "absent" /\ BookAccount'[a] = "closing"
    BY <2>1 DEF StopTriggers, BookAccount
  <2>3. "closing" \in Book!Onward("absent")
    BY DEF Book!Onward
  <2> QED
    BY <1>1, <2>1, <2>2, <2>3 DEF StopTriggers, Kinds
<1>6. CASE \E a \in Tickets : StopDeal(a)
  <2>1. PICK a \in Tickets : StopDeal(a)
    BY <1>6
  <2>2. closes[a] \in Tickets
    BY <2>1 DEF StopDeal, BrokerInv
  <2>3. BookAccount[closes[a]] = "position" /\ BookAccount'[closes[a]] = "closed"
    BY <2>1, <2>2 DEF StopDeal, BookAccount
  <2>4. "closed" \in Book!Onward("position")
    BY DEF Book!Onward
  <2> QED
    BY <1>1, <2>1, <2>2, <2>3, <2>4 DEF StopDeal, Kinds
<1>7. CASE \E a \in Tickets : ArtifactSettles(a)
  <2>1. PICK a \in Tickets : ArtifactSettles(a)
    BY <1>7
  <2>2. BookAccount[a] = "closing" /\ BookAccount'[a] = "closed"
    BY <2>1 DEF ArtifactSettles, BookAccount
  <2>3. "closed" \in Book!Onward("closing")
    BY DEF Book!Onward
  <2> QED
    BY <1>1, <2>1, <2>2, <2>3 DEF ArtifactSettles, Kinds
<1>8. CASE \E t \in Tickets : LateOpen(t)
  <2>1. PICK t \in Tickets : LateOpen(t)
    BY <1>8
  <2>2. BookAccount[t] = "absent" /\ BookAccount'[t] \in {"pending", "position"}
    BY <2>1 DEF LateOpen, OpenTicket, BookAccount, BrokerInv
  <2>3. {"pending", "position"} \subseteq Book!Onward("absent")
    BY DEF Book!Onward
  <2> QED
    BY <1>1, <2>1, <2>2, <2>3 DEF LateOpen, OpenTicket, Kinds
<1>9. CASE \E t \in Tickets : LateOpenDropped(t)
  BY <1>2, <1>9 DEF LateOpenDropped
<1>10. CASE \E c \in late : LateCall(c)
  <2>1. PICK c \in late : LateCall(c)
    BY <1>10
  <2>2. c.ticket \in Tickets /\ c.tool \in Tools
    BY DEF Calls
  <2>3. CASE UNCHANGED <<kind, own>>
    BY <1>2, <2>3
  <2>4. CASE kind' # kind
    <3>1. CanServe(c.tool, c.ticket) /\ Serve(c.tool, c.ticket, TRUE) /\ UNCHANGED own
      BY <2>1, <2>4 DEF LateCall
    <3>2. \/ c.tool = "cancel_pending_order" /\ kind' = [kind EXCEPT ![c.ticket] = "cancelled"]
          \/ c.tool = "close_position" /\ kind' = [kind EXCEPT ![c.ticket] = "closed"]
      BY <2>2, <2>4, <3>1 DEF Serve, Tools
    <3>3. \/ BookAccount[c.ticket] = "pending" /\ BookAccount'[c.ticket] = "cancelled"
          \/ BookAccount[c.ticket] = "position" /\ BookAccount'[c.ticket] = "closed"
      BY <2>2, <3>1, <3>2 DEF CanServe, BookAccount
    <3>4. "cancelled" \in Book!Onward("pending") /\ "closed" \in Book!Onward("position")
      BY DEF Book!Onward
    <3> QED
      BY <1>1, <2>2, <3>1, <3>2, <3>3, <3>4 DEF Kinds
  <2> QED
    BY <2>1, <2>3, <2>4 DEF LateCall
<1> QED
  BY <1>3, <1>4, <1>5, <1>6, <1>7, <1>8, <1>9, <1>10 DEF Stops, Overdue

\* The executor's own steps.
LEMMA BookOperation ==
  ASSUME IndInv, IndInv', Start \/ Step \/ Crash
  PROVE  [Book!Next]_(Book!bookVars)
<1> USE OpsAssumption, TicketsAssumption DEF IndInv
<1>1. CASE \E r : End(r) /\ pc # "idle" /\ UNCHANGED store /\ (RequestOverdue \/ UNCHANGED brokerVars)
  BY <1>1, BookLeaves, OverdueUnseen DEF Book!Next
<1>2. CASE UNCHANGED <<brokerVars, store, op, target, base>> /\ BookPhase' = BookPhase
  BY <1>2, BookStands DEF Book!bookVars
<1>3. CASE \E o \in Ops : Submit(o)
  <2>1. PICK o \in Ops : Submit(o)
    BY <1>3
  <2>2. BookAccount' = BookAccount /\ SteadyUnknown' = SteadyUnknown
    BY <2>1, BookStands DEF Submit
  <2>3. o \in Book!Submissions /\ BookPhase = "rest" /\ BookPhase' = "asked"
    BY <2>1 DEF Submit, Book!Submissions, BookPhase
  <2>4. Book!Ask(o, NoTicket)
    BY <2>1, <2>2, <2>3 DEF Submit, Book!Ask
  <2> QED
    BY <2>3, <2>4 DEF Book!Next
<1>4. CASE \E o \in Ops, t \in Tickets : Manage(o, t)
  <2>1. PICK o \in Ops, t \in Tickets : Manage(o, t)
    BY <1>4
  <2>2. BookAccount' = BookAccount /\ SteadyUnknown' = SteadyUnknown
    BY <2>1, BookStands DEF Manage
  <2>3. /\ o \in Book!Managements /\ o \notin Book!Submissions
        /\ BookPhase = "rest" /\ BookPhase' = "asked"
    BY <2>1 DEF Manage, Book!Managements, Book!Submissions, BookPhase
  <2>4. BookAccount[t] # "absent"
    BY <2>1 DEF Manage, BookAccount, TypeOK, BrokerTypeOK, Kinds
  <2>5. Book!Ask(o, t)
    BY <2>1, <2>2, <2>3, <2>4 DEF Manage, Book!Ask
  <2> QED
    BY <2>3, <2>5 DEF Book!Next
<1>5. CASE ReconcileStart
  <2>1. BookAccount' = BookAccount /\ SteadyUnknown' = SteadyUnknown
    BY <1>5, BookStands DEF ReconcileStart
  <2>2. BookPhase = "rest" /\ BookPhase' = "tidying"
    BY <1>5 DEF ReconcileStart, BookPhase
  <2> QED
    BY <1>5, <2>1, <2>2 DEF ReconcileStart, Book!StartTidying, Book!Next
<1>6. CASE LoadLocal
  <2>1. BookAccount' = BookAccount
    BY <1>6 DEF LoadLocal, BookAccount
  <2>2. BookPhase = "asked" /\ BookPhase' = "looked"
    BY <1>6 DEF LoadLocal, BookPhase, OpInv
  <2>3. SteadyUnknown' = {t \in Tickets : BookAccount[t] \in {"pending", "position"}
                                          /\ store[t] \notin Book!Open}
    <3>1. \A t \in Tickets : BookAccount[t] \in {"pending", "position"} <=>
             own[t] # "artifact" /\ kind[t] \in {"pending", "position"}
      BY DEF BookAccount, BrokerInv, TypeOK, BrokerTypeOK, Kinds
    <3>2. SteadyUnknown' = {t \in Tickets : own[t] # "artifact" /\ kind[t] \in {"pending", "position"}
                                            /\ store[t] \notin OpenStatuses}
      BY <1>6 DEF LoadLocal, SteadyUnknown, Positions, Orders, AllOpen
    <3> QED
      BY <3>1, <3>2 DEF Book!Open, OpenStatuses
  <2> QED
    BY <1>6, <2>1, <2>2, <2>3 DEF LoadLocal, Book!Look, Book!Next
<1>7. CASE ExplainUnknownReal
  <2>1. PICK T \in SUBSET local_open :
           /\ store' = RecordClosed(store, T)
           /\ \A t \in T : kind[t] = "closed"
    <3>1. \A a \in Tickets : ExplainOne(a) => closes[a] \in local_open /\ kind[closes[a]] = "closed"
      BY DEF ExplainOne, BrokerInv
    <3>2. report.unknown_real \subseteq Tickets
      BY DEF TypeOK
    <3> QED
      BY <1>7, <3>1, <3>2 DEF ExplainUnknownReal
  <2>2. \A t \in T : t \in Tickets /\ BookAccount[t] = "closed" /\ store[t] \in OpenStatuses
    BY <1>7, <2>1 DEF ExplainUnknownReal, BookAccount, BookInv, AllOpen, TypeOK
  <2>3. store' = [t \in Tickets |-> IF t \in T THEN "CLOSED" ELSE store[t]]
    BY <2>1, <2>2 DEF RecordClosed, Transition, OpenStatuses
  <2>4. BookAccount' = BookAccount
    BY <1>7 DEF ExplainUnknownReal, BookAccount
  <2>5. BookPhase = "looked"
    BY <1>7 DEF ExplainUnknownReal, BookPhase
  <2>6. \/ BookPhase' = BookPhase /\ SteadyUnknown' = SteadyUnknown
        \/ BookPhase' = "rest" /\ SteadyUnknown' = {}
    <3>1. CASE pc' = "decide" /\ UNCHANGED <<op, base>>
      BY <1>7, <2>5, <3>1, BookStands DEF ExplainUnknownReal, BookPhase
    <3>2. CASE End("error")
      BY <3>2, NoSuspects DEF End, BookPhase
    <3> QED
      BY <1>7, <3>1, <3>2 DEF ExplainUnknownReal
  <2>7. UNCHANGED <<op, target>>
    BY <1>7 DEF ExplainUnknownReal, End
  <2>8. Book!WriteOff(T)
    BY <2>2, <2>3, <2>4, <2>5, <2>6, <2>7 DEF Book!WriteOff, Book!Open, OpenStatuses
  <2>9. T \in SUBSET Tickets
    BY <2>2
  <2> QED
    BY <2>8, <2>9 DEF Book!Next
<1>8. CASE (DecideSubmit \/ DecideManage) /\ pc' # "idle"
  <2>1. /\ pc = "decide" /\ pc' \in {"place", "volume", "act"}
        /\ UNCHANGED <<brokerVars, store, op, target, base>>
        /\ op \in {"LIMIT", "MARKET", "cancel", "close"}
        /\ op \in {"LIMIT", "MARKET"} <=> pc' = "place"
    BY <1>8 DEF DecideSubmit, DecideManage, Proceed, End
  <2>2. BookAccount' = BookAccount /\ SteadyUnknown' = SteadyUnknown
    BY <2>1, BookStands
  <2>3. BookPhase = "looked" /\ BookPhase' = "cleared"
    BY <2>1 DEF BookPhase
  <2>4. IF op \in Book!Submissions THEN SteadyUnknown = {} ELSE target \notin SteadyUnknown
    BY <2>1, <2>2 DEF CheckInv, Book!Submissions
  <2> QED
    BY <2>1, <2>2, <2>3, <2>4 DEF Book!Clear, Book!Next
<1>9. CASE \E t \in Tickets : PlaceServed(t)
  <2>1. PICK t \in Tickets : PlaceServed(t)
    BY <1>9
  <2>2. op \in {"LIMIT", "MARKET"} /\ UNCHANGED <<store, op>> /\ target' = t
    BY <2>1 DEF PlaceServed, OpInv
  <2>3. BookPhase = "cleared" /\ BookPhase' = "done"
    BY <2>1, <2>2 DEF PlaceServed, BookPhase
  <2>4. /\ BookAccount[t] = "absent"
        /\ BookAccount' = [BookAccount EXCEPT ![t] = IF op = "LIMIT" THEN "pending" ELSE "position"]
    BY <2>1, <2>2 DEF PlaceServed, OpenTicket, BookAccount, TypeOK, BrokerTypeOK
  <2>5. SteadyUnknown' = {}
    BY <2>1, NoSuspects DEF PlaceServed
  <2> QED
    BY <2>2, <2>3, <2>4, <2>5 DEF Book!Place, Book!Submissions, Book!Next
<1>10. CASE ActServed
  <2>1. /\ op \in {"cancel", "close"} /\ target \in Tickets /\ UNCHANGED <<store, op, target, own>>
        /\ pc = "act" /\ pc' = "acted"
    BY <1>10 DEF ActServed, OpInv
  <2>2. BookPhase = "cleared" /\ BookPhase' = "done"
    BY <2>1 DEF BookPhase
  <2>3. SteadyUnknown' = {}
    BY <1>10, NoSuspects DEF ActServed
  <2>4. CASE op = "cancel"
    <3>1. kind[target] = "pending" /\ own[target] # "artifact" /\ kind' = [kind EXCEPT ![target] = "cancelled"]
      BY <1>10, <2>4 DEF ActServed, Tool, CanServe, Serve
    <3>2. BookAccount[target] = "pending" /\ BookAccount' = [BookAccount EXCEPT ![target] = "cancelled"]
      BY <2>1, <3>1 DEF BookAccount, TypeOK, BrokerTypeOK
    <3> QED
      BY <2>1, <2>2, <2>3, <2>4, <3>2 DEF Book!Remove, Book!Next
  <2>5. CASE op = "close"
    <3>1. kind[target] = "position" /\ kind' = [kind EXCEPT ![target] = "closed"]
      BY <1>10, <2>5 DEF ActServed, Tool, CanServe, Serve
    <3>2. BookAccount[target] = "position" /\ BookAccount' = [BookAccount EXCEPT ![target] = "closed"]
      BY <2>1, <3>1 DEF BookAccount, TypeOK, BrokerTypeOK
    <3> QED
      BY <2>1, <2>2, <2>3, <2>5, <3>2 DEF Book!Remove, Book!Next
  <2> QED
    BY <2>1, <2>4, <2>5
<1>11. CASE RecordPlaced
  <2>1. /\ op \in {"LIMIT", "MARKET"} /\ target \in Tickets /\ store[target] = "NONE"
        /\ pc = "placed" /\ pc' = "verify" /\ UNCHANGED <<brokerVars, op, target, base>>
    BY <1>11 DEF RecordPlaced, OpInv, RecordInv, WrittenInv
  <2>2. BookAccount' = BookAccount /\ SteadyUnknown' = SteadyUnknown
    BY <2>1, BookStands
  <2>3. BookPhase = "done" /\ BookPhase' = "kept"
    BY <2>1 DEF BookPhase
  <2>4. store' = [store EXCEPT ![target] = IF op = "LIMIT" THEN "OPEN" ELSE "OPEN_UNPROTECTED"]
    BY <1>11, <2>1 DEF RecordPlaced, RecordSubmission, SubmissionStatus
  <2> QED
    BY <2>1, <2>2, <2>3, <2>4 DEF Book!Record, Book!Submissions, Book!Next
<1>12. CASE VerifySlTp /\ store' # store
  <2>1. /\ pc = "verify_sltp" /\ op = "MARKET" /\ target \in Tickets
        /\ End("ok") /\ UNCHANGED brokerVars /\ SeenAttached
        /\ store' = MarkSlTpAttached(store, target)
    BY <1>12 DEF VerifySlTp, OpInv
  <2>2. store[target] = "OPEN_UNPROTECTED" /\ store' = [store EXCEPT ![target] = "OPEN"]
    BY <2>1 DEF BookInv, SubmissionStatus, MarkSlTpAttached
  <2>3. BookPhase = "kept" /\ BookPhase' = "rest"
    BY <2>1 DEF BookPhase, End
  <2>4. base = NoSnapshot /\ base' = NoSnapshot /\ UNCHANGED <<op, target>>
    BY <2>1 DEF BookInv, End
  <2>5. BookAccount' = BookAccount /\ SteadyUnknown' = SteadyUnknown
    BY <2>1, <2>4, BookStands
  <2>6. BookAccount[target] = "position"
    BY <2>1 DEF SeenAttached, Positions, BookAccount
  <2> QED
    BY <2>1, <2>2, <2>3, <2>4, <2>5, <2>6 DEF Book!Protect, Book!Next
<1>13. CASE ConfirmAct /\ store' # store
  <2>1. /\ pc = "confirm" /\ op \in {"cancel", "close"} /\ target \in Tickets
        /\ End("ok") /\ UNCHANGED brokerVars
        /\ store' = IF op = "cancel" THEN RecordCancelled(store, {target}) ELSE RecordClosed(store, {target})
    BY <1>13 DEF ConfirmAct, OpInv
  <2>2. store[target] # "NONE"
    BY <1>13, <2>1 DEF RecordCancelled, RecordClosed, Transition, TypeOK
  <2>3. store' = [store EXCEPT ![target] = IF op = "cancel" THEN "CANCELLED" ELSE "CLOSED"]
    BY <2>1, <2>2 DEF RecordCancelled, RecordClosed, Transition, TypeOK
  <2>4. store[target] # "CLOSED"
    <3>1. CASE op = "cancel"
      BY <2>1, <3>1 DEF RecordInv, WrittenInv, ClosedIsClosed
    <3>2. CASE op = "close"
      <4>1. store' = [store EXCEPT ![target] = "CLOSED"]
        BY <2>3, <3>2
      <4>2. SUFFICES ASSUME store[target] = "CLOSED" PROVE store' = store
        BY <1>13
      <4> QED
        BY <4>1, <4>2 DEF TypeOK
    <3> QED
      BY <2>1, <3>1, <3>2
  <2>5. BookPhase = "done" /\ BookPhase' = "rest"
    BY <2>1 DEF BookPhase, End
  <2>6. base = NoSnapshot /\ base' = NoSnapshot /\ UNCHANGED <<op, target>>
    BY <2>1 DEF BookInv, End
  <2>7. BookAccount' = BookAccount /\ SteadyUnknown' = SteadyUnknown
    BY <2>1, <2>6, BookStands
  <2> QED
    BY <2>1, <2>2, <2>3, <2>4, <2>5, <2>6, <2>7 DEF Book!Confirm, Book!Managements, Book!Next
<1>14. CASE ReconcileLeftovers
  <2>1. PICK T \in SUBSET AllOpen(store) :
           store' = RecordCancelled(RecordClosed(store, {t \in T : kind[t] = "closed"}),
                                    T \ {t \in T : kind[t] = "closed"})
    <3>1. PICK chosen \in SUBSET AllOpen(store) :
             store' = RecordCancelled(RecordClosed(store, {t \in chosen \ seen : kind[t] = "closed"}),
                                      (chosen \ seen) \ {t \in chosen \ seen : kind[t] = "closed"})
      BY <1>14 DEF ReconcileLeftovers
    <3>2. chosen \ seen \in SUBSET AllOpen(store)
      OBVIOUS
    <3> QED
      BY <3>1, <3>2
  <2>2. \A t \in T : t \in Tickets /\ store[t] \in OpenStatuses
    BY <2>1 DEF AllOpen
  <2>3. store' = [t \in Tickets |-> IF t \notin T THEN store[t]
                                    ELSE IF BookAccount[t] = "closed" THEN "CLOSED" ELSE "CANCELLED"]
    <3>1. \A t \in Tickets : BookAccount[t] = "closed" <=> kind[t] = "closed"
      BY DEF BookAccount
    <3> QED
      BY <2>1, <2>2, <3>1 DEF RecordCancelled, RecordClosed, Transition, OpenStatuses
  <2>4. /\ pc = "deals" /\ op = "reconcile" /\ UNCHANGED brokerVars /\ End("ok")
    BY <1>14 DEF ReconcileLeftovers
  <2>5. BookPhase = "tidying" /\ BookPhase' = "rest"
    BY <2>4 DEF BookPhase, End
  <2>6. base = NoSnapshot /\ base' = NoSnapshot /\ UNCHANGED <<op, target>>
    BY <2>4 DEF BookInv, End
  <2>7. BookAccount' = BookAccount /\ SteadyUnknown' = SteadyUnknown
    BY <2>4, <2>6, BookStands
  <2>8. Book!Tidy(T)
    BY <2>2, <2>3, <2>5, <2>6, <2>7 DEF Book!Tidy, Book!Open, OpenStatuses
  <2>9. T \in SUBSET Tickets
    BY <2>2
  <2> QED
    BY <2>8, <2>9 DEF Book!Next
<1>15. LoadFails \/ PlaceRejected \/ ModifyRejected \/ ActRejected \/ ReadRaises \/ AnswerLost
       \/ RequestLost \/ Crash \/ (ConfirmAct /\ store' = store) =>
          \E r : End(r) /\ pc # "idle" /\ UNCHANGED store /\ (RequestOverdue \/ UNCHANGED brokerVars)
  BY DEF LoadFails, PlaceRejected, ModifyRejected, ActRejected, ReadRaises, AnswerLost, RequestLost,
     Crash, ConfirmAct, ReadPcs, WaitPcs, SendPcs
<1>16. CASE ReadPositions \/ ReadOrders \/ DealsUnavailable \/ ModifyDone \/ ActDone \/ ReconcileReadOrders
  BY <1>2, <1>16 DEF ReadPositions, ReadOrders, DealsUnavailable, ModifyDone, ActDone,
     ReconcileReadOrders, Goto, BookPhase
<1>17. CASE (DecideSubmit \/ DecideManage) /\ pc' = "idle"
  BY <1>1, <1>17 DEF DecideSubmit, DecideManage, Proceed
<1>18. CASE CheckVolume \/ VerifyPlaced \/ (VerifySlTp /\ store' = store)
  <2>1. CASE \E r : End(r)
    BY <1>1, <1>18, <2>1 DEF CheckVolume, VerifyPlaced, VerifySlTp
  <2>2. CASE UNCHANGED <<op, target, base>> /\ BookPhase' = BookPhase
    BY <1>2, <1>18, <2>2 DEF CheckVolume, VerifyPlaced, VerifySlTp
  <2> QED
    BY <1>18, <2>1, <2>2 DEF CheckVolume, VerifyPlaced, VerifySlTp, Goto, BookPhase
<1>19. CASE ModifyServed
  <2>1. UNCHANGED <<kind, own, store, op, target, base>> /\ BookPhase' = BookPhase
    BY <1>19 DEF ModifyServed, Serve, Goto, BookPhase, TypeOK, BrokerTypeOK
  <2> QED
    BY <2>1, BookStands DEF Book!bookVars
<1> QED
  BY <1>1, <1>3, <1>4, <1>5, <1>6, <1>7, <1>8, <1>9, <1>10, <1>11, <1>12, <1>13, <1>14, <1>15,
     <1>16, <1>17, <1>18, <1>19 DEF Start, Step

\* The human's steps that touch the book: only the adoption.
LEMMA BookHuman ==
  ASSUME IndInv, Human
  PROVE  [Book!Next]_(Book!bookVars)
<1> USE DEF IndInv
<1>1. CASE \E t \in Tickets : Adopt(t)
  <2>1. PICK t \in Tickets : Adopt(t)
    BY <1>1
  <2>2. BookAccount' = BookAccount /\ SteadyUnknown' = SteadyUnknown
    BY <2>1, BookStands DEF Adopt
  <2>3. BookPhase = "rest" /\ BookPhase' = "rest"
    BY <2>1 DEF Adopt, BookPhase
  <2>4. BookAccount[t] = "position"
    BY <2>1 DEF Adopt, BookAccount
  <2>5. store[t] \notin Book!Open \cup {"CLOSED"}
    BY <2>1 DEF Adopt, OpenStatuses, Book!Open, RecordInv, ClosedIsClosed
  <2> QED
    BY <2>1, <2>2, <2>3, <2>4, <2>5 DEF Adopt, RecordManualAdoption, Book!Adopt, Book!Next
<1>2. CASE \E t \in Tickets : Corrupt(t) \/ Repair(t)
  <2>1. UNCHANGED <<brokerVars, store, pc, op, target, base>>
    BY <1>2 DEF Corrupt, Repair
  <2>2. BookPhase' = BookPhase
    BY <2>1 DEF BookPhase
  <2> QED
    BY <2>1, <2>2, BookStands DEF Book!bookVars
<1> QED
  BY <1>1, <1>2 DEF Human

\* The executor does what one atomic look at account and records, and at most one
\* call per look, would have done (AccountBook): four reads of a moving account,
\* retries, lost, late and interrupted calls are invisible to its callers.
THEOREM BookIsImplemented == Spec => BookIsKept
<1>1. Init => Book!Init
  <2> SUFFICES ASSUME Init PROVE Book!Init
    OBVIOUS
  <2>1. BookAccount = [t \in Tickets |-> "absent"]
    BY DEF Init, BrokerInit, BookAccount
  <2>2. SteadyUnknown = {}
    BY NoSuspects DEF Init
  <2> QED
    BY <2>1, <2>2 DEF Init, Book!Init, BookPhase
<1>2. IndInv /\ IndInv' /\ [Next]_vars => [Book!Next]_(Book!bookVars)
  <2> SUFFICES ASSUME IndInv, IndInv', [Next]_vars PROVE [Book!Next]_(Book!bookVars)
    OBVIOUS
  <2>1. CASE UNCHANGED vars
    <3>1. BookPhase' = BookPhase
      BY <2>1 DEF BookPhase
    <3> QED
      BY <2>1, <3>1, BookStands DEF Book!bookVars
  <2> QED
    BY <2>1, BookOperation, BookHuman, BookEnvironment DEF Next
<1> QED
  BY <1>1, <1>2, IndInvHolds, PTL DEF Spec, BookIsKept, Book!Spec

=============================================================================
