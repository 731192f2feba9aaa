------------------------ MODULE PipelineLoopProofs ------------------------
(***************************************************************************)
(* Proofs about PipelineLoop for every choice of prices, caps and limits.  *)
(* LoopInv is shown inductive part by part: types, the grid's exposure     *)
(* against what its reads have missed, the runner's positions, the stale   *)
(* daily-loss approval, whose turn it was, and the outstanding error.                         *)
(***************************************************************************)
EXTENDS PipelineLoop, FiniteSetTheorems, TLAPS

USE DEF bookVars, cycleVars, loopVars, humanVars, vars
USE PriceAssumption, LimitAssumption, LoopLimitsAssumption

\* Next, one action at a time.
LEMMA LoopActions ==
  ASSUME [Next]_vars
  PROVE
         \/ DailyLossDecision
         \/ Check
         \/ Cycle /\ GridData
         \/ Cycle /\ GridPositions
         \/ Cycle /\ GridOrders
         \/ Cycle /\ (\E side \in Sides : GridSide(side))
         \/ Cycle /\ GridReadRaises
         \/ Cycle /\ RunnerData
         \/ Cycle /\ RunnerPositions
         \/ Cycle /\ RunnerOrders
         \/ Cycle /\ RunnerSubmit
         \/ Cycle /\ RunnerReadRaises
         \/ CycleEnds
         \/ Poll
         \/ Sleep
         \/ Launch
         \/ Tick
         \/ Interrupt
         \/ StopFile
         \/ RealizedPnl
         \/ AccountMoves /\ (\E o \in pending : Fill(o))
         \/ AccountMoves /\ (\E o \in pending : OrderGone(o))
         \/ AccountMoves /\ (\E s \in Strategies : PositionGone(s))
         \/ UNCHANGED vars
BY DEF Next, Main, Cycle, CycleStep, AccountMoves, Account

\* A placed limit order is one more pending order, at an integer price.
LEMMA PlacedLimit ==
  ASSUME CycleTypeOK, IsFiniteSet(pending), NEW side \in Sides, GridPlace(side)
  PROVE  /\ pending' \subseteq Orders /\ IsFiniteSet(pending')
         /\ Cardinality(pending') <= Cardinality(pending) + 1
         /\ open' = open
<1> DEFINE price == NormalizeLimitPrice(ReferencePrice(side), side)
<1>1. price \in Int
  <2>1. quote.center \in Int /\ quote.bid \in Int
    BY DEF CycleTypeOK
  <2>2. ReferencePrice(side) \in Int
    BY <2>1 DEF ReferencePrice
  <2>3. QED  BY <2>1, <2>2 DEF NormalizeLimitPrice
<1>2. PICK i \in OrderIds :
        /\ pending' = pending \cup {[id |-> i, side |-> side, price |-> price]}
        /\ open' = open
  BY DEF GridPlace, PlaceLimit, FreshIds
<1> HIDE DEF price
<1>3. [id |-> i, side |-> side, price |-> price] \in Orders
  BY <1>1 DEF Orders
<1>4. IsFiniteSet(pending') /\ Cardinality(pending') <= Cardinality(pending) + 1
  <2>1. Cardinality(pending) \in Nat
    BY FS_CardinalityType
  <2>2. PICK o : pending' = pending \cup {o}
    BY <1>2
  <2>3. /\ IsFiniteSet(pending \cup {o})
        /\ Cardinality(pending \cup {o}) \in {Cardinality(pending), Cardinality(pending) + 1}
    BY FS_AddElement
  <2>4. QED  BY <2>1, <2>2, <2>3
<1>5. QED  BY <1>2, <1>3, <1>4 DEF CycleTypeOK

\* An order that fills or is removed is one pending order less.
LEMMA OrderRemoved ==
  ASSUME IsFiniteSet(pending), NEW o \in pending, pending' = pending \ {o}
  PROVE  /\ IsFiniteSet(pending') /\ Cardinality(pending') = Cardinality(pending) - 1
BY FS_RemoveElement

\* Types are preserved.
LEMMA LoopTypeStep ==
  ASSUME LoopTypeOK, GridInv, [Next]_vars
  PROVE  LoopTypeOK'
<1>1. CASE DailyLossDecision
  BY <1>1 DEF DailyLossDecision, LoopTypeOK, CycleTypeOK
<1>2. CASE Check
  <2>1. CASE ShouldStop
    BY <1>2, <2>1 DEF Check, LoopTypeOK, CycleTypeOK
  <2>2. CASE ~ ShouldStop
    <3>1. cycle_num' \in 0 .. MaxCycles
      BY <1>2, <2>2 DEF Check, ShouldStop, LoopTypeOK
    <3>2. late_cycles' \in Nat
      BY <1>2, <2>2 DEF Check, LoopTypeOK
    <3>3. CycleTypeOK'
      BY <1>2, <2>2 DEF Check, LoopTypeOK, CycleTypeOK, Pcs
    <3>4. QED  BY <1>2, <2>2, <3>1, <3>2, <3>3 DEF Check, LoopTypeOK
  <2>3. QED  BY <2>1, <2>2
<1>3. CASE Cycle /\ GridData
  BY <1>3 DEF Cycle, GridData, LoopTypeOK, CycleTypeOK, Pcs, Strategies
<1>4. CASE Cycle /\ GridPositions
  BY <1>4 DEF Cycle, GridPositions, LoopTypeOK, CycleTypeOK, Pcs, Strategies
<1>5. CASE Cycle /\ GridOrders
  BY <1>5 DEF Cycle, GridOrders, LoopTypeOK, CycleTypeOK, Pcs, Strategies
<1>6. CASE Cycle /\ (\E side \in Sides : GridSide(side))
  <2>1. PICK side \in Sides : GridSide(side) /\ Cycle
    BY <1>6
  <2>2. (pending' \subseteq Orders /\ open' = open) \/ UNCHANGED bookVars
    BY <2>1, PlacedLimit DEF GridSide, SubmitEffect, LoopTypeOK, GridInv
  <2>3. pc' \in Pcs /\ turns' \subseteq {"BUY", "SELL", "RUNNER"} /\ ok' \in BOOLEAN
    BY <2>1 DEF GridSide, AfterSide, GridRaised, Pcs, Sides, LoopTypeOK, CycleTypeOK
  <2>4. QED  BY <2>1, <2>2, <2>3 DEF GridSide, Cycle, LoopTypeOK, CycleTypeOK
<1>7. CASE Cycle /\ GridReadRaises
  BY <1>7 DEF Cycle, GridReadRaises, LoopTypeOK, CycleTypeOK, Pcs, Strategies
<1>8. CASE Cycle /\ RunnerData
  <2>1. open_seen' \in Nat /\ slips' \in 0 .. MaxSlips /\ pending_seen' \subseteq Orders
    BY <1>8 DEF RunnerData
  <2>2. pc' \in Pcs /\ turns' \subseteq {"BUY", "SELL", "RUNNER"}
    BY <1>8 DEF RunnerData, Pcs, LoopTypeOK, CycleTypeOK
  <2>3. QED  BY <1>8, <2>1, <2>2 DEF Cycle, RunnerData, LoopTypeOK, CycleTypeOK
<1>9. CASE Cycle /\ RunnerPositions
  BY <1>9 DEF Cycle, RunnerPositions, LoopTypeOK, CycleTypeOK, Pcs, Strategies
<1>10. CASE Cycle /\ RunnerOrders
  BY <1>10 DEF Cycle, RunnerOrders, LoopTypeOK, CycleTypeOK, Pcs, Strategies
<1>11. CASE Cycle /\ RunnerSubmit
  <2>1. open' \in [Strategies -> Nat] /\ UNCHANGED pending
    BY <1>11 DEF RunnerSubmit, SubmitEffect, PlaceMarket, Strategies, LoopTypeOK, CycleTypeOK
  <2>2. pc' \in Pcs /\ turns' \subseteq {"BUY", "SELL", "RUNNER"} /\ ok' \in BOOLEAN
    BY <1>11 DEF RunnerSubmit, Pcs, LoopTypeOK, CycleTypeOK
  <2>3. QED  BY <1>11, <2>1, <2>2 DEF Cycle, RunnerSubmit, LoopTypeOK, CycleTypeOK
<1>12. CASE Cycle /\ RunnerReadRaises
  BY <1>12 DEF Cycle, RunnerReadRaises, LoopTypeOK, CycleTypeOK, Pcs, Strategies
<1>13. CASE CycleEnds
  BY <1>13 DEF CycleEnds, LoopTypeOK, CycleTypeOK, AfterCycle, Pcs
<1>14. CASE Poll
  BY <1>14 DEF Poll, LoopTypeOK, CycleTypeOK, ShouldStop
<1>15. CASE Sleep
  BY <1>15 DEF Sleep, LoopTypeOK, CycleTypeOK, Advance
<1>16. CASE Launch
  BY <1>16 DEF Launch, LoopTypeOK, CycleTypeOK
<1>17. CASE Tick
  BY <1>17 DEF Tick, LoopTypeOK, CycleTypeOK, Advance
<1>18. CASE Interrupt
  <2>1. (pending' \subseteq Orders /\ open' = open) \/ UNCHANGED bookVars \/ PlaceMarket
    BY <1>18, PlacedLimit DEF Interrupt, LoopTypeOK, GridInv
  <2>2. pending' \subseteq Orders /\ open' \in [Strategies -> Nat]
    BY <2>1 DEF PlaceMarket, LoopTypeOK, CycleTypeOK, Strategies
  <2>3. QED  BY <1>18, <2>2 DEF Interrupt, LoopTypeOK, CycleTypeOK, Pcs
<1>19. CASE StopFile
  BY <1>19 DEF StopFile, LoopTypeOK, CycleTypeOK
<1>20. CASE RealizedPnl
  BY <1>20 DEF RealizedPnl, LoopTypeOK, CycleTypeOK
<1>21. CASE AccountMoves /\ (\E o \in pending : Fill(o))
  BY <1>21 DEF AccountMoves, Fill, LoopTypeOK, CycleTypeOK, Strategies
<1>22. CASE AccountMoves /\ (\E o \in pending : OrderGone(o))
  BY <1>22 DEF AccountMoves, OrderGone, LoopTypeOK, CycleTypeOK
<1>23. CASE AccountMoves /\ (\E s \in Strategies : PositionGone(s))
  BY <1>23 DEF AccountMoves, PositionGone, LoopTypeOK, CycleTypeOK, Strategies
<1>24. CASE UNCHANGED vars
  BY <1>24 DEF LoopTypeOK, CycleTypeOK
<1>25. QED  BY <1>1, <1>2, <1>3, <1>4, <1>5, <1>6, <1>7, <1>8, <1>9, <1>10, <1>11, <1>12, <1>13, <1>14, <1>15, <1>16, <1>17, <1>18, <1>19, <1>20, <1>21, <1>22, <1>23, <1>24, LoopActions

\* The grid's exposure stays within the caps plus what its reads can miss.
LEMMA GridStep ==
  ASSUME LoopTypeOK, GridInv, [Next]_vars
  PROVE  GridInv'
<1>1. CASE DailyLossDecision
  BY <1>1 DEF DailyLossDecision, GridInv, GridTotal, LoopTypeOK, CycleTypeOK
<1>2. CASE Check
  BY <1>2 DEF Check, GridInv, GridTotal, LoopTypeOK, CycleTypeOK
<1>3. CASE Cycle /\ GridData
  BY <1>3 DEF Cycle, GridData, GridInv, GridTotal, LoopTypeOK, CycleTypeOK
<1>4. CASE Cycle /\ GridPositions
  BY <1>4 DEF Cycle, GridPositions, GridInv, GridTotal, LoopTypeOK, CycleTypeOK, Strategies
<1>5. CASE Cycle /\ GridOrders
  <2>1. Cardinality(pending) \in Nat /\ Cardinality(pending_seen) \in Nat
    BY FS_CardinalityType DEF GridInv
  <2>2. QED  BY <1>5, <2>1 DEF Cycle, GridOrders, Strategies, GridInv, GridTotal, LoopTypeOK, CycleTypeOK
<1>6. CASE Cycle /\ (\E side \in Sides : GridSide(side))
  <2>1. PICK side \in Sides : GridSide(side) /\ Cycle
    BY <1>6
  <2>2. Cardinality(pending) \in Nat /\ Cardinality(pending_seen) \in Nat
    BY FS_CardinalityType DEF GridInv
  <2>3. CASE UNCHANGED bookVars
    BY <2>1, <2>2, <2>3 DEF GridSide, AfterSide, GridRaised, Sides, Strategies, GridInv, GridTotal, LoopTypeOK, CycleTypeOK
  <2>4. CASE GridApproved(side) /\ GridPlace(side)
    <3>1. /\ IsFiniteSet(pending') /\ open' = open
          /\ Cardinality(pending') <= Cardinality(pending) + 1
      BY <2>4, PlacedLimit DEF LoopTypeOK, GridInv
    <3>2. Cardinality(pending') \in Nat
      BY <3>1, FS_CardinalityType
    <3>3. open_seen + Cardinality(pending_seen) + 1 <= MaxProjected
      BY <2>4 DEF GridApproved, CheckExposureCap
    <3>4. GridTotal' <= GridTotal + 1
      BY <3>1, <3>2, <2>2 DEF GridTotal, LoopTypeOK, CycleTypeOK, Strategies
    <3>5. GridTotal \in Nat /\ GridTotal' \in Nat /\ slips \in 0 .. MaxSlips /\ open_seen \in Nat
      BY <3>1, <3>2, <2>2 DEF GridTotal, LoopTypeOK, CycleTypeOK, Strategies
    <3>6. CASE side = "BUY"
      <4>1. pc = "BUY" /\ pc' = "SELL" /\ UNCHANGED <<open_seen, pending_seen, slips>>
        BY <2>1, <3>6 DEF GridSide, AfterSide, GridRaised
      <4>2. QED  BY <4>1, <3>1, <3>3, <3>4, <3>5, <2>2 DEF GridInv
    <3>7. CASE side = "SELL"
      <4>1. pc = "SELL" /\ pc' = "r_data" /\ UNCHANGED <<open_seen, pending_seen, slips>>
        BY <2>1, <3>7 DEF GridSide, AfterSide, GridRaised
      <4>2. QED  BY <4>1, <3>1, <3>3, <3>4, <3>5, <2>2 DEF GridInv
    <3>8. QED  BY <3>6, <3>7 DEF Sides
  <2>5. QED  BY <2>1, <2>3, <2>4 DEF GridSide, SubmitEffect
<1>7. CASE Cycle /\ GridReadRaises
  BY <1>7 DEF Cycle, GridReadRaises, GridInv, GridTotal, LoopTypeOK, CycleTypeOK
<1>8. CASE Cycle /\ RunnerData
  BY <1>8, FS_EmptySet DEF Cycle, RunnerData, GridInv, GridTotal, LoopTypeOK, CycleTypeOK
<1>9. CASE Cycle /\ RunnerPositions
  BY <1>9 DEF Cycle, RunnerPositions, GridInv, GridTotal, LoopTypeOK, CycleTypeOK
<1>10. CASE Cycle /\ RunnerOrders
  BY <1>10 DEF Cycle, RunnerOrders, GridInv, GridTotal, LoopTypeOK, CycleTypeOK
<1>11. CASE Cycle /\ RunnerSubmit
  BY <1>11 DEF Cycle, RunnerSubmit, GridInv, GridTotal, LoopTypeOK, CycleTypeOK, SubmitEffect, PlaceMarket, Strategies
<1>12. CASE Cycle /\ RunnerReadRaises
  BY <1>12 DEF Cycle, RunnerReadRaises, GridInv, GridTotal, LoopTypeOK, CycleTypeOK
<1>13. CASE CycleEnds
  BY <1>13 DEF CycleEnds, GridInv, GridTotal, LoopTypeOK, CycleTypeOK
<1>14. CASE Poll
  BY <1>14 DEF Poll, GridInv, GridTotal, LoopTypeOK, CycleTypeOK
<1>15. CASE Sleep
  BY <1>15 DEF Sleep, GridInv, GridTotal, LoopTypeOK, CycleTypeOK
<1>16. CASE Launch
  BY <1>16 DEF Launch, GridInv, GridTotal, LoopTypeOK, CycleTypeOK
<1>17. CASE Tick
  BY <1>17 DEF Tick, GridInv, GridTotal, LoopTypeOK, CycleTypeOK
<1>18. CASE Interrupt
  <2>1. Cardinality(pending) \in Nat /\ Cardinality(pending_seen) \in Nat
    BY FS_CardinalityType DEF GridInv
  <2>2. pc' = "idle" /\ UNCHANGED <<open_seen, pending_seen, slips>>
    BY <1>18 DEF Interrupt
  <2>3. CASE UNCHANGED bookVars
    BY <2>1, <2>2, <2>3 DEF GridInv, GridTotal, LoopTypeOK, CycleTypeOK
  <2>4. CASE \E side \in Sides : pc = side /\ GridApproved(side) /\ GridPlace(side)
    <3>1. PICK side \in Sides : pc = side /\ GridApproved(side) /\ GridPlace(side)
      BY <2>4
    <3>2. /\ IsFiniteSet(pending') /\ open' = open
          /\ Cardinality(pending') <= Cardinality(pending) + 1
      BY <3>1, PlacedLimit DEF LoopTypeOK, GridInv
    <3>3. Cardinality(pending') \in Nat
      BY <3>2, FS_CardinalityType
    <3>4. open_seen + Cardinality(pending_seen) + 1 <= MaxProjected
      BY <3>1 DEF GridApproved, CheckExposureCap
    <3>5. QED  BY <3>1, <3>2, <3>3, <3>4, <2>1, <2>2 DEF Strategies, Sides, GridInv, GridTotal, LoopTypeOK, CycleTypeOK
  <2>5. CASE PlaceMarket
    BY <2>1, <2>2, <2>5 DEF PlaceMarket, Strategies, GridInv, GridTotal, LoopTypeOK, CycleTypeOK
  <2>6. QED  BY <1>18, <2>3, <2>4, <2>5 DEF Interrupt
<1>19. CASE StopFile
  BY <1>19 DEF StopFile, GridInv, GridTotal, LoopTypeOK, CycleTypeOK
<1>20. CASE RealizedPnl
  BY <1>20 DEF RealizedPnl, GridInv, GridTotal, LoopTypeOK, CycleTypeOK
<1>21. CASE AccountMoves /\ (\E o \in pending : Fill(o))
  <2>1. PICK o \in pending : Fill(o)
    BY <1>21
  <2>2. /\ Cardinality(pending) \in Nat /\ Cardinality(pending_seen) \in Nat
        /\ IsFiniteSet(pending') /\ Cardinality(pending') = Cardinality(pending) - 1
    BY <2>1, OrderRemoved, FS_CardinalityType DEF Fill, GridInv
  <2>3. QED  BY <2>1, <2>2 DEF Fill, Strategies, GridInv, GridTotal, LoopTypeOK, CycleTypeOK
<1>22. CASE AccountMoves /\ (\E o \in pending : OrderGone(o))
  <2>1. PICK o \in pending : OrderGone(o)
    BY <1>22
  <2>2. /\ Cardinality(pending) \in Nat /\ Cardinality(pending_seen) \in Nat
        /\ IsFiniteSet(pending') /\ Cardinality(pending') = Cardinality(pending) - 1
    BY <2>1, OrderRemoved, FS_CardinalityType DEF OrderGone, GridInv
  <2>3. QED  BY <2>1, <2>2 DEF OrderGone, Strategies, GridInv, GridTotal, LoopTypeOK, CycleTypeOK
<1>23. CASE AccountMoves /\ (\E s \in Strategies : PositionGone(s))
  <2>1. Cardinality(pending) \in Nat /\ Cardinality(pending_seen) \in Nat
    BY FS_CardinalityType DEF GridInv
  <2>2. QED  BY <1>23, <2>1 DEF AccountMoves, PositionGone, Strategies, GridInv, GridTotal, LoopTypeOK, CycleTypeOK
<1>24. CASE UNCHANGED vars
  BY <1>24 DEF GridInv, GridTotal, LoopTypeOK, CycleTypeOK
<1>25. QED  BY <1>1, <1>2, <1>3, <1>4, <1>5, <1>6, <1>7, <1>8, <1>9, <1>10, <1>11, <1>12, <1>13, <1>14, <1>15, <1>16, <1>17, <1>18, <1>19, <1>20, <1>21, <1>22, <1>23, <1>24, LoopActions

\* The runner never exceeds its position limit.
LEMMA RunnerStep ==
  ASSUME LoopTypeOK, GridInv, RunnerInv, [Next]_vars
  PROVE  RunnerInv'
<1>1. CASE DailyLossDecision
  BY <1>1 DEF DailyLossDecision, RunnerInv, LoopTypeOK, CycleTypeOK, Strategies
<1>2. CASE Check
  BY <1>2 DEF Check, RunnerInv, LoopTypeOK, CycleTypeOK, Strategies
<1>3. CASE Cycle /\ GridData
  BY <1>3 DEF Cycle, GridData, RunnerInv, LoopTypeOK, CycleTypeOK, Strategies
<1>4. CASE Cycle /\ GridPositions
  BY <1>4 DEF Cycle, GridPositions, RunnerInv, LoopTypeOK, CycleTypeOK, Strategies
<1>5. CASE Cycle /\ GridOrders
  BY <1>5 DEF Cycle, GridOrders, RunnerInv, LoopTypeOK, CycleTypeOK, Strategies
<1>6. CASE Cycle /\ (\E side \in Sides : GridSide(side))
  <2>1. PICK side \in Sides : GridSide(side)
    BY <1>6
  <2>2. open' = open /\ UNCHANGED open_seen
    BY <2>1, PlacedLimit DEF GridSide, SubmitEffect, LoopTypeOK, GridInv
  <2>3. pc' \notin {"r_orders", "RUNNER"}
    BY <2>1 DEF GridSide, AfterSide, GridRaised
  <2>4. QED  BY <2>2, <2>3 DEF RunnerInv
<1>7. CASE Cycle /\ GridReadRaises
  BY <1>7 DEF Cycle, GridReadRaises, RunnerInv, LoopTypeOK, CycleTypeOK, Strategies
<1>8. CASE Cycle /\ RunnerData
  BY <1>8 DEF Cycle, RunnerData, RunnerInv, LoopTypeOK, CycleTypeOK, Strategies
<1>9. CASE Cycle /\ RunnerPositions
  BY <1>9 DEF Cycle, RunnerPositions, RunnerInv, LoopTypeOK, CycleTypeOK, Strategies
<1>10. CASE Cycle /\ RunnerOrders
  BY <1>10 DEF Cycle, RunnerOrders, RunnerInv, LoopTypeOK, CycleTypeOK, Strategies
<1>11. CASE Cycle /\ RunnerSubmit
  BY <1>11 DEF Cycle, RunnerSubmit, RunnerInv, LoopTypeOK, CycleTypeOK, Strategies, SubmitEffect, PlaceMarket, RunnerApproved, CheckPositionLimit
<1>12. CASE Cycle /\ RunnerReadRaises
  BY <1>12 DEF Cycle, RunnerReadRaises, RunnerInv, LoopTypeOK, CycleTypeOK, Strategies
<1>13. CASE CycleEnds
  BY <1>13 DEF CycleEnds, RunnerInv, LoopTypeOK, CycleTypeOK, Strategies
<1>14. CASE Poll
  BY <1>14 DEF Poll, RunnerInv, LoopTypeOK, CycleTypeOK, Strategies
<1>15. CASE Sleep
  BY <1>15 DEF Sleep, RunnerInv, LoopTypeOK, CycleTypeOK, Strategies
<1>16. CASE Launch
  BY <1>16 DEF Launch, RunnerInv, LoopTypeOK, CycleTypeOK, Strategies
<1>17. CASE Tick
  BY <1>17 DEF Tick, RunnerInv, LoopTypeOK, CycleTypeOK, Strategies
<1>18. CASE Interrupt
  <2>1. pc' = "idle" /\ UNCHANGED open_seen
    BY <1>18 DEF Interrupt
  <2>2. open' = open \/ (pc = "RUNNER" /\ RunnerApproved /\ PlaceMarket)
    BY <1>18, PlacedLimit DEF Interrupt, LoopTypeOK, GridInv
  <2>3. QED  BY <2>1, <2>2 DEF RunnerApproved, CheckPositionLimit, PlaceMarket, RunnerInv, LoopTypeOK, CycleTypeOK, Strategies
<1>19. CASE StopFile
  BY <1>19 DEF StopFile, RunnerInv, LoopTypeOK, CycleTypeOK, Strategies
<1>20. CASE RealizedPnl
  BY <1>20 DEF RealizedPnl, RunnerInv, LoopTypeOK, CycleTypeOK, Strategies
<1>21. CASE AccountMoves /\ (\E o \in pending : Fill(o))
  BY <1>21 DEF AccountMoves, Fill, RunnerInv, LoopTypeOK, CycleTypeOK, Strategies
<1>22. CASE AccountMoves /\ (\E o \in pending : OrderGone(o))
  BY <1>22 DEF AccountMoves, OrderGone, RunnerInv, LoopTypeOK, CycleTypeOK, Strategies
<1>23. CASE AccountMoves /\ (\E s \in Strategies : PositionGone(s))
  BY <1>23 DEF AccountMoves, PositionGone, RunnerInv, LoopTypeOK, CycleTypeOK, Strategies
<1>24. CASE UNCHANGED vars
  BY <1>24 DEF RunnerInv, LoopTypeOK, CycleTypeOK, Strategies
<1>25. QED  BY <1>1, <1>2, <1>3, <1>4, <1>5, <1>6, <1>7, <1>8, <1>9, <1>10, <1>11, <1>12, <1>13, <1>14, <1>15, <1>16, <1>17, <1>18, <1>19, <1>20, <1>21, <1>22, <1>23, <1>24, LoopActions

\* Only one cycle begins on a stale approval.
LEMMA KillStep ==
  ASSUME LoopTypeOK, KillInv, [Next]_vars
  PROVE  KillInv'
<1>1. CASE DailyLossDecision
  BY <1>1 DEF DailyLossDecision, KillInv, LoopTypeOK
<1>2. CASE Check
  BY <1>2 DEF Check, KillInv, LoopTypeOK, ShouldStop
<1>3. CASE Cycle /\ GridData
  BY <1>3 DEF Cycle, GridData, KillInv, LoopTypeOK
<1>4. CASE Cycle /\ GridPositions
  BY <1>4 DEF Cycle, GridPositions, KillInv, LoopTypeOK
<1>5. CASE Cycle /\ GridOrders
  BY <1>5 DEF Cycle, GridOrders, KillInv, LoopTypeOK
<1>6. CASE Cycle /\ (\E side \in Sides : GridSide(side))
  BY <1>6 DEF Cycle, GridSide, KillInv, LoopTypeOK
<1>7. CASE Cycle /\ GridReadRaises
  BY <1>7 DEF Cycle, GridReadRaises, KillInv, LoopTypeOK
<1>8. CASE Cycle /\ RunnerData
  BY <1>8 DEF Cycle, RunnerData, KillInv, LoopTypeOK
<1>9. CASE Cycle /\ RunnerPositions
  BY <1>9 DEF Cycle, RunnerPositions, KillInv, LoopTypeOK
<1>10. CASE Cycle /\ RunnerOrders
  BY <1>10 DEF Cycle, RunnerOrders, KillInv, LoopTypeOK
<1>11. CASE Cycle /\ RunnerSubmit
  BY <1>11 DEF Cycle, RunnerSubmit, KillInv, LoopTypeOK
<1>12. CASE Cycle /\ RunnerReadRaises
  BY <1>12 DEF Cycle, RunnerReadRaises, KillInv, LoopTypeOK
<1>13. CASE CycleEnds
  BY <1>13 DEF CycleEnds, KillInv, LoopTypeOK, AfterCycle
<1>14. CASE Poll
  BY <1>14 DEF Poll, KillInv, LoopTypeOK
<1>15. CASE Sleep
  BY <1>15 DEF Sleep, KillInv, LoopTypeOK
<1>16. CASE Launch
  BY <1>16 DEF Launch, KillInv, LoopTypeOK
<1>17. CASE Tick
  BY <1>17 DEF Tick, KillInv, LoopTypeOK
<1>18. CASE Interrupt
  BY <1>18 DEF Interrupt, KillInv, LoopTypeOK
<1>19. CASE StopFile
  BY <1>19 DEF StopFile, KillInv, LoopTypeOK
<1>20. CASE RealizedPnl
  BY <1>20 DEF RealizedPnl, KillInv, LoopTypeOK
<1>21. CASE AccountMoves /\ (\E o \in pending : Fill(o))
  BY <1>21 DEF AccountMoves, Fill, KillInv, LoopTypeOK
<1>22. CASE AccountMoves /\ (\E o \in pending : OrderGone(o))
  BY <1>22 DEF AccountMoves, OrderGone, KillInv, LoopTypeOK
<1>23. CASE AccountMoves /\ (\E s \in Strategies : PositionGone(s))
  BY <1>23 DEF AccountMoves, PositionGone, KillInv, LoopTypeOK
<1>24. CASE UNCHANGED vars
  BY <1>24 DEF KillInv, LoopTypeOK
<1>25. QED  BY <1>1, <1>2, <1>3, <1>4, <1>5, <1>6, <1>7, <1>8, <1>9, <1>10, <1>11, <1>12, <1>13, <1>14, <1>15, <1>16, <1>17, <1>18, <1>19, <1>20, <1>21, <1>22, <1>23, <1>24, LoopActions

\* An error is never carried into the next iteration.
LEMMA ErrorStep ==
  ASSUME LoopTypeOK, ErrorInv, [Next]_vars
  PROVE  ErrorInv'
<1>1. CASE DailyLossDecision
  BY <1>1 DEF DailyLossDecision, ErrorInv, LoopTypeOK
<1>2. CASE Check
  BY <1>2 DEF Check, ErrorInv, LoopTypeOK
<1>3. CASE Cycle /\ GridData
  BY <1>3 DEF Cycle, GridData, ErrorInv, LoopTypeOK
<1>4. CASE Cycle /\ GridPositions
  BY <1>4 DEF Cycle, GridPositions, ErrorInv, LoopTypeOK
<1>5. CASE Cycle /\ GridOrders
  BY <1>5 DEF Cycle, GridOrders, ErrorInv, LoopTypeOK
<1>6. CASE Cycle /\ (\E side \in Sides : GridSide(side))
  BY <1>6 DEF Cycle, GridSide, ErrorInv, LoopTypeOK
<1>7. CASE Cycle /\ GridReadRaises
  BY <1>7 DEF Cycle, GridReadRaises, ErrorInv, LoopTypeOK
<1>8. CASE Cycle /\ RunnerData
  BY <1>8 DEF Cycle, RunnerData, ErrorInv, LoopTypeOK
<1>9. CASE Cycle /\ RunnerPositions
  BY <1>9 DEF Cycle, RunnerPositions, ErrorInv, LoopTypeOK
<1>10. CASE Cycle /\ RunnerOrders
  BY <1>10 DEF Cycle, RunnerOrders, ErrorInv, LoopTypeOK
<1>11. CASE Cycle /\ RunnerSubmit
  BY <1>11 DEF Cycle, RunnerSubmit, ErrorInv, LoopTypeOK
<1>12. CASE Cycle /\ RunnerReadRaises
  BY <1>12 DEF Cycle, RunnerReadRaises, ErrorInv, LoopTypeOK
<1>13. CASE CycleEnds
  BY <1>13 DEF CycleEnds, ErrorInv, LoopTypeOK, AfterCycle
<1>14. CASE Poll
  BY <1>14 DEF Poll, ErrorInv, LoopTypeOK
<1>15. CASE Sleep
  BY <1>15 DEF Sleep, ErrorInv, LoopTypeOK
<1>16. CASE Launch
  BY <1>16 DEF Launch, ErrorInv, LoopTypeOK
<1>17. CASE Tick
  BY <1>17 DEF Tick, ErrorInv, LoopTypeOK
<1>18. CASE Interrupt
  BY <1>18 DEF Interrupt, ErrorInv, LoopTypeOK
<1>19. CASE StopFile
  BY <1>19 DEF StopFile, ErrorInv, LoopTypeOK
<1>20. CASE RealizedPnl
  BY <1>20 DEF RealizedPnl, ErrorInv, LoopTypeOK
<1>21. CASE AccountMoves /\ (\E o \in pending : Fill(o))
  BY <1>21 DEF AccountMoves, Fill, ErrorInv, LoopTypeOK
<1>22. CASE AccountMoves /\ (\E o \in pending : OrderGone(o))
  BY <1>22 DEF AccountMoves, OrderGone, ErrorInv, LoopTypeOK
<1>23. CASE AccountMoves /\ (\E s \in Strategies : PositionGone(s))
  BY <1>23 DEF AccountMoves, PositionGone, ErrorInv, LoopTypeOK
<1>24. CASE UNCHANGED vars
  BY <1>24 DEF ErrorInv, LoopTypeOK
<1>25. QED  BY <1>1, <1>2, <1>3, <1>4, <1>5, <1>6, <1>7, <1>8, <1>9, <1>10, <1>11, <1>12, <1>13, <1>14, <1>15, <1>16, <1>17, <1>18, <1>19, <1>20, <1>21, <1>22, <1>23, <1>24, LoopActions

\* Whose turn it was is fixed at every step of a cycle.
LEMMA TurnStep ==
  ASSUME LoopTypeOK, TurnInv, [Next]_vars
  PROVE  TurnInv'
<1> USE DEF TurnInv
<1>1. CASE DailyLossDecision
  BY <1>1 DEF DailyLossDecision
<1>2. CASE Check
  BY <1>2 DEF Check
<1>3. CASE Cycle /\ GridData
  BY <1>3 DEF Cycle, GridData
<1>4. CASE Cycle /\ GridPositions
  BY <1>4 DEF Cycle, GridPositions
<1>5. CASE Cycle /\ GridOrders
  BY <1>5 DEF Cycle, GridOrders
<1>6. CASE Cycle /\ (\E side \in Sides : GridSide(side))
  BY <1>6 DEF Cycle, GridSide, AfterSide, GridRaised, Sides
<1>7. CASE Cycle /\ GridReadRaises
  BY <1>7 DEF Cycle, GridReadRaises
<1>8. CASE Cycle /\ RunnerData
  BY <1>8 DEF Cycle, RunnerData
<1>9. CASE Cycle /\ RunnerPositions
  BY <1>9 DEF Cycle, RunnerPositions
<1>10. CASE Cycle /\ RunnerOrders
  BY <1>10 DEF Cycle, RunnerOrders
<1>11. CASE Cycle /\ RunnerSubmit
  BY <1>11 DEF Cycle, RunnerSubmit
<1>12. CASE Cycle /\ RunnerReadRaises
  BY <1>12 DEF Cycle, RunnerReadRaises
<1>13. CASE CycleEnds
  BY <1>13 DEF CycleEnds, AfterCycle
<1>14. CASE Poll
  BY <1>14 DEF Poll
<1>15. CASE Sleep
  BY <1>15 DEF Sleep
<1>16. CASE Launch
  BY <1>16 DEF Launch
<1>17. CASE Tick
  BY <1>17 DEF Tick
<1>18. CASE Interrupt
  BY <1>18 DEF Interrupt
<1>19. CASE StopFile
  BY <1>19 DEF StopFile
<1>20. CASE RealizedPnl
  BY <1>20 DEF RealizedPnl
<1>21. CASE AccountMoves /\ (\E o \in pending : Fill(o))
  BY <1>21 DEF AccountMoves, Fill
<1>22. CASE AccountMoves /\ (\E o \in pending : OrderGone(o))
  BY <1>22 DEF AccountMoves, OrderGone
<1>23. CASE AccountMoves /\ (\E s \in Strategies : PositionGone(s))
  BY <1>23 DEF AccountMoves, PositionGone
<1>24. CASE UNCHANGED vars
  BY <1>24 
<1>25. QED  BY <1>1, <1>2, <1>3, <1>4, <1>5, <1>6, <1>7, <1>8, <1>9, <1>10, <1>11, <1>12, <1>13, <1>14, <1>15, <1>16, <1>17, <1>18, <1>19, <1>20, <1>21, <1>22, <1>23, <1>24, LoopActions

\* LoopInv is an invariant of every instance of the loop.
THEOREM LoopInvHolds == Spec => []LoopInv
<1>1. Init => LoopInv
  <2> SUFFICES ASSUME Init PROVE LoopInv
    OBVIOUS
  <2>1. LoopTypeOK
    <3>1. open_seen \in Nat /\ slips \in 0 .. MaxSlips /\ open \in [Strategies -> Nat]
      BY DEF Init, CycleInit
    <3>2. CycleTypeOK
      BY <3>1 DEF Init, CycleInit, CycleTypeOK, Pcs
    <3>3. cycle_num \in 0 .. MaxCycles /\ elapsed \in 0 .. MaxRuntime /\ waited \in 0 .. Interval
      BY DEF Init
    <3>4. QED  BY <3>2, <3>3 DEF Init, LoopTypeOK
  <2>2. GridInv
    BY FS_EmptySet DEF Init, CycleInit, GridInv, GridTotal, Strategies
  <2>3. RunnerInv /\ KillInv /\ TurnInv /\ ErrorInv
    BY DEF Init, CycleInit, RunnerInv, KillInv, TurnInv, ErrorInv, Strategies
  <2>4. QED  BY <2>1, <2>2, <2>3 DEF LoopInv
<1>2. LoopInv /\ [Next]_vars => LoopInv'
  BY LoopTypeStep, GridStep, RunnerStep, KillStep, TurnStep, ErrorStep DEF LoopInv
<1>3. QED  BY <1>1, <1>2, PTL DEF Spec

\* However many cycles and launches there are, the grid holds at most one order
\* above the cap, plus the orders that filled between the two reads of a cycle
\* (run_grid_cycle).
THEOREM GridIsBounded == Spec => []GridExposure
<1>1. LoopInv => GridExposure
  BY DEF LoopInv, GridInv, GridExposure
<1>2. QED  BY <1>1, LoopInvHolds, PTL

\* The runner never holds more recorded positions than max_concurrent_positions
\* (run_runner_cycle, check_position_limit).
THEOREM RunnerIsBounded == Spec => []RunnerLimit
<1>1. LoopInv => RunnerLimit
  BY DEF LoopInv, RunnerInv, RunnerLimit
<1>2. QED  BY <1>1, LoopInvHolds, PTL

\* After a loss over the limit at most one more cycle begins
\* (_daily_loss_decision_for_cycle, should_stop).
THEOREM KillSwitchWorks == Spec => []KillSwitch
<1>1. LoopInv => KillSwitch
  BY DEF LoopInv, KillInv, KillSwitch
<1>2. QED  BY <1>1, LoopInvHolds, PTL

\* A strategy, or a side of the grid, that raises takes no turn from the others
\* (GridCycleError, _run_one_cycle).
THEOREM TurnsAreKept == Spec => []TurnsAreIndependent
<1>1. LoopInv => TurnsAreIndependent
  BY DEF LoopInv, TurnInv, TurnsAreIndependent
<1>2. QED  BY <1>1, LoopInvHolds, PTL

=============================================================================
