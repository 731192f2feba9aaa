-------------------------- MODULE LookAheadProofs --------------------------
(***************************************************************************)
(* NoLookAhead for every length of the history, every set of bars, every   *)
(* parameter and every choice of the indicators.                           *)
(***************************************************************************)
EXTENDS LookAhead, SequenceTheorems, TLAPS

\* The histories are complete and the cursor is inside them.
CursorOK ==
    /\ bars \in [1 .. Length -> Bars] /\ bars2 \in [1 .. Length -> Bars]
    /\ index \in 1 .. Length

Agree == \A k \in 1 .. index : bars[k] = bars2[k]

SameLedger ==
    /\ pending = pending2 /\ open = open2 /\ closed = closed2
    /\ next_ticket = next_ticket2

\* Sequences that agree from m to n have the same subsequence there.
LEMMA SameSubSeq ==
    ASSUME NEW S, NEW s, NEW t, NEW m \in Int, NEW n \in Int,
           \A i \in m .. n : s[i] \in S /\ s[i] = t[i]
    PROVE  SubSeq(s, m, n) = SubSeq(t, m, n)
PROOF
  <1>1. \A i \in m .. n : s[i] \in S
    OBVIOUS
  <1>2. \A i \in m .. n : t[i] \in S
    OBVIOUS
  <1>3. /\ SubSeq(s, m, n) \in Seq(S)
        /\ Len(SubSeq(s, m, n)) = IF m <= n THEN n - m + 1 ELSE 0
        /\ \A i \in 1 .. n - m + 1 : SubSeq(s, m, n)[i] = s[m + i - 1]
    BY <1>1, SubSeqProperties
  <1>4. /\ SubSeq(t, m, n) \in Seq(S)
        /\ Len(SubSeq(t, m, n)) = IF m <= n THEN n - m + 1 ELSE 0
        /\ \A i \in 1 .. n - m + 1 : SubSeq(t, m, n)[i] = t[m + i - 1]
    BY <1>2, SubSeqProperties
  <1>5. \A i \in 1 .. n - m + 1 : s[m + i - 1] = t[m + i - 1]
    <2> SUFFICES ASSUME NEW i \in 1 .. n - m + 1 PROVE s[m + i - 1] = t[m + i - 1]
      OBVIOUS
    <2>1. m + i - 1 \in m .. n
      OBVIOUS
    <2> QED BY <2>1
  <1>6. \A i \in 1 .. Len(SubSeq(s, m, n)) : SubSeq(s, m, n)[i] = SubSeq(t, m, n)[i]
    BY <1>3, <1>4, <1>5
  <1> QED BY <1>3, <1>4, <1>6, SeqEqual

\* Two histories that agree up to the cursor show the same window: what the
\* strategies see ends at the current bar.
LEMMA SameWindow ==
    ASSUME CursorOK, Agree
    PROVE  /\ One!CurrentBar = Two!CurrentBar
           /\ One!VisibleBars(BarsCount) = Two!VisibleBars(BarsCount)
PROOF
  <1>1. One!CurrentBar = Two!CurrentBar
    BY DEF CursorOK, Agree, One!CurrentBar, Two!CurrentBar
  <1> DEFINE first == IF index > BarsCount THEN index - BarsCount + 1 ELSE 1
  <1>2. first \in Int /\ index \in Int /\ 1 <= first
    BY SizeAssumption DEF CursorOK
  <1> HIDE DEF first
  <1>3. \A i \in first .. index : bars[i] \in Bars /\ bars[i] = bars2[i]
    <2> TAKE i \in first .. index
    <2>1. i \in 1 .. index /\ i \in 1 .. Length
      BY <1>2, SizeAssumption DEF CursorOK
    <2> QED BY <2>1 DEF CursorOK, Agree
  <1>4. SubSeq(bars, first, index) = SubSeq(bars2, first, index)
    BY <1>2, <1>3, SameSubSeq
  <1> QED BY <1>1, <1>4 DEF first, One!VisibleBars, Two!VisibleBars

-----------------------------------------------------------------------------
(* Equal inputs, equal decisions: every operator of the one replay has the *)
(* value it has in the other.                                              *)

\* The two instances count alike.
LEMMA SameCardinality ==
    ASSUME NEW S
    PROVE  One!Cardinality(S) = Two!Cardinality(S)
BY DEF One!Cardinality, Two!Cardinality

LEMMA SamePrices ==
    ASSUME One!CurrentBar = Two!CurrentBar
    PROVE  /\ One!Bid = Two!Bid /\ One!Ask = Two!Ask
           /\ \A price, side : One!NormalizeLimitPrice(price, side)
                                = Two!NormalizeLimitPrice(price, side)
PROOF
  <1>1. One!Bid = Two!Bid /\ One!Ask = Two!Ask
    BY DEF One!Bid, Two!Bid, One!Ask, Two!Ask, One!HalfSpreadPrice, Two!HalfSpreadPrice
  <1>2. \A price : One!Snap(price) = Two!Snap(price)
    BY DEF One!Snap, Two!Snap
  <1> QED BY <1>1, <1>2 DEF One!NormalizeLimitPrice, Two!NormalizeLimitPrice

LEMMA SameGridOrders ==
    ASSUME One!CurrentBar = Two!CurrentBar, SameLedger, NEW w
    PROVE  /\ One!GridSides(w) = Two!GridSides(w)
           /\ \A side, ticket : One!GridOrder(w, side, ticket) = Two!GridOrder(w, side, ticket)
           /\ \A side, sides : One!TicketOf(side, sides) = Two!TicketOf(side, sides)
PROOF
  <1>1. \A mult : One!GridDistance(w, mult) = Two!GridDistance(w, mult)
    BY DEF One!GridDistance, Two!GridDistance, One!AtLeast, Two!AtLeast
  <1>2. \A side : One!ReferencePrice(w, side) = Two!ReferencePrice(w, side)
    BY <1>1 DEF One!ReferencePrice, Two!ReferencePrice, One!GridCenter, Two!GridCenter
  <1>3. One!GridSides(w) = Two!GridSides(w)
    <2>1. One!GridCap = Two!GridCap
      BY SameCardinality DEF SameLedger, One!GridCap, Two!GridCap, One!OpenOf, Two!OpenOf
    <2>2. \A side, price : One!NoDuplicate(side, price) = Two!NoDuplicate(side, price)
      BY DEF SameLedger, One!NoDuplicate, Two!NoDuplicate
    <2> QED BY <2>1, <2>2, <1>2 DEF One!GridSides, Two!GridSides, One!Sides, Two!Sides
  <1>4. \A side, entry, distance :
            /\ One!StopAt(side, entry, distance) = Two!StopAt(side, entry, distance)
            /\ One!TargetAt(side, entry, distance) = Two!TargetAt(side, entry, distance)
    BY DEF One!StopAt, Two!StopAt, One!TargetAt, Two!TargetAt, One!Snap, Two!Snap
  <1>5. \A side, ticket : One!GridOrder(w, side, ticket) = Two!GridOrder(w, side, ticket)
    BY <1>1, <1>2, <1>4, SamePrices DEF One!GridOrder, Two!GridOrder
  <1>6. \A side, sides : One!TicketOf(side, sides) = Two!TicketOf(side, sides)
    BY DEF SameLedger, One!TicketOf, Two!TicketOf
  <1> QED BY <1>3, <1>5, <1>6

LEMMA SameRunnerPosition ==
    ASSUME One!CurrentBar = Two!CurrentBar, SameLedger, NEW w, NEW side
    PROVE  /\ One!RunnerApproved = Two!RunnerApproved
           /\ One!RunnerPosition(w, side, next_ticket) = Two!RunnerPosition(w, side, next_ticket2)
PROOF
  <1>1. One!RunnerApproved = Two!RunnerApproved
    BY SameCardinality DEF SameLedger, One!RunnerApproved, Two!RunnerApproved, One!OpenOf, Two!OpenOf
  <1>2. One!StopBase(w) = Two!StopBase(w)
    BY DEF One!StopBase, Two!StopBase, One!AtLeast, Two!AtLeast
  <1>3. \A entry, distance :
            /\ One!StopAt(side, entry, distance) = Two!StopAt(side, entry, distance)
            /\ One!TargetAt(side, entry, distance) = Two!TargetAt(side, entry, distance)
    BY DEF One!StopAt, Two!StopAt, One!TargetAt, Two!TargetAt, One!Snap, Two!Snap
  <1>4. One!RunnerPosition(w, side, next_ticket) = Two!RunnerPosition(w, side, next_ticket2)
    BY <1>2, <1>3, SamePrices DEF SameLedger, One!RunnerPosition, Two!RunnerPosition
  <1> QED BY <1>1, <1>4

-----------------------------------------------------------------------------
(* One step. *)

LEMMA SameCheck ==
    ASSUME One!CurrentBar = Two!CurrentBar, SameLedger,
           One!CheckFillsAndExits, Two!CheckFillsAndExits
    PROVE  SameLedger'
PROOF
  <1>1. \A o : One!FillPendingOrder(o) = Two!FillPendingOrder(o)
    BY DEF One!FillPendingOrder, Two!FillPendingOrder
  <1>2. \A bar, candidates : One!Exits(bar, candidates) = Two!Exits(bar, candidates)
    BY DEF One!Exits, Two!Exits, One!ClosePosition, Two!ClosePosition,
           One!StopHit, Two!StopHit, One!TargetHit, Two!TargetHit
  <1>3. \A opened : One!ExitCandidates(opened) = Two!ExitCandidates(opened)
    BY DEF SameLedger, One!ExitCandidates, Two!ExitCandidates
  <1>4. \A bar, o : One!Touches(bar, o) = Two!Touches(bar, o)
    BY DEF One!Touches, Two!Touches
  <1> DEFINE filled1 == {o \in pending : One!Touches(One!CurrentBar, o)}
             filled2 == {o \in pending2 : Two!Touches(Two!CurrentBar, o)}
             opened1 == {One!FillPendingOrder(o) : o \in filled1}
             opened2 == {Two!FillPendingOrder(o) : o \in filled2}
             exits1  == One!Exits(One!CurrentBar, One!ExitCandidates(opened1))
             exits2  == Two!Exits(Two!CurrentBar, Two!ExitCandidates(opened2))
  <1>5. filled1 = filled2
    BY <1>4 DEF SameLedger
  <1>6. opened1 = opened2
    BY <1>1, <1>5
  <1>7. exits1 = exits2
    BY <1>2, <1>3, <1>6
  <1>8. /\ pending' = pending \ filled1 /\ pending2' = pending2 \ filled2
        /\ open' = (open \cup opened1) \ {t.position : t \in exits1}
        /\ open2' = (open2 \cup opened2) \ {t.position : t \in exits2}
        /\ closed' = closed \cup exits1 /\ closed2' = closed2 \cup exits2
        /\ next_ticket' = next_ticket /\ next_ticket2' = next_ticket2
    BY DEF One!CheckFillsAndExits, Two!CheckFillsAndExits
  <1> HIDE DEF filled1, filled2, opened1, opened2, exits1, exits2
  <1> QED BY <1>5, <1>6, <1>7, <1>8 DEF SameLedger

LEMMA SameGridCycle ==
    ASSUME CursorOK, Agree, SameLedger, One!GridCycle, Two!GridCycle
    PROVE  SameLedger'
PROOF
  <1> DEFINE w  == One!VisibleBars(BarsCount)
             s1 == One!GridSides(w)
  <1>1. One!CurrentBar = Two!CurrentBar /\ w = Two!VisibleBars(BarsCount)
    BY SameWindow
  <1>2. /\ s1 = Two!GridSides(w)
        /\ \A side, ticket : One!GridOrder(w, side, ticket) = Two!GridOrder(w, side, ticket)
        /\ \A side, sides : One!TicketOf(side, sides) = Two!TicketOf(side, sides)
    BY <1>1, SameGridOrders
  <1>3. {One!GridOrder(w, s, One!TicketOf(s, s1)) : s \in s1}
            = {Two!GridOrder(w, s, Two!TicketOf(s, s1)) : s \in s1}
    BY <1>2
  <1>4. /\ open' = open /\ closed' = closed
        /\ \/ Trending(w) /\ pending' = pending /\ next_ticket' = next_ticket
           \/ /\ ~ Trending(w) /\ next_ticket' = next_ticket + One!Cardinality(s1)
              /\ pending' = pending \cup {One!GridOrder(w, s, One!TicketOf(s, s1)) : s \in s1}
    BY DEF One!GridCycle
  <1>5. /\ open2' = open2 /\ closed2' = closed2
        /\ \/ Trending(w) /\ pending2' = pending2 /\ next_ticket2' = next_ticket2
           \/ /\ ~ Trending(w) /\ next_ticket2' = next_ticket2 + Two!Cardinality(s1)
              /\ pending2' = pending2 \cup {Two!GridOrder(w, s, Two!TicketOf(s, s1)) : s \in s1}
    BY <1>1, <1>2 DEF Two!GridCycle
  <1> HIDE DEF w, s1
  <1> QED BY <1>3, <1>4, <1>5, SameCardinality DEF SameLedger

LEMMA SameRunnerCycle ==
    ASSUME CursorOK, Agree, SameLedger, One!RunnerCycle, Two!RunnerCycle
    PROVE  SameLedger'
PROOF
  <1> DEFINE w    == One!VisibleBars(BarsCount)
             side == IF Macd(w) > 0 THEN "BUY" ELSE "SELL"
             p1   == One!RunnerPosition(w, side, next_ticket)
             p2   == Two!RunnerPosition(w, side, next_ticket2)
  <1>1. One!CurrentBar = Two!CurrentBar /\ w = Two!VisibleBars(BarsCount)
    BY SameWindow
  <1>2. One!RunnerApproved = Two!RunnerApproved /\ p1 = p2
    BY <1>1, SameRunnerPosition
  <1>3. /\ pending' = pending /\ closed' = closed
        /\ \/ /\ Macd(w) # 0 /\ One!RunnerApproved
              /\ open' = open \cup {p1} /\ next_ticket' = next_ticket + 1
           \/ /\ Macd(w) = 0 \/ ~ One!RunnerApproved
              /\ open' = open /\ next_ticket' = next_ticket
    BY DEF One!RunnerCycle
  <1>4. /\ pending2' = pending2 /\ closed2' = closed2
        /\ \/ /\ Macd(w) # 0 /\ Two!RunnerApproved
              /\ open2' = open2 \cup {p2} /\ next_ticket2' = next_ticket2 + 1
           \/ /\ Macd(w) = 0 \/ ~ Two!RunnerApproved
              /\ open2' = open2 /\ next_ticket2' = next_ticket2
    BY <1>1 DEF Two!RunnerCycle
  <1> HIDE DEF w, side, p1, p2
  <1> QED BY <1>2, <1>3, <1>4 DEF SameLedger

-----------------------------------------------------------------------------
(* The invariant. *)

\* A step never moves the cursor back or changes a history, so histories that
\* agree after it agreed before it.
LEMMA CursorStep ==
    ASSUME CursorOK, [Next]_vars
    PROVE  CursorOK' /\ (Agree' => Agree)
PROOF
  <1>1. bars' = bars /\ bars2' = bars2 /\ (index' = index \/ (index < Length /\ index' = index + 1))
    BY DEF vars, Next, One!vars, Two!vars, One!CheckFillsAndExits, Two!CheckFillsAndExits,
           One!GridCycle, Two!GridCycle, One!RunnerCycle, Two!RunnerCycle, One!Advance, Two!Advance
  <1>2. index' \in 1 .. Length /\ 1 .. index \subseteq 1 .. index'
    BY <1>1, SizeAssumption DEF CursorOK
  <1> QED BY <1>1, <1>2 DEF CursorOK, Agree

\* As long as two histories agree, so do the ledgers of their replays, whatever
\* the strategies compute from the bars they see (run_backtest and
\* ReplayCursor.visible_bars).
THEOREM ReplaysNeverLookAhead == Spec => []NoLookAhead
PROOF
  <1> DEFINE Inv == CursorOK /\ (Agree => SameLedger)
  <1>1. Init => Inv
    BY SizeAssumption DEF Init, One!Init, Two!Init, CursorOK, SameLedger
  <1>2. Inv /\ [Next]_vars => Inv'
    <2> SUFFICES ASSUME CursorOK, Agree => SameLedger, [Next]_vars, Agree'
                 PROVE  CursorOK' /\ SameLedger'
      BY CursorStep
    <2>1. CursorOK' /\ Agree /\ SameLedger
      BY CursorStep
    <2>2. CASE One!CheckFillsAndExits /\ Two!CheckFillsAndExits
      BY <2>1, <2>2, SameWindow, SameCheck
    <2>3. CASE One!GridCycle /\ Two!GridCycle
      BY <2>1, <2>3, SameGridCycle
    <2>4. CASE One!RunnerCycle /\ Two!RunnerCycle
      BY <2>1, <2>4, SameRunnerCycle
    <2>5. CASE UNCHANGED vars
      BY <2>1, <2>5 DEF vars, One!vars, Two!vars, SameLedger
    <2> QED BY <2>1, <2>2, <2>3, <2>4, <2>5 DEF Next
  <1>3. Inv => NoLookAhead
    BY DEF Agree, SameLedger, NoLookAhead
  <1> QED BY <1>1, <1>2, <1>3, PTL DEF Spec
=============================================================================
