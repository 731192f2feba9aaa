------------------------- MODULE DealHistoryProofs -------------------------
(***************************************************************************)
(* What the program concludes from the deal history is right, for every    *)
(* length of a day, server time, latency, limit and number of positions.   *)
(***************************************************************************)
EXTENDS DealHistory, FiniteSetTheorems, WellFoundedInduction, TLAPS

-----------------------------------------------------------------------------
(* Division. *)

LEMMA TimesIsMonotone ==
    ASSUME NEW n \in Nat \ {0}, NEW a \in Int, NEW b \in Int, a < b
    PROVE  n * a + n <= n * b
OBVIOUS

LEMMA DivisionOK ==
    ASSUME NEW n \in Nat \ {0}, NEW x \in Int
    PROVE  /\ x \div n \in Int /\ x % n \in 0 .. n - 1
           /\ x = n * (x \div n) + (x % n)
OBVIOUS

\* There is one quotient, and one remainder below the divisor.
LEMMA DivisionIsUnique ==
    ASSUME NEW n \in Nat \ {0}, NEW q \in Int, NEW r \in 0 .. n - 1,
           NEW x \in Int, x = n * q + r
    PROVE  x \div n = q /\ x % n = r
PROOF
  <1>1. /\ x \div n \in Int /\ x % n \in 0 .. n - 1
        /\ x = n * (x \div n) + (x % n)
        /\ n * (x \div n) \in Int /\ n * q \in Int
    BY DivisionOK
  <1>2. ~ (x \div n < q)
    <2>1. SUFFICES ASSUME x \div n < q PROVE FALSE
      OBVIOUS
    <2>2. n * (x \div n) + n <= n * q
      BY <1>1, <2>1, TimesIsMonotone
    <2> QED BY <1>1, <2>2
  <1>3. ~ (q < x \div n)
    <2>1. SUFFICES ASSUME q < x \div n PROVE FALSE
      OBVIOUS
    <2>2. n * q + n <= n * (x \div n)
      BY <1>1, <2>1, TimesIsMonotone
    <2> QED BY <1>1, <2>2
  <1>4. x \div n = q
    BY <1>1, <1>2, <1>3
  <1> QED BY <1>1, <1>4

\* round() finds the quarter that is missed by less than half of one.
LEMMA RoundedIsNearest ==
    ASSUME NEW k \in Int, NEW e \in Int, e <= 0, -Quarter < e
    PROVE  RoundedQuarters(2 * (Quarter * k) + e) = k
PROOF
  <1> DEFINE x == 2 * (Quarter * k) + e
             n == 2 * Quarter
  <1>1. Quarter \in Nat \ {0} /\ n \in Nat \ {0} /\ Quarter * k \in Int /\ x \in Int
    BY TimeAssumption
  <1>2. CASE e = 0
    <2>1. x = n * k + 0 /\ 0 \in 0 .. n - 1
      BY <1>1, <1>2
    <2>2. x \div n = k /\ x % n = 0
      <3> HIDE DEF x, n
      <3> QED BY <1>1, <2>1, DivisionIsUnique
    <2> HIDE DEF x
    <2>3. RoundedQuarters(x) = k
      BY <1>1, <2>2 DEF RoundedQuarters
    <2> QED BY <2>3 DEF x
  <1>3. CASE e < 0
    <2>1. x = n * (k - 1) + (n + e) /\ n + e \in 0 .. n - 1 /\ k - 1 \in Int
      BY <1>1, <1>3
    <2>2. x \div n = k - 1 /\ x % n = n + e
      <3> DEFINE q == k - 1
                 r == n + e
      <3>1. x = n * q + r /\ r \in 0 .. n - 1 /\ q \in Int
        BY <2>1
      <3> HIDE DEF x, n, q, r
      <3>2. x \div n = q /\ x % n = r
        BY <1>1, <3>1, DivisionIsUnique
      <3> QED BY <3>2 DEF q, r
    <2> HIDE DEF x
    <2>3. Quarter < n + e
      BY <1>1
    <2>4. RoundedQuarters(x) = (k - 1) + 1
      BY <1>1, <2>2, <2>3 DEF RoundedQuarters
    <2> QED BY <2>4 DEF x
  <1> QED BY <1>2, <1>3

-----------------------------------------------------------------------------
(* Least elements and ranks. *)

LEMMA LeastNatural ==
    ASSUME NEW S \in SUBSET Nat, S # {}
    PROVE  \E m \in S : \A y \in S : m <= y
PROOF
  <1>1. S \subseteq Nat /\ S # {}
    OBVIOUS
  <1>2. PICK m \in S : \A y \in S : ~ (<<y, m>> \in OpToRel(<, Nat))
    BY <1>1, NatLessThanWellFounded, WFMin
  <1>3. \A y \in S : ~ (y < m)
    BY <1>2 DEF OpToRel
  <1> QED BY <1>3

\* A set of times that is bounded below has its minimum.
LEMMA MinIsLeast ==
    ASSUME NEW S \in SUBSET Int, S # {}, NEW b \in Int, \A x \in S : b <= x
    PROVE  Min(S) \in S /\ \A y \in S : Min(S) <= y
PROOF
  <1> DEFINE T == {x - b : x \in S}
  <1>1. T \in SUBSET Nat /\ T # {}
    <2>1. \A x \in S : x - b \in Nat
      OBVIOUS
    <2> QED BY <2>1
  <1>2. PICK m \in T : \A y \in T : m <= y
    BY <1>1, LeastNatural
  <1>3. PICK x \in S : m = x - b
    OBVIOUS
  <1>4. \A y \in S : x <= y
    <2> TAKE y \in S
    <2>1. m <= y - b
      BY <1>2
    <2> QED BY <1>3, <2>1
  <1> QED BY <1>4 DEF Min

LEMMA MinOfOne ==
    ASSUME NEW x \in Int
    PROVE  Min({x}) = x
BY DEF Min

Below(R, F, x)  == {t \in R : F[t] < x}
AtMost(R, F, x) == {t \in R : F[t] <= x}

\* Among finitely many values there is one of every rank.
LEMMA RankExists ==
    ASSUME NEW R, IsFiniteSet(R), NEW F \in [R -> Int], NEW lo \in Int, NEW hi \in Int,
           \A t \in R : lo <= F[t] /\ F[t] <= hi,
           NEW k \in Nat, k < Cardinality(R)
    PROVE  \E u \in R : /\ Cardinality(Below(R, F, F[u])) <= k
                        /\ Cardinality(AtMost(R, F, F[u])) > k
PROOF
  <1> DEFINE Upto(y) == {t \in R : F[t] <= y}
             S == {m \in Nat : Cardinality(Upto(lo + m)) > k}
  <1>1. Cardinality(R) \in Nat /\ \A y : IsFiniteSet(Upto(y)) /\ Cardinality(Upto(y)) \in Nat
    <2>1. \A y : Upto(y) \in SUBSET R
      OBVIOUS
    <2> QED BY <2>1, FS_Subset, FS_CardinalityType
  <1>2. Cardinality({}) = 0
    BY FS_EmptySet
  <1>3. R # {}
    BY <1>1, <1>2
  <1>4. hi - lo \in S
    <2>1. lo <= hi
      BY <1>3
    <2>2. Upto(lo + (hi - lo)) = R
      OBVIOUS
    <2> QED BY <2>1, <2>2
  <1>5. PICK m \in S : \A y \in S : m <= y
    BY <1>4, LeastNatural
  <1> DEFINE x == lo + m
  <1>6. m \in Nat /\ x \in Int /\ Cardinality(Upto(x)) > k
    OBVIOUS
  <1>7. Cardinality(Upto(x - 1)) <= k
    <2>1. CASE m = 0
      <3>1. Upto(x - 1) = {}
        BY <2>1
      <3> QED BY <1>2, <3>1
    <2>2. CASE m > 0
      <3>1. m - 1 \in Nat /\ lo + (m - 1) = x - 1 /\ ~ (m <= m - 1)
        BY <1>6, <2>2
      <3>4. m - 1 \notin S
        <4> HIDE DEF S
        <4> QED BY <1>5, <3>1
      <3>2. ~ (Cardinality(Upto(lo + (m - 1))) > k)
        BY <3>1, <3>4
      <3> HIDE DEF Upto
      <3> QED BY <1>1, <3>1, <3>2
    <2> QED BY <1>6, <2>1, <2>2
  <1>8. Upto(x) # Upto(x - 1)
    <2> HIDE DEF Upto, x
    <2> QED BY <1>1, <1>6, <1>7
  <1>9. PICK u \in R : F[u] = x
    BY <1>6, <1>8
  <1>10. Below(R, F, F[u]) = Upto(x - 1) /\ AtMost(R, F, F[u]) = Upto(x)
    BY <1>6, <1>9 DEF Below, AtMost
  <1> QED BY <1>6, <1>7, <1>9, <1>10

-----------------------------------------------------------------------------
(* Dates. *)

\* DailyResetBoundary(t) is the one reset of the day that ends with t.
LEMMA BoundaryOK ==
    ASSUME NEW t \in Int
    PROVE  /\ DailyResetBoundary(t) \in t - Day + 1 .. t
           /\ DailyResetBoundary(t) % Day = ResetHour
PROOF
  <1> DEFINE q == t \div Day
             b == Day * q + ResetHour
             c == Day * (q - 1) + ResetHour
  <1>1. /\ q \in Int /\ q - 1 \in Int /\ t % Day \in 0 .. Day - 1 /\ t = Day * q + (t % Day)
        /\ Day \in Nat \ {0} /\ ResetHour \in 0 .. Day - 1 /\ Day * q \in Int
    BY DivisionOK, TimeAssumption
  <1> HIDE DEF q
  <1>2. b \in Int /\ c \in Int /\ c = b - Day /\ Midnight(t) + ResetHour = b
    <2>1. Day * (q - 1) = Day * q - Day
      BY <1>1
    <2>2. Midnight(t) = Day * q
      <3> DEFINE m == t % Day
      <3>1. Midnight(t) = t - m
        BY DEF Midnight
      <3>2. t = Day * q + m /\ m \in Int
        BY <1>1
      <3> HIDE DEF m
      <3> QED BY <1>1, <3>1, <3>2
    <2> QED BY <1>1, <2>1, <2>2
  <1>3. b % Day = ResetHour /\ c % Day = ResetHour
    <2>1. ASSUME NEW k \in Int, NEW x \in Int, x = Day * k + ResetHour PROVE x % Day = ResetHour
      <3>1. Day \in Nat \ {0} /\ ResetHour \in 0 .. Day - 1
        BY TimeAssumption
      <3> QED BY <2>1, <3>1, DivisionIsUnique
    <2> QED BY <1>1, <1>2, <2>1
  <1>4. t - Day < b /\ b <= t + Day /\ b - Day <= t
    BY <1>1
  <1> HIDE DEF b, c
  <1>5. DailyResetBoundary(t) = IF b > t THEN c ELSE b
    BY <1>2 DEF DailyResetBoundary
  <1> QED BY <1>1, <1>2, <1>3, <1>4, <1>5

LEMMA ResetIsUnique ==
    ASSUME NEW t \in Int, NEW b \in t - Day + 1 .. t, NEW c \in t - Day + 1 .. t,
           b % Day = c % Day
    PROVE  b = c
PROOF
  <1> DEFINE i == b \div Day
             j == c \div Day
  <1>1. /\ i \in Int /\ j \in Int /\ b = Day * i + (b % Day) /\ c = Day * j + (c % Day)
        /\ Day \in Nat \ {0} /\ b % Day \in Int /\ Day * i \in Int /\ Day * j \in Int
    BY DivisionOK, TimeAssumption
  <1>2. i < j => Day * i + Day <= Day * j
    BY <1>1, TimesIsMonotone
  <1>3. j < i => Day * j + Day <= Day * i
    BY <1>1, TimesIsMonotone
  <1> HIDE DEF i, j
  <1>4. b - c < Day /\ c - b < Day
    BY <1>1
  <1>5. ~ (i < j) /\ ~ (j < i)
    BY <1>1, <1>2, <1>3, <1>4
  <1> QED BY <1>1, <1>5

\* The code's arithmetic against the definition of the last reset.
LEMMA BoundaryIsLastReset ==
    ASSUME NEW t \in Int
    PROVE  (CHOOSE b \in t - Day + 1 .. t : b % Day = ResetHour) = DailyResetBoundary(t)
BY BoundaryOK, ResetIsUnique

LEMMA NextMidnight ==
    ASSUME NEW t \in Int
    PROVE  Midnight(t + Day) = Midnight(t) + Day
PROOF
  <1> DEFINE q == t \div Day
             r == t % Day
  <1>1. q \in Int /\ r \in 0 .. Day - 1 /\ t = Day * q + r /\ Day \in Nat \ {0}
    BY DivisionOK, TimeAssumption
  <1> HIDE DEF q
  <1>2. Day * (q + 1) = Day * q + Day /\ Day * q \in Int /\ q + 1 \in Int
    BY <1>1
  <1>3. (t + Day) % Day = r
    <2>1. t + Day = Day * (q + 1) + r /\ t + Day \in Int
      BY <1>1, <1>2
    <2> HIDE DEF r
    <2> QED BY <1>1, <1>2, <2>1, DivisionIsUnique
  <1> HIDE DEF r
  <1>4. Midnight(t) = t - r /\ Midnight(t + Day) = (t + Day) - r
    BY <1>3 DEF Midnight, r
  <1> QED BY <1>1, <1>4

LEMMA MidnightOK ==
    ASSUME NEW t \in Int
    PROVE  Midnight(t) \in Int /\ t - Day < Midnight(t) /\ Midnight(t) <= t
BY DivisionOK, TimeAssumption DEF Midnight

-----------------------------------------------------------------------------
(* The offset. *)

\* The opening deal of a MARKET order is dated by the server's clock, less a
\* latency.
LEMMA ReferenceOK ==
    ASSUME DealsTypeOK, AccountInv, NEW D \in SUBSET deals, NEW t \in Tickets,
           type[t] = "MARKET", Ins(D, t) # {}
    PROVE  /\ RawDiff(D, t) \in Int
           /\ skew - Latency <= RawDiff(D, t) /\ RawDiff(D, t) <= skew
PROOF
  <1>1. PICK d \in Ins(D, t) : TRUE
    OBVIOUS
  <1>2. \A e \in Ins(D, t) : e \in Ins(deals, t)
    BY DEF Ins
  <1>3. Ins(D, t) = {d}
    BY <1>1, <1>2 DEF AccountInv
  <1>4. /\ d.at \in Int /\ submitted[t] \in Int /\ skew \in Int /\ Latency \in Int
        /\ submitted[t] - Latency <= d.at /\ d.at <= submitted[t]
    <2>1. d \in deals
      BY <1>1, <1>2 DEF Ins
    <2> QED BY <1>1, <1>2, <2>1, TimeAssumption DEF AccountInv, DealsTypeOK
  <1>5. {ServerTime(e) : e \in Ins(D, t)} = {d.at + skew}
    BY <1>3 DEF ServerTime
  <1>6. Min({ServerTime(e) : e \in Ins(D, t)}) = d.at + skew
    <2>1. d.at + skew \in Int
      BY <1>4
    <2>2. Min({d.at + skew}) = d.at + skew
      BY <2>1, MinOfOne
    <2> QED BY <1>5, <2>2
  <1> QED BY <1>4, <1>6 DEF RawDiff

\* infer_deal_time_offset() returns the server's offset if it has a reference.
LEMMA InferredOffset ==
    ASSUME DealsTypeOK, AccountInv,
           NEW records \in SUBSET Tickets, NEW D \in SUBSET deals, References(records, D) # {}
    PROVE  InferDealTimeOffset(records, D) = skew
PROOF
  <1> DEFINE R == References(records, D)
             F == [t \in R |-> RawDiff(D, t)]
             n == Cardinality(R)
             lo == skew - Latency
  <1>1. IsFiniteSet(R) /\ n \in Nat /\ n >= 1
    <2>1. R \in SUBSET Tickets
      BY DEF References
    <2>2. IsFiniteSet(R)
      BY <2>1, TicketsAssumption, FS_Subset
    <2>3. n \in Nat /\ n # 0
      BY <2>2, FS_CardinalityType, FS_EmptySet
    <2> QED BY <2>2, <2>3
  <1>2. skew \in Int /\ Latency \in Nat /\ skew % Quarter = 0 /\ Quarter \in Nat \ {0}
        /\ 2 * Latency < Quarter
    BY TimeAssumption DEF DealsTypeOK
  <1>3. \A t \in R : /\ F[t] = RawDiff(D, t) /\ F[t] \in Int
                     /\ skew - Latency <= F[t] /\ F[t] <= skew
    BY ReferenceOK DEF References
  <1> HIDE DEF F
  <1>4. \A k \in Nat : k < n => /\ Ranked(D, R, k) \in Int
                                /\ skew - Latency <= Ranked(D, R, k) /\ Ranked(D, R, k) <= skew
    <2> SUFFICES ASSUME NEW k \in Nat, k < n
                 PROVE  Ranked(D, R, k) \in {F[t] : t \in R}
      BY <1>3
    <2> DEFINE G == [t \in R |-> F[t]]
    <2>1. /\ G \in [R -> Int] /\ \A t \in R : G[t] = F[t]
          /\ \A t \in R : lo <= G[t] /\ G[t] <= skew
          /\ lo \in Int /\ skew \in Int /\ k < Cardinality(R)
      BY <1>2, <1>3
    <2> HIDE DEF G, R, lo
    <2>2. PICK u \in R : /\ Cardinality(Below(R, G, G[u])) <= k
                         /\ Cardinality(AtMost(R, G, G[u])) > k
      BY <1>1, <2>1, RankExists
    <2>3. /\ Below(R, G, G[u]) = {t \in R : RawDiff(D, t) < RawDiff(D, u)}
          /\ AtMost(R, G, G[u]) = {t \in R : RawDiff(D, t) <= RawDiff(D, u)}
      BY <1>3, <2>1 DEF Below, AtMost
    <2>4. Ranked(D, R, k) \in {RawDiff(D, t) : t \in R}
      BY <2>2, <2>3 DEF Ranked
    <2> QED BY <1>3, <2>4
  <1> HIDE DEF n
  <1>5. /\ (n - 1) \div 2 \in Nat /\ (n - 1) \div 2 < n
        /\ n \div 2 \in Nat /\ n \div 2 < n
    BY <1>1
  <1> DEFINE e == MedianTwice(D, R) - 2 * skew
  <1>6. e \in Int /\ -(2 * Latency) <= e /\ e <= 0 /\ MedianTwice(D, R) = 2 * skew + e
    <2> DEFINE a == Ranked(D, R, (n - 1) \div 2)
               b == Ranked(D, R, n \div 2)
    <2>1. /\ a \in Int /\ skew - Latency <= a /\ a <= skew
          /\ b \in Int /\ skew - Latency <= b /\ b <= skew
      BY <1>4, <1>5
    <2>2. MedianTwice(D, R) = a + b
      BY DEF MedianTwice, n
    <2> HIDE DEF a, b
    <2> QED BY <1>2, <2>1, <2>2
  <1> HIDE DEF e
  <1> DEFINE h == skew \div Quarter
  <1>7. h \in Int /\ skew = Quarter * h
    BY <1>2, DivisionOK
  <1> HIDE DEF h
  <1>8. RoundedQuarters(2 * (Quarter * h) + e) = h
    <2>1. -Quarter < e
      BY <1>2, <1>6
    <2> QED BY <1>6, <1>7, <2>1, RoundedIsNearest
  <1>9. RoundedQuarters(MedianTwice(D, R)) * Quarter = skew
    BY <1>2, <1>6, <1>7, <1>8
  <1> QED BY <1>9 DEF InferDealTimeOffset

-----------------------------------------------------------------------------
(* What an answer concludes. *)

\* The deals an answer would be worked out from now, and its offset.
Fetched == GetDeals(call.from, call.to)
Known   == References(Trusts(call.row), Fetched) # {}
Offset  == InferDealTimeOffset(Trusts(call.row), Fetched)

LEMMA OffsetOK ==
    ASSUME DealsTypeOK, AccountInv
    PROVE  (Known => Offset = skew) /\ (~ Known => Offset = 0)
PROOF
  <1>1. Trusts(call.row) \in SUBSET Tickets /\ Fetched \in SUBSET deals
    BY DEF Trusts, Recorded, AllClosed, Fetched, GetDeals
  <1>2. Known => Offset = skew
    BY <1>1, InferredOffset DEF Known, Offset
  <1>3. ~ Known => Offset = 0
    BY DEF Known, Offset, InferDealTimeOffset
  <1> QED BY <1>2, <1>3

LEMMA RowOK ==
    ASSUME NEW row \in Callers
    PROVE  /\ row.concludes \in {"limit", "trades", "evidence"}
           /\ row.concludes = "limit" => row.from = "boundary"
           /\ row.concludes = "trades" => row.from = "earliest"
BY CallersAssumption DEF AllCallers, ComputeDailyLossDecision, VerifyKillSwitchFix,
   CheckRerunKillSwitch, LivePerformanceMonitor, CheckRunnerParamSplit, ExplainUnknownReal, Caller

\* The step as a whole: the answer, and the records the evidence writes off.
LEMMA AnsweredOK ==
    ASSUME BookInv, Answered
    PROVE  /\ call # Idle /\ call.row \in Callers /\ call.at \in Int /\ call.at <= now
           /\ answer'.of = call.row.concludes /\ answer'.asked = call
           /\ answer'.known = Known /\ answer'.offset = Offset
           /\ answer'.counted =
                CountedSince(Fetched, DailyResetBoundary(call.at), Trusts(call.row), Offset)
           /\ answer'.approved = WithinLimit(Pnl(answer'.counted))
           /\ answer'.trades = ClosedTrades(call.closed, Fetched)
           /\ \A t \in answer'.explained : t \in Tickets /\ ExplainOne(t, Fetched, call.open, Offset)
           /\ call.row.concludes # "evidence" => answer'.explained = {} /\ status' = status
           /\ status' = [t \in Tickets |-> IF t \in answer'.explained THEN "CLOSED" ELSE status[t]]
           /\ call' = Idle
           /\ UNCHANGED <<now, skew, type, submitted, volume, deals>>
PROOF
  <1>1. call # Idle /\ call.row \in Callers /\ call.at \in Int /\ call.at <= now
        /\ call.open \subseteq Tickets
    BY DEF Answered, BookInv, CallInv
  <1> DEFINE explained == {t \in call.open : ExplainOne(t, Fetched, call.open, Offset)}
  <1>2. answer' = [of |-> call.row.concludes, asked |-> call, offset |-> Offset, known |-> Known,
                   counted |-> CountedSince(Fetched, DailyResetBoundary(call.at),
                                            Trusts(call.row), Offset),
                   approved |-> WithinLimit(Pnl(CountedSince(Fetched, DailyResetBoundary(call.at),
                                                             Trusts(call.row), Offset))),
                   trades |-> ClosedTrades(call.closed, Fetched),
                   explained |-> IF call.row.concludes = "evidence" THEN explained ELSE {}]
    BY DEF Answered, Fetched, Known, Offset
  <1>3. /\ status' = [t \in Tickets |-> IF t \in answer'.explained THEN "CLOSED" ELSE status[t]]
        /\ call' = Idle /\ UNCHANGED <<now, skew, type, submitted, volume, deals>>
    BY DEF Answered
  <1>4. call.row.concludes # "evidence" => answer'.explained = {} /\ status' = status
    BY <1>2, <1>3 DEF BookInv, DealsTypeOK
  <1>5. \A t \in answer'.explained : t \in Tickets /\ ExplainOne(t, Fetched, call.open, Offset)
    BY <1>1, <1>2
  <1> HIDE DEF explained
  <1> QED BY <1>1, <1>2, <1>3, <1>4, <1>5

LEMMA LimitOK ==
    ASSUME BookInv, Answered
    PROVE  MisdatedOnlyNearReset' /\ NoLossApproved'
PROOF
  <1> DEFINE b == DailyResetBoundary(call.at)
             trusted == Trusts(call.row)
             today == {d \in deals : d.pos \in trusted /\ d.at >= b}
  <1>1. CASE call.row.concludes # "limit"
    <2>1. answer'.of # "limit" /\ answer'.asked.row.concludes # "limit"
      BY <1>1, AnsweredOK
    <2> QED BY <2>1 DEF MisdatedOnlyNearReset, NoLossApproved, Concluded
  <1>2. CASE call.row.concludes = "limit"
    <2>1. /\ call.row.from = "boundary" /\ MaxLoss # NoLimit
          /\ call.from = Midnight(b - Day) /\ call.to = FetchTo(call.at)
          /\ call.at \in Int /\ call.at <= now
      BY <1>2, AnsweredOK, RowOK DEF BookInv, CallInv
    <2>2. /\ b \in Int /\ call.at - Day < b /\ b <= call.at
          /\ Day \in Nat \ {0} /\ skew \in Int /\ -Day < skew /\ skew < Day
      BY <2>1, BoundaryOK, TimeAssumption DEF BookInv, DealsTypeOK
    <2>3. call.from \in Int /\ call.from <= b - Day /\ call.to \in Int
      <3>1. b - Day \in Int /\ call.at + Day \in Int
        BY <2>1, <2>2
      <3> HIDE DEF b
      <3> QED BY <2>1, <3>1, MidnightOK DEF FetchTo
    <2>4. LastReset' = b
      <3>1. answer'.asked.at = call.at
        BY AnsweredOK
      <3>2. LastReset' = CHOOSE x \in call.at - Day + 1 .. call.at : x % Day = ResetHour
        BY <3>1 DEF LastReset
      <3> QED BY <2>1, <3>2, BoundaryIsLastReset
    <2>5. /\ answer'.asked = call /\ answer'.known = Known /\ status' = status /\ deals' = deals
          /\ skew' = skew /\ answer'.approved = WithinLimit(Pnl(answer'.counted))
          /\ answer'.counted = CountedSince(Fetched, b, trusted, Offset)
      BY <1>2, AnsweredOK
    <2>7. Today' = today
      <3>1. Recorded' = Recorded /\ AllClosed' = AllClosed
        BY <2>5 DEF Recorded, AllClosed
      <3> HIDE DEF b
      <3> QED BY <2>4, <2>5, <3>1 DEF Today, Trusts
    <2>8. \A d \in deals : d.at \in Int /\ ServerTime(d) = d.at + skew
      BY DEF BookInv, AccountInv, ServerTime
    <2>9. (Known => Offset = skew) /\ (~ Known => Offset = 0)
      BY OffsetOK DEF BookInv
    <2> HIDE DEF b, trusted
    <2>10. \A d \in answer'.counted \ today : ~ Known /\ b - skew <= d.at
      <3> TAKE d \in answer'.counted \ today
      <3>1. d \in deals /\ d.pos \in trusted /\ (d.at + skew) - Offset >= b
        BY <2>5, <2>8 DEF CountedSince, Fetched, GetDeals
      <3>2. d.at \in Int /\ d.at < b
        BY <2>2, <2>8, <3>1
      <3> QED BY <2>2, <2>9, <3>1, <3>2
    <2>11. \A d \in today \ answer'.counted :
             ServerTime(d) > call.to \/ (~ Known /\ d.at < b - skew)
      <3> TAKE d \in today \ answer'.counted
      <3>1. d \in deals /\ d.pos \in trusted /\ d.at \in Int /\ d.at >= b
        BY <2>8
      <3>2. ServerTime(d) = d.at + skew /\ call.from <= ServerTime(d)
        BY <2>2, <2>3, <2>8, <3>1
      <3>3. CASE ServerTime(d) <= call.to
        <4>1. d \in Fetched
          BY <3>1, <3>2, <3>3 DEF Fetched, GetDeals
        <4>2. ~ ((d.at + skew) - Offset >= b)
          BY <2>5, <3>1, <3>2, <4>1 DEF CountedSince
        <4> QED BY <2>2, <2>9, <3>1, <4>2
      <3> QED BY <2>2, <2>3, <3>1, <3>2, <3>3
    <2>12. \A d : Beyond(d)' <=> ServerTime(d) > call.to
      BY <2>5 DEF Beyond, ServerTime
    <2>13. MisdatedOnlyNearReset'
      BY <2>4, <2>5, <2>7, <2>10, <2>11, <2>12 DEF MisdatedOnlyNearReset
    <2>14. ASSUME ~ \E d \in today : ServerTime(d) > call.to, skew = 0 \/ Known
           PROVE  answer'.counted = today
      <3>1. \A d \in answer'.counted : d \in today
        <4> SUFFICES ASSUME NEW d \in answer'.counted, d \notin today PROVE FALSE
          OBVIOUS
        <4>1. ~ Known /\ b - skew <= d.at /\ d \in deals /\ d.pos \in trusted
          BY <2>5, <2>10 DEF CountedSince, Fetched, GetDeals
        <4>2. b <= d.at
          BY <2>2, <2>8, <2>14, <4>1
        <4> QED BY <4>1, <4>2
      <3>2. \A d \in today : d \in answer'.counted
        <4> SUFFICES ASSUME NEW d \in today, d \notin answer'.counted PROVE FALSE
          OBVIOUS
        <4>1. ~ Known /\ d.at < b - skew /\ d \in deals /\ d.at >= b
          BY <2>11, <2>14
        <4> QED BY <2>2, <2>8, <2>14, <4>1
      <3> QED BY <3>1, <3>2
    <2>15. NoLossApproved'
      <3> SUFFICES ASSUME answer'.approved, ~ \E d \in today : ServerTime(d) > call.to,
                          skew = 0 \/ Known
                   PROVE  ~ (Pnl(today) < 0 /\ -Pnl(today) >= MaxLoss)
        BY <2>5, <2>7, <2>12 DEF NoLossApproved
      <3>1. answer'.counted = today
        BY <2>14
      <3> HIDE DEF today
      <3>2. WithinLimit(Pnl(today))
        BY <2>5, <3>1
      <3> QED BY <2>1, <3>2 DEF WithinLimit
    <2> QED BY <2>13, <2>15
  <1> QED BY <1>1, <1>2

\* A server that is less than a latency ahead is not ahead.
LEMMA NotAhead ==
    ASSUME skew \in Skews, skew < Latency
    PROVE  skew <= 0
PROOF
  <1> DEFINE h == skew \div Quarter
  <1>1. Quarter \in Nat \ {0} /\ skew \in Int /\ skew % Quarter = 0
        /\ Latency \in Nat /\ 2 * Latency < Quarter
    BY TimeAssumption
  <1>2. h \in Int /\ skew = Quarter * h
    BY <1>1, DivisionOK
  <1> HIDE DEF h
  <1>3. 0 < h => Quarter * 0 + Quarter <= Quarter * h
    BY <1>1, <1>2, TimesIsMonotone
  <1>4. h <= 0 => skew <= 0
    <2>1. h < 0 => Quarter * h + Quarter <= Quarter * 0
      BY <1>1, <1>2, TimesIsMonotone
    <2>2. Quarter * 0 = 0
      BY <1>1
    <2>3. h <= 0 => h < 0 \/ h = 0
      BY <1>2
    <2> QED BY <1>1, <1>2, <2>1, <2>2, <2>3
  <1> QED BY <1>1, <1>2, <1>3, <1>4

LEMMA TradesOK ==
    ASSUME BookInv, ClosingInv, Answered
    PROVE  MissedOnlyNearMidnight'
PROOF
  <1>1. CASE call.row.concludes # "trades"
    BY <1>1, AnsweredOK DEF MissedOnlyNearMidnight, Concluded
  <1>2. CASE call.row.concludes = "trades"
    <2> DEFINE S == {submitted[r] : r \in call.closed}
               first == Midnight(Min(S))
    <2>1. /\ call.row.from = "earliest" /\ call.from = first /\ call.to = FetchTo(call.at)
          /\ call.at \in Int /\ call.closed # {} /\ call.closed \subseteq Tickets
      BY <1>2, AnsweredOK, RowOK DEF BookInv, CallInv
    <2>2. first \in Int /\ \A x \in S : first <= x
      <3>1. S \in SUBSET Int /\ S # {} /\ \A x \in S : Old <= x
        BY <2>1 DEF BookInv, AccountInv
      <3> HIDE DEF S
      <3>2. Min(S) \in Int /\ \A x \in S : Min(S) <= x
        BY <3>1, MinIsLeast, TimeAssumption
      <3>3. Midnight(Min(S)) \in Int /\ Midnight(Min(S)) <= Min(S)
        BY <3>2, MidnightOK
      <3> QED BY <3>1, <3>2, <3>3
    <2>3. call.to = Midnight(call.at) + Day /\ call.to \in Int
      BY <2>1, NextMidnight, MidnightOK, TimeAssumption DEF FetchTo
    <2>4. /\ answer'.asked = call /\ deals' = deals /\ skew' = skew /\ submitted' = submitted
          /\ answer'.trades = ClosedTrades(call.closed, Fetched)
      BY AnsweredOK
    <2>5. \A r \in call.closed : submitted[r] \in Int /\ first <= submitted[r]
      <3>1. \A r \in call.closed : submitted[r] \in S /\ submitted[r] \in Int
        BY <2>1 DEF BookInv, AccountInv
      <3> HIDE DEF first, S
      <3> QED BY <2>2, <3>1
    <2> HIDE DEF first, S
    <2>6. ASSUME NEW t \in call.closed, t \notin answer'.trades, NEW d \in ClosedSince(t)
          PROVE  \/ Midnight(call.at) + Day - skew < d.at
                 \/ skew <= 0 /\ d.at < first - skew
      <3>1. d \in Outs(deals, t) /\ submitted[t] - Latency <= d.at
        BY DEF ClosedSince
      <3>2. d \in deals /\ d \notin Fetched
        BY <2>4, <2>6, <3>1 DEF ClosedTrades, Outs, Fetched, GetDeals
      <3>3. ServerTime(d) = d.at + skew /\ d.at \in Int /\ skew \in Int /\ skew \in Skews
        BY <3>2, TimeAssumption DEF BookInv, AccountInv, DealsTypeOK, ServerTime
      <3>4. ~ (call.from <= ServerTime(d) /\ ServerTime(d) <= call.to)
        BY <3>2 DEF Fetched, GetDeals
      <3>5. CASE d.at + skew > call.to
        BY <2>3, <3>3, <3>5, MidnightOK, <2>1, TimeAssumption
      <3>6. CASE d.at + skew < first
        <4>1. submitted[t] \in Int /\ first <= submitted[t] /\ first \in Int /\ Latency \in Nat
          BY <2>2, <2>5, TimeAssumption
        <4>2. skew < Latency
          BY <3>1, <3>3, <3>6, <4>1
        <4>3. skew <= 0
          BY <3>3, <4>2, NotAhead
        <4> QED BY <3>3, <3>6, <4>1, <4>3
      <3> QED BY <2>1, <2>2, <2>3, <3>3, <3>4, <3>5, <3>6
    <2>7. ASSUME NEW t \in call.closed, Outs(deals, t) # {}
          PROVE  ClosedSince(t) # {}
      BY <2>1, <2>7, AnsweredOK DEF ClosingInv
    <2>8. /\ \A t : Outs(deals, t)' = Outs(deals, t) /\ ClosedSince(t)' = ClosedSince(t)
          /\ Midnight(answer.asked.at)' = Midnight(call.at)
          /\ Midnight(Min({submitted[r] : r \in answer.asked.closed}))' = first
      BY <2>4 DEF Outs, ClosedSince, first, S, Midnight
    <2> QED BY <2>4, <2>6, <2>7, <2>8 DEF MissedOnlyNearMidnight
  <1> QED BY <1>1, <1>2

LEMMA EvidenceOK ==
    ASSUME BookInv, Answered
    PROVE  EvidenceIsComplete'
PROOF
  <1>1. deals' = deals /\ volume' = volume
    BY AnsweredOK
  <1>2. ASSUME NEW t \in Tickets, t \in answer'.explained
        PROVE  volume[t] = 0 /\ t \in Opened
    <2>1. ExplainOne(t, Fetched, call.open, Offset)
      BY <1>2, AnsweredOK
    <2>2. PICK d \in Outs(Fetched, t) : d.whole
      BY <2>1 DEF ExplainOne
    <2>3. d \in Outs(deals, t)
      BY <2>2 DEF Outs, Fetched, GetDeals
    <2> QED BY <2>2, <2>3 DEF BookInv, AccountInv
  <1> QED BY <1>1, <1>2 DEF EvidenceIsComplete, Opened, Ins

LEMMA ExactOK ==
    ASSUME BookInv, Answered
    PROVE  OffsetIsExact' /\ answer'.offset % Quarter = 0
PROOF
  <1>1. answer'.known = Known /\ answer'.offset = Offset /\ skew' = skew
    BY AnsweredOK
  <1>2. (Known => Offset = skew) /\ (~ Known => Offset = 0)
    BY OffsetOK DEF BookInv
  <1>3. skew % Quarter = 0 /\ 0 % Quarter = 0
    <2>1. Quarter \in Nat \ {0} /\ 0 = Quarter * 0 + 0 /\ 0 \in 0 .. Quarter - 1
      BY TimeAssumption
    <2>2. 0 % Quarter = 0
      BY <2>1, DivisionIsUnique
    <2> QED BY <2>2, TimeAssumption DEF BookInv, DealsTypeOK
  <1> QED BY <1>1, <1>2, <1>3 DEF OffsetIsExact

-----------------------------------------------------------------------------
(* The steps. *)

\* What the properties say of an answer.
Conclusions == /\ OffsetIsExact /\ MisdatedOnlyNearReset /\ NoLossApproved
               /\ MissedOnlyNearMidnight /\ EvidenceIsComplete

LEMMA NothingConcluded ==
    ASSUME answer = NoAnswer
    PROVE  Conclusions
BY DEF Conclusions, OffsetIsExact, MisdatedOnlyNearReset, NoLossApproved, MissedOnlyNearMidnight,
   EvidenceIsComplete, Concluded

\* A failed call concludes nothing, and never approves.
LEMMA FailsSafely ==
    ASSUME BookInv, AskFails
    PROVE  BookInv' /\ Conclusions'
PROOF
  <1>1. /\ call # Idle /\ call' = Idle
        /\ answer' = [of |-> "failed", approved |-> FALSE, explained |-> {}, asked |-> call]
        /\ UNCHANGED <<now, skew, type, status, submitted, volume, deals>>
    BY DEF AskFails
  <1>2. /\ answer'.of = "failed" /\ answer'.approved = FALSE /\ answer'.asked = call
        /\ answer'.explained = {} /\ call.at <= now
    BY <1>1 DEF BookInv, CallInv
  <1>3. DealsTypeOK'
    BY <1>1, <1>2 DEF BookInv, DealsTypeOK
  <1>4. AccountInv'
    BY <1>1 DEF BookInv, AccountInv, Ins, Outs, Opened
  <1>5. CallInv'
    BY <1>1 DEF CallInv
  <1>6. Conclusions'
    BY <1>2 DEF Conclusions, OffsetIsExact, MisdatedOnlyNearReset, NoLossApproved, MissedOnlyNearMidnight,
       EvidenceIsComplete, Concluded
  <1> QED BY <1>3, <1>4, <1>5, <1>6 DEF BookInv

LEMMA AnswerPreserves ==
    ASSUME BookInv, ClosingInv, Answered
    PROVE  BookInv' /\ Conclusions'
PROOF
  <1>1. /\ call.at <= now /\ answer'.asked = call /\ call' = Idle
        /\ status' = [t \in Tickets |-> IF t \in answer'.explained THEN "CLOSED" ELSE status[t]]
        /\ UNCHANGED <<now, skew, type, submitted, volume, deals>>
    BY AnsweredOK
  <1>2. status' \in [Tickets -> {"NONE", "OPEN", "CLOSED"}]
    BY <1>1 DEF BookInv, DealsTypeOK
  <1>3. DealsTypeOK'
    BY <1>1, <1>2, ExactOK DEF BookInv, DealsTypeOK
  <1>4. AccountInv'
    BY <1>1 DEF BookInv, AccountInv, Ins, Outs, Opened
  <1>5. CallInv'
    BY <1>1 DEF CallInv
  <1>6. Conclusions'
    BY ExactOK, LimitOK, TradesOK, EvidenceOK DEF Conclusions
  <1> QED BY <1>3, <1>4, <1>5, <1>6 DEF BookInv

\* An order the program or a human has not used yet has no deals.
LEMMA UnusedIsUntraded ==
    ASSUME DealsTypeOK, NEW t \in Tickets, Unused(t)
    PROVE  t \notin Opened /\ Ins(deals, t) = {} /\ Outs(deals, t) = {}
BY DEF DealsTypeOK, Unused, Opened, Ins, Outs

\* The opening deal of a position that had none.
LEMMA OpeningKeepsAccount ==
    ASSUME DealsTypeOK, AccountInv, NEW t \in Tickets, t \notin Opened,
           NEW at \in Int, deals' = deals \cup {Deal(t, "in", at, -Fee)},
           volume' = [volume EXCEPT ![t] = 2],
           submitted' \in [Tickets -> Int], \A s \in Tickets : submitted'[s] >= Old,
           \A s \in Tickets \ {t} : type'[s] = type[s] /\ submitted'[s] = submitted[s],
           type'[t] = "MARKET" => submitted'[t] - Latency <= at /\ at <= submitted'[t]
    PROVE  AccountInv'
PROOF
  <1> DEFINE new == Deal(t, "in", at, -Fee)
  <1>1. new.pos = t /\ new.entry = "in" /\ new.at = at /\ new.whole = FALSE
    BY DEF Deal
  <1> HIDE DEF new
  <1>2. /\ \A s \in Tickets \ {t} : Ins(deals', s) = Ins(deals, s)
        /\ Ins(deals, t) = {} /\ Ins(deals', t) = {new}
        /\ \A s \in Tickets : Outs(deals', s) = Outs(deals, s)
    BY <1>1 DEF Ins, Outs, Opened, new
  <1>3. \A s \in Tickets \ {t} : volume'[s] = volume[s] /\ (s \in Opened' <=> s \in Opened)
    BY <1>2 DEF DealsTypeOK, Opened
  <1>4. t \in Opened'
    BY <1>2 DEF Opened
  <1>5. \A d \in deals' : d.at \in Int /\ d.entry \in {"in", "out"}
    <2>1. \A d \in deals' : d \in deals \/ d = new
      BY DEF new
    <2> QED BY <1>1, <2>1 DEF AccountInv
  <1>6. \A s \in Tickets : \A d, e \in Ins(deals', s) : d = e
    <2> TAKE s \in Tickets
    <2>1. CASE s = t
      BY <1>2, <2>1
    <2>2. CASE s # t
      <3>1. Ins(deals', s) = Ins(deals, s)
        BY <1>2, <2>2
      <3> QED BY <3>1 DEF AccountInv
    <2> QED BY <2>1, <2>2
  <1>7. \A s \in Tickets : \A d \in Ins(deals', s) :
          type'[s] = "MARKET" => submitted'[s] - Latency <= d.at /\ d.at <= submitted'[s]
    BY <1>1, <1>2 DEF AccountInv
  <1>8. \A s \in Tickets : volume'[s] > 0 => s \in Opened'
    BY <1>3, <1>4 DEF AccountInv
  <1>9. \A s \in Tickets : \A d \in Outs(deals', s) : d.whole => volume'[s] = 0 /\ s \in Opened'
    BY <1>2, <1>3 DEF AccountInv
  <1> QED BY <1>5, <1>6, <1>7, <1>8, <1>9 DEF AccountInv

LEMMA PlaceMarketPreserves ==
    ASSUME BookInv, answer = NoAnswer, NEW t \in Tickets, PlaceMarket(t)
    PROVE  BookInv'
PROOF
  <1>1. DealsTypeOK /\ AccountInv /\ type[t] = "none" /\ t \notin Opened
    BY UnusedIsUntraded DEF BookInv, PlaceMarket, Unused
  <1>2. PICK l \in 0 .. Latency : deals' = deals \cup {Deal(t, "in", now - l, -Fee)}
    BY DEF PlaceMarket
  <1>3. /\ type' = [type EXCEPT ![t] = "MARKET"] /\ status' = [status EXCEPT ![t] = "OPEN"]
        /\ submitted' = [submitted EXCEPT ![t] = now] /\ volume' = [volume EXCEPT ![t] = 2]
        /\ call = Idle /\ UNCHANGED <<now, skew, call, answer>>
    BY DEF PlaceMarket
  <1>4. now \in Int /\ Start \in Int /\ Old \in Int /\ Old <= now /\ Latency \in Nat
        /\ now - l \in Int /\ now - l <= now /\ now - Latency <= now - l
    BY <1>1, TimeAssumption DEF DealsTypeOK
  <1>5. AccountInv'
    <2>1. /\ submitted' \in [Tickets -> Int] /\ \A s \in Tickets : submitted'[s] >= Old
          /\ \A s \in Tickets \ {t} : type'[s] = type[s] /\ submitted'[s] = submitted[s]
          /\ submitted'[t] = now
      BY <1>1, <1>3, <1>4 DEF AccountInv, DealsTypeOK
    <2> QED BY <1>1, <1>2, <1>3, <1>4, <2>1, OpeningKeepsAccount
  <1>6. DealsTypeOK'
    <2>1. \A d \in deals' : d.at <= now /\ d.pos \in Tickets /\ type'[d.pos] # "none"
      BY <1>1, <1>2, <1>3, <1>4 DEF DealsTypeOK, Deal
    <2> QED BY <1>1, <1>3, <2>1 DEF DealsTypeOK
  <1>7. CallInv'
    BY <1>3 DEF CallInv
  <1> QED BY <1>5, <1>6, <1>7 DEF BookInv

\* A request waits while positions open and close: its dates stay.
LEMMA WaitingKeepsCall ==
    ASSUME CallInv, answer' = NoAnswer, UNCHANGED <<now, call, submitted>>
    PROVE  CallInv'
BY DEF CallInv, Midnight, DailyResetBoundary, FetchTo

LEMMA FillPreserves ==
    ASSUME BookInv, answer = NoAnswer, NEW t \in Tickets, Fill(t)
    PROVE  BookInv'
PROOF
  <1>1. DealsTypeOK /\ AccountInv /\ CallInv /\ type[t] = "LIMIT" /\ t \notin Opened
    BY DEF BookInv, Fill
  <1>2. /\ deals' = deals \cup {Deal(t, "in", now, -Fee)} /\ volume' = [volume EXCEPT ![t] = 2]
        /\ UNCHANGED <<now, skew, type, status, submitted, call, answer>>
    BY DEF Fill
  <1>3. now \in Int
    BY <1>1, TimeAssumption DEF DealsTypeOK
  <1>4. AccountInv'
    <2>1. /\ submitted' \in [Tickets -> Int] /\ \A s \in Tickets : submitted'[s] >= Old
          /\ \A s \in Tickets \ {t} : type'[s] = type[s] /\ submitted'[s] = submitted[s]
          /\ type'[t] # "MARKET"
      BY <1>1, <1>2 DEF AccountInv
    <2> QED BY <1>1, <1>2, <1>3, <2>1, OpeningKeepsAccount
  <1>5. DealsTypeOK'
    <2>1. \A d \in deals' : d.at <= now /\ d.pos \in Tickets /\ type'[d.pos] # "none"
      BY <1>1, <1>2, <1>3 DEF DealsTypeOK, Deal
    <2> QED BY <1>1, <1>2, <2>1 DEF DealsTypeOK
  <1> QED BY <1>1, <1>2, <1>4, <1>5, WaitingKeepsCall DEF BookInv

LEMMA HumanOpensPreserves ==
    ASSUME BookInv, answer = NoAnswer, NEW t \in Tickets, HumanOpens(t)
    PROVE  BookInv'
PROOF
  <1>1. DealsTypeOK /\ AccountInv /\ CallInv /\ t \notin Opened
    BY UnusedIsUntraded DEF BookInv, HumanOpens
  <1>2. /\ deals' = deals \cup {Deal(t, "in", now, -Fee)} /\ volume' = [volume EXCEPT ![t] = 2]
        /\ type' = [type EXCEPT ![t] = "EXTERNAL"]
        /\ UNCHANGED <<now, skew, status, submitted, call, answer>>
    BY DEF HumanOpens
  <1>3. now \in Int
    BY <1>1, TimeAssumption DEF DealsTypeOK
  <1>4. AccountInv'
    <2>1. /\ submitted' \in [Tickets -> Int] /\ \A s \in Tickets : submitted'[s] >= Old
          /\ \A s \in Tickets \ {t} : type'[s] = type[s] /\ submitted'[s] = submitted[s]
          /\ type'[t] # "MARKET"
      BY <1>1, <1>2 DEF AccountInv, DealsTypeOK
    <2> QED BY <1>1, <1>2, <1>3, <2>1, OpeningKeepsAccount
  <1>5. DealsTypeOK'
    <2>1. \A d \in deals' : d.at <= now /\ d.pos \in Tickets /\ type'[d.pos] # "none"
      BY <1>1, <1>2, <1>3 DEF DealsTypeOK, Deal
    <2> QED BY <1>1, <1>2, <2>1 DEF DealsTypeOK
  <1> QED BY <1>1, <1>2, <1>4, <1>5, WaitingKeepsCall DEF BookInv

\* A closing deal takes a volume the position still has, so none comes after a
\* whole one.
LEMMA ClosePreserves ==
    ASSUME BookInv, answer = NoAnswer, NEW t \in Tickets, NEW v \in {1, 2},
           NEW order \in {"stop", "other"}, NEW pays \in Amounts, Close(t, v, order, pays)
    PROVE  BookInv'
PROOF
  <1>0. PICK l \in 0 .. Latency :
          /\ l > 0 => submitted[t] = now
          /\ deals' = deals \cup
               {[Deal(t, "out", now - l, pays) EXCEPT !.order = order, !.whole = v = 2]}
    BY DEF Close
  <1> DEFINE new == [Deal(t, "out", now - l, pays) EXCEPT !.order = order, !.whole = v = 2]
  <1>1. DealsTypeOK /\ AccountInv /\ CallInv
    BY DEF BookInv
  <1>2. /\ v <= volume[t] /\ deals' = deals \cup {new} /\ volume' = [volume EXCEPT ![t] = @ - v]
        /\ UNCHANGED <<now, skew, type, status, submitted, call, answer>>
    BY <1>0 DEF Close
  <1>3. new.pos = t /\ new.entry = "out" /\ new.at = now - l /\ new.whole = (v = 2)
    BY DEF Deal
  <1> HIDE DEF new
  <1>4. now \in Int /\ now - l \in Int /\ now - l <= now /\ volume[t] \in 0 .. 2 /\ volume[t] > 0 /\ t \in Opened
    BY <1>1, <1>2, TimeAssumption DEF DealsTypeOK, AccountInv
  <1>5. /\ \A s \in Tickets : Ins(deals', s) = Ins(deals, s) /\ (s \in Opened' <=> s \in Opened)
        /\ \A s \in Tickets \ {t} : Outs(deals', s) = Outs(deals, s) /\ volume'[s] = volume[s]
        /\ Outs(deals', t) = Outs(deals, t) \cup {new} /\ volume'[t] = volume[t] - v
    BY <1>1, <1>2, <1>3 DEF Ins, Outs, Opened, DealsTypeOK
  <1>6. AccountInv'
    <2>1. \A d \in deals' : d.at \in Int /\ d.entry \in {"in", "out"}
      BY <1>1, <1>2, <1>3, <1>4 DEF AccountInv
    <2>2. \A s \in Tickets : volume'[s] > 0 => s \in Opened'
      BY <1>1, <1>4, <1>5 DEF AccountInv
    <2>3. \A s \in Tickets : \A d \in Outs(deals', s) : d.whole => volume'[s] = 0 /\ s \in Opened'
      <3>1. \A d \in Outs(deals, t) : ~ d.whole
        BY <1>1, <1>4 DEF AccountInv
      <3>2. new.whole => volume'[t] = 0
        <4>1. new.whole => v = 2
          BY <1>3
        <4>2. v = 2 => volume[t] - v = 0
          BY <1>2, <1>4
        <4> QED BY <1>5, <4>1, <4>2
      <3> QED BY <1>1, <1>4, <1>5, <3>1, <3>2 DEF AccountInv
    <2> QED BY <1>1, <1>2, <1>5, <2>1, <2>2, <2>3 DEF AccountInv
  <1>7. DealsTypeOK'
    <2>1. \A d \in deals' : d.at <= now /\ d.pos \in Tickets /\ type[d.pos] # "none"
      <3>1. type[t] # "none"
        BY <1>1, <1>4, UnusedIsUntraded DEF Unused
      <3> QED BY <1>1, <1>2, <1>3, <1>4, <3>1 DEF DealsTypeOK
    <2>2. volume' \in [Tickets -> 0 .. 2]
      BY <1>1, <1>2, <1>4 DEF DealsTypeOK
    <2> QED BY <1>1, <1>2, <2>1, <2>2 DEF DealsTypeOK
  <1> QED BY <1>1, <1>2, <1>6, <1>7, WaitingKeepsCall DEF BookInv

\* The steps that leave the deals and the positions alone.
LEMMA RecordsPreserve ==
    ASSUME BookInv, answer = NoAnswer, NEW t \in Tickets,
           PlaceLimit(t) \/ RecordManualAdoption(t) \/ RecordClosed(t)
    PROVE  BookInv'
PROOF
  <1>1. DealsTypeOK /\ AccountInv
    BY DEF BookInv
  <1>2. call = Idle /\ UNCHANGED <<now, skew, volume, deals, call, answer>>
    BY DEF PlaceLimit, RecordManualAdoption, RecordClosed
  <1>3. /\ status' \in [Tickets -> {"NONE", "OPEN", "CLOSED"}]
        /\ type' \in [Tickets -> {"none", "MARKET", "LIMIT", "EXTERNAL"}]
        /\ \A s \in Tickets : type[s] # "none" => type'[s] = type[s]
    BY <1>1 DEF PlaceLimit, RecordManualAdoption, RecordClosed, DealsTypeOK, Unused
  <1>4. /\ submitted' \in [Tickets -> Int] /\ \A s \in Tickets : submitted'[s] >= Old
        /\ \A s \in Tickets : type'[s] = "MARKET" => type[s] = "MARKET" /\ submitted'[s] = submitted[s]
    <2>1. now \in Int /\ Old <= now
      BY <1>1, TimeAssumption DEF DealsTypeOK
    <2> QED BY <1>1, <2>1 DEF PlaceLimit, RecordManualAdoption, RecordClosed, AccountInv,
            DealsTypeOK, Unused
  <1>5. DealsTypeOK'
    BY <1>1, <1>2, <1>3 DEF DealsTypeOK
  <1>6. AccountInv'
    BY <1>1, <1>2, <1>4 DEF AccountInv, Ins, Outs, Opened
  <1>7. CallInv'
    BY <1>2 DEF CallInv
  <1> QED BY <1>5, <1>6, <1>7 DEF BookInv

LEMMA AskPreserves ==
    ASSUME BookInv, NEW row \in Callers, Ask(row)
    PROVE  BookInv'
PROOF
  <1> DEFINE asked == [row |-> row, at |-> now, from |-> FetchFrom(row, now), to |-> FetchTo(now),
                       open |-> {t \in Tickets : status[t] = "OPEN"}, closed |-> AllClosed]
  <1>1. DealsTypeOK /\ AccountInv
    BY DEF BookInv
  <1>2. /\ answer = NoAnswer /\ call' = asked
        /\ row.concludes = "limit" => MaxLoss # NoLimit
        /\ row.from = "earliest" => AllClosed # {}
        /\ UNCHANGED <<now, skew, type, status, submitted, volume, deals, answer>>
    BY DEF Ask
  <1>3. now \in Int
    BY <1>1, TimeAssumption DEF DealsTypeOK
  <1>4. /\ row.from = "boundary" => FetchFrom(row, now) = Midnight(DailyResetBoundary(now) - Day)
        /\ row.from = "earliest" =>
             FetchFrom(row, now) = Midnight(Min({submitted[r] : r \in AllClosed}))
    BY DEF FetchFrom
  <1>5. /\ call'.row = row /\ call'.at = now /\ call'.to = FetchTo(now)
        /\ call'.from = FetchFrom(row, now) /\ call'.closed = AllClosed
        /\ call'.open \subseteq Tickets /\ call'.closed \subseteq Tickets
    BY <1>2 DEF AllClosed
  <1>6. CallInv'
    <2>1. /\ FetchTo(now)' = FetchTo(now)
          /\ FetchTo(call.at)' = FetchTo(now)
          /\ Midnight(DailyResetBoundary(call.at) - Day)' = Midnight(DailyResetBoundary(now) - Day)
          /\ Midnight(Min({submitted[r] : r \in call.closed}))'
               = Midnight(Min({submitted[r] : r \in AllClosed}))
      BY <1>2, <1>5 DEF FetchTo, Midnight, DailyResetBoundary
    <2> QED BY <1>2, <1>3, <1>4, <1>5, <2>1 DEF CallInv
  <1>7. DealsTypeOK'
    BY <1>1, <1>2 DEF DealsTypeOK
  <1>8. AccountInv'
    BY <1>1, <1>2 DEF AccountInv, Ins, Outs, Opened
  <1> QED BY <1>6, <1>7, <1>8 DEF BookInv

LEMMA TickPreserves ==
    ASSUME BookInv, answer = NoAnswer, Tick
    PROVE  BookInv'
PROOF
  <1>1. DealsTypeOK /\ AccountInv /\ CallInv
    BY DEF BookInv
  <1>2. /\ now < Horizon /\ now' = now + 1
        /\ UNCHANGED <<skew, type, status, submitted, volume, deals, call, answer>>
    BY DEF Tick
  <1>3. now \in Int /\ now' \in Start .. Horizon /\ now <= now'
    BY <1>1, <1>2, TimeAssumption DEF DealsTypeOK
  <1>4. \A d \in deals : d.at <= now'
    BY <1>1, <1>2, <1>3 DEF DealsTypeOK, AccountInv
  <1>5. DealsTypeOK'
    BY <1>1, <1>2, <1>3, <1>4 DEF DealsTypeOK
  <1>6. AccountInv'
    BY <1>1, <1>2 DEF AccountInv, Ins, Outs, Opened
  <1>7. CallInv'
    <2>1. call # Idle => call.at \in Int /\ call.at <= now'
      BY <1>1, <1>3 DEF CallInv
    <2> QED BY <1>1, <1>2, <2>1 DEF CallInv, Midnight, DailyResetBoundary, FetchTo
  <1> QED BY <1>5, <1>6, <1>7 DEF BookInv

\* While an answer stands, nothing happens but that it is forgotten.
LEMMA ForgetPreserves ==
    ASSUME BookInv, Forget
    PROVE  BookInv' /\ answer' = NoAnswer
PROOF
  <1>1. /\ answer' = NoAnswer
        /\ UNCHANGED <<now, skew, type, status, submitted, volume, deals, call>>
    BY DEF Forget
  <1>2. DealsTypeOK'
    BY <1>1 DEF BookInv, DealsTypeOK
  <1>3. AccountInv'
    BY <1>1 DEF BookInv, AccountInv, Ins, Outs, Opened
  <1>4. CallInv'
    BY <1>1, WaitingKeepsCall DEF BookInv
  <1> QED BY <1>1, <1>2, <1>3, <1>4 DEF BookInv

-----------------------------------------------------------------------------
(* A position that is gone was closed since its record was written. *)

\* What a step has to keep of the records, ticket by ticket.
Accounted(t) ==
    \/ status[t] = "CLOSED"
    \/ status[t] = "OPEN" /\ volume[t] = 0
    => (Outs(deals, t) # {} => ClosedSince(t) # {})

LEMMA ClosingInvAlt ==
    ClosingInv <=> /\ \A t \in Tickets : submitted[t] <= now
                   /\ \A t \in Tickets : Accounted(t)
                   /\ call # Idle => /\ \A t \in call.open : status[t] # "NONE"
                                     /\ \A t \in call.closed : status[t] = "CLOSED"
BY DEF ClosingInv, Accounted

LEMMA ClosingInvAfter ==
    ASSUME \A t \in Tickets : submitted'[t] <= now',
           \A t \in Tickets : Accounted(t)',
           call' # Idle => /\ \A t \in call'.open : status'[t] # "NONE"
                           /\ \A t \in call'.closed : status'[t] = "CLOSED"
    PROVE  ClosingInv'
BY DEF ClosingInv, Accounted

\* A ticket whose deals, record and position stay as they are.
LEMMA UntouchedStaysAccounted ==
    ASSUME NEW t, Accounted(t), status'[t] = status[t], volume'[t] = volume[t],
           submitted'[t] = submitted[t], Outs(deals, t)' = Outs(deals, t)
    PROVE  Accounted(t)'
BY DEF Accounted, ClosedSince

\* Only a ticket that is not traded yet, or has no closing deal, is opened.
LEMMA OpeningKeepsClosing ==
    ASSUME BookInv, ClosingInv, NEW t \in Tickets,
           PlaceMarket(t) \/ PlaceLimit(t) \/ Fill(t) \/ HumanOpens(t)
    PROVE  ClosingInv'
PROOF
  <1>1. DealsTypeOK /\ now \in Int
    BY TimeAssumption DEF BookInv, DealsTypeOK
  <1>2. \A s \in Tickets : Outs(deals, s)' = Outs(deals, s)
    <2>1. \E at : deals' = deals \cup {Deal(t, "in", at, -Fee)} \/ deals' = deals
      BY DEF PlaceMarket, PlaceLimit, Fill, HumanOpens
    <2> QED BY <2>1 DEF Outs, Deal
  <1>3. /\ now' = now /\ call' = call
        /\ \A s \in Tickets \ {t} : /\ status'[s] = status[s] /\ volume'[s] = volume[s]
                                    /\ submitted'[s] = submitted[s]
        /\ submitted'[t] = submitted[t] \/ submitted'[t] = now
        /\ status' = status \/ call = Idle
    BY <1>1 DEF PlaceMarket, PlaceLimit, Fill, HumanOpens, DealsTypeOK, BookInv, AccountInv
  <1>4. Accounted(t)'
    <2>1. CASE Unused(t)
      <3>1. Outs(deals, t)' = {}
        BY <1>1, <1>2, <2>1, UnusedIsUntraded
      <3> QED BY <3>1 DEF Accounted
    <2>2. CASE Fill(t)
      <3>1. status' = status /\ submitted' = submitted /\ volume'[t] = 2
        BY <1>1, <2>2 DEF Fill, DealsTypeOK
      <3> QED BY <1>2, <3>1, ClosingInvAlt DEF Accounted, ClosedSince
    <2> QED BY <2>1, <2>2 DEF PlaceMarket, PlaceLimit, HumanOpens
  <1>5. \A s \in Tickets : Accounted(s)'
    BY <1>2, <1>3, <1>4, UntouchedStaysAccounted, ClosingInvAlt
  <1>6. \A s \in Tickets : submitted'[s] <= now'
    BY <1>1, <1>3, ClosingInvAlt
  <1>7. call' # Idle => /\ \A s \in call'.open : status'[s] # "NONE"
                        /\ \A s \in call'.closed : status'[s] = "CLOSED"
    BY <1>3, ClosingInvAlt
  <1> QED BY <1>5, <1>6, <1>7, ClosingInvAfter

\* A closing deal is not before the record by more than the latency.
LEMMA CloseKeepsClosing ==
    ASSUME BookInv, ClosingInv, NEW t \in Tickets, NEW v \in {1, 2},
           NEW order \in {"stop", "other"}, NEW pays \in Amounts, Close(t, v, order, pays)
    PROVE  ClosingInv'
PROOF
  <1>1. DealsTypeOK /\ AccountInv /\ now \in Int /\ Latency \in Nat /\ submitted[t] \in Int
    BY TimeAssumption DEF BookInv, DealsTypeOK, AccountInv
  <1>2. PICK l \in 0 .. Latency :
          /\ l > 0 => submitted[t] = now
          /\ deals' = deals \cup
               {[Deal(t, "out", now - l, pays) EXCEPT !.order = order, !.whole = v = 2]}
    BY DEF Close
  <1> DEFINE new == [Deal(t, "out", now - l, pays) EXCEPT !.order = order, !.whole = v = 2]
  <1>3. new.pos = t /\ new.entry = "out" /\ new.at = now - l /\ new \in deals'
    BY <1>2 DEF Deal
  <1>4. \A s \in Tickets \ {t} : Outs(deals, s)' = Outs(deals, s)
    <2>1. \A d \in deals' : d \in deals \/ d = new
      BY <1>2
    <2>2. deals \subseteq deals'
      BY <1>2
    <2> HIDE DEF new
    <2> QED BY <1>3, <2>1, <2>2 DEF Outs
  <1> HIDE DEF new
  <1>5. /\ UNCHANGED <<now, skew, type, status, submitted, call, answer>>
        /\ \A s \in Tickets \ {t} : volume'[s] = volume[s]
    BY <1>1 DEF Close, DealsTypeOK
  <1>6. Accounted(t)'
    <2>1. submitted[t] - Latency <= new.at
      <3>1. submitted[t] <= now
        BY ClosingInvAlt
      <3> QED BY <1>1, <1>2, <1>3, <3>1
    <2>2. new \in ClosedSince(t)'
      BY <1>3, <1>5, <2>1 DEF ClosedSince, Outs
    <2> QED BY <2>2 DEF Accounted
  <1>7. \A s \in Tickets : Accounted(s)'
    BY <1>4, <1>5, <1>6, UntouchedStaysAccounted, ClosingInvAlt
  <1> QED BY <1>5, <1>7, ClosingInvAlt, ClosingInvAfter

\* A record is adopted while its position is there, and closed when it is gone.
LEMMA RecordsKeepClosing ==
    ASSUME BookInv, ClosingInv, NEW t \in Tickets, RecordManualAdoption(t) \/ RecordClosed(t)
    PROVE  ClosingInv'
PROOF
  <1>1. DealsTypeOK /\ AccountInv /\ now \in Int
    BY TimeAssumption DEF BookInv, DealsTypeOK
  <1>2. /\ call = Idle /\ UNCHANGED <<now, volume, deals, call>>
        /\ \A s \in Tickets \ {t} : status'[s] = status[s] /\ submitted'[s] = submitted[s]
        /\ submitted'[t] = submitted[t] \/ submitted'[t] = now
    BY <1>1 DEF RecordManualAdoption, RecordClosed, DealsTypeOK, AccountInv
  <1>3. \A s \in Tickets : Outs(deals, s)' = Outs(deals, s)
    BY <1>2 DEF Outs
  <1>4. Accounted(t)'
    <2>1. CASE RecordManualAdoption(t)
      <3>1. volume[t] > 0 /\ volume[t] \in 0 .. 2 /\ status'[t] = "OPEN"
        BY <1>1, <2>1 DEF RecordManualAdoption, DealsTypeOK
      <3> QED BY <1>2, <3>1 DEF Accounted
    <2>2. CASE RecordClosed(t)
      <3>1. status[t] = "OPEN" /\ volume[t] = 0 /\ submitted' = submitted
        BY <2>2 DEF RecordClosed
      <3> QED BY <1>3, <3>1, ClosingInvAlt DEF Accounted, ClosedSince
    <2> QED BY <2>1, <2>2
  <1>5. \A s \in Tickets : Accounted(s)'
    BY <1>2, <1>3, <1>4, UntouchedStaysAccounted, ClosingInvAlt
  <1>6. \A s \in Tickets : submitted'[s] <= now'
    BY <1>1, <1>2, ClosingInvAlt
  <1> QED BY <1>2, <1>5, <1>6, ClosingInvAfter

\* A record the evidence of a stop writes off is of a position closed as a whole.
LEMMA AnswerKeepsClosing ==
    ASSUME BookInv, ClosingInv, Answered
    PROVE  ClosingInv'
PROOF
  <1>1. /\ call # Idle /\ call' = Idle /\ UNCHANGED <<now, submitted, volume, deals>>
        /\ status' = [t \in Tickets |-> IF t \in answer'.explained THEN "CLOSED" ELSE status[t]]
    BY AnsweredOK
  <1>2. \A s \in Tickets : Outs(deals, s)' = Outs(deals, s)
    BY <1>1 DEF Outs
  <1>3. ASSUME NEW t \in Tickets, t \in answer'.explained
        PROVE  Accounted(t)'
    <2>1. ExplainOne(t, Fetched, call.open, Offset)
      BY <1>3, AnsweredOK
    <2>2. t \in call.open /\ \E d \in Outs(Fetched, t) : d.whole
      BY <2>1 DEF ExplainOne
    <2>3. volume[t] = 0
      BY <2>2 DEF Outs, Fetched, GetDeals, BookInv, AccountInv
    <2>4. status[t] # "NONE" /\ status[t] \in {"NONE", "OPEN", "CLOSED"}
      BY <1>1, <2>2, ClosingInvAlt DEF BookInv, DealsTypeOK
    <2>5. Outs(deals, t) # {} => ClosedSince(t) # {}
      BY <2>3, <2>4, ClosingInvAlt DEF Accounted
    <2> QED BY <1>1, <1>2, <2>5 DEF Accounted, ClosedSince
  <1>4. ASSUME NEW t \in Tickets, t \notin answer'.explained
        PROVE  Accounted(t)'
    BY <1>1, <1>2, <1>4, UntouchedStaysAccounted, ClosingInvAlt
  <1>5. \A t \in Tickets : Accounted(t)'
    BY <1>3, <1>4
  <1> QED BY <1>1, <1>5, ClosingInvAlt, ClosingInvAfter

\* The steps that leave records and account alone.
LEMMA OthersKeepClosing ==
    ASSUME BookInv, ClosingInv,
           \/ \E row \in Callers : Ask(row)
           \/ AskFails \/ Forget \/ Tick \/ UNCHANGED vars
    PROVE  ClosingInv'
PROOF
  <1>1. UNCHANGED <<status, submitted, volume, deals>>
    BY DEF Ask, AskFails, Forget, Tick, vars
  <1>2. \A s \in Tickets : submitted[s] \in Int /\ submitted[s] <= now' /\ now \in Int
    <2>1. now \in Int /\ (now' = now \/ now' = now + 1)
      BY TimeAssumption DEF Ask, AskFails, Forget, Tick, vars, BookInv, DealsTypeOK
    <2>2. \A s \in Tickets : submitted[s] \in Int /\ submitted[s] <= now
      BY ClosingInvAlt DEF BookInv, AccountInv
    <2> QED BY <2>1, <2>2
  <1>3. \A s \in Tickets : Accounted(s)'
    <2>1. \A s \in Tickets : Outs(deals, s)' = Outs(deals, s)
      BY <1>1 DEF Outs
    <2> QED BY <1>1, <2>1, UntouchedStaysAccounted, ClosingInvAlt
  <1>4. call' # Idle => /\ \A t \in call'.open : status'[t] # "NONE"
                        /\ \A t \in call'.closed : status'[t] = "CLOSED"
    <2>1. ASSUME NEW row \in Callers, Ask(row)
          PROVE  /\ \A t \in call'.open : status'[t] # "NONE"
                 /\ \A t \in call'.closed : status'[t] = "CLOSED"
      BY <1>1, <2>1 DEF Ask, AllClosed
    <2>2. CASE AskFails \/ Forget \/ Tick \/ UNCHANGED vars
      <3>1. call' = Idle \/ call' = call
        BY <2>2 DEF AskFails, Forget, Tick, vars
      <3> QED BY <1>1, <3>1, ClosingInvAlt
    <2> QED BY <2>1, <2>2
  <1> QED BY <1>1, <1>2, <1>3, <1>4, ClosingInvAlt, ClosingInvAfter

LEMMA ClosingNext == BookInv /\ ClosingInv /\ [Next]_vars => ClosingInv'
PROOF
  <1> SUFFICES ASSUME BookInv, ClosingInv, [Next]_vars PROVE ClosingInv'
    OBVIOUS
  <1>1. CASE \/ \E row \in Callers : Ask(row)
             \/ AskFails \/ Forget \/ Tick \/ UNCHANGED vars
    BY <1>1, OthersKeepClosing
  <1>2. CASE Answered
    BY <1>2, AnswerKeepsClosing
  <1>3. ASSUME NEW t \in Tickets, Market(t) PROVE ClosingInv'
    BY <1>3, OpeningKeepsClosing, CloseKeepsClosing DEF Market
  <1>4. ASSUME NEW t \in Tickets, PlaceLimit(t) \/ RecordManualAdoption(t) \/ RecordClosed(t)
        PROVE  ClosingInv'
    BY <1>4, OpeningKeepsClosing, RecordsKeepClosing
  <1> QED BY <1>1, <1>2, <1>3, <1>4 DEF Next

-----------------------------------------------------------------------------
(* Results. *)

LEMMA HistoryInit == Init => HistoryInv /\ Conclusions
PROOF
  <1> SUFFICES ASSUME Init PROVE HistoryInv /\ Conclusions
    OBVIOUS
  <1> DEFINE Began(old, own) ==
          /\ type = [t \in Tickets |-> IF t \in own THEN "MARKET"
                                     ELSE IF t \in old THEN "EXTERNAL" ELSE "none"]
          /\ status = [t \in Tickets |-> IF t \in own THEN "OPEN" ELSE "NONE"]
          /\ submitted = [t \in Tickets |-> Old]
          /\ volume = [t \in Tickets |-> IF t \in old THEN 2 ELSE 0]
          /\ deals = {Deal(t, "in", Old, -Fee) : t \in old}
  <1>0. PICK old \in SUBSET Tickets : \E own \in SUBSET old : Began(old, own)
    BY DEF Init
  <1>1. PICK own \in SUBSET old : Began(old, own)
    BY <1>0
  <1>2. now = Start /\ skew \in Skews /\ call = Idle /\ answer = NoAnswer
    BY DEF Init
  <1>3. \A d \in deals : d.pos \in old /\ d.at = Old /\ d.entry = "in" /\ d.whole = FALSE
                         /\ d = Deal(d.pos, "in", Old, -Fee)
    BY <1>1 DEF Deal
  <1>4. \A t \in old : Deal(t, "in", Old, -Fee) \in Ins(deals, t)
    BY <1>1 DEF Deal, Ins
  <1>5. DealsTypeOK
    BY <1>1, <1>2, <1>3, TimeAssumption DEF DealsTypeOK
  <1>6. AccountInv
    <2>1. submitted \in [Tickets -> Int] /\ \A t \in Tickets : submitted[t] = Old
      BY <1>1, TimeAssumption
    <2>2. \A t \in Tickets : \A d, e \in Ins(deals, t) : d = e
      BY <1>3 DEF Ins
    <2>3. \A t \in Tickets : \A d \in Ins(deals, t) :
            submitted[t] - Latency <= d.at /\ d.at <= submitted[t]
      BY <1>3, <2>1, TimeAssumption DEF Ins
    <2>4. \A t \in Tickets : volume[t] > 0 => t \in Opened
      <3>1. \A t \in Tickets : volume[t] > 0 => t \in old
        BY <1>1
      <3>2. \A t \in old : t \in Opened
        BY <1>4 DEF Opened
      <3> QED BY <3>1, <3>2
    <2>5. \A t \in Tickets : Outs(deals, t) = {}
      BY <1>3 DEF Outs
    <2> QED BY <1>3, <2>1, <2>2, <2>3, <2>4, <2>5, TimeAssumption DEF AccountInv
  <1>7. CallInv
    BY <1>2 DEF CallInv
  <1>8. ClosingInv
    <2>1. \A t \in Tickets : submitted[t] <= now
      BY <1>1, <1>2, TimeAssumption
    <2>2. \A t \in Tickets : Outs(deals, t) = {}
      BY <1>3 DEF Outs
    <2> QED BY <1>2, <2>1, <2>2 DEF ClosingInv
  <1> QED BY <1>2, <1>5, <1>6, <1>7, <1>8, NothingConcluded DEF HistoryInv, BookInv

LEMMA BookNext ==
    BookInv /\ ClosingInv /\ Conclusions /\ [Next]_vars => BookInv' /\ Conclusions'
PROOF
  <1> SUFFICES ASSUME BookInv, ClosingInv, Conclusions, [Next]_vars
               PROVE  BookInv' /\ Conclusions'
    OBVIOUS
  <1>1. ASSUME answer' = NoAnswer PROVE Conclusions'
    BY <1>1 DEF Conclusions, OffsetIsExact, MisdatedOnlyNearReset, NoLossApproved, MissedOnlyNearMidnight,
       EvidenceIsComplete, Concluded
  <1>2. ASSUME NEW row \in Callers, Ask(row) PROVE BookInv' /\ Conclusions'
    <2>1. answer' = NoAnswer
      BY <1>2 DEF Ask
    <2> QED BY <1>1, <1>2, <2>1, AskPreserves
  <1>3. CASE AskFails
    BY <1>3, FailsSafely
  <1>4. CASE Answered
    BY <1>4, AnswerPreserves
  <1>5. CASE Forget
    BY <1>1, <1>5, ForgetPreserves
  <1>6. ASSUME NEW t \in Tickets, Market(t) PROVE BookInv' /\ Conclusions'
    <2>1. answer = NoAnswer
      BY <1>6 DEF Market
    <2>2. CASE PlaceMarket(t)
      <3>1. answer' = NoAnswer
        BY <2>1, <2>2 DEF PlaceMarket
      <3> QED BY <1>1, <2>1, <2>2, <3>1, PlaceMarketPreserves
    <2>3. CASE Fill(t)
      <3>1. answer' = NoAnswer
        BY <2>1, <2>3 DEF Fill
      <3> QED BY <1>1, <2>1, <2>3, <3>1, FillPreserves
    <2>4. CASE HumanOpens(t)
      <3>1. answer' = NoAnswer
        BY <2>1, <2>4 DEF HumanOpens
      <3> QED BY <1>1, <2>1, <2>4, <3>1, HumanOpensPreserves
    <2>5. ASSUME NEW v \in {1, 2}, NEW order \in {"stop", "other"}, NEW pays \in Amounts,
                 Close(t, v, order, pays)
          PROVE  BookInv' /\ Conclusions'
      <3>1. answer' = NoAnswer
        BY <2>1, <2>5 DEF Close
      <3> QED BY <1>1, <2>1, <2>5, <3>1, ClosePreserves
    <2> QED BY <1>6, <2>2, <2>3, <2>4, <2>5 DEF Market
  <1>7. ASSUME NEW t \in Tickets, answer = NoAnswer,
               PlaceLimit(t) \/ RecordManualAdoption(t) \/ RecordClosed(t)
        PROVE  BookInv' /\ Conclusions'
    <2>1. answer' = NoAnswer
      BY <1>7 DEF PlaceLimit, RecordManualAdoption, RecordClosed
    <2> QED BY <1>1, <1>7, <2>1, RecordsPreserve
  <1>8. CASE answer = NoAnswer /\ Tick
    <2>1. answer' = NoAnswer
      BY <1>8 DEF Tick
    <2> QED BY <1>1, <1>8, <2>1, TickPreserves
  <1>9. CASE UNCHANGED vars
    <2>1. DealsTypeOK' /\ AccountInv' /\ CallInv'
      <3>1. DealsTypeOK'
        BY <1>9 DEF vars, BookInv, DealsTypeOK
      <3>2. AccountInv'
        BY <1>9 DEF vars, BookInv, AccountInv, Ins, Outs, Opened
      <3>3. CallInv'
        BY <1>9 DEF vars, BookInv, CallInv, Midnight, DailyResetBoundary, FetchTo
      <3> QED BY <3>1, <3>2, <3>3
    <2>2. Conclusions'
      <3>1. /\ answer' = answer /\ deals' = deals /\ skew' = skew /\ status' = status
            /\ submitted' = submitted /\ volume' = volume
        BY <1>9 DEF vars
      <3>2. OffsetIsExact'
        BY <3>1 DEF Conclusions, OffsetIsExact
      <3>3. LastReset' = LastReset /\ Today' = Today /\ \A d : Beyond(d)' <=> Beyond(d)
        BY <3>1 DEF LastReset, Today, Trusts, Recorded, AllClosed, Beyond, ServerTime
      <3>4. MisdatedOnlyNearReset'
        BY <3>1, <3>3 DEF Conclusions, MisdatedOnlyNearReset, Concluded
      <3>5. NoLossApproved'
        BY <3>1, <3>3 DEF Conclusions, NoLossApproved
      <3>6. MissedOnlyNearMidnight'
        BY <3>1, <3>3 DEF Conclusions, MissedOnlyNearMidnight, Concluded, ClosedSince, Outs, Midnight
      <3>7. EvidenceIsComplete'
        BY <3>1 DEF Conclusions, EvidenceIsComplete, Concluded, Opened, Ins
      <3> QED BY <3>2, <3>4, <3>5, <3>6, <3>7 DEF Conclusions
    <2> QED BY <2>1, <2>2 DEF BookInv
  <1> QED BY <1>2, <1>3, <1>4, <1>5, <1>6, <1>7, <1>8, <1>9 DEF Next

LEMMA HistoryNext == HistoryInv /\ Conclusions /\ [Next]_vars => HistoryInv' /\ Conclusions'
BY BookNext, ClosingNext DEF HistoryInv

\* The inductive invariant, and with it what every conclusion is worth.
THEOREM HistoryInvHolds == Spec => []HistoryInv
PROOF
  <1>1. HistoryInv /\ Conclusions => HistoryInv
    OBVIOUS
  <1> QED BY <1>1, HistoryInit, HistoryNext, PTL DEF Spec

LEMMA ConclusionsHold == Spec => []Conclusions
BY HistoryInit, HistoryNext, PTL DEF Spec

\* Whatever the latencies and the other orders: a MARKET order in the history
\* is enough for infer_deal_time_offset() to find the server's offset.
THEOREM OffsetIsFound == Spec => []OffsetIsExact
PROOF
  <1>1. Conclusions => OffsetIsExact
    BY DEF Conclusions
  <1> QED BY <1>1, ConclusionsHold, PTL

\* The daily limit is computed from what was realized since the reset, but for
\* the deals the comment names.
THEOREM OnlyNearReset == Spec => []MisdatedOnlyNearReset
PROOF
  <1>1. Conclusions => MisdatedOnlyNearReset
    BY DEF Conclusions
  <1> QED BY <1>1, ConclusionsHold, PTL

\* The loop never goes on after a loss that reaches the limit, if its deals
\* were asked for and the offset was known.
THEOREM LossStops == Spec => []NoLossApproved
PROOF
  <1>1. Conclusions => NoLossApproved
    BY DEF Conclusions
  <1> QED BY <1>1, ConclusionsHold, PTL

\* A report has every closed position but those closed near a midnight, on the
\* side the server's clock is off to: adoptions, partial closes and stops that
\* fire before the record is written included.
THEOREM ReportsMissOnlyNearMidnight == Spec => []MissedOnlyNearMidnight
PROOF
  <1>1. Conclusions => MissedOnlyNearMidnight
    BY DEF Conclusions
  <1> QED BY <1>1, ConclusionsHold, PTL

\* What the evidence of a stop writes off is gone as a whole.
THEOREM EvidenceIsSound == Spec => []EvidenceIsComplete
PROOF
  <1>1. Conclusions => EvidenceIsComplete
    BY DEF Conclusions
  <1> QED BY <1>1, ConclusionsHold, PTL
=============================================================================
