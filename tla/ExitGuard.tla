----------------------------- MODULE ExitGuard -----------------------------
(***************************************************************************)
(* The EMA exit guard of strategy/guard.py: evaluate_guard() is polled by  *)
(* a caller that carries its GuardState from call to call, at any rate     *)
(* compared with the bars: many polls per bar, or bars that are never      *)
(* polled.  Of a bar only its place relative to the EMA matters, of the    *)
(* bar times only whether the last closed bar is the one last evaluated.   *)
(***************************************************************************)
EXTENDS Integers, TLAPS

CONSTANT DeadlineBars   \* GuardConfig.deadline_bars

ASSUME DeadlineAssumption == DeadlineBars \in Nat

VARIABLES
    place,      \* the last closed bar is below, across or above the EMA
    long, short,    \* open positions under the guard's magic
    bar,        \* "evaluated": that bar is GuardState.last_evaluated_bar_time
    deadline,   \* GuardState.deadline_bars_remaining
    action,     \* kind of the action the last call returned
    acts,       \* history: actions other than NONE for the last closed bar
    quiet       \* history: bars evaluated since the last partial close

state == <<bar, deadline>>
market == <<place, long, short>>
vars == <<market, state, action, acts, quiet>>

\* quiet is counted up to one beyond the deadline.
Over == DeadlineBars + 1

\* The guard's state and the history counters have the right type.
TypeOK ==
    /\ place \in {"below", "across", "above"}
    /\ long \in BOOLEAN /\ short \in BOOLEAN
    /\ bar \in {"new", "evaluated"}
    /\ deadline \in 0 .. DeadlineBars
    /\ action \in {"NONE", "PARTIAL_CLOSE", "FLATTEN"}
    /\ acts \in Nat
    /\ quiet \in 0 .. Over

Init ==
    /\ place \in {"below", "across", "above"}
    /\ long \in BOOLEAN /\ short \in BOOLEAN
    /\ bar = "new" /\ deadline = 0 /\ action = "NONE" /\ acts = 0 /\ quiet = Over

-----------------------------------------------------------------------------

\* A bar closes, whether or not the last one was evaluated.
NewBar ==
    /\ place' \in {"below", "across", "above"}
    /\ bar' = "new" /\ acts' = 0
    /\ UNCHANGED <<long, short, deadline, action, quiet>>

\* Positions open and close, through the guard's actions or otherwise.
PositionsChange ==
    /\ long' \in BOOLEAN /\ short' \in BOOLEAN
    /\ UNCHANGED <<place, state, action, acts, quiet>>

LongTrigger  == long /\ place = "below"
ShortTrigger == short /\ place = "above"

\* Mutant: the legacy loop, which evaluates the same bar again and again.
AlreadyEvaluatedNever == FALSE

\* state.last_evaluated_bar_time == last_closed.time.
AlreadyEvaluated == bar = "evaluated"

\* Mutant: a trigger does not restart a running countdown.
DeadlineAfterTriggerKept == IF deadline > 0 THEN deadline ELSE DeadlineBars

\* Either trigger sets the deadline anew.
DeadlineAfterTrigger == DeadlineBars

Evaluated(kind, left) ==
    /\ deadline' = left /\ action' = kind /\ bar' = "evaluated"
    /\ acts' = IF kind = "NONE" THEN acts ELSE acts + 1
    /\ quiet' = IF kind = "PARTIAL_CLOSE" THEN 0
                ELSE IF bar = "new" /\ quiet < Over THEN quiet + 1 ELSE quiet
    /\ UNCHANGED market

\* evaluate_guard(): a partial close on a trigger, else one bar less to the
\* deadline and a flatten when it is reached.
EvaluateGuard ==
    \/ AlreadyEvaluated /\ Evaluated("NONE", deadline)
    \/ /\ ~ AlreadyEvaluated
       /\ \/ (LongTrigger \/ ShortTrigger) /\ Evaluated("PARTIAL_CLOSE", DeadlineAfterTrigger)
          \/ /\ ~ (LongTrigger \/ ShortTrigger)
             /\ \/ deadline = 0 /\ Evaluated("NONE", 0)
                \/ deadline = 1 /\ Evaluated("FLATTEN", 0)
                \/ deadline > 1 /\ Evaluated("NONE", deadline - 1)

Next == NewBar \/ PositionsChange \/ EvaluateGuard

Spec == Init /\ [][Next]_vars

-----------------------------------------------------------------------------

\* However often it is polled, the guard asks for at most one action per
\* closed bar: it does not drain a position within one bar (guard.py, bug 1).
OneActionPerBar == acts <= 1

\* A flatten comes when exactly deadline_bars bars have been evaluated since
\* the last partial close without a trigger: neither polls nor skipped bars
\* hasten it, a new trigger restarts the count, and no countdown flattens
\* twice (guard.py, bug 2).
FlattenIsDue == action = "FLATTEN" => quiet = DeadlineBars

\* The inductive invariant: a bar not yet evaluated has had no action, and the
\* deadline is what is left of the count since the last partial close.
GuardInv ==
    /\ TypeOK
    /\ acts \in 0 .. 1
    /\ bar = "new" => acts = 0
    /\ deadline > 0 => quiet + deadline = DeadlineBars
    /\ action = "FLATTEN" => quiet = DeadlineBars

\* GuardInv holds in every reachable state, whatever the deadline.
THEOREM GuardInvHolds == Spec => []GuardInv
PROOF
  <1>1. Init => GuardInv
    BY DeadlineAssumption DEF Init, GuardInv, TypeOK, Over
  <1>2. GuardInv /\ [Next]_vars => GuardInv'
    <2> SUFFICES ASSUME GuardInv, [Next]_vars PROVE GuardInv'
      OBVIOUS
    <2>1. CASE NewBar
      BY <2>1 DEF NewBar, GuardInv, TypeOK
    <2>2. CASE PositionsChange
      BY <2>2 DEF PositionsChange, GuardInv, TypeOK, state
    <2>3. CASE EvaluateGuard
      <3>1. CASE bar = "evaluated" /\ Evaluated("NONE", deadline)
        BY <3>1 DEF Evaluated, GuardInv, TypeOK, market
      <3>2. CASE bar = "new" /\ Evaluated("PARTIAL_CLOSE", DeadlineBars)
        BY <3>2, DeadlineAssumption DEF Evaluated, GuardInv, TypeOK, Over, market
      <3>3. CASE bar = "new" /\ deadline = 0 /\ Evaluated("NONE", 0)
        BY <3>3, DeadlineAssumption DEF Evaluated, GuardInv, TypeOK, Over, market
      <3>4. CASE bar = "new" /\ deadline = 1 /\ Evaluated("FLATTEN", 0)
        BY <3>4, DeadlineAssumption DEF Evaluated, GuardInv, TypeOK, Over, market
      <3>5. CASE bar = "new" /\ deadline > 1 /\ Evaluated("NONE", deadline - 1)
        BY <3>5, DeadlineAssumption DEF Evaluated, GuardInv, TypeOK, Over, market
      <3>6. bar = "new" \/ bar = "evaluated"
        BY DEF GuardInv, TypeOK
      <3> QED BY <2>3, <3>1, <3>2, <3>3, <3>4, <3>5, <3>6
              DEF EvaluateGuard, AlreadyEvaluated, DeadlineAfterTrigger
    <2>4. CASE UNCHANGED vars
      BY <2>4 DEF vars, state, market, GuardInv, TypeOK
    <2> QED BY <2>1, <2>2, <2>3, <2>4 DEF Next
  <1> QED BY <1>1, <1>2, PTL DEF Spec

\* At most one action per closed bar, for every deadline and polling rate.
THEOREM GuardActsOncePerBar == Spec => []OneActionPerBar
PROOF
  <1>1. GuardInv => OneActionPerBar
    BY DEF GuardInv, OneActionPerBar
  <1> QED BY <1>1, GuardInvHolds, PTL

\* The flatten is never early, late in evaluated bars, or repeated.
THEOREM GuardFlattensWhenDue == Spec => []FlattenIsDue
PROOF
  <1>1. GuardInv => FlattenIsDue
    BY DEF GuardInv, FlattenIsDue
  <1> QED BY <1>1, GuardInvHolds, PTL
=============================================================================
