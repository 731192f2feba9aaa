--------------------------- MODULE SessionProofs ---------------------------
(***************************************************************************)
(* The properties of Session for any number of programs, any number of     *)
(* processes per script and any entry points.                              *)
(***************************************************************************)
EXTENDS Session, TLAPS, NaturalsInduction, WellFoundedInduction

Early == {"off", "baseline", "baseline2", "loading", "loaded"}
BeforeConfirm == Early \cup {"spawning", "open", "proved", "after", "found"}

\* Trading is enabled behind the gate, and the server runs behind the wrapper's.
GateInv ==
    \A p \in Programs :
        /\ pc[p] \in Early => ~ enabled[p] /\ spawned[p] = 0
        /\ pc[p] \in Early \ {"off"} => row[p].demo
        /\ enabled[p] => row[p].demo /\ kind[p] = "DEMO"
        /\ spawned[p] > Layers => declared[p] = "DEMO"
        /\ row[p].proves => ~ row[p].demo

\* Calls come from programs with trading enabled.
CallInv ==
    /\ \A p \in sent : enabled[p]
    /\ \A p \in served : enabled[p] /\ spawned[p] > Layers

\* The listings: no own process in the first one; all own servers in the second
\* one if there is one.
SeenInv ==
    /\ \A q \in before : q[1] # Tester
    /\ \A q \in seen : q[2] <= spawned[q[1]]
    /\ pc[Tester] \in Early \cup {"spawning", "open", "proved"} => seen = {}
    /\ pc[Tester] = "after" => \A q \in seen : IsWrapper(q)
    /\ pc[Tester] \in {"found", "confirmed", "killed", "settled"} =>
          \/ <<Tester, Length>> \notin alive
          \/ \A q \in seen : q[1] = Tester => IsWrapper(q)
          \/ <<Tester, Length>> \in seen

\* The noted tree belongs to one program, to the test itself if its wrapper was
\* seen.
TreeInv ==
    /\ pc[Tester] \in BeforeConfirm => tree = {} /\ outcome = "none"
    /\ pc[Tester] \in {"found", "confirmed", "killed", "settled"} => row[Tester].test
    /\ pc[Tester] \in {"confirmed", "killed", "settled"} => tree # {}
    /\ tree # {} =>
          /\ tree = seen \ before
          /\ \A q \in tree : q[1] = root[1]
          /\ \E q \in tree : ~ IsWrapper(q)
          /\ row[root[1]].python /\ spawned[root[1]] > 0 /\ row[Tester].test
          /\ <<Tester, 1>> \in seen => root[1] = Tester

\* The call after the kill fails, as the test says, unless the listing before it
\* failed or its own wrapper was gone before and it killed another program's.
PostKillCallFails == outcome = "unexpected" => <<Tester, 1>> \notin seen

\* Only the noted tree is killed, and it is dead after a listing.
KillInv ==
    /\ \A q \in killed : tree # {} /\ q[1] = root[1]
    /\ pc[Tester] = "settled" /\ listed => tree \cap alive = {}
    /\ TreeIsGone
    /\ PostKillCallFails

SessionInv == SessionTypeOK /\ GateInv /\ CallInv /\ SeenInv /\ TreeInv /\ KillInv

-----------------------------------------------------------------------------

\* The processes that are new form the tree of one program if they have one
\* root: the first one of every program in them is a root.
LEMMA OneProgram ==
    ASSUME NEW new \in SUBSET Processes, NEW top, Roots(new) = {top}
    PROVE  \A q \in new : q[1] = top[1]
<1>1. SUFFICES ASSUME NEW q \in new PROVE q[1] = top[1]
  OBVIOUS
<1> DEFINE S == {i \in Nat : <<q[1], i>> \in new}
<1>2. q = <<q[1], q[2]>> /\ q[2] \in Nat
  BY SessionAssumption DEF Processes, Length
<1>3. S \subseteq Nat /\ S # {}
  BY <1>2
<1>4. PICK m \in S : \A y \in S : ~ (<<y, m>> \in OpToRel(<, Nat))
  <2> HIDE DEF S
  <2> QED BY <1>3, NatLessThanWellFounded, WFMin
<1>5. \A y \in S : ~ (y < m)
  BY <1>4 DEF OpToRel
<1>6. Parent(<<q[1], m>>) \notin new
  <2>1. SUFFICES ASSUME <<q[1], m - 1>> \in new PROVE FALSE
    BY DEF Parent
  <2>2. m - 1 \in Nat
    BY <2>1, SessionAssumption DEF Processes, Length
  <2>3. m - 1 \in S /\ m - 1 < m
    BY <2>1, <2>2
  <2> QED BY <2>3, <1>5
<1>7. <<q[1], m>> \in Roots(new)
  BY <1>6 DEF Roots
<1> QED BY <1>7

\* Initially nothing has been started.
LEMMA SessionInit == Init => SessionInv
<1> SUFFICES ASSUME Init PROVE SessionInv
  OBVIOUS
<1> USE SessionAssumption DEF Init
<1>0. NoRow \in EntryPoints /\ ~ NoRow.demo
  BY DEF NoRow, ReadOnly, EntryPoints
<1>1. SessionTypeOK
  <2>1. file \in Kinds /\ deaths \in 0 .. MaxDeaths /\ pc \in [Programs -> Pcs] /\ kind \in [Programs -> Kinds]
    BY DEF Kinds, Pcs
  <2>2. row \in [Programs -> EntryPoints] /\ declared \in [Programs -> Kinds]
    BY <1>0 DEF Kinds
  <2>3. enabled \in [Programs -> BOOLEAN] /\ listed \in BOOLEAN
    OBVIOUS
  <2>4. spawned \in [Programs -> 0 .. Length] /\ root \in Programs \X (0 .. Length)
    BY DEF Length
  <2> QED BY <2>1, <2>2, <2>3, <2>4 DEF SessionTypeOK
<1>2. GateInv /\ CallInv
  BY <1>0 DEF GateInv, CallInv, Early
<1>3. SeenInv /\ TreeInv /\ KillInv
  BY DEF SeenInv, TreeInv, KillInv, TreeIsGone, PostKillCallFails, Early, BeforeConfirm
<1> QED BY <1>1, <1>2, <1>3 DEF SessionInv

-----------------------------------------------------------------------------
(* Every action preserves the types. *)

LEMMA SessionTypeStep == SessionTypeOK /\ [Next]_vars => SessionTypeOK'
<1> SUFFICES ASSUME SessionTypeOK, [Next]_vars PROVE SessionTypeOK'
  OBVIOUS
<1> USE SessionAssumption DEF SessionTypeOK, Kinds, Length, Pcs, Go, program, connection, listings, kills
<1>1. ASSUME NEW p \in Programs, NEW r \in Rows, Start(p, r) PROVE SessionTypeOK'
  BY <1>1 DEF Start
<1>2. ASSUME NEW p \in Programs, LoadSettings(p) PROVE SessionTypeOK'
  BY <1>2 DEF LoadSettings, Loaded
<1>3. ASSUME NEW p \in Programs, DemoExecutionSession(p) PROVE SessionTypeOK'
  BY <1>3 DEF DemoExecutionSession
<1>4. ASSUME NEW p \in Programs, Spawn(p) PROVE SessionTypeOK'
  BY <1>4 DEF Spawn, WrapperStarts, WrapperKinds, Loaded, Processes
<1>5. ASSUME NEW p \in Programs, SessionOpens(p) \/ Leave(p) \/ Close(p) \/ CallTool(p) PROVE SessionTypeOK'
  BY <1>5 DEF SessionOpens, Leave, Close, CallTool
<1>6. ASSUME NEW p \in Programs, ProveTradingIsBlocked(p) \/ Serve(p) PROVE SessionTypeOK'
  BY <1>6 DEF ProveTradingIsBlocked, Serve
<1>7. ASSUME NEW q \in alive, Dies(q) \/ Exits(q) PROVE SessionTypeOK'
  BY <1>7 DEF Dies, Exits
<1>8. CASE EditEnv
  BY <1>8 DEF EditEnv
<1>9. ASSUME NEW from, NEW w \in BOOLEAN, NEW to \in Pcs, Baseline(from, w, to) \/ After(from, w, to)
      PROVE  SessionTypeOK'
  BY <1>9 DEF Baseline, After, FindProcesses
<1>10. CASE Confirm
  BY <1>10 DEF Confirm, DiffNewPids, Processes, listings
<1>11. CASE TreeKill
  BY <1>11 DEF TreeKill, listings
<1>12. CASE Settle
  BY <1>12 DEF Settle, KillListed, KillSurvivors, listings
<1>13. CASE PostKillCall
  BY <1>13 DEF PostKillCall, listings
<1>14. CASE Finally
  BY <1>14 DEF Finally, KillListed, Leftovers, listings
<1>15. CASE UNCHANGED vars
  BY <1>15 DEF vars, listings, kills
<1> QED
  BY <1>1, <1>2, <1>3, <1>4, <1>5, <1>6, <1>7, <1>8, <1>9, <1>10, <1>11, <1>12, <1>13, <1>14, <1>15 DEF Next

-----------------------------------------------------------------------------
(* Every action preserves the rest, given the types before and after. *)

\* What the smoke test does to the processes is no program's step.
LEMMA GateStep == SessionTypeOK /\ SessionTypeOK' /\ GateInv /\ [Next]_vars => GateInv'
<1> SUFFICES ASSUME SessionTypeOK, SessionTypeOK', GateInv, [Next]_vars PROVE GateInv'
  OBVIOUS
<1> USE SessionAssumption DEF SessionTypeOK, GateInv, Early, Length, Go, program, connection
<1>1. ASSUME NEW p \in Programs, NEW r \in Rows, Start(p, r) PROVE GateInv'
  BY <1>1 DEF Start
<1>2. ASSUME NEW p \in Programs, LoadSettings(p) PROVE GateInv'
  BY <1>2 DEF LoadSettings
<1>3. ASSUME NEW p \in Programs, DemoExecutionSession(p) PROVE GateInv'
  BY <1>3 DEF DemoExecutionSession, RequireDemoAccountKind
<1>4. ASSUME NEW p \in Programs, Spawn(p) PROVE GateInv'
  BY <1>4 DEF Spawn, WrapperStarts
<1>5. ASSUME NEW p \in Programs, SessionOpens(p) \/ Leave(p) \/ Close(p) \/ CallTool(p) PROVE GateInv'
  BY <1>5 DEF SessionOpens, Leave, Close, CallTool
<1>6. ASSUME NEW p \in Programs, ProveTradingIsBlocked(p) \/ Serve(p) PROVE GateInv'
  BY <1>6 DEF ProveTradingIsBlocked, Serve
<1>7. ASSUME NEW q \in alive, Dies(q) \/ Exits(q) PROVE GateInv'
  BY <1>7 DEF Dies, Exits
<1>8. CASE EditEnv
  BY <1>8 DEF EditEnv
<1>9. ASSUME UNCHANGED <<program, connection>>,
             \A p \in Programs : pc'[p] = pc[p] \/ pc'[p] \notin Early \/ (pc[p] \in Early \ {"off"} /\ pc'[p] # "off")
      PROVE  GateInv'
  BY <1>9
<1>10. CASE Baseline("baseline", TRUE, "baseline2") \/ Baseline("baseline2", FALSE, "loading")
  BY <1>9, <1>10 DEF Baseline
<1>11. ASSUME NEW to, to \notin Early, Go(Tester, to), UNCHANGED <<program, connection>> PROVE GateInv'
  <2>1. \A p \in Programs : pc'[p] = pc[p] \/ pc'[p] \notin Early
    BY <1>11
  <2> QED BY <1>9, <1>11, <2>1
<1>12. CASE After("open", TRUE, "after") \/ After("after", FALSE, "found")
  BY <1>11, <1>12 DEF After
<1>13. CASE Confirm
  BY <1>9, <1>13 DEF Confirm
<1>14. CASE TreeKill \/ Settle \/ PostKillCall \/ Finally
  BY <1>11, <1>14 DEF TreeKill, Settle, PostKillCall, Finally
<1>15. CASE UNCHANGED vars
  BY <1>15 DEF vars
<1> QED
  BY <1>1, <1>2, <1>3, <1>4, <1>5, <1>6, <1>7, <1>8, <1>10, <1>11, <1>12, <1>13, <1>14, <1>15 DEF Next

\* A call is sent with trading enabled and carried out by a started server.
LEMMA CallStep ==
    SessionTypeOK /\ GateInv /\ GateInv' /\ CallInv /\ [Next]_vars => CallInv'
<1> SUFFICES ASSUME SessionTypeOK, GateInv, GateInv', CallInv, [Next]_vars PROVE CallInv'
  OBVIOUS
<1> USE SessionAssumption DEF SessionTypeOK, CallInv, Length, Go, program, connection
<1>1. ASSUME NEW p \in Programs, NEW r \in Rows, Start(p, r) PROVE CallInv'
  BY <1>1 DEF Start
<1>2. ASSUME NEW p \in Programs, LoadSettings(p) PROVE CallInv'
  BY <1>2 DEF LoadSettings
<1>3. ASSUME NEW p \in Programs, DemoExecutionSession(p) PROVE CallInv'
  BY <1>3 DEF DemoExecutionSession
<1>4. ASSUME NEW p \in Programs, Spawn(p) PROVE CallInv'
  BY <1>4 DEF Spawn
<1>5. ASSUME NEW p \in Programs, SessionOpens(p) \/ Leave(p) \/ Close(p) \/ CallTool(p) PROVE CallInv'
  BY <1>5 DEF SessionOpens, Leave, Close, CallTool, AuthorizeCall
<1>6. ASSUME NEW p \in Programs, ProveTradingIsBlocked(p) \/ Serve(p) PROVE CallInv'
  BY <1>6 DEF ProveTradingIsBlocked, Serve, AuthorizeCall
<1>7. ASSUME NEW q \in alive, Dies(q) \/ Exits(q) PROVE CallInv'
  BY <1>7 DEF Dies, Exits
<1>8. CASE EditEnv
  BY <1>8 DEF EditEnv
<1>9. CASE Baseline("baseline", TRUE, "baseline2") \/ Baseline("baseline2", FALSE, "loading")
  BY <1>9 DEF Baseline
<1>10. CASE After("open", TRUE, "after") \/ After("after", FALSE, "found")
  BY <1>10 DEF After
<1>11. CASE Confirm \/ TreeKill \/ Settle \/ PostKillCall \/ Finally
  BY <1>11 DEF Confirm, TreeKill, Settle, PostKillCall, Finally
<1>12. CASE UNCHANGED vars
  BY <1>12 DEF vars
<1> QED
  BY <1>1, <1>2, <1>3, <1>4, <1>5, <1>6, <1>7, <1>8, <1>9, <1>10, <1>11, <1>12 DEF Next

\* The first listings are taken before an own process is started, the second
\* ones when all are.
LEMMA SeenStep ==
    SessionTypeOK /\ SessionTypeOK' /\ GateInv /\ SeenInv /\ [Next]_vars => SeenInv'
<1> SUFFICES ASSUME SessionTypeOK, SessionTypeOK', GateInv, SeenInv, [Next]_vars PROVE SeenInv'
  OBVIOUS
<1> USE SessionAssumption DEF SessionTypeOK, SeenInv, Early, Length, Go, program, connection, listings
<1>1. ASSUME NEW p \in Programs, NEW r \in Rows, Start(p, r) PROVE SeenInv'
  BY <1>1 DEF Start
<1>2. ASSUME NEW p \in Programs, LoadSettings(p) \/ DemoExecutionSession(p) PROVE SeenInv'
  BY <1>2 DEF LoadSettings, DemoExecutionSession
<1>3. ASSUME NEW p \in Programs, Spawn(p) PROVE SeenInv'
  <2>1. \A q \in seen : q[2] <= spawned'[q[1]]
    BY <1>3 DEF Spawn, Processes
  <2>2. pc[Tester] \in {"found", "confirmed", "killed", "settled"} =>
          (<<Tester, Length>> \in alive' => <<Tester, Length>> \in alive)
    BY <1>3 DEF Spawn
  <2> QED BY <1>3, <2>1, <2>2 DEF Spawn
<1>4. ASSUME NEW p \in Programs, SessionOpens(p) \/ Leave(p) \/ Close(p) \/ CallTool(p) PROVE SeenInv'
  BY <1>4 DEF SessionOpens, Leave, Close, CallTool
<1>5. ASSUME NEW p \in Programs, ProveTradingIsBlocked(p) \/ Serve(p) PROVE SeenInv'
  BY <1>5 DEF ProveTradingIsBlocked, Serve
<1>6. ASSUME NEW q \in alive, Dies(q) \/ Exits(q) PROVE SeenInv'
  BY <1>6 DEF Dies, Exits
<1>7. CASE EditEnv
  BY <1>7 DEF EditEnv
<1>8. CASE Baseline("baseline", TRUE, "baseline2") \/ Baseline("baseline2", FALSE, "loading")
  <2>1. \A q \in alive : q[1] # Tester
    <3>1. spawned[Tester] = 0
      BY <1>8 DEF Baseline, GateInv
    <3>2. \A q \in alive : q[2] \in Nat \ {0} /\ q[2] <= spawned[q[1]]
      BY DEF Processes
    <3> QED BY <3>1, <3>2
  <2>2. \A q \in before' : q[1] # Tester
    BY <1>8, <2>1 DEF Baseline, FindProcesses
  <2> QED BY <1>8, <2>2 DEF Baseline
<1>9. CASE After("open", TRUE, "after")
  BY <1>9 DEF After, FindProcesses
<1>10. CASE After("after", FALSE, "found")
  <2>1. PICK found \in FindProcesses(FALSE) : seen' = seen \cup found
    BY <1>10 DEF After
  <2>2. CASE found = {}
    BY <1>10, <2>1, <2>2 DEF After
  <2>3. CASE found = {q \in alive : IsWrapper(q) = FALSE}
    <3>1. <<Tester, Length>> \in alive => <<Tester, Length>> \in found
      BY <2>3 DEF IsWrapper
    <3> QED BY <1>10, <2>1, <2>3, <3>1 DEF After
  <2> QED BY <2>1, <2>2, <2>3 DEF FindProcesses
<1>11. CASE Confirm
  BY <1>11 DEF Confirm
<1>12. CASE TreeKill \/ PostKillCall
  BY <1>12 DEF TreeKill, PostKillCall
<1>13. CASE Settle \/ Finally
  <2>1. alive' \subseteq alive
    BY <1>13 DEF Settle, Finally, KillListed
  <2> QED BY <1>13, <2>1 DEF Settle, Finally
<1>14. CASE UNCHANGED vars
  BY <1>14 DEF vars
<1> QED
  BY <1>1, <1>2, <1>3, <1>4, <1>5, <1>6, <1>7, <1>8, <1>9, <1>10, <1>11, <1>12, <1>13, <1>14 DEF Next

\* A tree is noted when its processes are confirmed; then it stays.
LEMMA TreeStep ==
    SessionTypeOK /\ SessionTypeOK' /\ GateInv /\ SeenInv /\ TreeInv /\ [Next]_vars => TreeInv'
<1> SUFFICES ASSUME SessionTypeOK, SessionTypeOK', GateInv, SeenInv, TreeInv, [Next]_vars PROVE TreeInv'
  OBVIOUS
<1> USE SessionAssumption DEF Early, BeforeConfirm, Go, program, connection, listings, kills
<1> DEFINE Noted == <<tree, root, outcome, before, seen>>
<1>1. root[1] \in Programs
  BY DEF SessionTypeOK
\* Most steps leave the listings and the tree alone.
<1>2. ASSUME UNCHANGED Noted,
             tree # {} => row'[root[1]] = row[root[1]] /\ spawned'[root[1]] >= spawned[root[1]]
                         /\ row'[Tester] = row[Tester],
             pc'[Tester] \in BeforeConfirm => pc[Tester] \in BeforeConfirm,
             pc'[Tester] \in {"found", "confirmed", "killed", "settled"} =>
                pc[Tester] \in {"found", "confirmed", "killed", "settled"} /\ row'[Tester] = row[Tester],
             pc'[Tester] \in {"confirmed", "killed", "settled"} =>
                pc[Tester] \in {"confirmed", "killed", "settled"}
      PROVE  TreeInv'
  <2>1. tree # {} => row[root[1]].python /\ spawned'[root[1]] > 0 /\ row'[root[1]] = row[root[1]]
    BY <1>1, <1>2 DEF TreeInv, SessionTypeOK, Length
  <2>2. \A q : IsWrapper(q)' = IsWrapper(q)
    BY DEF IsWrapper
  <2> QED BY <1>2, <2>1, <2>2 DEF TreeInv
<1>3. ASSUME NEW p \in Programs, NEW r \in Rows, Start(p, r) PROVE TreeInv'
  <2>1. tree # {} => root[1] # p /\ Tester # p
    BY <1>3, <1>1 DEF Start, GateInv, TreeInv
  <2> QED BY <1>3, <1>2, <2>1, <1>1 DEF Start, SessionTypeOK, Length
<1>4. ASSUME NEW p \in Programs, LoadSettings(p) \/ DemoExecutionSession(p) PROVE TreeInv'
  BY <1>4, <1>2, <1>1 DEF LoadSettings, DemoExecutionSession, SessionTypeOK, Length
<1>5. ASSUME NEW p \in Programs, Spawn(p) PROVE TreeInv'
  BY <1>5, <1>2, <1>1 DEF Spawn, SessionTypeOK, Length
<1>6. ASSUME NEW p \in Programs, SessionOpens(p) \/ Leave(p) \/ Close(p) \/ CallTool(p) PROVE TreeInv'
  BY <1>6, <1>2, <1>1 DEF SessionOpens, Leave, Close, CallTool, SessionTypeOK, Length
<1>7. ASSUME NEW p \in Programs, ProveTradingIsBlocked(p) \/ Serve(p) PROVE TreeInv'
  BY <1>7, <1>2, <1>1 DEF ProveTradingIsBlocked, Serve, SessionTypeOK, Length
<1>8. ASSUME NEW q \in alive, Dies(q) \/ Exits(q) PROVE TreeInv'
  BY <1>8, <1>2, <1>1 DEF Dies, Exits, SessionTypeOK, Length
<1>9. CASE EditEnv
  BY <1>9, <1>2, <1>1 DEF EditEnv, SessionTypeOK, Length
<1>10. CASE Baseline("baseline", TRUE, "baseline2") \/ Baseline("baseline2", FALSE, "loading")
  <2>1. tree' = {} /\ outcome' = "none" /\ pc'[Tester] \in {"baseline2", "loading"}
    BY <1>10 DEF Baseline, TreeInv, SessionTypeOK
  <2> QED BY <2>1 DEF TreeInv
<1>11. CASE After("open", TRUE, "after") \/ After("after", FALSE, "found")
  <2>1. tree' = {} /\ outcome' = "none" /\ pc'[Tester] \in {"after", "found"} /\ row'[Tester].test
    BY <1>11 DEF After, TreeInv, SessionTypeOK
  <2> QED BY <2>1 DEF TreeInv
<1>12. CASE Confirm
  <2> DEFINE new == DiffNewPids(before, seen)
  <2>1. tree = {} /\ outcome = "none"
    BY <1>12 DEF Confirm, TreeInv
  <2>2. CASE UNCHANGED <<tree, root>> /\ Go(Tester, "closing")
    BY <1>12, <2>1, <2>2 DEF Confirm, TreeInv, SessionTypeOK
  <2>3. ASSUME NEW r \in new, Confirmed(new, r), tree' = new, root' = r, Go(Tester, "confirmed")
        PROVE  TreeInv'
    <3>1. new \in SUBSET Processes /\ new = seen \ before
      BY DEF DiffNewPids, SessionTypeOK
    <3>2. \A q \in new : q[1] = r[1]
      <4> HIDE DEF new
      <4> QED BY <2>3, <3>1, OneProgram DEF Confirmed
    <3>3. <<Tester, 1>> \in seen => r[1] = Tester
      <4>1. <<Tester, 1>> \in seen => <<Tester, 1>> \in new
        BY <3>1 DEF SeenInv
      <4> QED BY <4>1, <3>2
    <3>4. spawned[r[1]] > 0 /\ r[1] \in Programs
      BY <3>1 DEF SeenInv, Processes, Length, SessionTypeOK
    <3>5. row[Tester].test
      BY <1>12 DEF Confirm, TreeInv
    <3>6. pc'[Tester] = "confirmed"
      BY <2>3 DEF SessionTypeOK
    <3> QED
      BY <1>12, <2>3, <3>1, <3>2, <3>3, <3>4, <3>5, <3>6 DEF Confirm, TreeInv, Confirmed, IsWrapper
  <2> QED BY <1>12, <2>2, <2>3 DEF Confirm
<1>13. CASE TreeKill
  BY <1>13, <1>2, <1>1 DEF TreeKill, SessionTypeOK, Length
<1>14. CASE Settle
  BY <1>14, <1>2, <1>1 DEF Settle, SessionTypeOK, Length
<1>15. CASE PostKillCall
  BY <1>15 DEF PostKillCall, TreeInv, SessionTypeOK, IsWrapper
<1>16. CASE Finally
  BY <1>16, <1>2, <1>1 DEF Finally, SessionTypeOK, Length
<1>17. CASE UNCHANGED vars
  BY <1>17, <1>2, <1>1 DEF vars, SessionTypeOK, Length
<1> QED
  BY <1>3, <1>4, <1>5, <1>6, <1>7, <1>8, <1>9, <1>10, <1>11, <1>12, <1>13, <1>14, <1>15, <1>16, <1>17 DEF Next

\* What is killed belongs to the noted tree.
LEMMA KillStep ==
    SessionTypeOK /\ SessionTypeOK' /\ GateInv /\ SeenInv /\ TreeInv /\ KillInv /\ [Next]_vars => KillInv'
<1> SUFFICES ASSUME SessionTypeOK, SessionTypeOK', GateInv, SeenInv, TreeInv, KillInv, [Next]_vars
             PROVE  KillInv'
  OBVIOUS
<1> USE SessionAssumption DEF Go, program, connection, listings, kills
<1>1. tree # {} => root[1] \in Programs /\ \A q \in tree : q[2] <= spawned[q[1]]
  BY DEF TreeInv, SeenInv, SessionTypeOK
\* Most steps start no process that was noted, and kill none.
<1>2. ASSUME UNCHANGED <<listings, kills>>,
             pc'[Tester] = "ended" => pc[Tester] = "ended" \/ tree = {},
             pc'[Tester] = "settled" => pc[Tester] = "settled",
             tree \cap alive' \subseteq alive
      PROVE  KillInv'
  BY <1>2 DEF KillInv, TreeIsGone, PostKillCallFails
<1>3. ASSUME NEW p \in Programs, NEW r \in Rows, Start(p, r) PROVE KillInv'
  BY <1>3, <1>2 DEF Start, SessionTypeOK
<1>4. ASSUME NEW p \in Programs, LoadSettings(p) \/ DemoExecutionSession(p) PROVE KillInv'
  BY <1>4, <1>2 DEF LoadSettings, DemoExecutionSession, SessionTypeOK, TreeInv, BeforeConfirm, Early
<1>5. ASSUME NEW p \in Programs, Spawn(p) PROVE KillInv'
  <2>1. <<p, spawned[p] + 1>> \notin tree
    BY <1>1 DEF SessionTypeOK, Length
  <2> QED BY <1>5, <1>2, <2>1 DEF Spawn
<1>6. ASSUME NEW p \in Programs, SessionOpens(p) \/ Leave(p) \/ CallTool(p) PROVE KillInv'
  BY <1>6, <1>2 DEF SessionOpens, Leave, CallTool, SessionTypeOK
<1>7. ASSUME NEW p \in Programs, Close(p) PROVE KillInv'
  BY <1>7, <1>2 DEF Close, SessionTypeOK, TreeInv
<1>8. ASSUME NEW p \in Programs, ProveTradingIsBlocked(p) \/ Serve(p) PROVE KillInv'
  BY <1>8, <1>2 DEF ProveTradingIsBlocked, Serve, SessionTypeOK
<1>9. ASSUME NEW q \in alive, Dies(q) \/ Exits(q) PROVE KillInv'
  BY <1>9, <1>2 DEF Dies, Exits
<1>10. CASE EditEnv
  BY <1>10, <1>2 DEF EditEnv
<1>11. CASE Baseline("baseline", TRUE, "baseline2") \/ Baseline("baseline2", FALSE, "loading")
  BY <1>11 DEF Baseline, KillInv, TreeIsGone, PostKillCallFails, SessionTypeOK
<1>12. CASE After("open", TRUE, "after") \/ After("after", FALSE, "found")
  <2>1. outcome = "none"
    BY <1>12 DEF After, TreeInv, BeforeConfirm
  <2> QED BY <1>12, <2>1 DEF After, KillInv, TreeIsGone, PostKillCallFails, SessionTypeOK
<1>13. CASE Confirm
  <2>1. tree = {} /\ outcome = "none" /\ killed = {}
    BY <1>13 DEF Confirm, TreeInv, KillInv, BeforeConfirm
  <2>2. pc'[Tester] \in {"confirmed", "closing"}
    BY <1>13 DEF Confirm, SessionTypeOK
  <2> QED BY <1>13, <2>1, <2>2 DEF Confirm, KillInv, TreeIsGone, PostKillCallFails
<1>14. CASE TreeKill
  <2>1. tree # {} /\ pc'[Tester] = "killed"
    BY <1>14 DEF TreeKill, TreeInv, SessionTypeOK
  <2> QED BY <1>14, <2>1 DEF TreeKill, KillInv, TreeIsGone, PostKillCallFails
<1>15. ASSUME NEW L, KillListed(tree \cap L, L), UNCHANGED <<listings, tree, root, outcome>> PROVE KillInv'
  <2>1. \A q \in killed' : tree # {} /\ q[1] = root[1]
    BY <1>15 DEF KillListed, KillInv, TreeInv
  <2>2. listed' => tree \cap alive' = {}
    BY <1>15 DEF KillListed
  <2> QED BY <1>15, <2>1, <2>2 DEF KillInv, TreeIsGone, PostKillCallFails
<1>16. CASE Settle \/ Finally
  BY <1>15, <1>16 DEF Settle, Finally, KillSurvivors, Leftovers
<1>17. CASE PostKillCall
  <2>1. tree # {} /\ pc'[Tester] = "closing"
    BY <1>17 DEF PostKillCall, TreeInv, SessionTypeOK
  <2>2. ASSUME <<Tester, Length>> \in alive, listed, <<Tester, 1>> \in seen PROVE FALSE
    <3>1. root[1] = Tester
      BY <2>1, <2>2 DEF TreeInv
    <3>2. \E q \in seen : q[1] = Tester /\ ~ IsWrapper(q)
      BY <2>1, <3>1 DEF TreeInv
    <3>3. <<Tester, Length>> \in seen
      BY <1>17, <2>2, <3>2 DEF SeenInv, PostKillCall
    <3>4. <<Tester, Length>> \in tree
      BY <2>1, <3>3 DEF TreeInv, SeenInv
    <3> QED BY <1>17, <2>2, <3>4 DEF PostKillCall, KillInv
  <2>3. PostKillCallFails'
    BY <1>17, <2>2 DEF PostKillCall, PostKillCallFails
  <2> QED BY <1>17, <2>1, <2>3 DEF PostKillCall, KillInv, TreeIsGone
<1>18. CASE UNCHANGED vars
  BY <1>18, <1>2 DEF vars
<1> QED
  BY <1>3, <1>4, <1>5, <1>6, <1>7, <1>8, <1>9, <1>10, <1>11, <1>12, <1>13, <1>14, <1>16, <1>17, <1>18 DEF Next

\* The invariant is inductive.
LEMMA SessionStep == SessionInv /\ [Next]_vars => SessionInv'
  BY SessionTypeStep, GateStep, CallStep, SeenStep, TreeStep, KillStep DEF SessionInv

\* It holds in every reachable state.
LEMMA SessionInvariant == Spec => []SessionInv
<1>1. Init => SessionInv
  BY SessionInit
<1>2. SessionInv /\ [Next]_vars => SessionInv'
  BY SessionStep
<1> QED BY <1>1, <1>2, PTL DEF Spec

-----------------------------------------------------------------------------

\* The program's and the wrapper's bookkeeping keeps its types.
THEOREM SessionTypes == Spec => []SessionTypeOK
  BY SessionInvariant, PTL DEF SessionInv

\* A trade is carried out only for a program with an account kind of DEMO, by a
\* server the wrapper started with DEMO, whoever edits .env in between.
THEOREM TradesOnlyForDemo == Spec => []TradesAreForDemo
<1>1. SessionInv => TradesAreForDemo
  BY DEF SessionInv, SessionTypeOK, GateInv, CallInv, TradesAreForDemo
<1> QED BY <1>1, SessionInvariant, PTL

\* _prove_trading_is_blocked() never sends the trade it tries.
THEOREM ProofNeverTrades == Spec => []ProofIsHarmless
<1>1. SessionInv => ProofIsHarmless
  BY DEF SessionInv, GateInv, CallInv, ProofIsHarmless
<1> QED BY <1>1, SessionInvariant, PTL

\* The smoke test kills no process of another program if it has seen its own
\* wrapper, with any number of programs and of processes per script.
THEOREM KillsOwnTree == Spec => []KillsOnlyOwn
<1>1. SessionInv => KillsOnlyOwn
  BY DEF SessionInv, TreeInv, KillInv, KillsOnlyOwn
<1> QED BY <1>1, SessionInvariant, PTL

\* Its processes do not outlive it, and the call after the kill fails, unless a
\* listing fails.
THEOREM TreeDies == Spec => [](TreeIsGone /\ PostKillCallFails)
<1>1. SessionInv => TreeIsGone /\ PostKillCallFails
  BY DEF SessionInv, KillInv
<1> QED BY <1>1, SessionInvariant, PTL
=============================================================================
