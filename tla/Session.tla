------------------------------ MODULE Session ------------------------------
(***************************************************************************)
(* Everything between an operator's command and a tool call                *)
(* (config/settings.py, execution/composition.py, mt5_adapter/safety.py,   *)
(* mcp_adapter/, scripts/run_metatrader_mcp_stdio.py).  A program reads    *)
(* .env and passes the gates of demo_execution_session(), or connects      *)
(* read-only; the client starts the wrapper, a process of its own that     *)
(* reads .env again and starts the server.  Somebody may edit .env in      *)
(* between, processes die, calls outlive the session that sent them, and   *)
(* other programs connect at the same time.                                *)
(*                                                                         *)
(* The disconnect smoke test kills the processes of its own connection,    *)
(* which it tells from the others by comparing process listings.           *)
(*                                                                         *)
(* Process <<p, i>> is the i-th in the chain the connection of program p   *)
(* starts: Layers wrapper processes (a venv stub starts the interpreter as *)
(* its child), then as many server processes.                              *)
(***************************************************************************)
EXTENDS Integers, FiniteSets

CONSTANTS
    Programs,   \* programs the operator runs at the same time
    Tester,     \* the one that may be the disconnect smoke test
    Rows,       \* the entry points that may run in this instance
    Layers,     \* processes per script: 2 with a venv stub, else 1
    MaxDeaths   \* bound: processes that die on their own

EntryPoints == [demo : BOOLEAN, trades : {"never", "executor", "client"},
                proves : BOOLEAN, python : BOOLEAN, test : BOOLEAN]

\* Only read-only entry points prove that they cannot trade, and the smoke test
\* goes through demo_execution_session().
ASSUME SessionAssumption ==
    /\ Tester \in Programs /\ Layers \in Nat \ {0} /\ MaxDeaths \in Nat
    /\ \A r \in Rows : r \in EntryPoints /\ (r.proves => ~ r.demo) /\ (r.test => r.demo)

VARIABLES
    file,       \* MT5_ACCOUNT_KIND of .env
    pc, row,
    kind,       \* settings.mt5_account_kind
    enabled,    \* the registry's trading_enabled
    spawned,    \* processes of the connection started so far
    declared,   \* the account kind the wrapper started the server with
    alive,      \* processes
    deaths,
    sent,       \* programs with a trade on its way to their server
    served,     \* programs with a trade their server has carried out
    before, seen,   \* the smoke test's listings before and after it connects
    tree, root,     \* the processes it has noted as its own, and their root
    killed,         \* what it has killed
    listed,         \* whether its last listing was complete and all of it killed
    outcome         \* of the call after the kill

program == <<row, kind, enabled>>
connection == <<spawned, declared>>
listings == <<before, seen>>
kills == <<tree, root, killed, listed, outcome>>
vars == <<file, pc, program, connection, alive, deaths, sent, served, listings, kills>>

Kinds == {"none", "DEMO", "REAL"}
Length == 2 * Layers
Processes == Programs \X (1 .. Length)
IsWrapper(q) == q[2] <= Layers
Parent(q) == <<q[1], q[2] - 1>>

-----------------------------------------------------------------------------
(* Entry points: whether they go through demo_execution_session(), whether *)
(* they trade (through the executor or with the client), prove that they   *)
(* cannot, and whether the command line holds the path of this project's   *)
(* interpreter.  Calls that only read change nothing and are left out.     *)

Demo(trades) ==
    [demo |-> TRUE, trades |-> trades, proves |-> FALSE, python |-> TRUE, test |-> FALSE]
ReadOnly(proves) ==
    [demo |-> FALSE, trades |-> "never", proves |-> proves, python |-> TRUE, test |-> FALSE]

PipelineCycle           == Demo("executor")
RetrySltp               == Demo("client")
HistoricalDataProbe     == Demo("never")
MagicFilterFixVerification == Demo("never")
XauusdSymbolResearch    == Demo("never")
HistoricalDataCacheSeed == Demo("never")
Experiment4CacheSeed    == Demo("never")
XauusdCacheSeed         == Demo("never")
LiveDryRunPipeline      == ReadOnly(TRUE)
VerifyMcpAdapters       == ReadOnly(TRUE)
Phase3Verification      == ReadOnly(FALSE)
McpDisconnectSmokeTest  == [Demo("never") EXCEPT !.test = TRUE]

\* A connection of another tool, started by another interpreter.
OtherTool == [ReadOnly(FALSE) EXCEPT !.python = FALSE]

-----------------------------------------------------------------------------
(* The gates. *)

RequireDemoAccountKind(k) == k = "DEMO"

\* Mutant: a classified tool is always authorized.
AuthorizeCallClassified(trading_enabled, class) == class \in {"read", "trading"}

\* A tool is called if it is classified, and a TRADING tool only if trading is
\* enabled.
AuthorizeCall(trading_enabled, class) ==
    \/ class = "read"
    \/ class = "trading" /\ trading_enabled

\* Mutant: the wrapper checks that the variables are there, not their values.
WrapperStartsAny(k) == k # "none"

\* main() of the wrapper: the variable is set, and to DEMO.  (It fails as well
\* if the login is not set or the server's script is missing: see Leave.)
WrapperStarts(k) == k # "none" /\ k = "DEMO"

\* Mutant: a variable that is set but empty is kept as it is.
LoadedRaw(own) == IF own # "none" THEN own ELSE IF file = "none" THEN "" ELSE file

\* load_dotenv(override=False): what the environment has wins.  Not set and
\* empty are the same.
Loaded(own) == IF own # "none" THEN own ELSE file

\* What the wrapper may find in its environment: the client hands it either
\* none of the program's variables or all of them.
WrapperKinds(p) == {Loaded("none")} \cup {Loaded(kind[p])}

-----------------------------------------------------------------------------
(* Start of a program. *)

Go(p, to) == pc' = [pc EXCEPT ![p] = to]

\* The operator starts an entry point.  The read-only ones load no settings and
\* have a registry without trading.
Start(p, r) ==
    /\ pc[p] = "off"
    /\ r.test => p = Tester
    /\ row' = [row EXCEPT ![p] = r]
    /\ Go(p, IF r.test THEN "baseline" ELSE IF r.demo THEN "loading" ELSE "spawning")
    /\ UNCHANGED <<file, kind, enabled, connection, alive, deaths, sent, served, listings, kills>>

\* load_dotenv() and load_settings(), with any environment the operator's shell
\* may have: an invalid mode raises, a valid one is replaced by DEMO_EXECUTION.
\* (The smoke test loads .env before its first listing; the kinds it may get are
\* the same.)
LoadSettings(p) ==
    /\ pc[p] = "loading"
    /\ \E own \in Kinds : kind' = [kind EXCEPT ![p] = Loaded(own)]
    /\ \E to \in {"loaded", "ended"} : Go(p, to)
    /\ UNCHANGED <<file, row, enabled, connection, alive, deaths, sent, served, listings, kills>>

\* demo_execution_session() up to the client: mode and kind, then a registry
\* with trading enabled.
DemoExecutionSession(p) ==
    /\ pc[p] = "loaded"
    /\ \/ /\ RequireDemoAccountKind(kind[p])
          /\ enabled' = [enabled EXCEPT ![p] = TRUE] /\ Go(p, "spawning")
       \/ /\ ~ RequireDemoAccountKind(kind[p])
          /\ Go(p, "ended") /\ UNCHANGED enabled
    /\ UNCHANGED <<file, row, kind, connection, alive, deaths, sent, served, listings, kills>>

\* The next process of the chain: its parent starts it.  The last wrapper
\* process starts the first server process, if its environment is right.
Spawn(p) ==
    LET i == spawned[p] + 1
    IN  /\ pc[p] = "spawning" /\ i <= Length
        /\ i > 1 => <<p, i - 1>> \in alive
        /\ \/ i # Layers + 1 /\ UNCHANGED declared
           \/ /\ i = Layers + 1
              /\ \E k \in WrapperKinds(p) : WrapperStarts(k) /\ declared' = [declared EXCEPT ![p] = k]
        /\ spawned' = [spawned EXCEPT ![p] = i] /\ alive' = alive \cup {<<p, i>>}
        /\ UNCHANGED <<file, pc, program, deaths, sent, served, listings, kills>>

\* __aenter__() returns.
SessionOpens(p) ==
    /\ pc[p] = "spawning" /\ <<p, Length>> \in alive
    /\ Go(p, "open")
    /\ UNCHANGED <<file, program, connection, alive, deaths, sent, served, listings, kills>>

\* The wrapper refuses, a process died, initialize() or the informational
\* account check raises, or whatever the script awaits does; or it is done.
Leave(p) ==
    /\ pc[p] \notin {"off", "baseline", "loading", "loaded", "closing", "ended"}
    /\ Go(p, "closing")
    /\ UNCHANGED <<file, program, connection, alive, deaths, sent, served, listings, kills>>

\* __aexit__(); the smoke test has its cleanup after it.
Close(p) ==
    /\ pc[p] = "closing" /\ ~ row[p].test
    /\ Go(p, "ended")
    /\ UNCHANGED <<file, program, connection, alive, deaths, sent, served, listings, kills>>

-----------------------------------------------------------------------------
(* Calls. *)

\* call_tool() with a trading tool; the executor has a gate of its own.
CallTool(p) ==
    /\ pc[p] = "open" /\ row[p].trades # "never"
    /\ row[p].trades = "executor" => RequireDemoAccountKind(kind[p])
    /\ AuthorizeCall(enabled[p], "trading")
    /\ sent' = sent \cup {p}
    /\ UNCHANGED <<file, pc, program, connection, alive, deaths, served, listings, kills>>

\* _prove_trading_is_blocked(): a trading tool is called for real; the script
\* goes on only if that is refused, with a DryRunExecutor that notes what it
\* is given.
ProveTradingIsBlocked(p) ==
    /\ pc[p] = "open" /\ row[p].proves
    /\ \/ /\ ~ AuthorizeCall(enabled[p], "trading")
          /\ Go(p, "proved") /\ UNCHANGED sent
       \/ /\ AuthorizeCall(enabled[p], "trading")
          /\ Go(p, "closing") /\ sent' = sent \cup {p}
    /\ UNCHANGED <<file, program, connection, alive, deaths, served, listings, kills>>

\* The server carries a call out, perhaps after the client has given up.
Serve(p) ==
    /\ p \in sent /\ <<p, Length>> \in alive
    /\ sent' = sent \ {p} /\ served' = served \cup {p}
    /\ UNCHANGED <<file, pc, program, connection, alive, deaths, listings, kills>>

-----------------------------------------------------------------------------
(* The world outside. *)

EditEnv ==
    /\ file' \in Kinds \ {file}
    /\ UNCHANGED <<pc, program, connection, alive, deaths, sent, served, listings, kills>>

\* A process crashes.
Dies(q) ==
    /\ deaths < MaxDeaths /\ q \in alive
    /\ deaths' = deaths + 1 /\ alive' = alive \ {q}
    /\ UNCHANGED <<file, pc, program, connection, sent, served, listings, kills>>

\* Once the client is gone its processes end, in any order.
Exits(q) ==
    /\ q \in alive /\ pc[q[1]] \in {"closing", "ended"}
    /\ alive' = alive \ {q}
    /\ UNCHANGED <<file, pc, program, connection, deaths, sent, served, listings, kills>>

-----------------------------------------------------------------------------
(* The disconnect smoke test. *)

\* _find_processes(): nothing if the listing fails.
FindProcesses(wrappers) == {{}, {q \in alive : IsWrapper(q) = wrappers}}

\* The listings before the session is entered, taken one after the other.
Baseline(from, wrappers, to) ==
    /\ pc[Tester] = from
    /\ \E found \in FindProcesses(wrappers) : before' = before \cup found
    /\ Go(Tester, to)
    /\ UNCHANGED <<file, program, connection, alive, deaths, sent, served, seen, kills>>

\* The listings after the session is open and its first call has succeeded.
After(from, wrappers, to) ==
    /\ pc[Tester] = from /\ row[Tester].test
    /\ \E found \in FindProcesses(wrappers) : seen' = seen \cup found
    /\ Go(Tester, to)
    /\ UNCHANGED <<file, program, connection, alive, deaths, sent, served, before, kills>>

DiffNewPids(old, all) == all \ old

Roots(new) == {q \in new : Parent(q) \notin new}

\* Mutant: the first of the roots is taken.
ConfirmedAnyRoot(new, r) ==
    /\ r \in Roots(new)
    /\ IsWrapper(r) /\ row[r[1]].python
    /\ \E q \in new : ~ IsWrapper(q)

\* One tree, its root a wrapper of this interpreter, with a server in it.
Confirmed(new, r) ==
    /\ Roots(new) = {r}
    /\ IsWrapper(r) /\ row[r[1]].python
    /\ \E q \in new : ~ IsWrapper(q)

\* The processes are confirmed and noted, or nothing is killed.
Confirm ==
    /\ pc[Tester] = "found"
    /\ LET new == DiffNewPids(before, seen)
       IN \/ \E r \in new :
                /\ Confirmed(new, r)
                /\ tree' = new /\ root' = r /\ Go(Tester, "confirmed")
          \/ /\ \A r \in new : ~ Confirmed(new, r)
             /\ Go(Tester, "closing") /\ UNCHANGED <<tree, root>>
    /\ UNCHANGED <<file, program, connection, alive, deaths, sent, served, listings,
                   killed, listed, outcome>>

\* taskkill /T of the root while a call is on its way; some may survive.
TreeKill ==
    /\ pc[Tester] = "confirmed"
    /\ killed' \in SUBSET {q \in alive : q[1] = root[1] /\ q[2] >= root[2]}
    /\ alive' = alive \ killed'
    /\ Go(Tester, "killed")
    /\ UNCHANGED <<file, program, connection, deaths, sent, served, listings,
                   tree, root, listed, outcome>>

\* taskkill of single processes of a listing; whether it succeeds is not looked
\* at.
KillListed(targets, listing) ==
    \E hit \in SUBSET targets :
        /\ alive' = alive \ hit /\ killed' = killed \cup hit
        /\ listed' = (listing = alive /\ hit = targets)

\* What is still there of the noted processes.
KillSurvivors(listing) == tree \cap listing

\* The listing after the kill.
Settle ==
    /\ pc[Tester] = "killed"
    /\ \E w \in FindProcesses(TRUE), s \in FindProcesses(FALSE) :
          KillListed(KillSurvivors(w \cup s), w \cup s)
    /\ Go(Tester, "settled")
    /\ UNCHANGED <<file, program, connection, deaths, sent, served, listings, tree, root, outcome>>

\* The call that must fail; told apart is whether the listing before it or a
\* kill failed.
PostKillCall ==
    /\ pc[Tester] = "settled"
    /\ outcome' = IF <<Tester, Length>> \notin alive THEN "raised"
                  ELSE IF listed THEN "unexpected" ELSE "unlisted"
    /\ Go(Tester, "closing")
    /\ UNCHANGED <<file, program, connection, alive, deaths, sent, served, listings,
                   tree, root, killed, listed>>

\* Mutant: the processes are noted for the cleanup when everything is done.
LeftoversWhenDone(listing) == IF outcome = "none" THEN {} ELSE tree \cap listing

Leftovers(listing) == tree \cap listing

\* The `finally' of main(), reached from everywhere: noted processes that are
\* still listed are killed.  Each has listings of its own, which may fail.
Finally ==
    /\ pc[Tester] = "closing" /\ row[Tester].test
    /\ \E missed \in SUBSET tree : KillListed(Leftovers(alive \ missed), alive \ missed)
    /\ Go(Tester, "ended")
    /\ UNCHANGED <<file, program, connection, deaths, sent, served, listings, tree, root, outcome>>

-----------------------------------------------------------------------------

NoRow == ReadOnly(FALSE)

Init ==
    /\ file \in Kinds
    /\ pc = [p \in Programs |-> "off"] /\ row = [p \in Programs |-> NoRow]
    /\ kind = [p \in Programs |-> "none"]
    /\ enabled = [p \in Programs |-> FALSE]
    /\ spawned = [p \in Programs |-> 0] /\ declared = [p \in Programs |-> "none"]
    /\ alive = {} /\ deaths = 0 /\ sent = {} /\ served = {}
    /\ before = {} /\ seen = {} /\ tree = {} /\ root = <<Tester, 0>>
    /\ killed = {} /\ listed = FALSE /\ outcome = "none"

Next ==
    \/ \E p \in Programs :
          \/ \E r \in Rows : Start(p, r)
          \/ LoadSettings(p) \/ DemoExecutionSession(p)
          \/ Spawn(p) \/ SessionOpens(p) \/ Leave(p) \/ Close(p)
          \/ CallTool(p) \/ ProveTradingIsBlocked(p) \/ Serve(p)
    \/ \E q \in alive : Dies(q) \/ Exits(q)
    \/ EditEnv
    \/ Baseline("baseline", TRUE, "baseline2") \/ Baseline("baseline2", FALSE, "loading")
    \/ After("open", TRUE, "after") \/ After("after", FALSE, "found")
    \/ Confirm \/ TreeKill \/ Settle \/ PostKillCall \/ Finally

Spec == Init /\ [][Next]_vars

-----------------------------------------------------------------------------
(* Properties. *)

Pcs == {"off", "baseline", "baseline2", "loading", "loaded", "spawning", "open", "proved",
        "after", "found", "confirmed", "killed", "settled", "closing", "ended"}

\* Types; and only started processes are alive, none without its program.
SessionTypeOK ==
    /\ file \in Kinds /\ deaths \in 0 .. MaxDeaths
    /\ pc \in [Programs -> Pcs] /\ kind \in [Programs -> Kinds]
    /\ row \in [Programs -> EntryPoints] /\ enabled \in [Programs -> BOOLEAN]
    /\ declared \in [Programs -> Kinds]
    /\ spawned \in [Programs -> 0 .. Length]
    /\ alive \subseteq Processes /\ \A q \in alive : q[2] <= spawned[q[1]]
    /\ sent \subseteq Programs /\ served \subseteq Programs
    /\ before \subseteq Processes /\ seen \subseteq Processes /\ tree \subseteq Processes
    /\ root \in Programs \X (0 .. Length) /\ killed \subseteq Processes /\ listed \in BOOLEAN
    /\ outcome \in {"none", "raised", "unexpected", "unlisted"}

\* A server carries a trade out only for a program that went through
\* demo_execution_session() with an account kind of DEMO, and only a server the
\* wrapper started with DEMO: whatever happens to .env between the two reads,
\* whoever else is connected, and however late the call arrives.
TradesAreForDemo ==
    \A p \in served : row[p].demo /\ kind[p] = "DEMO" /\ declared[p] = "DEMO"

\* A dry run that goes on has no trade on its way: what proves that trading is
\* blocked is never a trade itself.
ProofIsHarmless ==
    \A p \in Programs : row[p].proves => p \notin sent \cup served

\* The smoke test kills nobody else's processes if it has seen its own wrapper;
\* and never those of another interpreter.
KillsOnlyOwn ==
    \A q \in killed :
        \/ q[1] = Tester
        \/ <<Tester, 1>> \notin seen /\ row[q[1]].python

\* Once it has noted its processes they do not outlive it, unless its last
\* listing, or a kill of what it lists, failed.
TreeIsGone ==
    pc[Tester] = "ended" /\ listed => tree \cap alive = {}

=============================================================================
