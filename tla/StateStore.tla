---------------------------- MODULE StateStore ----------------------------
(***************************************************************************)
(* The local order-state store (state/store.py) and the pure functions     *)
(* that compare it with what the broker reports: state/reconcile.py,       *)
(* state/policy.py and state/sl_tp_artifact.py.                            *)
(*                                                                         *)
(* The store keeps one JSON file per ticket; a write replaces one file     *)
(* atomically (tmp file, os.replace), so a ticket's record is either the   *)
(* old or the new one.  A record is abstracted to its status, "NONE" when  *)
(* there is no file.  `bad' is the set of tickets whose file exists and    *)
(* cannot be read: every "all" read raises StateLoadError while it is not  *)
(* empty, and a write to a bad ticket that must load the record first      *)
(* raises as well.                                                         *)
(***************************************************************************)
EXTENDS Integers, FiniteSets

CONSTANT Tickets, NoTicket

ASSUME TicketsAssumption == NoTicket \notin Tickets

OpenStatuses     == {"OPEN", "OPEN_UNPROTECTED"}
TerminalStatuses == {"CANCELLED", "CLOSED"}
Statuses         == {"NONE"} \cup OpenStatuses \cup TerminalStatuses

-----------------------------------------------------------------------------
(* Reads. *)

\* all_open(): the tickets locally known to be open, unprotected ones included.
AllOpen(store) == {t \in Tickets : store[t] \in OpenStatuses}

-----------------------------------------------------------------------------
(* Writes: the store after the call.  LoadOne is the guard of the writes   *)
(* that read the record first.                                             *)

\* _load_one() returns (possibly None) instead of raising StateLoadError.
LoadOne(bad, t) == t \notin bad

\* record_submission(): writes a new record, whatever was there.
RecordSubmission(store, t, status) == [store EXCEPT ![t] = status]

\* record_manual_adoption(): a human claims a position opened in the terminal.
RecordManualAdoption(store, t) == [store EXCEPT ![t] = "OPEN"]

\* mark_sl_tp_attached(): a no-op (and a warning) without a record.
MarkSlTpAttached(store, t) ==
    [store EXCEPT ![t] = IF @ = "NONE" THEN "NONE" ELSE "OPEN"]

\* _transition(), for every ticket of the set T: a no-op without a record,
\* otherwise the status is overwritten whatever it was.
Transition(store, T, status) ==
    [t \in Tickets |-> IF t \in T /\ store[t] # "NONE" THEN status ELSE store[t]]

\* record_cancelled() and record_closed().
RecordCancelled(store, T) == Transition(store, T, "CANCELLED")
RecordClosed(store, T)    == Transition(store, T, "CLOSED")

-----------------------------------------------------------------------------
(* Reconciliation and posture. *)

\* Mutant: pending orders are left out of the live snapshot.
ReconcilePositionsOnly(local_open, positions, orders) ==
    [matched      |-> local_open \cap positions,
     local_only   |-> local_open \ positions,
     unknown_real |-> positions \ local_open]

\* reconcile(): by ticket only.
Reconcile(local_open, positions, orders) ==
    LET real == positions \cup orders
    IN  [matched      |-> local_open \cap real,
         local_only   |-> local_open \ real,
         unknown_real |-> real \ local_open]

\* determine_posture().
DeterminePosture(load_error, unknown_real) ==
    IF load_error THEN "BLOCKED"
    ELSE IF unknown_real # {} THEN "MANAGE_ONLY"
    ELSE "NORMAL"

=============================================================================
