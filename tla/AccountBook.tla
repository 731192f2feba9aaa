---------------------------- MODULE AccountBook ----------------------------
(***************************************************************************)
(* What a caller of McpOrderExecutor may rely on, whatever it reads, in    *)
(* which order, and whatever is lost, late or interrupted:                 *)
(*                                                                         *)
(* - an operation looks at account and records in one instant, and whether *)
(*   it goes on depends on that instant alone, less what has moved since;  *)
(* - having looked, it does at most one thing to the account, to one       *)
(*   ticket, and never a second one without looking again;                 *)
(* - it writes the record of that ticket only, except that looking may     *)
(*   write off positions that are closed;                                  *)
(* - an operation that is given up leaves the records as they are.         *)
(***************************************************************************)
CONSTANTS Tickets, NoTicket

VARIABLES
    account,    \* what each ticket is; "closing" is MT5's order for a stop
    records,    \* the status of each ticket's record
    phase,      \* of the running operation
    doing,      \* which operation it is
    about,      \* the ticket it is about
    suspects    \* live, without an open record and unmoved since the look

bookVars == <<account, records, phase, doing, about, suspects>>

Submissions == {"LIMIT", "MARKET"}
Managements == {"cancel", "close"}
Open        == {"OPEN", "OPEN_UNPROTECTED"}

\* What a ticket can become.
Onward(s) == CASE s = "absent"   -> {"pending", "position", "closing"}
               [] s = "pending"  -> {"position", "cancelled"}
               [] s = "position" -> {"closed"}
               [] s = "closing"  -> {"closed"}
               [] OTHER          -> {}

Init ==
    /\ account = [t \in Tickets |-> "absent"] /\ records = [t \in Tickets |-> "NONE"]
    /\ phase = "rest" /\ doing = "none" /\ about = NoTicket /\ suspects = {}

\* The account moves on its own: markets, stops, humans, and requests that
\* were given up and arrive after all.
Move(t) ==
    /\ \E s \in Onward(account[t]) : account' = [account EXCEPT ![t] = s]
    /\ suspects' = suspects \ {t}
    /\ UNCHANGED <<records, phase, doing, about>>

-----------------------------------------------------------------------------
(* submit(), cancel() and close_position(). *)

Ask(o, t) ==
    /\ phase = "rest"
    /\ IF o \in Submissions THEN t = NoTicket ELSE t \in Tickets /\ account[t] # "absent"
    /\ phase' = "asked" /\ doing' = o /\ about' = t
    /\ UNCHANGED <<account, records, suspects>>

Look ==
    /\ phase = "asked" /\ phase' = "looked"
    /\ suspects' = {t \in Tickets : account[t] \in {"pending", "position"} /\ records[t] \notin Open}
    /\ UNCHANGED <<account, records, doing, about>>

WriteOff(T) ==
    /\ phase = "looked"
    /\ \A t \in T : account[t] = "closed" /\ records[t] \in Open
    /\ records' = [t \in Tickets |-> IF t \in T THEN "CLOSED" ELSE records[t]]
    /\ \/ UNCHANGED <<phase, suspects>>
       \/ phase' = "rest" /\ suspects' = {}
    /\ UNCHANGED <<account, doing, about>>

\* A submission needs an account without suspects, the others a ticket that is
\* none.
Clear ==
    /\ phase = "looked" /\ phase' = "cleared"
    /\ IF doing \in Submissions THEN suspects = {} ELSE about \notin suspects
    /\ UNCHANGED <<account, records, doing, about, suspects>>

Place(t) ==
    /\ phase = "cleared" /\ phase' = "done"
    /\ doing \in Submissions /\ account[t] = "absent"
    /\ account' = [account EXCEPT ![t] = IF doing = "LIMIT" THEN "pending" ELSE "position"]
    /\ about' = t /\ suspects' = {}
    /\ UNCHANGED <<records, doing>>

Remove ==
    /\ phase = "cleared" /\ phase' = "done"
    /\ \/ doing = "cancel" /\ account[about] = "pending"
          /\ account' = [account EXCEPT ![about] = "cancelled"]
       \/ doing = "close" /\ account[about] = "position"
          /\ account' = [account EXCEPT ![about] = "closed"]
    /\ suspects' = {}
    /\ UNCHANGED <<records, doing, about>>

\* The first record of a ticket; a MARKET order's stops are still missing.
Record ==
    /\ phase = "done" /\ phase' = "kept"
    /\ doing \in Submissions /\ records[about] = "NONE"
    /\ records' = [records EXCEPT ![about] = IF doing = "LIMIT" THEN "OPEN" ELSE "OPEN_UNPROTECTED"]
    /\ UNCHANGED <<account, doing, about, suspects>>

Protect ==
    /\ phase = "kept" /\ phase' = "rest"
    /\ doing = "MARKET" /\ account[about] = "position" /\ records[about] = "OPEN_UNPROTECTED"
    /\ records' = [records EXCEPT ![about] = "OPEN"]
    /\ UNCHANGED <<account, doing, about, suspects>>

\* Written down is what was done; a ticket of somebody else gets no record.
Confirm ==
    /\ phase = "done" /\ phase' = "rest"
    /\ doing \in Managements /\ records[about] \notin {"NONE", "CLOSED"}
    /\ records' = [records EXCEPT ![about] = IF doing = "cancel" THEN "CANCELLED" ELSE "CLOSED"]
    /\ UNCHANGED <<account, doing, about, suspects>>

\* It ends here: done, refused, failed or dead.
Leave ==
    /\ phase # "rest" /\ phase' = "rest" /\ suspects' = {}
    /\ UNCHANGED <<account, records, doing, about>>

-----------------------------------------------------------------------------
(* The human's tools. *)

Adopt(t) ==
    /\ phase = "rest" /\ account[t] = "position" /\ records[t] \notin Open \cup {"CLOSED"}
    /\ records' = [records EXCEPT ![t] = "OPEN"]
    /\ UNCHANGED <<account, phase, doing, about, suspects>>

StartTidying ==
    /\ phase = "rest" /\ phase' = "tidying" /\ doing' = "reconcile" /\ about' = NoTicket
    /\ UNCHANGED <<account, records, suspects>>

\* The leftover script compares two readings: CLOSED it writes only of closed
\* positions, CANCELLED also of a pending order that filled in between.
Tidy(T) ==
    /\ phase = "tidying" /\ phase' = "rest"
    /\ \A t \in T : records[t] \in Open
    /\ records' = [t \in Tickets |-> IF t \notin T THEN records[t]
                                     ELSE IF account[t] = "closed" THEN "CLOSED" ELSE "CANCELLED"]
    /\ UNCHANGED <<account, doing, about, suspects>>

-----------------------------------------------------------------------------

Next ==
    \/ \E t \in Tickets : Move(t) \/ Place(t) \/ Adopt(t)
    \/ \E o \in Submissions : Ask(o, NoTicket)
    \/ \E o \in Managements, t \in Tickets : Ask(o, t)
    \/ \E T \in SUBSET Tickets : WriteOff(T) \/ Tidy(T)
    \/ Look \/ Clear \/ Remove \/ Record \/ Protect \/ Confirm \/ Leave \/ StartTidying

Spec == Init /\ [][Next]_bookVars

=============================================================================
