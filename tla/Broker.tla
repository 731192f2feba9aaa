------------------------------ MODULE Broker ------------------------------
(***************************************************************************)
(* The MT5 account as the executor sees it through its MCP server          *)
(* (external: modelled from how src/ uses and describes it).  A ticket is  *)
(* a pending order or a position; a pending order that fills keeps its     *)
(* ticket as a position.  When a stop of a position triggers, MT5 itself   *)
(* places a closing order with a ticket of its own, which is visible for   *)
(* about a second as a pending order: the "artifact" of                    *)
(* state/sl_tp_artifact.py.  Its closing deal enters the deal history      *)
(* while the artifact may still be visible.  Humans trade on the same      *)
(* account from the terminal.                                              *)
(***************************************************************************)
EXTENDS StateStore

VARIABLES
    kind,       \* what a ticket is now; it only moves forward
    own,        \* who caused it: our LIMIT or MARKET order, a human, MT5's stop
    attached,   \* the SL/TP this project asked for are on the ticket
    closes,     \* for an artifact, the position it closes
    deal,       \* for an artifact, its closing deal in the deal history
    late        \* calls given up by the client that may still be carried out

brokerVars == <<kind, own, attached, closes, deal, late>>

Kinds  == {"unused", "late", "pending", "position", "cancelled", "closed"}
Owners == {"none", "LIMIT", "MARKET", "foreign", "artifact"}
Deals  == {"none", "matching", "other"}
Tools  == {"modify_position", "cancel_pending_order", "close_position"}
Calls  == [tool : Tools, ticket : Tickets]

BrokerTypeOK ==
    /\ kind     \in [Tickets -> Kinds]
    /\ own      \in [Tickets -> Owners]
    /\ attached \in [Tickets -> BOOLEAN]
    /\ closes   \in [Tickets -> Tickets \cup {NoTicket}]
    /\ deal     \in [Tickets -> Deals]
    /\ late     \subseteq Calls

BrokerInit ==
    /\ kind     = [t \in Tickets |-> "unused"]
    /\ own      = [t \in Tickets |-> "none"]
    /\ attached = [t \in Tickets |-> FALSE]
    /\ closes   = [t \in Tickets |-> NoTicket]
    /\ deal     = [t \in Tickets |-> "none"]
    /\ late     = {}

\* What get_positions() and get_orders() return.
Positions == {t \in Tickets : kind[t] = "position"}
Orders    == {t \in Tickets : kind[t] = "pending"}

Live(t) == kind[t] \in {"pending", "position"}

-----------------------------------------------------------------------------
(* Calls carried out for the executor. *)

\* An order placed as ticket t: a LIMIT order carries SL/TP, a MARKET order
\* is opened naked (place_market_order has no sl/tp parameter).
OpenTicket(t, order_type) ==
    /\ kind' = [kind EXCEPT ![t] = IF order_type = "LIMIT" THEN "pending" ELSE "position"]
    /\ own'  = [own EXCEPT ![t] = order_type]
    /\ attached' = [attached EXCEPT ![t] = (order_type = "LIMIT")]

\* Whether the broker can carry out a management call on t.
CanServe(tool, t) ==
    IF tool = "cancel_pending_order"
    THEN kind[t] = "pending" /\ own[t] # "artifact"
    ELSE kind[t] = "position"

\* Its effect.  exact is FALSE when the broker put other stops on the
\* position than the ones requested.
Serve(tool, t, exact) ==
    /\ kind' = [kind EXCEPT ![t] = CASE tool = "cancel_pending_order" -> "cancelled"
                                     [] tool = "close_position"       -> "closed"
                                     [] tool = "modify_position"      -> @]
    /\ attached' = [attached EXCEPT ![t] = @ \/ (tool = "modify_position" /\ exact)]

-----------------------------------------------------------------------------
(* What happens on the account by itself or by a human's hand. *)

\* A pending order is hit by the market.
Fill(t) ==
    /\ kind[t] = "pending" /\ own[t] # "artifact"
    /\ kind' = [kind EXCEPT ![t] = "position"]
    /\ UNCHANGED <<own, attached, closes, deal, late>>

\* A human opens a position or places an order in the terminal.
ManualOpen(t) ==
    /\ kind[t] = "unused"
    /\ \E k \in {"pending", "position"} : kind' = [kind EXCEPT ![t] = k]
    /\ own' = [own EXCEPT ![t] = "foreign"]
    /\ UNCHANGED <<attached, closes, deal, late>>

\* A human closes a position or removes an order in the terminal, or it expires.
ManualRemove(t) ==
    /\ Live(t) /\ own[t] # "artifact"
    /\ kind' = [kind EXCEPT ![t] = IF @ = "pending" THEN "cancelled" ELSE "closed"]
    /\ UNCHANGED <<own, attached, closes, deal, late>>

\* A stop of position p triggers: MT5 places the closing order a.
StopTriggers(p, a) ==
    /\ kind[p] = "position" /\ (attached[p] \/ own[p] = "foreign")
    /\ kind[a] = "unused"
    /\ ~ \E b \in Tickets : closes[b] = p
    /\ kind'   = [kind EXCEPT ![a] = "pending"]
    /\ own'    = [own EXCEPT ![a] = "artifact"]
    /\ closes' = [closes EXCEPT ![a] = p]
    /\ UNCHANGED <<attached, deal, late>>

\* The closing order a is executed: its deal closes the position.  The deal's
\* volume, side, comment, price and time match the local record or they do not
\* (a gap through the stop, several partial deals).
StopDeal(a) ==
    /\ kind[a] = "pending" /\ own[a] = "artifact" /\ deal[a] = "none"
    /\ kind[closes[a]] = "position"
    /\ kind' = [kind EXCEPT ![closes[a]] = "closed"]
    /\ \E d \in {"matching", "other"} : deal' = [deal EXCEPT ![a] = d]
    /\ UNCHANGED <<own, attached, closes, late>>

\* The artifact leaves the list of pending orders.
ArtifactSettles(a) ==
    /\ kind[a] = "pending" /\ own[a] = "artifact"
    /\ kind[closes[a]] # "position"
    /\ kind' = [kind EXCEPT ![a] = "closed"]
    /\ UNCHANGED <<own, attached, closes, deal, late>>

\* A placement the client gave up on reaches the broker after all ...
LateOpen(t) ==
    /\ kind[t] = "late"
    /\ OpenTicket(t, own[t])
    /\ UNCHANGED <<closes, deal, late>>

\* ... or never does.
LateOpenDropped(t) ==
    /\ kind[t] = "late"
    /\ kind' = [kind EXCEPT ![t] = "unused"]
    /\ own' = [own EXCEPT ![t] = "none"]
    /\ UNCHANGED <<attached, closes, deal, late>>

\* A management call the client gave up on is carried out or dropped.
LateCall(c) ==
    /\ c \in late
    /\ late' = late \ {c}
    /\ \/ /\ CanServe(c.tool, c.ticket)
          /\ Serve(c.tool, c.ticket, TRUE)
          /\ UNCHANGED <<own, closes, deal>>
       \/ UNCHANGED <<kind, own, attached, closes, deal>>

Market == \E t \in Tickets : Fill(t)

Trader == \E t \in Tickets : ManualOpen(t) \/ ManualRemove(t)

Stops ==
    \/ \E p, a \in Tickets : StopTriggers(p, a)
    \/ \E a \in Tickets : StopDeal(a) \/ ArtifactSettles(a)

Overdue ==
    \/ \E t \in Tickets : LateOpen(t) \/ LateOpenDropped(t)
    \/ \E c \in late : LateCall(c)

=============================================================================
