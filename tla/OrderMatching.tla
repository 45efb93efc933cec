----------------------------- MODULE OrderMatching -----------------------------
(***************************************************************************)
(* The order-matching loop of the golden oracle (golden/oracle.py): every  *)
(* intent is accepted up front, then each market event first expires GTD   *)
(* orders, then offers its finite liquidity to the orders in sequence      *)
(* order, then cancels what is left of the IOC/FOK orders it touched.      *)
(*                                                                         *)
(* The caller hands run_oracle two finite lists.  Both are replayed in     *)
(* ascending sequence order (ordering.canonical_order), so a list is       *)
(* modelled by its canonical order and chosen element by element, which    *)
(* makes the behaviours of the module the runs over all lists of at most   *)
(* MaxOrders intents and MaxEvents events.  One action is one iteration of *)
(* one of the code's loops.  Decimals are integers (a count of some ulp);  *)
(* the arithmetic of this module only adds, subtracts and compares them.   *)
(***************************************************************************)
EXTENDS Integers, Sequences, OrderStatus

CONSTANTS
    Intents,     \* the order intents a caller may submit
    Events,      \* the trades and bars a caller may replay
    MaxOrders,   \* bound on the number of intents of a run
    MaxEvents,   \* bound on the number of events of a run
    UniqueIds    \* whether the caller gives every intent an order id of its own

LimitTypes == {"LIMIT", "STOP_LIMIT"}
StopTypes  == {"STOP", "STOP_LIMIT"}
SingleShotTIF == {"IOC", "FOK"}

\* What the schema validators guarantee of an OrderIntent.  Prices are not
\* required to be positive, nor expiry_ts to follow created_ts.
ASSUME IntentAssumption ==
    \A i \in Intents :
        /\ i.side \in {"BUY", "SELL"}
        /\ i.order_type \in {"MARKET"} \cup LimitTypes \cup StopTypes
        /\ i.time_in_force \in {"DAY", "GTC", "GTD"} \cup SingleShotTIF
        /\ i.quantity \in Nat \ {0} /\ i.created_ts \in Nat
        /\ i.order_type \in LimitTypes => i.limit_price \in Int
        /\ i.order_type \in StopTypes => i.stop_price \in Int
        /\ i.time_in_force = "GTD" => i.expiry_ts \in Nat

\* What they guarantee of a Trade and of a Bar; a bar may have no volume.
ASSUME EventAssumption ==
    \A e \in Events :
        \/ e.kind = "trade" /\ {e.price, e.size} \subseteq Nat \ {0} /\ e.exchange_ts \in Nat
        \/ /\ e.kind = "bar" /\ {e.open, e.high, e.low} \subseteq Int
           /\ e.low <= e.open /\ e.open <= e.high /\ e.volume \in Nat
           /\ {e.bar_open_ts, e.bar_close_ts} \subseteq Nat /\ e.bar_open_ts <= e.bar_close_ts

ASSUME BoundAssumption ==
    MaxOrders \in Nat /\ MaxEvents \in Nat /\ UniqueIds \in BOOLEAN

VARIABLES
    intents,      \* ordered_intents
    runtimes,     \* order id -> _OrderRuntime
    events,       \* the events replayed so far; the last one is being processed
    phase,        \* which loop is running
    cursor,       \* the index of the iteration
    available,    \* available_liquidity
    touched,      \* the order ids of the list `touched`
    transitions,  \* the ledger's stream of order-state transitions
    fills         \* the ledger's stream of fills, each with the index of its event

vars == <<intents, runtimes, events, phase, cursor, available, touched, transitions, fills>>

------------------------------------------------------------------------------
(***************************************************************************)
(* Marketability.  A trade is a bar whose open, high and low are its price *)
(* (_trade_marketability and _bar_marketability then coincide).            *)
(***************************************************************************)

Open(e) == IF e.kind = "trade" THEN e.price ELSE e.open
High(e) == IF e.kind = "trade" THEN e.price ELSE e.high
Low(e)  == IF e.kind = "trade" THEN e.price ELSE e.low
Liquidity(e) == IF e.kind = "trade" THEN e.size ELSE e.volume
EventTs(e) == IF e.kind = "trade" THEN e.exchange_ts ELSE e.bar_close_ts

\* Mutant of Eligible: a trade at the very timestamp of the order.
EligibleAtOnce(i, e) == IF e.kind = "bar" THEN i.created_ts <= e.bar_open_ts
                                          ELSE e.exchange_ts >= i.created_ts

\* The order existed before the bar began, or strictly before the trade.
Eligible(i, e) == IF e.kind = "bar" THEN i.created_ts <= e.bar_open_ts
                                    ELSE e.exchange_ts > i.created_ts

GapsThroughStop(i, e) == IF i.side = "BUY" THEN Open(e) >= i.stop_price
                                           ELSE Open(e) <= i.stop_price

ReachesStop(i, e) == \/ GapsThroughStop(i, e)
                     \/ IF i.side = "BUY" THEN High(e) >= i.stop_price
                                          ELSE Low(e) <= i.stop_price

WithinLimit(i, e) == IF i.side = "BUY" THEN Low(e) <= i.limit_price
                                       ELSE High(e) >= i.limit_price

Triggered(rt, e) == \/ rt.stop_triggered
                    \/ rt.intent.order_type \in StopTypes /\ ReachesStop(rt.intent, e)

Marketable(rt, e) == /\ rt.intent.order_type \in StopTypes => Triggered(rt, e)
                     /\ rt.intent.order_type \in LimitTypes => WithinLimit(rt.intent, e)

\* Limit orders trade at their limit, a stop touched inside a bar at the stop
\* level, everything else at the first price the event offers.
FillPrice(rt, e) ==
    CASE rt.intent.order_type \in LimitTypes -> rt.intent.limit_price
      [] /\ rt.intent.order_type = "STOP"
         /\ ~rt.stop_triggered
         /\ ~GapsThroughStop(rt.intent, e) -> rt.intent.stop_price
      [] OTHER -> Open(e)

\* Mutants of FillQty: not capped by the liquidity; all orders all-or-nothing.
FillQtyUncapped(rt, e, liquidity) == IF Marketable(rt, e) THEN rt.remaining ELSE 0
FillQtyAllFok(rt, e, liquidity) ==
    IF Marketable(rt, e) /\ liquidity >= rt.remaining THEN rt.remaining ELSE 0

FillQty(rt, e, liquidity) ==
    IF ~Marketable(rt, e) THEN 0
    ELSE IF liquidity >= rt.remaining THEN rt.remaining
    ELSE IF rt.intent.time_in_force = "FOK" THEN 0 ELSE liquidity

------------------------------------------------------------------------------
Event == events[Len(events)]

\* Mutant of Intent: the last order first.
IntentReversed == intents[Len(intents) + 1 - cursor]

Intent == intents[cursor]  \* the loop variable `intent`

Runtime == runtimes[Intent.order_id]

\* Mutant of MoveTo: giving up clears the residual.
MoveToCleared(o, rt, to) ==
    /\ transitions' = Append(transitions,
            [order_id |-> o, from |-> rt.status, to |-> to, ts |-> EventTs(Event)])
    /\ runtimes' = [runtimes EXCEPT ![o] = [rt EXCEPT !.status = to,
                !.remaining = IF to \in {"CANCELED", "EXPIRED"} THEN 0 ELSE @]]
    /\ UNCHANGED phase

\* emit_transition and the assignment of the new status to rt, the runtime of
\* order o: an impossible transition raises instead.
MoveTo(o, rt, to) ==
    IF ValidTransition(rt.status, to)
    THEN /\ transitions' = Append(transitions,
                [order_id |-> o, from |-> rt.status, to |-> to, ts |-> EventTs(Event)])
         /\ runtimes' = [runtimes EXCEPT ![o] = [rt EXCEPT !.status = to]]
         /\ UNCHANGED phase
    ELSE /\ phase' = "raised"
         /\ runtimes' = [runtimes EXCEPT ![o] = rt]
         /\ UNCHANGED transitions

Init == /\ intents = <<>> /\ runtimes = <<>>
        /\ events = <<>> /\ phase = "accept"
        /\ cursor = 1 /\ available = 0
        /\ touched = <<>> /\ transitions = <<>> /\ fills = <<>>

\* _accept_orders: a runtime per order id (a later intent with the same id
\* replaces the earlier runtime) and the transitions to NEW and ACCEPTED.
AcceptOrder(i) ==
    /\ phase = "accept" /\ Len(intents) < MaxOrders
    /\ UniqueIds => i.order_id \notin DOMAIN runtimes
    /\ intents' = Append(intents, i)
    /\ runtimes' = [o \in DOMAIN runtimes \cup {i.order_id} |->
            IF o = i.order_id
            THEN [intent |-> i, status |-> "ACCEPTED", remaining |-> i.quantity,
                  stop_triggered |-> FALSE, first_event_consumed |-> FALSE]
            ELSE runtimes[o]]
    /\ transitions' = transitions \o
            << [order_id |-> i.order_id, from |-> NoStatus, to |-> "NEW", ts |-> i.created_ts],
               [order_id |-> i.order_id, from |-> "NEW", to |-> "ACCEPTED", ts |-> i.created_ts] >>
    /\ UNCHANGED <<events, phase, cursor, available, touched, fills>>

StartReplay ==
    /\ phase = "accept"
    /\ phase' = "idle"
    /\ UNCHANGED <<intents, runtimes, events, cursor, available, touched, transitions, fills>>

\* The for loop of run_oracle takes the next event: _process_event begins.
ReceiveEvent(e) ==
    /\ phase = "idle" /\ Len(events) < MaxEvents
    /\ events' = Append(events, e)
    /\ available' = Liquidity(e)
    /\ touched' = <<>>
    /\ phase' = "expire" /\ cursor' = 1
    /\ UNCHANGED <<intents, runtimes, transitions, fills>>

InLoop(p) == phase = p /\ cursor <= Len(intents)

------------------------------------------------------------------------------
\* _expire_gtd_orders, one iteration.
PastExpiry == /\ Intent.time_in_force = "GTD"
              /\ Runtime.status \in ActiveStatuses
              /\ EventTs(Event) > Intent.expiry_ts

ExpireOrder ==
    /\ InLoop("expire") /\ PastExpiry
    /\ MoveTo(Intent.order_id, Runtime, "EXPIRED")
    /\ cursor' = cursor + 1
    /\ UNCHANGED <<intents, events, available, touched, fills>>

KeepOrder ==
    /\ InLoop("expire") /\ ~PastExpiry
    /\ cursor' = cursor + 1
    /\ UNCHANGED <<intents, runtimes, events, phase, available, touched, transitions, fills>>

StartMatching ==
    /\ phase = "expire" /\ cursor > Len(intents)
    /\ phase' = "match" /\ cursor' = 1
    /\ UNCHANGED <<intents, runtimes, events, available, touched, transitions, fills>>

------------------------------------------------------------------------------
\* The matching loop of _process_event, one iteration.  Eligibility and time
\* in force are read from the loop's intent, the rest from the runtime.
Touches == /\ Runtime.status \in ActiveStatuses
           /\ Eligible(Intent, Event)
           /\ ~(Intent.time_in_force \in SingleShotTIF /\ Runtime.first_event_consumed)

Consumed == Runtime.first_event_consumed \/ Intent.time_in_force \in SingleShotTIF

\* Mutant of Offered: a stop level reached is forgotten.
OfferedUnlatched == [Runtime EXCEPT !.first_event_consumed = Consumed]

\* The runtime once the event has been offered to it: the marketability check
\* latches a stop level it sees reached.
Offered == [Runtime EXCEPT !.first_event_consumed = Consumed,
                           !.stop_triggered = Triggered(Runtime, Event)]

Qty == FillQty(Runtime, Event, available)
Price == FillPrice(Runtime, Event)

\* Mutant of Filled: the residual of a partial fill is dropped.
FilledNoResidual == [Offered EXCEPT !.remaining = 0]

\* The runtime of fill_order once its residual is reduced.
Filled == [Offered EXCEPT !.remaining = @ - Qty]

\* Mutant of StatusFor: off by one.
StatusForBelow(open) == IF open < 0 THEN "FILLED" ELSE "PARTIALLY_FILLED"

StatusFor(open) == IF open <= 0 THEN "FILLED" ELSE "PARTIALLY_FILLED"

Advance == cursor' = cursor + 1 /\ UNCHANGED <<intents, events>>

SkipOrder ==
    /\ InLoop("match") /\ ~Touches
    /\ Advance
    /\ UNCHANGED <<runtimes, phase, available, touched, transitions, fills>>

TouchOrder == /\ InLoop("match") /\ Touches
              /\ touched' = Append(touched, Intent.order_id)

\* The event's liquidity is exhausted: the order is touched, but the event is
\* never offered to it, so a stop level it reaches is not latched.
PassOver ==
    /\ TouchOrder /\ available <= 0
    /\ runtimes' = [runtimes EXCEPT ![Intent.order_id].first_event_consumed = Consumed]
    /\ Advance
    /\ UNCHANGED <<phase, available, transitions, fills>>

\* _match_runtime returns 0.
MissOrder ==
    /\ TouchOrder /\ available > 0 /\ Qty = 0
    /\ runtimes' = [runtimes EXCEPT ![Intent.order_id] = Offered]
    /\ Advance
    /\ UNCHANGED <<phase, available, transitions, fills>>

\* The Fill of the order at this event, and the index of the event.
NewFill == [order_id |-> Intent.order_id, side |-> Runtime.intent.side,
            price |-> Price, quantity |-> Qty, ts |-> EventTs(Event), event |-> Len(events)]

\* fill_order: book the fill, then change the status if it is a new one.
FillOrder ==
    /\ TouchOrder /\ available > 0 /\ Qty > 0 /\ Price > 0
    /\ IF StatusFor(Filled.remaining) # Runtime.status
       THEN MoveTo(Intent.order_id, Filled, StatusFor(Filled.remaining))
       ELSE /\ runtimes' = [runtimes EXCEPT ![Intent.order_id] = Filled]
            /\ UNCHANGED <<phase, transitions>>
    /\ fills' = Append(fills, NewFill)
    /\ available' = available - Qty
    /\ Advance

\* execute_fill raises half way, after the ledger has booked the trade and
\* before the order changes.  The Fill schema refuses a price that is not
\* positive and a negative fee; fees are the ledger's, so any fill may be.
RejectFill ==
    /\ TouchOrder /\ available > 0 /\ Qty > 0
    /\ runtimes' = [runtimes EXCEPT ![Intent.order_id] = Offered]
    /\ phase' = "raised"
    /\ UNCHANGED <<intents, events, cursor, available, transitions, fills>>

\* Or the ledger snapshot is refused, with the fill already in the stream.
RejectSnapshot ==
    /\ TouchOrder /\ available > 0 /\ Qty > 0 /\ Price > 0
    /\ runtimes' = [runtimes EXCEPT ![Intent.order_id] = Offered]
    /\ fills' = Append(fills, NewFill)
    /\ phase' = "raised"
    /\ UNCHANGED <<intents, events, cursor, available, transitions>>

StartCanceling ==
    /\ phase = "match" /\ cursor > Len(intents)
    /\ phase' = "cancel" /\ cursor' = 1
    /\ UNCHANGED <<intents, runtimes, events, available, touched, transitions, fills>>

------------------------------------------------------------------------------
\* The last loop of _process_event: no single-shot order survives its event.
Canceling == phase = "cancel" /\ cursor <= Len(touched)

TouchedRuntime == runtimes[touched[cursor]]

\* Mutant of Residual: only an order that has traded is canceled.
ResidualTraded == /\ TouchedRuntime.intent.time_in_force \in SingleShotTIF
                  /\ TouchedRuntime.status = "PARTIALLY_FILLED"

Residual == /\ TouchedRuntime.intent.time_in_force \in SingleShotTIF
            /\ TouchedRuntime.remaining > 0
            /\ TouchedRuntime.status \in ActiveStatuses

CancelResidual ==
    /\ Canceling /\ Residual
    /\ MoveTo(touched[cursor], TouchedRuntime, "CANCELED")
    /\ Advance
    /\ UNCHANGED <<available, touched, fills>>

LeaveResting ==
    /\ Canceling /\ ~Residual
    /\ Advance
    /\ UNCHANGED <<runtimes, phase, available, touched, transitions, fills>>

EndEvent ==
    /\ phase = "cancel" /\ cursor > Len(touched)
    /\ phase' = "idle"
    /\ UNCHANGED <<intents, runtimes, events, cursor, available, touched, transitions, fills>>

\* The input is exhausted.  The fill or the ledger that run_oracle still makes
\* of what the orders traded may be refused.
Finish ==
    /\ phase = "idle"
    /\ phase' \in {"done", "raised"}
    /\ UNCHANGED <<intents, runtimes, events, cursor, available, touched, transitions, fills>>

Stopped == phase \in {"done", "raised"}

Terminated == Stopped /\ UNCHANGED vars

\* The steps of a replay that trade nothing and do not end it.
QuietStep == \/ \E i \in Intents : AcceptOrder(i)
             \/ StartReplay
             \/ \E e \in Events : ReceiveEvent(e)
             \/ ExpireOrder \/ KeepOrder \/ StartMatching
             \/ SkipOrder \/ PassOver \/ MissOrder
             \/ StartCanceling \/ CancelResidual \/ LeaveResting \/ EndEvent

Step == QuietStep \/ FillOrder \/ RejectFill \/ RejectSnapshot \/ Finish

Next == Step \/ Terminated

Spec == Init /\ [][Next]_vars

------------------------------------------------------------------------------
(***************************************************************************)
(* Properties.  Those about single orders assume distinct order ids.       *)
(***************************************************************************)

OrderIds == DOMAIN runtimes
Active(o) == runtimes[o].status \in ActiveStatuses
SingleShot(o) == runtimes[o].intent.time_in_force \in SingleShotTIF

RuntimeOK(rt) ==
    /\ DOMAIN rt = {"intent", "status", "remaining", "stop_triggered", "first_event_consumed"}
    /\ rt.intent \in Intents
    /\ rt.status \in ActiveStatuses \cup TerminalStatuses
    /\ rt.remaining \in 0 .. rt.intent.quantity
    /\ rt.stop_triggered \in BOOLEAN /\ rt.first_event_consumed \in BOOLEAN

\* The state variables of run_oracle keep their types, and a runtime is filed
\* under its own order id.
TypeInvariant ==
    /\ intents \in Seq(Intents) /\ events \in Seq(Events)
    /\ phase \in {"accept", "idle", "expire", "match", "cancel", "done", "raised"}
    /\ OrderIds = {intents[n].order_id : n \in DOMAIN intents}
    /\ \A o \in OrderIds : RuntimeOK(runtimes[o]) /\ runtimes[o].intent.order_id = o
    /\ cursor \in Nat \ {0} /\ available \in Nat
    /\ touched \in Seq(OrderIds)
    /\ phase \in {"expire", "match", "cancel"} => events # <<>>

ResidualOK(rt) ==
    /\ rt.status = "FILLED" <=> rt.remaining = 0
    /\ rt.status = "PARTIALLY_FILLED" => rt.remaining < rt.intent.quantity
    /\ rt.status = "ACCEPTED" => rt.remaining = rt.intent.quantity

\* fill_order keeps status and residual in step: FILLED exactly when nothing
\* remains, PARTIALLY_FILLED only once some of it has traded, ACCEPTED only
\* while none has, whatever expired or was canceled in between.
ResidualConsistent == \A o \in OrderIds : ResidualOK(runtimes[o])

\* The sum of a sequence of numbers.
Total(q) == LET sum[n \in 0 .. Len(q)] == IF n = 0 THEN 0 ELSE sum[n - 1] + q[n]
            IN  sum[Len(q)]

\* What the fills numbered in S trade.
Traded(S) == Total([n \in DOMAIN fills |-> IF n \in S THEN fills[n].quantity ELSE 0])

TradedBy(o) == Traded({n \in DOMAIN fills : fills[n].order_id = o})

\* The stream of fills accounts for every unit an order lost: what its fills
\* add up to is its quantity less its residual, unless the replay has raised.
FillsReconcile ==
    phase # "raised" =>
        \A o \in OrderIds : TradedBy(o) = runtimes[o].intent.quantity - runtimes[o].remaining

TradedAt(m) == Traded({n \in DOMAIN fills : fills[n].event = m})

\* "A fill can never exceed" an event's finite liquidity: the fills of an event
\* and the liquidity still offered add up to what the event brought, unless the
\* replay has raised.
LiquidityConserved ==
    phase # "raised" =>
        \A m \in DOMAIN events :
            IF m = Len(events) THEN TradedAt(m) + available = Liquidity(events[m])
                               ELSE TradedAt(m) <= Liquidity(events[m])

\* The order existed before anything of the event could be known.
CreatedBefore(i, e) ==
    i.created_ts <= IF e.kind = "trade" THEN e.exchange_ts - 1 ELSE e.bar_open_ts

\* Causality, judged from the outputs alone: every fill of an order is at an
\* event that began after the order and is not past its expiry, and an
\* IOC/FOK order trades only at the first event it was ever eligible for.
CausalFills ==
    \A n \in DOMAIN fills :
        LET f == fills[n]
            i == runtimes[f.order_id].intent
        IN  /\ CreatedBefore(i, events[f.event])
            /\ i.time_in_force = "GTD" => f.ts <= i.expiry_ts
            /\ i.time_in_force \in SingleShotTIF =>
                    \A m \in 1 .. f.event - 1 : ~CreatedBefore(i, events[m])

\* Between events no IOC/FOK order that has met an eligible event is still
\* active, even if its event had no liquidity left for it; and a FOK has filled
\* fully or not at all.
SingleShotResolved ==
    phase = "idle" =>
        \A o \in OrderIds :
            /\ SingleShot(o) /\ Active(o) =>
                   \A m \in DOMAIN events : ~Eligible(runtimes[o].intent, events[m])
            /\ runtimes[o].intent.time_in_force = "FOK" =>
                   runtimes[o].remaining \in {0, runtimes[o].intent.quantity}

Reached(o, m) == /\ runtimes[o].intent.order_type \in StopTypes
                 /\ Eligible(runtimes[o].intent, events[m])
                 /\ ReachesStop(runtimes[o].intent, events[m])

\* A stop triggers only at an eligible event that reaches its level, and an
\* active stop can have missed such an event only because the orders ahead of
\* it, or the event itself, left it no liquidity.
StopTriggerExact ==
    phase = "idle" =>
        \A o \in OrderIds :
            /\ runtimes[o].stop_triggered => \E m \in DOMAIN events : Reached(o, m)
            /\ Active(o) /\ ~runtimes[o].stop_triggered =>
                  \A m \in DOMAIN events :
                        Reached(o, m) => TradedAt(m) = Liquidity(events[m])

\* Nothing is left on the table: after an event, an active order other than a
\* FOK that could trade at it means the event's liquidity is used up.
WorkConserving ==
    phase = "idle" /\ events # <<>> =>
        \A o \in OrderIds :
            /\ Active(o) /\ runtimes[o].intent.time_in_force # "FOK"
            /\ Eligible(runtimes[o].intent, Event)
            /\ Marketable(runtimes[o], Event)
            => available = 0

\* Orders compete for an event strictly in ascending sequence: whoever trades,
\* every order ahead of it that still wants to trade at this event is a FOK
\* too large for what was left.
SequencePriority ==
    [][fills' # fills =>
        \A n \in 1 .. cursor - 1 :
            LET rt == runtimes[intents[n].order_id] IN
            /\ rt.status \in ActiveStatuses
            /\ Eligible(intents[n], Event)
            /\ Marketable(rt, Event)
            => rt.intent.time_in_force = "FOK"]_vars

\* The timestamps of the two input lists never decrease with the sequence.
TimeOrdered ==
    /\ \A m, n \in DOMAIN intents : m < n => intents[m].created_ts <= intents[n].created_ts
    /\ \A m, n \in DOMAIN events : m < n => EventTs(events[m]) <= EventTs(events[n])

------------------------------------------------------------------------------
AllOrderIds == {i.order_id : i \in Intents}

\* The loop implements the order lifecycle, one order at a time.
Lifecycle == INSTANCE OrderLifecycle WITH
    Orders <- AllOrderIds,
    status <- [o \in AllOrderIds |->
                  IF o \in OrderIds THEN runtimes[o].status ELSE NoStatus],
    leaves <- [o \in AllOrderIds |-> IF o \in OrderIds THEN runtimes[o].remaining ELSE 0]

\* Whatever the events, each order does only what OrderLifecycle allows.
ImplementsLifecycle == Lifecycle!Spec
==============================================================================
