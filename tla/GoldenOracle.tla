----------------------------- MODULE GoldenOracle -----------------------------
(***************************************************************************)
(* run_oracle (golden/oracle.py): the matching loop books each fill in the *)
(* ledger as it makes it, and an open position may be liquidated at the    *)
(* end.  The two components run in one thread and step together; what the  *)
(* validators of the ledger's records refuse ends both.                    *)
(***************************************************************************)
EXTENDS Integers, Sequences

CONSTANTS
    Intents, Events, MaxOrders, MaxEvents, UniqueIds, None,     \* OrderMatching's
    Unit, Limit, Scales, Configs   \* OracleLedger's; final_liquidation_ts may be None

VARIABLES
    intents, runtimes, events, phase, cursor, available, touched, transitions, fills,
    config, cash, position_qty, avg_price, realized_pnl, last_price, fill_seq, snapshot,
    refused, history,
    liquidation  \* the fill of the final liquidation, if there was one: a sequence

M == INSTANCE OrderMatching
L == INSTANCE OracleLedger WITH Prices <- Int, Quantities <- Nat \ {0}, MaxFills <- 0

\* What the schema guarantees of the inputs; OracleConfig checks nothing.
ASSUME GoldenAssumption ==
    /\ M!IntentAssumption /\ M!EventAssumption /\ M!BoundAssumption
    /\ {Unit, Limit} \subseteq Nat \ {0} /\ Scales \subseteq Nat \ {0}
    /\ \A c \in Configs : /\ {c.starting_cash, c.fee_rate, c.margin_rate} \subseteq Int
                          /\ c.final_liquidation_ts # None => c.final_liquidation_ts \in Int

matching == <<intents, runtimes, events, phase, cursor, available, touched, transitions, fills>>
ledger == <<config, cash, position_qty, avg_price, realized_pnl, last_price, fill_seq,
            snapshot, refused, history>>
vars == <<matching, ledger, liquidation>>

Init == M!Init /\ L!Init /\ liquidation = <<>>

\* _process_event and _accept_orders, where they book nothing.
Quiet == M!QuietStep /\ UNCHANGED <<ledger, liquidation>>

\* Mutant of Fill: the ledger books the whole event.
FillWholeEvent == /\ M!FillOrder
                  /\ L!ExecuteFill(M!Runtime.intent.side, M!Price, available)
                  /\ UNCHANGED liquidation

Fill == /\ M!FillOrder
        /\ L!ExecuteFill(M!Runtime.intent.side, M!Price, M!Qty)
        /\ UNCHANGED liquidation

\* The ledger has booked the trade when the Fill it builds is refused, or when
\* the snapshot it takes is.
RejectedFill == /\ M!RejectFill
                /\ L!RefuseFill(M!Runtime.intent.side, M!Price, M!Qty)
                /\ UNCHANGED liquidation

RejectedSnapshot == /\ M!RejectSnapshot
                    /\ L!RefuseSnapshot(M!Runtime.intent.side, M!Price, M!Qty)
                    /\ UNCHANGED liquidation

\* run_oracle returns without a final liquidation.  The snapshot it reports of a
\* run without fills is made only now, and refused if the cash is negative.
ReturnOpen ==
    /\ config.final_liquidation_ts = None \/ position_qty = 0
    /\ M!Finish
    /\ phase' = IF L!ValidSnapshot(snapshot) THEN "done" ELSE "raised"
    /\ UNCHANGED <<ledger, liquidation>>

\* The fill that closes the position: its side, and its timestamp.
\* Mutants: a short position is sold too; the timestamp is not the configured one.
ClosingSideSell == "SELL"
ClosingTsZero == 0

ClosingSide == IF position_qty > 0 THEN "SELL" ELSE "BUY"
ClosingTs == config.final_liquidation_ts
ClosingQty == L!Abs(position_qty)

\* _apply_final_liquidation: close the position at the last price it traded at.
Liquidates == config.final_liquidation_ts # None /\ position_qty # 0 /\ M!Finish

Liquidate ==
    /\ Liquidates /\ config.final_liquidation_ts >= 0
    /\ phase' = "done"
    /\ L!ExecuteFill(ClosingSide, last_price, ClosingQty)
    /\ liquidation' = << [side |-> ClosingSide, price |-> last_price,
                          quantity |-> ClosingQty, ts |-> ClosingTs] >>

\* A Fill carries no negative timestamp.  The price and the fee of the fills
\* that opened the position have passed, and so do those of this one.
RefusedLiquidation ==
    /\ Liquidates /\ config.final_liquidation_ts < 0
    /\ phase' = "raised"
    /\ L!Refuse(ClosingSide, last_price, ClosingQty)
    /\ UNCHANGED <<fill_seq, liquidation>>

Terminated == M!Stopped /\ UNCHANGED vars

Next == \/ Quiet \/ Fill \/ RejectedFill \/ RejectedSnapshot
        \/ ReturnOpen \/ Liquidate \/ RefusedLiquidation \/ Terminated

Spec == Init /\ [][Next]_vars

------------------------------------------------------------------------------
\* What the fills of order o did to the position, from the order's own residual.
Executed(o) ==
    L!Signed(runtimes[o].intent.side, runtimes[o].intent.quantity - runtimes[o].remaining)

\* Of intents with distinct ids, the position is what they executed and nothing
\* else, however often it was opened, reduced and flipped, save for the one fill
\* a replay that raises has booked and not executed; a configured liquidation
\* leaves it flat; and the last snapshot reports all but that fill.
PositionReconciles ==
    /\ liquidation = <<>> =>
          position_qty = M!Total([n \in DOMAIN intents |-> Executed(intents[n].order_id)]) + refused
    /\ phase = "done" /\ config.final_liquidation_ts # None => position_qty = 0
    /\ snapshot.quantity = position_qty - refused
    /\ refused # 0 => phase = "raised"

AllFills == [n \in DOMAIN fills |-> fills[n].ts] \o [n \in DOMAIN liquidation |-> liquidation[n].ts]

\* ordering.assert_monotonic accepts the fills (and the ledger snapshots, which
\* carry the same timestamps) of time-ordered input, the liquidation included
\* when its timestamp is not before the last event's.
FillStreamMonotonic ==
    /\ M!TimeOrdered
    /\ liquidation # <<>> =>
          \A m \in DOMAIN events : M!EventTs(events[m]) <= config.final_liquidation_ts
    => \A m, n \in DOMAIN AllFills : m < n => AllFills[m] <= AllFills[n]

\* The position is liquidated "at the last known trade price": that of the
\* last trade replayed, when the run ends on one.
LiquidatesAtLastTradePrice ==
    liquidation # <<>> /\ events[Len(events)].kind = "trade" =>
        liquidation[1].price = events[Len(events)].price

\* While nothing has rounded, what a liquidated run made or lost is exactly its
\* realized PnL less its fees.
LiquidatedEquity ==
    phase = "done" /\ config.final_liquidation_ts # None /\ history.exact =>
        /\ cash = config.starting_cash + realized_pnl - history.fees
        /\ avg_price = 0
==============================================================================
