------------------------------ MODULE TrialReplay ------------------------------
(***************************************************************************)
(* The replay of one screening trial (adapters/vectorbt/metrics.py): its   *)
(* signals are bound to the events they execute at (build_execution_plan), *)
(* then a long-only position of fixed size is entered and left event by    *)
(* event (recompute_metrics).  These numbers, not the engine's, are what a *)
(* trial reports.                                                          *)
(*                                                                         *)
(* Prices, the order size, the initial cash and the fixed fee are whole    *)
(* numbers, rates are counts of 1/Unit and amounts of money of 1/One:      *)
(* sums and products are then exact, as the code's are while they fit the  *)
(* Decimal context.  A ratio is kept as its numerator and denominator.     *)
(***************************************************************************)
EXTENDS Integers, Sequences, FiniteSetsExt

CONSTANTS
    Dataset,   \* ScreeningDataset.events: records of event_ts and price
    Unit, InitialCash, OrderSize, FeeRate, FixedFee, SlippageRate  \* ScreeningCosts

Rows == DOMAIN Dataset

\* What the models' validators guarantee.
ASSUME DatasetAssumption ==
    /\ Dataset \in Seq([event_ts : Nat, price : Nat \ {0}]) /\ Dataset # <<>>
    /\ \A r, s \in Rows : r < s => Dataset[r].event_ts < Dataset[s].event_ts
    /\ {Unit, InitialCash, OrderSize} \subseteq Nat \ {0}
    /\ {FeeRate, FixedFee, SlippageRate} \subseteq Nat /\ SlippageRate < Unit

VARIABLES
    stage,     \* "idle", "running", or how the replay ended: "ok", "refused"
    plan,      \* row of the dataset -> the action to execute there
    row,       \* the next row
    cash, position, peak_equity, total_cost, traded_notional, trade_count,
    max_drawdown,  \* a ratio
    equities       \* for the properties only: the equity at each row so far

trial == <<stage, plan, row, cash, position, peak_equity, total_cost, traded_notional,
           trade_count, max_drawdown, equities>>

One == Unit * Unit
Price(r) == Dataset[r].price
Ts(r) == Dataset[r].event_ts

------------------------------------------------------------------------------
\* The rows after a timestamp; bisect_right finds the first of them.
After(ts) == {r \in Rows : Ts(r) > ts}

\* Mutant of Binds: the signal may execute at a later event.
BindsLate(s) == /\ \E r \in Rows : Ts(r) = s.computed_at_ts
                /\ \E r \in After(s.available_at_ts) : Ts(r) = s.execution_ts

\* build_execution_plan accepts the signal: it was computed at an event and
\* executes at the first one after it was available.
Binds(s) == /\ \E r \in Rows : Ts(r) = s.computed_at_ts
            /\ After(s.available_at_ts) # {}
            /\ Ts(Min(After(s.available_at_ts))) = s.execution_ts

At(signals, r) == {s \in signals : s.execution_ts = Ts(r)}

PlanOf(signals) == [r \in {q \in Rows : At(signals, q) # {}} |->
                        (CHOOSE s \in At(signals, r) : TRUE).action]

InitTrial == /\ stage = "idle" /\ plan = <<>> /\ row = 1
             /\ cash = InitialCash * One /\ position = 0 /\ peak_equity = InitialCash * One
             /\ total_cost = 0 /\ traded_notional = 0 /\ trade_count = 0
             /\ max_drawdown = [num |-> 0, den |-> 1] /\ equities = <<>>

\* Mutant of Reset: what an earlier replay cost is carried over.
ResetNotCosts == /\ row' = 1 /\ cash' = InitialCash * One /\ position' = 0
                 /\ peak_equity' = InitialCash * One
                 /\ traded_notional' = 0 /\ trade_count' = 0
                 /\ max_drawdown' = [num |-> 0, den |-> 1] /\ equities' = <<>>
                 /\ UNCHANGED total_cost

\* The locals of recompute_metrics before its loop.
Reset == /\ row' = 1 /\ cash' = InitialCash * One /\ position' = 0
         /\ peak_equity' = InitialCash * One
         /\ total_cost' = 0 /\ traded_notional' = 0 /\ trade_count' = 0
         /\ max_drawdown' = [num |-> 0, den |-> 1] /\ equities' = <<>>

Start(signals) ==
    /\ stage = "idle" /\ \A s \in signals : Binds(s)
    /\ stage' = "running" /\ plan' = PlanOf(signals)
    /\ Reset

RefusePlan(signals) ==
    /\ stage = "idle" /\ \E s \in signals : ~Binds(s)
    /\ stage' = "refused"
    /\ UNCHANGED <<plan, row, cash, position, peak_equity, total_cost, traded_notional,
                   trade_count, max_drawdown, equities>>

------------------------------------------------------------------------------
AtRow == stage = "running" /\ row \in Rows

Action == IF row \in DOMAIN plan THEN plan[row] ELSE "hold"

\* Execution prices, in 1/Unit: slippage is always adverse.
EntryPrice == Price(row) * (Unit + SlippageRate)
ExitPrice == Price(row) * (Unit - SlippageRate)

\* The value of quantity q at price p (in 1/Unit), and its fee.
Notional(p, q) == p * q * Unit
Fee(p, q) == p * q * FeeRate + FixedFee * One

Less(a, b) == a.num * b.den < b.num * a.den

\* Mutant of Peak: the peak follows the equity down.
PeakForgotten(equity) == equity

Peak(equity) == IF equity > peak_equity THEN equity ELSE peak_equity

\* The end of every iteration: equity at this event's price, peak, drawdown.
MarkToMarket ==
    LET equity == cash' + position' * Price(row) * One
        drop == [num |-> peak_equity - equity, den |-> peak_equity]
    IN  /\ equities' = Append(equities, equity)
        /\ peak_equity' = Peak(equity)
        /\ max_drawdown' = IF equity <= peak_equity /\ peak_equity > 0 /\ Less(max_drawdown, drop)
                           THEN drop ELSE max_drawdown
        /\ row' = row + 1
        /\ UNCHANGED <<stage, plan>>

Enter ==
    /\ AtRow /\ Action = "enter_long" /\ position = 0
    /\ Notional(EntryPrice, OrderSize) + Fee(EntryPrice, OrderSize) <= cash
    /\ cash' = cash - Notional(EntryPrice, OrderSize) - Fee(EntryPrice, OrderSize)
    /\ position' = OrderSize
    /\ total_cost' = total_cost + (EntryPrice - Price(row) * Unit) * OrderSize * Unit
                        + Fee(EntryPrice, OrderSize)
    /\ traded_notional' = traded_notional + Notional(EntryPrice, OrderSize)
    /\ trade_count' = trade_count + 1
    /\ MarkToMarket

Exit ==
    /\ AtRow /\ Action = "exit_long" /\ position # 0
    /\ cash' = cash + Notional(ExitPrice, position) - Fee(ExitPrice, position)
    /\ position' = 0
    /\ total_cost' = total_cost + (Price(row) * Unit - ExitPrice) * position * Unit
                        + Fee(ExitPrice, position)
    /\ traded_notional' = traded_notional + Notional(ExitPrice, position)
    /\ trade_count' = trade_count + 1
    /\ MarkToMarket

Hold ==
    /\ AtRow /\ Action = "hold"
    /\ UNCHANGED <<cash, position, total_cost, traded_notional, trade_count>>
    /\ MarkToMarket

\* enter_long while long or without the cash for it, exit_long while flat.
Refuse ==
    /\ AtRow
    /\ \/ /\ Action = "enter_long"
          /\ \/ position # 0
             \/ Notional(EntryPrice, OrderSize) + Fee(EntryPrice, OrderSize) > cash
       \/ Action = "exit_long" /\ position = 0
    /\ stage' = "refused"
    /\ UNCHANGED <<plan, row, cash, position, peak_equity, total_cost, traded_notional,
                   trade_count, max_drawdown, equities>>

Finish ==
    /\ stage = "running" /\ row \notin Rows
    /\ stage' = "ok"
    /\ UNCHANGED <<plan, row, cash, position, peak_equity, total_cost, traded_notional,
                   trade_count, max_drawdown, equities>>

ReplayStep == Enter \/ Exit \/ Hold \/ Refuse \/ Finish

\* The caller has taken the metrics, or the refusal.
Release ==
    /\ stage \in {"ok", "refused"}
    /\ stage' = "idle"
    /\ UNCHANGED <<plan, row, cash, position, peak_equity, total_cost, traded_notional,
                   trade_count, max_drawdown, equities>>

FinalEquity == cash + position * Price(Len(Dataset)) * One

\* ScreeningMetrics; total_return and turnover are ratios to the initial cash.
Metrics == [final_equity |-> FinalEquity, net_profit |-> FinalEquity - InitialCash * One,
            turnover |-> traded_notional, max_drawdown |-> max_drawdown,
            total_cost |-> total_cost, trade_count |-> trade_count]

------------------------------------------------------------------------------
(***************************************************************************)
(* Properties of the replay of one trial, between any two events.          *)
(***************************************************************************)
Replaying == stage \in {"running", "ok"}

\* What the actions of one kind, planned for the first r rows, move at the
\* events' own prices.
Value(action, r) ==
    LET value[q \in 0 .. Len(Dataset)] ==
            IF q = 0 THEN 0
            ELSE value[q - 1] + (IF q \in DOMAIN plan /\ plan[q] = action
                                 THEN Price(q) * OrderSize * One ELSE 0)
    IN  value[r]

\* Double entry: what the trades at the events' own prices would have made,
\* less the reported cost, is what the cash shows, however often the position
\* was entered and left.
CostsExplainProfit ==
    Replaying => cash = InitialCash * One + Value("exit_long", row - 1)
                            - Value("enter_long", row - 1) - total_cost

\* The equities so far, the initial cash before them.
History == <<InitialCash * One>> \o equities

Drop(m, n) == [num |-> m - n, den |-> m]

\* An earlier equity a fall is measured from: a positive one; once the equity is
\* negative (an exit's fixed fee may exceed its proceeds), the highest so far,
\* as the same fall is then a larger share of a lower one.
FallsFrom(i, j) == /\ i < j /\ History[i] > 0
                   /\ History[j] < 0 => \A k \in 1 .. j - 1 : History[k] <= History[i]

\* The drawdown reported is the largest fall from an earlier equity (the initial
\* cash included) to a later one, as a share of it: no fall is missed when a new
\* peak follows, none is invented.
DrawdownExact ==
    Replaying =>
        /\ \A i, j \in DOMAIN History :
               FallsFrom(i, j) => ~Less(max_drawdown, Drop(History[i], History[j]))
        /\ \/ max_drawdown.num = 0
           \/ \E i, j \in DOMAIN History :
                  FallsFrom(i, j) /\ max_drawdown = Drop(History[i], History[j])
==============================================================================
