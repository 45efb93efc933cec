----------------------------- MODULE OracleLedger -----------------------------
(***************************************************************************)
(* The golden oracle's ledger (golden/oracle.py, _Ledger): cash, position, *)
(* weighted-average price and realized PnL, updated by every fill.  The    *)
(* Fill and the snapshot a fill produces are pydantic models: one that     *)
(* their validators refuse raises out of run_oracle, half way through.     *)
(*                                                                         *)
(* Decimal arithmetic is exact up to the context's precision (28 digits by *)
(* default) and rounds half to even beyond it.  Prices and quantities are  *)
(* whole numbers here; amounts and rates are whole numbers of ulps, Unit   *)
(* ulps to 1.  Every operation of the code that may round goes through     *)
(* Rounded, with a precision small enough for TLC to reach its limit.      *)
(***************************************************************************)
EXTENDS Integers

CONSTANTS
    Unit,          \* ulps in 1: the decimals an average price of at least 1 keeps
    Limit,         \* coefficients stay below this power of ten (10^28 in the code)
    Scales,        \* the powers of ten a large result may be a multiple of
    Configs,             \* the OracleConfigs of a run, amounts and rates in ulps
    Prices, Quantities,  \* what a fill may trade
    MaxFills             \* bound on the number of fills

\* OracleConfig checks nothing: cash and rates may be negative.  Neither does
\* OrderIntent check the prices a fill may take.
ASSUME LedgerAssumption ==
    /\ {Unit, Limit} \subseteq Nat \ {0} /\ Scales \subseteq Nat \ {0}
    /\ \A c \in Configs : {c.starting_cash, c.fee_rate, c.margin_rate} \subseteq Int
    /\ Prices \subseteq Int /\ Quantities \subseteq Nat \ {0}
    /\ MaxFills \in Nat

VARIABLES
    config,     \* the caller's OracleConfig
    cash, position_qty, avg_price, realized_pnl, last_price,
    fill_seq,   \* number of fills executed
    snapshot,   \* the last of ledger_snapshots
    refused,    \* the signed quantity of a fill that was booked and then refused,
                \* which ends the replay; 0 until then
    history     \* for the properties only: fees paid, whether an operation ever
                \* rounded, and the price range of the position's opening trades

vars == <<config, cash, position_qty, avg_price, realized_pnl, last_price,
          fill_seq, snapshot, refused, history>>

------------------------------------------------------------------------------
Abs(n) == IF n < 0 THEN -n ELSE n

\* n/d to the nearest whole number, ties to even.
HalfEven(n, d) ==
    LET q == n \div d
        r == n % d
    IN  IF 2 * r < d \/ (2 * r = d /\ q % 2 = 0) THEN q ELSE q + 1

\* The finest scale on which n/d has a coefficient below Limit.
Scale(n, d) == CHOOSE s \in Scales :
                  /\ Abs(n) \div (d * s) < Limit
                  /\ \A t \in Scales : Abs(n) \div (d * t) < Limit => s <= t

\* n/d as a Decimal of the context's precision.
Rounded(n, d) == LET s == Scale(n, d) IN s * HalfEven(n, d * s)

------------------------------------------------------------------------------
\* The amounts of a fill of qty at price: the notional value and the fee.
Notional(price, qty) == Rounded(price * qty * Unit, 1)
Fee(price, qty) == Rounded(Notional(price, qty) * config.fee_rate, Unit)

\* How much cash it moves.
Flow(side, price, qty) ==
    LET fee == Fee(price, qty)
    IN  IF side = "BUY" THEN Rounded(-Notional(price, qty) - fee, 1)
                        ELSE Rounded(Notional(price, qty) - fee, 1)

Signed(side, qty) == IF side = "BUY" THEN qty ELSE -qty

Extends(delta) == position_qty = 0 \/ (position_qty > 0) = (delta > 0)

Flips(delta) == Abs(delta) > Abs(position_qty)

\* The cost of the position once qty more is bought (sold) at price.
\* Mutant: the new lot counts as one unit.
CostOfOne(price, qty) == Rounded(avg_price * Abs(position_qty) + price * Unit, 1)

Cost(price, qty) == Rounded(Rounded(avg_price * Abs(position_qty), 1) + Notional(price, qty), 1)

\* The gain of each unit closed at price, on a long position.
Gain(price) == Rounded(price * Unit - avg_price, 1)

\* How much of the position a fill closes, and the sign of its gains.
\* Mutants: a flip closes more than there is; a short gains like a long.
ClosingAll(delta) == Abs(delta)
DirectionLong == 1

Closing(delta) == IF Flips(delta) THEN Abs(position_qty) ELSE Abs(delta)

Direction == IF position_qty > 0 THEN 1 ELSE -1

\* _apply_position_delta.
ApplyPositionDelta(price, delta) ==
    /\ position_qty' = position_qty + delta
    /\ IF Extends(delta)
       THEN /\ avg_price' = IF position_qty = 0 THEN price * Unit
                            ELSE Rounded(Cost(price, Abs(delta)), Abs(position_qty'))
            /\ UNCHANGED realized_pnl
       ELSE /\ realized_pnl' = Rounded(realized_pnl +
                    Rounded(Gain(price) * Closing(delta), 1) * Direction, 1)
            /\ avg_price' = IF Flips(delta) THEN price * Unit
                            ELSE IF position_qty' = 0 THEN 0 ELSE avg_price

\* _append_ledger_snapshot, of the state after the fill.
UsedMargin(qty, last) == 
    Rounded(Rounded(Abs(qty) * last * Unit, 1) * config.margin_rate, Unit)

\* Mutant of Available: not clamped at zero.
AvailableRaw(c, used) == Rounded(c - used, 1)

Available(c, used) == IF Rounded(c - used, 1) < 0 THEN 0 ELSE Rounded(c - used, 1)

SnapshotOf(c, qty, avg, realized, last) ==
    [cash |-> c, quantity |-> qty, average_price |-> IF qty = 0 THEN 0 ELSE avg,
     used_margin |-> UsedMargin(qty, last),
     available_margin |-> Available(c, UsedMargin(qty, last)),
     realized_pnl |-> realized,
     unrealized_pnl |-> Rounded(Rounded(last * Unit - avg, 1) * qty, 1)]

\* The schema's validators.
ValidFill(price, qty) == price > 0 /\ Fee(price, qty) >= 0

ValidSnapshot(s) == s.average_price >= 0 /\ s.used_margin >= 0 /\ s.available_margin >= 0

------------------------------------------------------------------------------
\* No operation of this fill rounded, except into a snapshot.
ExactFill(side, price, qty) ==
    LET delta == Signed(side, qty)
        notional == Notional(price, qty)
        fee == Fee(price, qty)
        flow == Flow(side, price, qty)
        cost == Cost(price, qty)
    IN  /\ notional = price * qty * Unit
        /\ fee \in Int /\ fee * Unit = notional * config.fee_rate
        /\ flow = (IF side = "BUY" THEN -notional - fee ELSE notional - fee)
        /\ cash' = cash + flow
        /\ IF Extends(delta)
           THEN position_qty # 0 =>
                    /\ cost = avg_price * Abs(position_qty) + notional
                    /\ avg_price' \in Int /\ avg_price' * Abs(position_qty') = cost
           ELSE realized_pnl' = realized_pnl
                    + (price * Unit - avg_price) * Closing(delta) * Direction

Lower(a, b) == IF a < b THEN a ELSE b
Upper(a, b) == IF a < b THEN b ELSE a

RecordHistory(side, price, qty) ==
    LET delta == Signed(side, qty)
        opens == position_qty = 0 \/ (~Extends(delta) /\ Flips(delta))
    IN  history' =
            [fees  |-> history.fees + Fee(price, qty),
             exact |-> history.exact /\ ExactFill(side, price, qty),
             low   |-> IF opens THEN price ELSE
                       IF Extends(delta) THEN Lower(history.low, price) ELSE history.low,
             high  |-> IF opens THEN price ELSE
                       IF Extends(delta) THEN Upper(history.high, price) ELSE history.high]

\* execute_fill up to the Fill it constructs.
Book(side, price, qty) ==
    /\ ApplyPositionDelta(price, Signed(side, qty))
    /\ cash' = Rounded(cash + Flow(side, price, qty), 1)
    /\ last_price' = price

ExecuteFill(side, price, qty) ==
    /\ ValidFill(price, qty)
    /\ Book(side, price, qty)
    /\ fill_seq' = fill_seq + 1
    /\ snapshot' = SnapshotOf(cash', position_qty', avg_price', realized_pnl', last_price')
    /\ ValidSnapshot(snapshot')
    /\ RecordHistory(side, price, qty)
    /\ UNCHANGED <<config, refused>>

\* The ledger has booked the fill when one of its records is refused.
Refuse(side, price, qty) ==
    /\ Book(side, price, qty)
    /\ refused' = Signed(side, qty)
    /\ UNCHANGED <<config, snapshot, history>>

RefuseFill(side, price, qty) ==
    /\ ~ValidFill(price, qty)
    /\ Refuse(side, price, qty)
    /\ UNCHANGED fill_seq

RefuseSnapshot(side, price, qty) ==
    /\ ValidFill(price, qty)
    /\ Refuse(side, price, qty)
    /\ fill_seq' = fill_seq + 1
    /\ ~ValidSnapshot(SnapshotOf(cash', position_qty', avg_price', realized_pnl', last_price'))

Init == /\ config \in Configs
        /\ cash = config.starting_cash
        /\ position_qty = 0 /\ avg_price = 0 /\ realized_pnl = 0 /\ last_price = 0
        /\ fill_seq = 0 /\ refused = 0
        \* _zero_ledger_snapshot, which reports a run without fills
        /\ snapshot = [cash |-> config.starting_cash, quantity |-> 0, average_price |-> 0,
                       used_margin |-> 0, available_margin |-> config.starting_cash,
                       realized_pnl |-> 0, unrealized_pnl |-> 0]
        /\ history = [fees |-> 0, exact |-> TRUE, low |-> 0, high |-> 0]

Trade(side, price, qty) == \/ ExecuteFill(side, price, qty)
                           \/ RefuseFill(side, price, qty)
                           \/ RefuseSnapshot(side, price, qty)

Next == /\ refused = 0 /\ fill_seq < MaxFills
        /\ \E side \in {"BUY", "SELL"}, price \in Prices, qty \in Quantities :
               Trade(side, price, qty)

Spec == Init /\ [][Next]_vars

------------------------------------------------------------------------------
\* Double-entry check over any sequence of opening, adding, reducing and
\* flipping fills: while no operation has rounded, cash plus the position at
\* cost is the starting cash plus realized PnL less fees, to the last ulp.
BookBalances ==
    refused = 0 /\ history.exact =>
        cash + avg_price * position_qty = config.starting_cash + realized_pnl - history.fees

\* However partial closes and re-entries interleave, the average price stays
\* within the prices of the trades that built the open position, rounding
\* included, and a flat position carries no cost from the one before it.
AverageWithinRange ==
    refused = 0 =>
        IF position_qty = 0 THEN avg_price = 0
        ELSE history.low * Unit <= avg_price /\ avg_price <= history.high * Unit

\* What stops a replay half way: a fill at a price that is not positive, or a
\* negative rate, which OracleConfig takes and the first fill or its snapshot
\* is refused for.  Nothing else does, however the fills before it open, flip
\* and round the position and however far cash falls below the margin used: an
\* accepted first fill is proof that the rates are sound.
RefusedForCause ==
    refused # 0 =>
        \/ last_price <= 0
        \/ config.fee_rate < 0 /\ fill_seq = 0
        \/ config.margin_rate < 0 /\ fill_seq = 1

\* A fill that only reduces the position leaves its cost per unit alone and
\* realizes a gain exactly when it trades on the right side of that cost.
ReductionRealizes ==
    [][ /\ position_qty' # position_qty /\ position_qty * position_qty' >= 0
        /\ Abs(position_qty') < Abs(position_qty)
        => /\ position_qty' # 0 => avg_price' = avg_price
           /\ LET better == (last_price' * Unit - avg_price) * position_qty
              IN  /\ better > 0 => realized_pnl' >= realized_pnl
                  /\ better < 0 => realized_pnl' <= realized_pnl
                  /\ better = 0 => realized_pnl' = realized_pnl ]_vars
==============================================================================
