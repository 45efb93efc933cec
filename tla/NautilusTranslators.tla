------------------------- MODULE NautilusTranslators -------------------------
(***************************************************************************)
(* The translators between the neutral records and the engine's objects    *)
(* (adapters/nautilus/translators.py), one pair of operators per kind of   *)
(* record: what is refused, what becomes of the rest, and the way back.    *)
(*                                                                         *)
(* A decimal is a whole number of units of 10^-Digits, so that a precision *)
(* p admits the multiples of 10^(Digits - p).  What is formatted to a      *)
(* precision, or made Money of, is rounded to it, and what would not be    *)
(* the same afterwards is refused before.  The records other than          *)
(* instruments are of one instrument, whose precisions are constants.      *)
(* Identifiers, the venue and the currency's name, the profile settings    *)
(* the way back does not read, and the engine's limits on how many digits  *)
(* a number may have are left out.                                         *)
(***************************************************************************)
EXTENDS Integers, Sequences

CONSTANTS
    Digits,         \* decimal places of the finest decimal
    PricePrecision, SizePrecision, CurrencyPrecision,
    ContractSizePrecision,  \* that of every futures contract of the engine
    None

ASSUME PrecisionAssumption ==
    /\ Digits \in Nat
    /\ {PricePrecision, SizePrecision, CurrencyPrecision, ContractSizePrecision} \subseteq Nat

-----------------------------------------------------------------------------
(* The neutral records, as their schema admits them (schema/); an          *)
(* instrument has a whole multiplier.                                      *)

Sides == {"BUY", "SELL"}
Optional(T) == T \cup {None}

ASSUME NoneAssumption == None \notin Int \cup Sides

InstrumentSchema ==
    { i \in [asset_class : STRING, is_continuous : BOOLEAN, price_precision : Nat,
             size_precision : Nat, tick_size : Nat \ {0}, tick_value : Nat,
             multiplier : Nat \ {0}, expiry_ts : Optional(Nat), metadata_effective_ts : Nat] :
        ~i.is_continuous /\ i.asset_class \in {"FUTURE", "OPTION"} => i.expiry_ts # None }

TradeSchema ==
    { t \in [price : Nat \ {0}, size : Nat \ {0}, aggressor_side : Optional(Sides),
             exchange_ts : Nat, receive_ts : Nat, sequence : Nat] : t.receive_ts >= t.exchange_ts }

QuoteSchema ==
    { q \in [bid_price : Optional(Int), bid_size : Optional(Int),
             ask_price : Optional(Int), ask_size : Optional(Int),
             exchange_ts : Nat, receive_ts : Nat, sequence : Nat] :
        /\ q.receive_ts >= q.exchange_ts
        /\ q.bid_price # None \/ q.ask_price # None
        /\ q.bid_price = None <=> q.bid_size = None
        /\ q.ask_price = None <=> q.ask_size = None }

DeltaSchema ==
    { d \in [action : {"ADD", "UPDATE", "DELETE"}, side : Sides, price : Int, size : Nat, level : Nat,
             sequence : Nat, exchange_ts : Nat, receive_ts : Nat] :
        d.receive_ts >= d.exchange_ts /\ (d.size = 0 => d.action = "DELETE") }

OrderSchema ==
    { o \in [order_id : STRING, side : Sides, order_type : {"MARKET", "LIMIT", "STOP", "STOP_LIMIT"},
             time_in_force : {"DAY", "GTC", "IOC", "FOK", "GTD"}, quantity : Nat \ {0},
             limit_price : Optional(Int), stop_price : Optional(Int), expiry_ts : Optional(Nat),
             created_ts : Nat, sequence : Nat,
             linked_order_id : Optional(STRING), oco_group_id : Optional(STRING)] :
        /\ o.order_type \in {"LIMIT", "STOP_LIMIT"} <=> o.limit_price # None
        /\ o.order_type \in {"STOP", "STOP_LIMIT"} <=> o.stop_price # None
        /\ o.time_in_force = "GTD" <=> o.expiry_ts # None }

FillSchema ==
    [fill_id : STRING, order_id : STRING, side : Sides, quantity : Nat \ {0}, price : Nat \ {0},
     fee : Nat, liquidity : {"MAKER", "TAKER", "UNKNOWN"}, ts : Nat, sequence : Nat,
     slippage : Optional(Int), queue_position : Optional(Nat), provenance : STRING]

\* A stamp is a time and a sequence number; the pnl, realized and unrealized,
\* and the value of a position, its quantity and average price.
LedgerSchema ==
    [cash : Int, used_margin : Nat, available_margin : Nat, pnl : Int \X Int,
     positions : Seq([value : Int \X Nat, stamp : Nat]), stamp : Nat]

-----------------------------------------------------------------------------
(* Precision.                                                              *)

\* quantize, as format and the engine's Money do it: half to even.
Quantized(value, precision) ==
    LET quantum == 10 ^ (IF precision < Digits THEN Digits - precision ELSE 0)
        below == value \div quantum
        twice == 2 * (value % quantum)
        up == twice > quantum \/ (twice = quantum /\ below % 2 = 1)
    IN (IF up THEN below + 1 ELSE below) * quantum

\* Mutant of Fits: what does not fit is rounded instead of being refused.
FitsRounded(value, precision) == TRUE

\* decimal_to_fixed refuses what it would round.
Fits(value, precision) == value = Quantized(value, precision)
PriceFits(value) == Fits(value, PricePrecision)
SizeFits(value) == Fits(value, SizePrecision)
MoneyFits(value) == Fits(value, CurrencyPrecision)

Price(value) == Quantized(value, PricePrecision)
Quantity(value) == Quantized(value, SizePrecision)
Money(value) == Quantized(value, CurrencyPrecision)

-----------------------------------------------------------------------------
(* Instruments.                                                            *)

InstrumentRefused(i, lot_size) ==
    \/ i.is_continuous
    \/ i.asset_class # "FUTURE"
    \/ i.expiry_ts = None
    \/ i.tick_value # i.tick_size * i.multiplier
    \/ ~Fits(i.tick_size, i.price_precision)
    \/ ~Fits(lot_size, i.size_precision)

\* The size precision is not handed over: the engine's contract has its own.
ToInstrument(i) ==
    [price_precision |-> i.price_precision, size_precision |-> ContractSizePrecision,
     price_increment |-> Quantized(i.tick_size, i.price_precision), multiplier |-> i.multiplier,
     expiration_ns |-> i.expiry_ts, activation_ns |-> i.metadata_effective_ts,
     info |-> [neutral_tick_value |-> i.tick_value]]

FromInstrument(n) ==
    [asset_class |-> "FUTURE", is_continuous |-> FALSE,
     price_precision |-> n.price_precision, size_precision |-> n.size_precision,
     tick_size |-> n.price_increment, tick_value |-> n.info.neutral_tick_value,
     multiplier |-> n.multiplier,
     expiry_ts |-> n.expiration_ns, metadata_effective_ts |-> n.activation_ns]

-----------------------------------------------------------------------------
(* Market data.  A neutral trade's sequence travels as the trade's id; a    *)
(* quote's does not travel, and the caller of the way back supplies it.     *)

\* None stands for a side that is not known, on both ways.
NativeAggressor == [BUY |-> "BUYER", SELL |-> "SELLER"]
ToAggressor(side) == IF side = None THEN "NO_AGGRESSOR" ELSE NativeAggressor[side]
FromAggressor(name) ==
    IF \E side \in DOMAIN NativeAggressor : NativeAggressor[side] = name
    THEN CHOOSE side \in DOMAIN NativeAggressor : NativeAggressor[side] = name
    ELSE None

TradeRefused(t) == ~PriceFits(t.price) \/ ~SizeFits(t.size)

ToTrade(t) ==
    [price |-> Price(t.price), size |-> Quantity(t.size), trade_id |-> t.sequence,
     aggressor_side |-> ToAggressor(t.aggressor_side),
     ts_event |-> t.exchange_ts, ts_init |-> t.receive_ts]

FromTrade(n) ==
    [price |-> n.price, size |-> n.size, sequence |-> n.trade_id,
     aggressor_side |-> FromAggressor(n.aggressor_side),
     exchange_ts |-> n.ts_event, receive_ts |-> n.ts_init]

QuoteRefused(q) ==
    \/ None \in {q.bid_price, q.bid_size, q.ask_price, q.ask_size}
    \/ ~PriceFits(q.bid_price) \/ ~PriceFits(q.ask_price)
    \/ ~SizeFits(q.bid_size) \/ ~SizeFits(q.ask_size)

ToQuote(q) ==
    [bid_price |-> Price(q.bid_price), bid_size |-> Quantity(q.bid_size),
     ask_price |-> Price(q.ask_price), ask_size |-> Quantity(q.ask_size),
     ts_event |-> q.exchange_ts, ts_init |-> q.receive_ts]

FromQuote(n, sequence) ==
    [bid_price |-> n.bid_price, bid_size |-> n.bid_size,
     ask_price |-> n.ask_price, ask_size |-> n.ask_size, sequence |-> sequence,
     exchange_ts |-> n.ts_event, receive_ts |-> n.ts_init]

DeltaRefused(d) == ~PriceFits(d.price) \/ ~SizeFits(d.size)

ToBookDelta(d) ==
    [action |-> d.action, order |-> [side |-> d.side, price |-> Price(d.price),
                                     size |-> Quantity(d.size), order_id |-> d.level],
     sequence |-> d.sequence, ts_event |-> d.exchange_ts, ts_init |-> d.receive_ts]

\* The engine knows a CLEAR as well, deltas without a side, and zero sizes
\* and times that BookDelta's own checks refuse.
NativeDeltaRefused(n) ==
    \/ n.action \notin {"ADD", "UPDATE", "DELETE"}
    \/ n.order.side \notin Sides
    \/ n.order.size < 0
    \/ n.order.size = 0 /\ n.action # "DELETE"
    \/ n.ts_init < n.ts_event

FromBookDelta(n) ==
    [action |-> n.action, side |-> n.order.side, price |-> n.order.price,
     size |-> n.order.size, level |-> n.order.order_id,
     sequence |-> n.sequence, exchange_ts |-> n.ts_event, receive_ts |-> n.ts_init]

-----------------------------------------------------------------------------
(* Orders and fills.                                                       *)

OrderRefused(o) ==
    \/ o.linked_order_id # None
    \/ o.oco_group_id # None
    \/ ~SizeFits(o.quantity)
    \/ o.order_type = "MARKET" /\ o.time_in_force = "GTD"
    \/ o.limit_price # None /\ ~PriceFits(o.limit_price)
    \/ o.stop_price # None /\ ~PriceFits(o.stop_price)

NativeOrder == [MARKET |-> "MarketOrder", LIMIT |-> "LimitOrder",
                STOP |-> "StopMarketOrder", STOP_LIMIT |-> "StopLimitOrder"]
NeutralOrder == [MarketOrder |-> "MARKET", LimitOrder |-> "LIMIT",
                 StopMarketOrder |-> "STOP", StopLimitOrder |-> "STOP_LIMIT"]

ToOrder(o) ==
    [type |-> NativeOrder[o.order_type], client_order_id |-> o.order_id, side |-> o.side,
     quantity |-> Quantity(o.quantity), time_in_force |-> o.time_in_force,
     expire_time_ns |-> IF o.time_in_force = "GTD" THEN o.expiry_ts ELSE 0,
     price |-> IF o.limit_price = None THEN None ELSE Price(o.limit_price),
     trigger_price |-> IF o.stop_price = None THEN None ELSE Price(o.stop_price), ts_init |-> o.created_ts]

FromOrder(n, sequence) ==
    [order_type |-> NeutralOrder[n.type], order_id |-> n.client_order_id, side |-> n.side,
     quantity |-> n.quantity, time_in_force |-> n.time_in_force,
     expiry_ts |-> IF n.time_in_force = "GTD" THEN n.expire_time_ns ELSE None,
     limit_price |-> n.price, stop_price |-> n.trigger_price, created_ts |-> n.ts_init,
     sequence |-> sequence, linked_order_id |-> None, oco_group_id |-> None]

ToLiquidity == [MAKER |-> "MAKER", TAKER |-> "TAKER", UNKNOWN |-> "NO_LIQUIDITY_SIDE"]
FromLiquidity == [MAKER |-> "MAKER", TAKER |-> "TAKER", NO_LIQUIDITY_SIDE |-> "UNKNOWN"]

FillRefused(f) == ~MoneyFits(f.fee) \/ ~SizeFits(f.quantity) \/ ~PriceFits(f.price)

ToFill(f) ==
    [trade_id |-> f.fill_id, client_order_id |-> f.order_id, order_side |-> f.side,
     last_qty |-> Quantity(f.quantity), last_px |-> Price(f.price), commission |-> Money(f.fee),
     liquidity_side |-> ToLiquidity[f.liquidity], ts_event |-> f.ts]

\* Fill's own checks (schema/fills.py), on what the engine reports.
NativeFillRefused(n) == n.last_px <= 0 \/ n.last_qty <= 0 \/ n.commission < 0

FromFill(n, sequence) ==
    [fill_id |-> n.trade_id, order_id |-> n.client_order_id, side |-> n.order_side,
     quantity |-> n.last_qty, price |-> n.last_px, fee |-> n.commission,
     liquidity |-> FromLiquidity[n.liquidity_side], ts |-> n.ts_event, sequence |-> sequence,
     slippage |-> None, queue_position |-> None, provenance |-> "nautilus"]

-----------------------------------------------------------------------------
(* Ledger snapshots: the account's balances, and a boundary record of the  *)
(* neutral values they are checked against on the way back.  Only the      *)
(* snapshot's own stamp travels, not those of its parts.                   *)

LedgerRefused(l, maintenance) ==
    \/ Len(l.positions) # 1
    \/ maintenance < 0
    \/ ~MoneyFits(l.cash) \/ ~MoneyFits(l.used_margin) \/ ~MoneyFits(l.available_margin)
    \/ ~MoneyFits(maintenance)

ToLedger(l) ==
    [total |-> Money(l.cash), locked |-> Money(l.used_margin), free |-> Money(l.available_margin),
     boundary |-> [cash |-> l.cash, used_margin |-> l.used_margin,
                   available_margin |-> l.available_margin, pnl |-> l.pnl,
                   position |-> l.positions[1].value, stamp |-> l.stamp]]

LedgerChanged(n) ==
    \/ n.total # n.boundary.cash
    \/ n.locked # n.boundary.used_margin
    \/ n.free # n.boundary.available_margin

FromLedger(n) ==
    [cash |-> n.boundary.cash, used_margin |-> n.boundary.used_margin,
     available_margin |-> n.boundary.available_margin, pnl |-> n.boundary.pnl,
     positions |-> << [value |-> n.boundary.position, stamp |-> n.boundary.stamp] >>,
     stamp |-> n.boundary.stamp]
==============================================================================
