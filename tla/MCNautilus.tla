------------------------------ MODULE MCNautilus ------------------------------
(***************************************************************************)
(* Requests, records and streams small enough to try all of.  Decimals are *)
(* tenths: prices have one decimal, sizes and money none.                  *)
(***************************************************************************)
EXTENDS NautilusAdapter

Instrument == [asset_class |-> "FUTURE", is_continuous |-> FALSE,
               price_precision |-> 1, size_precision |-> 0, tick_size |-> 1,
               tick_value |-> 100, multiplier |-> 100, expiry_ts |-> 9,
               metadata_effective_ts |-> 0]

Trade(price, size, exchange, receive, sequence) ==
    [price |-> price, size |-> size, aggressor_side |-> None,
     exchange_ts |-> exchange, receive_ts |-> receive, sequence |-> sequence]

Order(id, type, tif, sequence) ==
    [order_id |-> id, order_type |-> type, time_in_force |-> tif, side |-> "BUY",
     quantity |-> 10, limit_price |-> IF type \in {"LIMIT", "STOP_LIMIT"} THEN 15 ELSE None,
     stop_price |-> IF type \in {"STOP", "STOP_LIMIT"} THEN 12 ELSE None,
     expiry_ts |-> IF tif = "GTD" THEN 5 ELSE None, created_ts |-> 2, sequence |-> sequence,
     linked_order_id |-> None, oco_group_id |-> None]

Fill(id, price, fee, ts) ==
    [type |-> "OrderFilled", trade_id |-> id, client_order_id |-> "a", order_side |-> "BUY",
     last_qty |-> 10, last_px |-> price, commission |-> fee, liquidity_side |-> "TAKER",
     ts_event |-> ts]

NativeReports == { Fill("t1", 15, 80, 1), Fill("t2", 15, 80, 3), [type |-> "OrderAccepted"] }
               \cup { Fill("t3", 0, 80, 3) }
OraclesFills == { [FromFill(Fill("f1", 15, 80, 1), 0) EXCEPT !.provenance = "oracle"],
                  [FromFill(Fill("f2", 15, 90, 3), 0) EXCEPT !.provenance = "oracle"] }

Trades == { Trade(15, 10, 1, 1, 1), Trade(15, 10, 1, 2, 2), Trade(16, 20, 2, 2, 0),
            Trade(16, 20, 1, 1, 2), Trade(15, 5, 2, 3, 3) }
Orders == { Order("a", "LIMIT", "GTC", 1), Order("b", "STOP_LIMIT", "GTD", 0),
            Order("c", "MARKET", "GTD", 2) }

Upto(n, S) == UNION { [1 .. m -> S] : m \in 0 .. n }

Sessions ==
    { [kind |-> "session", instrument |-> Instrument, lot_size |-> 10, latency |-> 1,
       orders |-> os, events |-> es] :
        os \in Upto(2, Orders) , es \in Upto(3, Trades) }

Conversion(kind, record) ==
    [kind |-> "convert", record_kind |-> kind, record |-> record, sequence |-> 7,
     lot_size |-> 10, maintenance |-> 10]

Instruments == { Instrument, [Instrument EXCEPT !.tick_value = 99],
                 [Instrument EXCEPT !.is_continuous = TRUE, !.expiry_ts = None],
                 [Instrument EXCEPT !.asset_class = "EQUITY"] }
               \cup { [Instrument EXCEPT !.price_precision = pp, !.size_precision = sp] :
                         pp \in 0 .. 2, sp \in 0 .. 2 }
OrderRecords == { Order("a", type, tif, 7) : type \in DOMAIN NativeOrder, tif \in {"DAY", "GTD"} }
              \cup { [Order("a", "LIMIT", "GTC", 7) EXCEPT !.oco_group_id = "g"],
                     [Order("a", "LIMIT", "GTC", 7) EXCEPT !.linked_order_id = "b"],
                     [Order("a", "STOP", "GTC", 7) EXCEPT !.quantity = 5] }
Quotes == { [bid_price |-> b, bid_size |-> 10, ask_price |-> a, ask_size |-> 20,
             exchange_ts |-> 1, receive_ts |-> 2, sequence |-> 7] : b, a \in {15, 16} }
        \cup { [bid_price |-> None, bid_size |-> None, ask_price |-> 16, ask_size |-> 20,
                exchange_ts |-> 1, receive_ts |-> 2, sequence |-> 7] }
Deltas == { [action |-> act, side |-> "BUY", price |-> 15, size |-> size, level |-> 3,
             sequence |-> 7, exchange_ts |-> 1, receive_ts |-> 2] :
                act \in {"ADD", "UPDATE", "DELETE"}, size \in {5, 10} }
Fills == { [fill_id |-> "f", order_id |-> "a", side |-> "SELL", quantity |-> q, price |-> 15,
            fee |-> fee, liquidity |-> liq, ts |-> 3, sequence |-> 7, slippage |-> 1,
            queue_position |-> None, provenance |-> "oracle"] :
               q \in {10, 15}, fee \in {5, 80}, liq \in {"MAKER", "TAKER", "UNKNOWN"} }
Ledgers == { [cash |-> cash, used_margin |-> 10, available_margin |-> 20, pnl |-> <<0, 5>>,
              positions |-> [i \in 1 .. n |-> [value |-> <<10, 15>>, stamp |-> s]],
              stamp |-> 4] : cash \in {95, 100}, n \in 0 .. 2, s \in {3, 4} }

Conversions ==
    { Conversion("instrument", r) : r \in Instruments }
    \cup { Conversion("order", r) : r \in OrderRecords }
    \cup { Conversion("trade", [t EXCEPT !.aggressor_side = side]) : t \in Trades, side \in {None, "BUY", "SELL"} }
    \cup { Conversion("quote", r) : r \in Quotes }
    \cup { Conversion("delta", r) : r \in Deltas }
    \cup { Conversion("fill", r) : r \in Fills }
    \cup { Conversion("ledger", r) : r \in Ledgers }

NativeDelta(type, id, action, side, ts) ==
    [type |-> type, instrument_id |-> id, action |-> action,
     order |-> [side |-> side, price |-> 15, size |-> 10, order_id |-> 1],
     sequence |-> 0, ts_event |-> ts, ts_init |-> ts]

NativeDeltas == { NativeDelta("OrderBookDelta", "MGC", act, "BUY", ts) :
                      act \in {"ADD", "DELETE"}, ts \in 1 .. 2 }
              \cup { NativeDelta("OrderBookDelta", "MGC", "CLEAR", "NO_ORDER_SIDE", 2),
                     NativeDelta("OrderBookDelta", "ES", "ADD", "BUY", 2),
                     NativeDelta("TradeTick", "MGC", "ADD", "BUY", 2),
                     [NativeDelta("OrderBookDelta", "MGC", "ADD", "BUY", 2) EXCEPT !.order.size = 0] }

Decodings == { [kind |-> "decode", instrument_id |-> "MGC", digest_matches |-> m, records |-> rs] :
                   m \in BOOLEAN, rs \in Upto(3, NativeDeltas) }

AllJobs == Sessions \cup Conversions \cup Decodings

==============================================================================
