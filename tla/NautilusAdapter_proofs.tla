------------------------ MODULE NautilusAdapter_proofs ------------------------
(***************************************************************************)
(* Proofs about the Nautilus adapter, for any records the schema admits,   *)
(* any request, any engine and any precision.                              *)
(***************************************************************************)
EXTENDS NautilusAdapter, SequenceTheorems, TLAPS

(***************************************************************************)
(* The translators: what was not refused comes back as it went.            *)
(***************************************************************************)

\* What fits a precision is not changed by being put in it.
LEMMA FitsExact ==
    ASSUME NEW v
    PROVE  /\ PriceFits(v) => Price(v) = v
           /\ SizeFits(v) => Quantity(v) = v
           /\ MoneyFits(v) => Money(v) = v
BY DEF PriceFits, SizeFits, MoneyFits, Fits, Price, Quantity, Money

\* A contract that was not refused is an outright future, and its tick fits its
\* own precision; it comes back with the size precision all contracts have.
LEMMA InstrumentExact ==
    ASSUME NEW i \in InstrumentSchema, NEW lot, ~InstrumentRefused(i, lot)
    PROVE  FromInstrument(ToInstrument(i)) = Carried("instrument", i)
<1>1. /\ i.asset_class = "FUTURE" /\ ~i.is_continuous /\ i.is_continuous \in BOOLEAN
      /\ Quantized(i.tick_size, i.price_precision) = i.tick_size
    BY DEF InstrumentRefused, InstrumentSchema, Fits
<1>2. i.is_continuous = FALSE
    BY <1>1
<1>3. i = [asset_class |-> i.asset_class, is_continuous |-> i.is_continuous,
           price_precision |-> i.price_precision, size_precision |-> i.size_precision,
           tick_size |-> i.tick_size, tick_value |-> i.tick_value, multiplier |-> i.multiplier,
           expiry_ts |-> i.expiry_ts, metadata_effective_ts |-> i.metadata_effective_ts]
    BY DEF InstrumentSchema
<1>4. Carried("instrument", i)
      = [asset_class |-> i.asset_class, is_continuous |-> i.is_continuous,
         price_precision |-> i.price_precision, size_precision |-> ContractSizePrecision,
         tick_size |-> i.tick_size, tick_value |-> i.tick_value, multiplier |-> i.multiplier,
         expiry_ts |-> i.expiry_ts, metadata_effective_ts |-> i.metadata_effective_ts]
    BY <1>3 DEF Carried
<1>5. FromInstrument(ToInstrument(i))
      = [asset_class |-> "FUTURE", is_continuous |-> FALSE,
         price_precision |-> i.price_precision, size_precision |-> ContractSizePrecision,
         tick_size |-> Quantized(i.tick_size, i.price_precision), tick_value |-> i.tick_value,
         multiplier |-> i.multiplier,
         expiry_ts |-> i.expiry_ts, metadata_effective_ts |-> i.metadata_effective_ts]
    BY DEF FromInstrument, ToInstrument
<1>6. QED
    BY <1>1, <1>2, <1>4, <1>5, Zenon

\* The aggressor's side, known or not, is restored from the name it was given.
LEMMA AggressorExact ==
    ASSUME NEW side \in Optional(Sides)
    PROVE  FromAggressor(ToAggressor(side)) = side
<1>1. "BUY" # None /\ "SELL" # None
    BY NoneAssumption DEF Sides
<1>2. DOMAIN NativeAggressor = Sides /\ NativeAggressor["BUY"] = "BUYER"
      /\ NativeAggressor["SELL"] = "SELLER"
    BY DEF NativeAggressor, Sides
<1>3. CASE side = None
    BY <1>1, <1>2, <1>3 DEF ToAggressor, FromAggressor, Sides
<1>4. CASE side = "BUY"
    BY <1>1, <1>2, <1>4 DEF ToAggressor, FromAggressor, Sides
<1>5. CASE side = "SELL"
    BY <1>1, <1>2, <1>5 DEF ToAggressor, FromAggressor, Sides
<1>6. QED
    BY <1>3, <1>4, <1>5 DEF Optional, Sides

\* A trade that was not refused comes back whole, its sequence included.
LEMMA TradeExact ==
    ASSUME NEW t \in TradeSchema, ~TradeRefused(t)
    PROVE  FromTrade(ToTrade(t)) = t
<1>1. FromAggressor(ToAggressor(t.aggressor_side)) = t.aggressor_side
    BY AggressorExact DEF TradeSchema
<1>2. Price(t.price) = t.price /\ Quantity(t.size) = t.size
    BY FitsExact DEF TradeRefused
<1>3. QED
    BY <1>1, <1>2 DEF TradeSchema, FromTrade, ToTrade

\* A quote that was not refused comes back whole once it is given its sequence.
LEMMA QuoteExact ==
    ASSUME NEW q \in QuoteSchema, ~QuoteRefused(q)
    PROVE  FromQuote(ToQuote(q), q.sequence) = q
<1>1. /\ Price(q.bid_price) = q.bid_price /\ Quantity(q.bid_size) = q.bid_size
      /\ Price(q.ask_price) = q.ask_price /\ Quantity(q.ask_size) = q.ask_size
    BY FitsExact DEF QuoteRefused
<1>2. QED
    BY <1>1 DEF QuoteSchema, FromQuote, ToQuote

\* A book delta that was not refused comes back whole, its sequence included.
LEMMA DeltaExact ==
    ASSUME NEW d \in DeltaSchema, ~DeltaRefused(d)
    PROVE  FromBookDelta(ToBookDelta(d)) = d
<1>1. Price(d.price) = d.price /\ Quantity(d.size) = d.size
    BY FitsExact DEF DeltaRefused
<1>2. QED
    BY <1>1 DEF DeltaSchema, FromBookDelta, ToBookDelta

\* The names of the order types are restored.
LEMMA OrderTypeExact ==
    ASSUME NEW type \in {"MARKET", "LIMIT", "STOP", "STOP_LIMIT"}
    PROVE  NeutralOrder[NativeOrder[type]] = type
BY DEF NeutralOrder, NativeOrder

\* An order that was not refused has no partner, and an expiry exactly if
\* it is GTD: it comes back whole once it is given its sequence.
LEMMA OrderExact ==
    ASSUME NEW o \in OrderSchema, ~OrderRefused(o)
    PROVE  FromOrder(ToOrder(o), o.sequence) = o
<1>1. o.linked_order_id = None /\ o.oco_group_id = None
    BY DEF OrderRefused
<1>2. NeutralOrder[NativeOrder[o.order_type]] = o.order_type
    BY OrderTypeExact DEF OrderSchema
<1>3. (IF o.time_in_force = "GTD" THEN ToOrder(o).expire_time_ns ELSE None) = o.expiry_ts
    BY DEF OrderSchema, ToOrder
<1>4. /\ Quantity(o.quantity) = o.quantity
      /\ (IF o.limit_price = None THEN None ELSE Price(o.limit_price)) = o.limit_price
      /\ (IF o.stop_price = None THEN None ELSE Price(o.stop_price)) = o.stop_price
    BY FitsExact DEF OrderRefused
<1>5. QED
    BY <1>1, <1>2, <1>3, <1>4 DEF OrderSchema, FromOrder, ToOrder

\* The names of the liquidity flags are restored.
LEMMA LiquidityExact ==
    ASSUME NEW flag \in {"MAKER", "TAKER", "UNKNOWN"}
    PROVE  FromLiquidity[ToLiquidity[flag]] = flag
BY DEF FromLiquidity, ToLiquidity

\* A fill comes back but for its slippage, queue position and provenance.
LEMMA FillExact ==
    ASSUME NEW f \in FillSchema, ~FillRefused(f)
    PROVE  FromFill(ToFill(f), f.sequence) = Carried("fill", f)
<1>1. FromLiquidity[ToLiquidity[f.liquidity]] = f.liquidity
    BY LiquidityExact DEF FillSchema
<1>2. Quantity(f.quantity) = f.quantity /\ Price(f.price) = f.price /\ Money(f.fee) = f.fee
    BY FitsExact DEF FillRefused
<1>3. QED
    BY <1>1, <1>2 DEF FillSchema, FromFill, ToFill, Carried

\* A snapshot that was not refused has one position; it comes back but for
\* the position's own stamp.
LEMMA LedgerExact ==
    ASSUME NEW l \in LedgerSchema, NEW maintenance, ~LedgerRefused(l, maintenance)
    PROVE  FromLedger(ToLedger(l)) = Carried("ledger", l)
<1>1. Len(l.positions) = 1 /\ l.positions \in Seq([value : Int \X Nat, stamp : Nat])
    BY DEF LedgerRefused, LedgerSchema
<1>2. [l.positions EXCEPT ![1].stamp = l.stamp]
      = << [value |-> l.positions[1].value, stamp |-> l.stamp] >>
    <2>1. DOMAIN l.positions = {1} /\ l.positions[1] \in [value : Int \X Nat, stamp : Nat]
        <3>1. DOMAIN l.positions = 1 .. 1
            BY <1>1, LenProperties, Zenon
        <3>2. 1 .. 1 = {1}
            OBVIOUS
        <3>3. QED
            BY <1>1, <3>1, <3>2, ElementOfSeq
    <2>2. [l.positions[1] EXCEPT !.stamp = l.stamp]
          = [value |-> l.positions[1].value, stamp |-> l.stamp]
        BY <2>1
    <2>3. [l.positions EXCEPT ![1].stamp = l.stamp]
          = [k \in {1} |-> [l.positions[1] EXCEPT !.stamp = l.stamp]]
        BY <1>1, <2>1
    <2>4. QED
        BY <2>2, <2>3
<1>3. QED
    BY <1>1, <1>2 DEF LedgerSchema, FromLedger, ToLedger, Carried

-----------------------------------------------------------------------------
(***************************************************************************)
(* The invariants, one for each of the things the adapter does.            *)
(***************************************************************************)

\* What the engine is given i-th, and the time its clock shows then.
Given == Len(orders) + Len(events)
Item(i) ==
    IF i <= Len(orders)
    THEN [what |-> ToOrder(orders[i]), at |-> orders[i].created_ts]
    ELSE [what |-> ToTrade(events[i - Len(orders)]),
          at |-> events[i - Len(orders)].receive_ts + job.latency]

\* Its translator does not refuse it.
Accepted(i) ==
    IF i <= Len(orders) THEN ~OrderRefused(orders[i]) ELSE ~TradeRefused(events[i - Len(orders)])

\* The engine has been given a prefix of the request, none of it refused,
\* and nothing of a request whose trades were out of order.
SessionInv ==
    job.kind = "session" =>
        /\ fed \in Seq({ Item(i) : i \in 1 .. Given })
        /\ Fed <= Given
        /\ \A i \in 1 .. Fed : fed[i] = Item(i)
        /\ \A i \in 1 .. Fed : Accepted(i)
        /\ pc = "feed" \/ fed # <<>> => OrderChecked(events)
        /\ pc \in {"oracle", "compare", "done"} => Fed = Given

\* The fills are those reported, and the differences theirs and the oracle's.
FillsInv ==
    /\ pc \in {"oracle", "compare", "done"} =>
           fills = [i \in DOMAIN Filled |-> FromFill(Filled[i], i - 1)]
    /\ pc = "done" => differences = Compare(oracle_fills, fills)

\* A prefix of the file has been decoded, and time did not go back in it.
DecodingInv ==
    pc \in {"decode", "decoded"} =>
        /\ job.kind = "decode"
        /\ neutral \in Seq({ FromBookDelta(job.records[i]) : i \in 1 .. Len(job.records) })
        /\ Decoded <= Len(job.records)
        /\ \A i \in 1 .. Decoded : neutral[i] = FromBookDelta(job.records[i])
        /\ \A i \in 2 .. Decoded : job.records[i - 1].ts_event <= job.records[i].ts_event
        /\ pc = "decoded" => Decoded = Len(job.records)

\* The engine's object is the record's, and what is restored comes from it.
ConversionInv ==
    /\ pc \in {"native", "restored"} =>
           /\ job.kind = "convert"
           /\ ~Refused(job.record_kind, job.record)
           /\ native = To(job.record_kind, job.record)
    /\ pc = "restored" => neutral = From(job.record_kind, native, job.sequence)

IInv ==
    /\ job \in Jobs
    /\ SessionInv
    /\ FillsInv
    /\ DecodingInv
    /\ ConversionInv
\* What a session's request holds has passed the schema's checks.
LEMMA SessionJob ==
    ASSUME job \in Jobs, job.kind = "session"
    PROVE  /\ orders \in Seq(OrderSchema) /\ events \in Seq(TradeSchema)
           /\ job.latency \in Nat
           /\ Len(orders) \in Nat /\ Len(events) \in Nat /\ Given \in Nat
<1>1. orders \in Seq(OrderSchema) /\ events \in Seq(TradeSchema) /\ job.latency \in Nat
    BY JobsAssumption DEF orders, events
<1>2. QED
    BY <1>1, LenProperties DEF Given

\* So has what a file holds.
LEMMA DecodingJob ==
    ASSUME job \in Jobs, job.kind = "decode"
    PROVE  job.records \in Seq(NativeDeltaSchema) /\ Len(job.records) \in Nat
<1>1. job.records \in Seq(NativeDeltaSchema)
    BY JobsAssumption
<1>2. QED
    BY <1>1, LenProperties

-----------------------------------------------------------------------------
(***************************************************************************)
(* A session follows its request.                                          *)
(***************************************************************************)

\* Feeding the next item of the request extends the prefix the engine has.
LEMMA Feeding ==
    ASSUME IInv, pc = "feed", Fed < Given, NEW what, NEW at, Process(what, at),
           [what |-> what, at |-> at] = Item(Fed + 1),
           Accepted(Fed + 1)
    PROVE  SessionInv'
<1>. DEFINE Items == { Item(i) : i \in 1 .. Given }
<1>1. job' = job /\ pc' = pc /\ fed' = Append(fed, [what |-> what, at |-> at])
    BY DEF Process
<1>2. SUFFICES ASSUME job.kind = "session" PROVE SessionInv'
    BY <1>1 DEF SessionInv
<1>3. /\ fed \in Seq(Items) /\ Fed \in Nat /\ Given \in Nat /\ Len(orders) \in Nat
      /\ OrderChecked(events)
      /\ \A i \in 1 .. Fed : fed[i] = Item(i) /\ Accepted(i)
    BY <1>2, SessionJob, LenProperties DEF IInv, SessionInv, Fed
<1>4. [what |-> what, at |-> at] \in Items
    BY <1>3
<1>5. /\ fed' \in Seq(Items) /\ Len(fed') = Fed + 1
      /\ \A i \in 1 .. Fed : fed'[i] = fed[i]
      /\ fed'[Fed + 1] = Item(Fed + 1)
    <2>. HIDE DEF Items
    <2>1. QED
        BY <1>1, <1>3, <1>4, AppendProperties DEF Fed
<1>6. /\ orders' = orders /\ events' = events /\ Given' = Given /\ Items' = Items
      /\ \A i : Item(i)' = Item(i) /\ Accepted(i)' = Accepted(i)
    BY <1>1 DEF orders, events, Given, Item, Accepted
<1>7. \A i \in 1 .. Fed + 1 : fed'[i] = Item(i) /\ Accepted(i)
    <2>1. TAKE i \in 1 .. Fed + 1
    <2>2. CASE i = Fed + 1
        BY <1>3, <1>5, <2>2
    <2>3. CASE i \in 1 .. Fed
        BY <1>3, <1>5, <2>3
    <2>4. QED
        BY <1>3, <2>2, <2>3
<1>8. Fed + 1 <= Given
    BY <1>3
<1>9. QED
    BY <1>1, <1>3, <1>5, <1>6, <1>7, <1>8 DEF SessionInv, Fed

\* No step feeds the engine anything else.
LEMMA SessionStep ==
    ASSUME IInv, [Next]_vars
    PROVE  SessionInv'
<1>1. CASE StartSession
    <2>1. job' = job /\ fed' = fed /\ (pc' = "feed" => OrderChecked(events))
          /\ (pc' = "feed" \/ pc' = "raised")
        BY <1>1 DEF StartSession, Fail, session
    <2>2. QED
        BY <2>1 DEF IInv, SessionInv, orders, events, Given, Item, Accepted, Fed
<1>2. CASE ProcessOrder
    <2>1. CASE OrderRefused(orders[Fed + 1])
        BY <1>2, <2>1
        DEF ProcessOrder, Fail, session, IInv, SessionInv, orders, events, Given, Item, Accepted, Fed
    <2>2. CASE ~OrderRefused(orders[Fed + 1])
        <3>1. Process(ToOrder(orders[Fed + 1]), orders[Fed + 1].created_ts)
              /\ pc = "feed" /\ Fed < Len(orders)
            BY <1>2, <2>2 DEF ProcessOrder
        <3>2. SUFFICES ASSUME job.kind = "session" PROVE SessionInv'
            BY <3>1 DEF Process, SessionInv
        <3>3. Fed \in Nat /\ Len(orders) \in Nat /\ Len(events) \in Nat
            BY <3>2, SessionJob, LenProperties DEF IInv, SessionInv, Fed
        <3>4. Fed < Given /\ Fed + 1 <= Len(orders)
            BY <3>1, <3>3 DEF Given
        <3>5. [what |-> ToOrder(orders[Fed + 1]), at |-> orders[Fed + 1].created_ts]
              = Item(Fed + 1)
            BY <3>4 DEF Item
        <3>6. Accepted(Fed + 1)
            BY <2>2, <3>4 DEF Accepted
        <3>7. QED
            BY <3>1, <3>4, <3>5, <3>6, Feeding
    <2>3. QED
        BY <2>1, <2>2
<1>3. CASE ProcessTrade
    <2>1. CASE TradeRefused(Event)
        BY <1>3, <2>1
        DEF ProcessTrade, Fail, session, IInv, SessionInv, orders, events, Given, Item, Accepted, Fed
    <2>2. CASE ~TradeRefused(Event)
        <3>1. Process(ToTrade(Event), Event.receive_ts + job.latency)
              /\ pc = "feed" /\ Fed >= Len(orders) /\ Fed < Len(orders) + Len(events)
            BY <1>3, <2>2 DEF ProcessTrade
        <3>2. SUFFICES ASSUME job.kind = "session" PROVE SessionInv'
            BY <3>1 DEF Process, SessionInv
        <3>3. Fed \in Nat /\ Len(orders) \in Nat /\ Len(events) \in Nat
            BY <3>2, SessionJob, LenProperties DEF IInv, SessionInv, Fed
        <3>4. ~(Fed + 1 <= Len(orders)) /\ ~(Fed < Len(orders)) /\ Fed < Given
              /\ Fed - Len(orders) + 1 = (Fed + 1) - Len(orders)
            BY <3>1, <3>3 DEF Given
        <3>5. [what |-> ToTrade(Event), at |-> Event.receive_ts + job.latency] = Item(Fed + 1)
            <4>1. Event = events[(Fed + 1) - Len(orders)]
                BY <3>4, Zenon DEF Event
            <4>2. Item(Fed + 1)
                  = [what |-> ToTrade(events[(Fed + 1) - Len(orders)]),
                     at |-> events[(Fed + 1) - Len(orders)].receive_ts + job.latency]
                BY <3>4 DEF Item
            <4>3. QED
                BY <4>1, <4>2
        <3>6. Accepted(Fed + 1)
            <4>1. Event = events[(Fed + 1) - Len(orders)]
                BY <3>4, Zenon DEF Event
            <4>2. QED
                BY <2>2, <3>4, <4>1 DEF Accepted
        <3>7. QED
            BY <3>1, <3>4, <3>5, <3>6, Feeding
    <2>3. QED
        BY <2>1, <2>2
<1>4. CASE CollectFills
    <2>1. job' = job /\ fed' = fed /\ pc = "feed" /\ Fed = Given /\ pc' \in {"raised", "oracle"}
        BY <1>4 DEF CollectFills, Fail, session, Given
    <2>2. QED
        BY <2>1 DEF IInv, SessionInv, orders, events, Given, Item, Accepted, Fed
<1>5. CASE RunOracle \/ CompareFills
    <2>1. job' = job /\ fed' = fed /\ pc \in {"oracle", "compare"}
          /\ pc' \in {"raised", "compare", "done"}
        BY <1>5 DEF RunOracle, CompareFills, Fail, session
    <2>2. QED
        BY <2>1 DEF IInv, SessionInv, orders, events, Given, Item, Accepted, Fed
<1>6. CASE StartDecoding \/ DecodeRecord \/ EndDecoding \/ Translate \/ Restore
           \/ UNCHANGED vars
    <2>1. job' = job /\ fed' = fed
          /\ (pc' = pc \/ pc' \in {"raised", "decode", "decoded", "native", "restored"})
        BY <1>6
        DEF StartDecoding, DecodeRecord, EndDecoding, Translate, Restore, Fail,
            session, vars
    <2>2. QED
        BY <2>1 DEF IInv, SessionInv, orders, events, Given, Item, Accepted, Fed
<1>7. QED
    BY <1>1, <1>2, <1>3, <1>4, <1>5, <1>6 DEF Next
-----------------------------------------------------------------------------
(***************************************************************************)
(* The other invariants.                                                   *)
(***************************************************************************)

\* The fills follow from the reports once they are collected, and the
\* differences from both engines' fills.
LEMMA FillsStep ==
    ASSUME IInv, [Next]_vars
    PROVE  FillsInv'
<1>1. CASE StartSession
    BY <1>1 DEF StartSession, Fail, FillsInv
<1>2. CASE ProcessOrder \/ ProcessTrade
    <2>1. pc' = pc \/ pc' = "raised"
        BY <1>2 DEF ProcessOrder, ProcessTrade, Process, Fail
    <2>2. pc = "feed"
        BY <1>2 DEF ProcessOrder, ProcessTrade
    <2>3. QED
        BY <2>1, <2>2 DEF FillsInv
<1>3. CASE CollectFills
    <2>1. CASE pc' = "raised"
        BY <2>1 DEF FillsInv
    <2>2. CASE pc' # "raised"
        <3>1. /\ fills' = [i \in DOMAIN Filled |-> FromFill(Filled[i], i - 1)]
              /\ pc' = "oracle" /\ upstream' = upstream
            BY <1>3, <2>2 DEF CollectFills, Fail
        <3>2. Filled' = Filled
            BY <3>1 DEF Filled
        <3>3. QED
            BY <3>1, <3>2 DEF FillsInv
    <2>3. QED
        BY <2>1, <2>2
<1>4. CASE RunOracle \/ CompareFills
    <2>1. /\ fills' = fills /\ upstream' = upstream /\ pc \in {"oracle", "compare"}
          /\ pc' = "done" => oracle_fills' = oracle_fills
                             /\ differences' = Compare(oracle_fills, fills)
        BY <1>4 DEF RunOracle, CompareFills, Fail, session
    <2>2. Filled' = Filled
        BY <2>1 DEF Filled
    <2>3. QED
        BY <2>1, <2>2 DEF IInv, FillsInv
<1>5. CASE StartDecoding \/ DecodeRecord \/ EndDecoding \/ Translate \/ Restore
           \/ UNCHANGED vars
    <2>1. /\ UNCHANGED session
          /\ pc' = pc \/ pc' \in {"raised", "decode", "decoded", "native", "restored"}
        BY <1>5
        DEF StartDecoding, DecodeRecord, EndDecoding, Translate, Restore, Fail, vars
    <2>2. Filled' = Filled /\ fills' = fills /\ oracle_fills' = oracle_fills
          /\ differences' = differences
        BY <2>1 DEF Filled, session
    <2>3. QED
        BY <2>1, <2>2 DEF IInv, FillsInv
<1>6. QED
    BY <1>1, <1>2, <1>3, <1>4, <1>5 DEF Next

\* Each record decoded is the next one of the file, and none reverses time.
LEMMA DecodingStep ==
    ASSUME IInv, [Next]_vars
    PROVE  DecodingInv'
<1>. DEFINE Neutrals == { FromBookDelta(job.records[i]) : i \in 1 .. Len(job.records) }
<1>1. CASE StartDecoding
    <2>1. SUFFICES ASSUME pc' = "decode" PROVE DecodingInv'
        BY <1>1 DEF StartDecoding, Fail, DecodingInv
    <2>2. job.kind = "decode" /\ job' = job /\ neutral' = <<>>
        BY <1>1, <2>1 DEF StartDecoding, Fail
    <2>3. Len(job.records) \in Nat
        BY <2>2, DecodingJob DEF IInv
    <2>4. neutral' \in Seq(Neutrals) /\ Len(neutral') = 0
        BY <2>2
    <2>5. QED
        BY <2>1, <2>2, <2>3, <2>4 DEF DecodingInv, Decoded
<1>2. CASE DecodeRecord
    <2>1. CASE pc' = "raised"
        BY <2>1 DEF DecodingInv
    <2>2. CASE pc' # "raised"
        <3>. DEFINE n == job.records[Decoded + 1]
                    previous == IF Decoded = 0 THEN None ELSE job.records[Decoded].ts_event
        <3>1. /\ pc = "decode" /\ Decoded < Len(job.records) /\ pc' = pc /\ job' = job
              /\ ~RecordRefused(n, previous)
              /\ neutral' = Append(neutral, FromBookDelta(n))
            BY <1>2, <2>2 DEF DecodeRecord, Fail
        <3>2. /\ job.kind = "decode" /\ neutral \in Seq(Neutrals)
              /\ \A i \in 1 .. Decoded : neutral[i] = FromBookDelta(job.records[i])
              /\ \A i \in 2 .. Decoded : job.records[i - 1].ts_event <= job.records[i].ts_event
            BY <3>1 DEF IInv, DecodingInv
        <3>3. /\ job.records \in Seq(NativeDeltaSchema) /\ Len(job.records) \in Nat
              /\ Decoded \in Nat
            BY <3>2, DecodingJob, LenProperties DEF IInv, Decoded
        <3>4. FromBookDelta(n) \in Neutrals
            BY <3>1, <3>3
        <3>5. /\ neutral' \in Seq(Neutrals) /\ Len(neutral') = Decoded + 1
              /\ \A i \in 1 .. Decoded : neutral'[i] = neutral[i]
              /\ neutral'[Decoded + 1] = FromBookDelta(n)
            <4>. HIDE DEF Neutrals, n
            <4>1. QED
                BY <3>1, <3>2, <3>4, AppendProperties DEF Decoded
        <3>6. Decoded > 0 => job.records[Decoded].ts_event <= n.ts_event
            <4>1. SUFFICES ASSUME Decoded > 0 PROVE job.records[Decoded].ts_event <= n.ts_event
                OBVIOUS
            <4>2. Decoded \in 1 .. Len(job.records) /\ Decoded + 1 \in 1 .. Len(job.records)
                BY <3>1, <3>3, <4>1
            <4>3. job.records[Decoded].ts_event \in Nat /\ n.ts_event \in Nat
                <5>1. job.records[Decoded] \in NativeDeltaSchema /\ n \in NativeDeltaSchema
                    BY <3>3, <4>2, ElementOfSeq
                <5>2. QED
                    BY <5>1 DEF NativeDeltaSchema
            <4>4. previous = job.records[Decoded].ts_event /\ previous # None
                BY <3>3, <4>1, <4>3, NoneAssumption
            <4>5. ~(n.ts_event < previous)
                BY <3>1, <4>4 DEF RecordRefused
            <4>6. QED
                BY <4>3, <4>4, <4>5
        <3>7. \A i \in 2 .. Decoded + 1 : job.records[i - 1].ts_event <= job.records[i].ts_event
            <4>1. TAKE i \in 2 .. Decoded + 1
            <4>2. CASE i = Decoded + 1
                <5>1. i - 1 = Decoded /\ Decoded > 0
                    BY <3>3, <4>2
                <5>2. QED
                    BY <3>6, <4>2, <5>1, Zenon
            <4>3. CASE i \in 2 .. Decoded
                BY <3>2, <4>3
            <4>4. QED
                BY <3>3, <4>2, <4>3
        <3>8. \A i \in 1 .. Decoded + 1 : neutral'[i] = FromBookDelta(job.records[i])
            <4>1. TAKE i \in 1 .. Decoded + 1
            <4>2. CASE i = Decoded + 1
                BY <3>5, <4>2
            <4>3. CASE i \in 1 .. Decoded
                BY <3>2, <3>5, <4>3
            <4>4. QED
                BY <3>3, <4>2, <4>3
        <3>9. Decoded + 1 <= Len(job.records)
            BY <3>1, <3>3
        <3>10. QED
            BY <3>1, <3>2, <3>5, <3>7, <3>8, <3>9 DEF DecodingInv, Decoded
    <2>3. QED
        BY <2>1, <2>2
<1>3. CASE EndDecoding
    <2>1. pc = "decode" /\ Decoded = Len(job.records) /\ job' = job /\ neutral' = neutral
        BY <1>3 DEF EndDecoding, others
    <2>2. QED
        BY <2>1 DEF IInv, DecodingInv, Decoded
<1>4. CASE StartSession \/ ProcessOrder \/ ProcessTrade \/ CollectFills \/ RunOracle
           \/ CompareFills \/ Translate \/ Restore
    <2>1. pc' \in {"feed", "raised", "oracle", "compare", "done", "native", "restored"}
        BY <1>4
        DEF StartSession, ProcessOrder, ProcessTrade, Process, CollectFills, RunOracle,
            CompareFills, Translate, Restore, Fail
    <2>2. QED
        BY <2>1 DEF DecodingInv
<1>5. CASE UNCHANGED vars
    <2>1. job' = job /\ pc' = pc /\ neutral' = neutral
        BY <1>5 DEF vars, others
    <2>2. QED
        BY <2>1 DEF IInv, DecodingInv, Decoded
<1>6. QED
    BY <1>1, <1>2, <1>3, <1>4, <1>5 DEF Next
\* A record that was not refused comes back, but for what has no place in the
\* engine's object.
LEMMA RoundTrip ==
    ASSUME job \in Jobs, job.kind = "convert", ~Refused(job.record_kind, job.record)
    PROVE  From(job.record_kind, To(job.record_kind, job.record), job.sequence)
           = Carried(job.record_kind, job.record)
<1>1. CASE job.record_kind = "instrument" /\ job.record \in InstrumentSchema
    BY <1>1, InstrumentExact DEF Refused, To, From
<1>2. CASE job.record_kind = "trade" /\ job.record \in TradeSchema
    BY <1>2, TradeExact DEF Refused, To, From, Carried
<1>3. CASE /\ job.record_kind = "quote" /\ job.record \in QuoteSchema
           /\ job.sequence = job.record.sequence
    BY <1>3, QuoteExact DEF Refused, To, From, Carried
<1>4. CASE job.record_kind = "delta" /\ job.record \in DeltaSchema
    BY <1>4, DeltaExact DEF Refused, To, From, Carried
<1>5. CASE /\ job.record_kind = "order" /\ job.record \in OrderSchema
           /\ job.sequence = job.record.sequence
    BY <1>5, OrderExact DEF Refused, To, From, Carried
<1>6. CASE /\ job.record_kind = "fill" /\ job.record \in FillSchema
           /\ job.sequence = job.record.sequence
    BY <1>6, FillExact DEF Refused, To, From
<1>7. CASE job.record_kind = "ledger" /\ job.record \in LedgerSchema
    BY <1>7, LedgerExact DEF Refused, To, From
<1>8. QED
    BY <1>1, <1>2, <1>3, <1>4, <1>5, <1>6, <1>7, JobsAssumption

\* The object is the record's, and nothing changes it.
LEMMA ConversionStep ==
    ASSUME IInv, [Next]_vars
    PROVE  ConversionInv'
<1>1. CASE Translate
    <2>1. CASE pc' = "raised"
        BY <2>1 DEF ConversionInv
    <2>2. CASE pc' # "raised"
        <3>1. /\ job.kind = "convert" /\ ~Refused(job.record_kind, job.record)
              /\ native' = To(job.record_kind, job.record) /\ pc' = "native" /\ job' = job
            BY <1>1, <2>2 DEF Translate, Fail
        <3>2. Refused(job.record_kind, job.record)' = Refused(job.record_kind, job.record)
            BY <3>1 DEF Refused
        <3>3. QED
            BY <3>1, <3>2 DEF ConversionInv, To
    <2>3. QED
        BY <2>1, <2>2
<1>2. CASE Restore
    <2>1. CASE pc' = "raised"
        BY <2>1 DEF ConversionInv
    <2>2. CASE pc' # "raised"
        <3>1. /\ pc = "native" /\ ~(job.record_kind = "ledger" /\ LedgerChanged(native))
              /\ neutral' = From(job.record_kind, native, job.sequence)
              /\ pc' = "restored" /\ job' = job /\ native' = native
            BY <1>2, <2>2 DEF Restore, Fail
        <3>2. /\ job.kind = "convert" /\ ~Refused(job.record_kind, job.record)
              /\ native = To(job.record_kind, job.record)
            BY <3>1 DEF IInv, ConversionInv
        <3>3. Refused(job.record_kind, job.record)' = Refused(job.record_kind, job.record)
            BY <3>1 DEF Refused
        <3>4. From(job.record_kind, native, job.sequence)'
              = From(job.record_kind, native, job.sequence)
            BY <3>1 DEF From
        <3>5. To(job.record_kind, job.record)' = To(job.record_kind, job.record)
            BY <3>1 DEF To
        <3>6. QED
            BY <3>1, <3>2, <3>3, <3>4, <3>5, Zenon DEF ConversionInv
    <2>3. QED
        BY <2>1, <2>2
<1>3. CASE StartSession \/ ProcessOrder \/ ProcessTrade \/ CollectFills \/ RunOracle
           \/ CompareFills \/ StartDecoding \/ DecodeRecord \/ EndDecoding
    <2>1. pc' \notin {"native", "restored"}
        BY <1>3
        DEF StartSession, ProcessOrder, ProcessTrade, Process, CollectFills, RunOracle,
            CompareFills, StartDecoding, DecodeRecord, EndDecoding, Fail
    <2>2. QED
        BY <2>1 DEF ConversionInv
<1>4. CASE UNCHANGED vars
    <2>1. job' = job /\ pc' = pc /\ native' = native /\ neutral' = neutral
        BY <1>4 DEF vars, others
    <2>2. Refused(job.record_kind, job.record)' = Refused(job.record_kind, job.record)
        BY <2>1 DEF Refused
    <2>3. /\ From(job.record_kind, native, job.sequence)'
             = From(job.record_kind, native, job.sequence)
          /\ To(job.record_kind, job.record)' = To(job.record_kind, job.record)
        BY <2>1 DEF From, To
    <2>4. QED
        BY <2>1, <2>2, <2>3, Zenon DEF IInv, ConversionInv
<1>5. QED
    BY <1>1, <1>2, <1>3, <1>4 DEF Next

-----------------------------------------------------------------------------
(***************************************************************************)
(* What they establish.                                                    *)
(***************************************************************************)

\* A job the adapter has not begun satisfies them.
LEMMA InitIInv == Init => IInv
<1>1. SUFFICES ASSUME Init PROVE IInv
    OBVIOUS
<1>2. job \in Jobs /\ pc = "start" /\ fed = <<>>
    BY <1>1 DEF Init
<1>3. SessionInv
    <2>1. SUFFICES ASSUME job.kind = "session" PROVE SessionInv
        BY DEF SessionInv
    <2>2. Len(fed) = 0 /\ Given \in Nat /\ fed \in Seq({ Item(i) : i \in 1 .. Given })
        BY <1>2, <2>1, SessionJob
    <2>3. QED
        BY <1>2, <2>2 DEF SessionInv, Fed
<1>4. QED
    BY <1>2, <1>3 DEF IInv, FillsInv, DecodingInv, ConversionInv

\* Every step keeps them.
LEMMA Invariance == Spec => []IInv
<1>1. IInv /\ [Next]_vars => IInv'
    <2>1. SUFFICES ASSUME IInv, [Next]_vars PROVE IInv'
        OBVIOUS
    <2>2. job' \in Jobs
        BY <2>1
        DEF IInv, Next, vars, Fail, StartSession, ProcessOrder, ProcessTrade, Process,
            CollectFills, RunOracle, CompareFills, StartDecoding, DecodeRecord, EndDecoding,
            Translate, Restore
    <2>3. QED
        BY <2>1, <2>2, SessionStep, FillsStep, DecodingStep, ConversionStep DEF IInv
<1>2. QED
    BY InitIInv, <1>1, PTL DEF Spec
\* The engine works on the request and on nothing else, in the order listed,
\* and its clock does not go back from one trade to the next: a prefix of the
\* items, each of which the translators take back to what it was.
THEOREM EngineWorksOnRequest == Spec => []EngineFollowsRequest
<1>1. IInv => EngineFollowsRequest
    <2>1. SUFFICES ASSUME IInv, job.kind = "session" PROVE EngineFollowsRequest
        BY DEF EngineFollowsRequest
    <2>2. /\ orders \in Seq(OrderSchema) /\ events \in Seq(TradeSchema) /\ job.latency \in Nat
          /\ Len(orders) \in Nat /\ Len(events) \in Nat
        BY <2>1, SessionJob DEF IInv
    <2>3. /\ fed \in Seq({ Item(i) : i \in 1 .. Given }) /\ Fed <= Given
          /\ \A i \in 1 .. Fed : fed[i] = Item(i)
          /\ \A i \in 1 .. Fed : Accepted(i)
          /\ fed # <<>> => OrderChecked(events)
          /\ pc \in {"oracle", "compare", "done"} => Fed = Given
        BY <2>1 DEF IInv, SessionInv
    <2>4. DOMAIN fed = 1 .. Fed /\ Fed \in Nat
        BY <2>3, LenProperties DEF Fed
    <2>5. ASSUME NEW i \in DOMAIN fed, i <= Len(orders)
          PROVE  FromOrder(fed[i].what, orders[i].sequence) = orders[i]
        <3>1. i \in 1 .. Len(orders)
            BY <2>2, <2>4, <2>5
        <3>2. orders[i] \in OrderSchema /\ ~OrderRefused(orders[i])
            BY <2>2, <2>3, <2>4, <2>5, <3>1, ElementOfSeq DEF Accepted
        <3>3. fed[i].what = ToOrder(orders[i])
            BY <2>3, <2>4, <2>5 DEF Item
        <3>4. QED
            BY <3>2, <3>3, OrderExact
    <2>6. ASSUME NEW i \in DOMAIN fed, ~(i <= Len(orders))
          PROVE  /\ i - Len(orders) \in 1 .. Len(events)
                 /\ events[i - Len(orders)] \in TradeSchema
                 /\ ~TradeRefused(events[i - Len(orders)])
                 /\ fed[i].what = ToTrade(events[i - Len(orders)])
                 /\ fed[i].at = events[i - Len(orders)].receive_ts + job.latency
        <3>1. i - Len(orders) \in 1 .. Len(events)
            BY <2>2, <2>3, <2>4, <2>6 DEF Given
        <3>2. events[i - Len(orders)] \in TradeSchema
            BY <2>2, <3>1, ElementOfSeq
        <3>3. fed[i] = [what |-> ToTrade(events[i - Len(orders)]),
                        at |-> events[i - Len(orders)].receive_ts + job.latency]
            BY <2>3, <2>4, <2>6 DEF Item
        <3>4. ~TradeRefused(events[i - Len(orders)])
            BY <2>3, <2>4, <2>6 DEF Accepted
        <3>5. QED
            BY <3>1, <3>2, <3>3, <3>4
    <2>7. ASSUME NEW i \in DOMAIN fed, ~(i <= Len(orders))
          PROVE  /\ FromTrade(fed[i].what) = events[i - Len(orders)]
                 /\ fed[i].at >= events[i - Len(orders)].receive_ts
                 /\ i > Len(orders) + 1 => fed[i].at >= fed[i - 1].at
        <3>1. FromTrade(fed[i].what) = events[i - Len(orders)]
            BY <2>6, <2>7, TradeExact
        <3>2. fed[i].at >= events[i - Len(orders)].receive_ts
            <4>1. events[i - Len(orders)].receive_ts \in Nat
                BY <2>6, <2>7 DEF TradeSchema
            <4>2. fed[i].at = events[i - Len(orders)].receive_ts + job.latency
                BY <2>6, <2>7
            <4>3. QED
                BY <2>2, <4>1, <4>2
        <3>3. ASSUME i > Len(orders) + 1 PROVE fed[i].at >= fed[i - 1].at
            <4>. DEFINE k == i - Len(orders)
            <4>1. i - 1 \in DOMAIN fed /\ ~(i - 1 <= Len(orders))
                  /\ (i - 1) - Len(orders) = k - 1 /\ k \in 2 .. Len(events)
                BY <2>2, <2>4, <2>6, <2>7, <3>3
            <4>2. /\ fed[i].at = events[k].receive_ts + job.latency
                  /\ fed[i - 1].at = events[k - 1].receive_ts + job.latency
                  /\ events[k] \in TradeSchema /\ events[k - 1] \in TradeSchema
                BY <2>6, <2>7, <4>1
            <4>3. ~Before(events[k], events[k - 1])
                <5>1. fed # <<>>
                    BY <2>7
                <5>2. QED
                    BY <2>3, <4>1, <5>1 DEF OrderChecked
            <4>4. events[k].receive_ts \in Nat /\ events[k - 1].receive_ts \in Nat
                BY <4>2 DEF TradeSchema
            <4>5. events[k].receive_ts >= events[k - 1].receive_ts
                BY <4>3, <4>4 DEF Before
            <4>6. QED
                BY <2>2, <4>2, <4>4, <4>5
        <3>4. QED
            BY <3>1, <3>2, <3>3
    <2>8. QED
        BY <2>1, <2>3, <2>5, <2>7 DEF EngineFollowsRequest, Given
<1>2. QED
    BY <1>1, Invariance, PTL

\* No difference between the two engines is lost and none is made up: what is
\* written names exactly the places at which their fills differ.
THEOREM DifferencesAccountForAll == Spec => []DifferencesAccount
<1>1. IInv => DifferencesAccount
    <2>1. SUFFICES ASSUME IInv, pc = "done", NEW i \in 1 .. MaxReports + MaxFills
          PROVE  (\E d \in differences : d.index = i) <=>
                   \/ i \in DOMAIN Filled /\ i \notin DOMAIN oracle_fills
                   \/ i \notin DOMAIN Filled /\ i \in DOMAIN oracle_fills
                   \/ /\ i \in DOMAIN Filled /\ i \in DOMAIN oracle_fills
                      /\ ~\A f \in Fields : oracle_fills[i][f] = FromFill(Filled[i], i - 1)[f]
        BY DEF DifferencesAccount
    <2>2. fills = [j \in DOMAIN Filled |-> FromFill(Filled[j], j - 1)]
          /\ differences = Compare(oracle_fills, fills)
        BY <2>1 DEF IInv, FillsInv
    <2>3. DOMAIN fills = DOMAIN Filled
          /\ (i \in DOMAIN Filled => fills[i] = FromFill(Filled[i], i - 1))
        BY <2>2
    <2>4. \A j, f, o, n : Difference(j, f, o, n).index = j
        BY DEF Difference
    <2>. DEFINE both == DOMAIN oracle_fills \cap DOMAIN fills
    <2>5. \A d : d \in differences <=>
              \/ \E j \in DOMAIN oracle_fills \ both : d = Difference(j, "fill", "expected", None)
              \/ \E j \in DOMAIN fills \ both : d = Difference(j, "fill", None, "unexpected")
              \/ \E j \in both : \E f \in Fields :
                    /\ oracle_fills[j][f] # fills[j][f]
                    /\ d = Difference(j, f, oracle_fills[j][f], fills[j][f])
        BY <2>2 DEF Compare
    <2>6. (\E d \in differences : d.index = i) <=>
              \/ i \in DOMAIN oracle_fills \ both
              \/ i \in DOMAIN fills \ both
              \/ i \in both /\ \E f \in Fields : oracle_fills[i][f] # fills[i][f]
        <3>. HIDE DEF both
        <3>1. QED
            BY <2>4, <2>5
    <2>7. QED
        BY <2>3, <2>6
<1>2. QED
    BY <1>1, Invariance, PTL

\* A decoding that ends has turned every record of the file into a neutral
\* one with all that it holds, in an order in which time does not go back.
THEOREM DecodingsAreWhole == Spec => []DecodedWhole
<1>1. IInv => DecodedWhole
    <2>1. SUFFICES ASSUME IInv, pc = "decoded" PROVE DecodedWhole
        BY DEF DecodedWhole
    <2>2. /\ job.kind = "decode"
          /\ neutral \in Seq({ FromBookDelta(job.records[i]) : i \in 1 .. Len(job.records) })
          /\ \A i \in 1 .. Len(neutral) : neutral[i] = FromBookDelta(job.records[i])
          /\ \A i \in 2 .. Len(neutral) : job.records[i - 1].ts_event <= job.records[i].ts_event
          /\ Len(neutral) = Len(job.records)
        BY <2>1 DEF IInv, DecodingInv, Decoded
    <2>3. job.records \in Seq(NativeDeltaSchema) /\ Len(job.records) \in Nat
        BY <2>1, <2>2, DecodingJob DEF IInv
    <2>4. DOMAIN neutral = 1 .. Len(neutral)
        BY <2>2, LenProperties
    <2>5. \A i \in DOMAIN neutral : neutral[i] = FromBookDelta(job.records[i])
        BY <2>2, <2>4
    <2>6. ASSUME NEW i \in DOMAIN neutral, i > 1
          PROVE  neutral[i - 1].exchange_ts <= neutral[i].exchange_ts
        <3>1. i \in 2 .. Len(neutral) /\ i \in 1 .. Len(neutral) /\ i - 1 \in 1 .. Len(neutral)
            BY <2>2, <2>3, <2>4, <2>6
        <3>2. /\ neutral[i - 1].exchange_ts = job.records[i - 1].ts_event
              /\ neutral[i].exchange_ts = job.records[i].ts_event
            <4>1. \A n : FromBookDelta(n).exchange_ts = n.ts_event
                BY DEF FromBookDelta
            <4>2. QED
                BY <2>2, <3>1, <4>1
        <3>3. QED
            BY <2>2, <3>1, <3>2
    <2>7. QED
        BY <2>2, <2>5, <2>6 DEF DecodedWhole, FromBookDelta
<1>2. QED
    BY <1>1, Invariance, PTL

\* What a conversion restores is what went, but for what the engine's object
\* has no place for: what would have been rounded on the way was refused.
THEOREM TranslationsAreExact == Spec => []TranslationExact
<1>1. IInv => TranslationExact
    <2>1. SUFFICES ASSUME IInv, pc = "restored" PROVE TranslationExact
        BY DEF TranslationExact
    <2>2. /\ job.kind = "convert" /\ ~Refused(job.record_kind, job.record)
          /\ native = To(job.record_kind, job.record)
          /\ neutral = From(job.record_kind, native, job.sequence)
        BY <2>1 DEF IInv, ConversionInv
    <2>3. neutral = Carried(job.record_kind, job.record)
        BY <2>1, <2>2, RoundTrip DEF IInv
    <2>4. QED
        BY <2>2, <2>3 DEF TranslationExact
<1>2. QED
    BY <1>1, Invariance, PTL
==============================================================================
