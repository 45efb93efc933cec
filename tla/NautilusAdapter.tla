--------------------------- MODULE NautilusAdapter ---------------------------
(***************************************************************************)
(* What the Nautilus adapter does once its inputs are admitted and before  *)
(* its outputs are published (adapters/nautilus/worker.py, dbn.py): a      *)
(* session feeds a request's orders and trades to the matching engine,     *)
(* replays the same request with the golden oracle and compares the fills; *)
(* a decoding turns a file's book deltas into neutral records; a           *)
(* conversion takes one record to the engine's object and back.            *)
(*                                                                         *)
(* The engine is a library: after anything it is fed it may report any     *)
(* fill of an order it was given, or another event.  What the oracle makes *)
(* of a request is the business of GoldenOracle; here its fills are        *)
(* arbitrary, and only the tape it replays matters.                        *)
(***************************************************************************)
EXTENDS NautilusTranslators, FiniteSets, SequencesExt

CONSTANTS
    Jobs,        \* what the adapter may be asked to do
    Reports,     \* the events the engine may report
    OracleFills, \* the fills an oracle may make
    MaxReports,  \* bound on the events the engine reports
    MaxFills     \* bound on the oracle's fills

NativeDeltaSchema ==
    [type : STRING, instrument_id : STRING, action : STRING,
     order : [side : STRING, price : Int, size : Int, order_id : Nat],
     sequence : Nat, ts_event : Nat, ts_init : Nat]

\* The records of a job have passed their schema's checks; who converts a
\* record back supplies the sequence it had, where it does not travel.
ASSUME JobsAssumption ==
    \A j \in Jobs :
        \/ /\ j.kind = "session"
           /\ j.orders \in Seq(OrderSchema)
           /\ j.events \in Seq(TradeSchema)
           /\ j.latency \in Nat
        \/ /\ j.kind = "decode"
           /\ j.records \in Seq(NativeDeltaSchema)
        \/ /\ j.kind = "convert"
           /\ \/ j.record_kind = "instrument" /\ j.record \in InstrumentSchema
              \/ j.record_kind = "trade" /\ j.record \in TradeSchema
              \/ j.record_kind = "quote" /\ j.record \in QuoteSchema /\ j.sequence = j.record.sequence
              \/ j.record_kind = "delta" /\ j.record \in DeltaSchema
              \/ j.record_kind = "order" /\ j.record \in OrderSchema /\ j.sequence = j.record.sequence
              \/ j.record_kind = "fill" /\ j.record \in FillSchema /\ j.sequence = j.record.sequence
              \/ j.record_kind = "ledger" /\ j.record \in LedgerSchema

VARIABLES
    job,
    pc,
    fed,         \* what the engine has processed, and its clock at that time
    upstream,    \* what it reported
    fills,       \* the neutral fills made of it
    tape,        \* the events as the oracle replays them
    oracle_fills,
    differences,
    native,      \* of a conversion: the engine's object
    neutral      \* what a conversion or a decoding restored

session == <<fed, upstream, fills, tape, oracle_fills, differences>>
others == <<native, neutral>>
vars == <<job, pc, session, others>>

Fail == pc' = "raised" /\ UNCHANGED <<job, session, others>>

-----------------------------------------------------------------------------
(* A session: _execute.                                                    *)

orders == job.orders
events == job.events
Fed == Len(fed)

\* Timestamps compare as tuples: receive time, exchange time, sequence.
Before(e, f) ==
    \/ e.receive_ts < f.receive_ts
    \/ e.receive_ts = f.receive_ts /\ e.exchange_ts < f.exchange_ts
    \/ e.receive_ts = f.receive_ts /\ e.exchange_ts = f.exchange_ts /\ e.sequence < f.sequence

\* _check_event_order: no reversal, and no sequence twice.
OrderChecked(es) ==
    /\ \A i \in 2 .. Len(es) : ~Before(es[i], es[i - 1])
    /\ \A i, j \in DOMAIN es : es[i].sequence = es[j].sequence => i = j

StartSession ==
    /\ pc = "start" /\ job.kind = "session"
    /\ IF OrderChecked(events) /\ ~InstrumentRefused(job.instrument, job.lot_size)
       THEN pc' = "feed" /\ UNCHANGED <<job, session, others>>
       ELSE Fail

\* What the engine may report once it has been fed one more item.
Known == { fed'[i].what.client_order_id : i \in 1 .. IF Fed < Len(orders) THEN Fed + 1 ELSE Len(orders) }
Respond ==
    \/ UNCHANGED upstream
    \/ /\ Len(upstream) < MaxReports
       /\ \E r \in Reports : /\ r.type = "OrderFilled" => r.client_order_id \in Known
                             /\ upstream' = Append(upstream, r)

Process(what, at) ==
    /\ fed' = Append(fed, [what |-> what, at |-> at])
    /\ Respond
    /\ UNCHANGED <<job, pc, fills, tape, oracle_fills, differences, others>>

\* The clock is set to the order's creation, whatever it showed before.
ProcessOrder ==
    /\ pc = "feed" /\ Fed < Len(orders)
    /\ LET o == orders[Fed + 1] IN
       IF OrderRefused(o) THEN Fail ELSE Process(ToOrder(o), o.created_ts)

\* Mutant of Event: the trades are fed in the order of their sequence numbers.
EventBySequence == SortSeq(events, LAMBDA e, f : e.sequence < f.sequence)[Fed - Len(orders) + 1]

\* The trades are fed as the request lists them.
Event == events[Fed - Len(orders) + 1]

ProcessTrade ==
    /\ pc = "feed" /\ Fed >= Len(orders) /\ Fed < Len(orders) + Len(events)
    /\ IF TradeRefused(Event) THEN Fail ELSE Process(ToTrade(Event), Event.receive_ts + job.latency)

OrderFills(reports) == SelectSeq(reports, LAMBDA r : r.type = "OrderFilled")
Filled == OrderFills(upstream)

CollectFills ==
    /\ pc = "feed" /\ Fed = Len(orders) + Len(events)
    /\ IF \E i \in DOMAIN Filled : NativeFillRefused(Filled[i])
       THEN Fail
       ELSE /\ fills' = [i \in DOMAIN Filled |-> FromFill(Filled[i], i - 1)]
            /\ pc' = "oracle"
            /\ UNCHANGED <<job, fed, upstream, tape, oracle_fills, differences, others>>

\* run_oracle puts the events in the order of their sequence numbers, and
\* refuses two orders of one number; it may raise for reasons of its own.
RunOracle ==
    /\ pc = "oracle"
    /\ \/ Fail
       \/ /\ \A i, j \in DOMAIN orders : orders[i].sequence = orders[j].sequence => i = j
          /\ tape' = SortSeq(events, LAMBDA e, f : e.sequence < f.sequence)
          /\ \E n \in 0 .. MaxFills : oracle_fills' \in [1 .. n -> OracleFills]
          /\ pc' = "compare"
          /\ UNCHANGED <<job, fed, upstream, fills, differences, others>>

Fields == {"order_id", "side", "price", "quantity", "fee", "ts", "liquidity"}

\* classify_difference, of the names this worker gives to fields.
Classify(field) == IF field = "fee" THEN "accounting_convention" ELSE "execution_model_choice"

Difference(i, field, o, n) ==
    [index |-> i, field |-> field, oracle |-> o, nautilus |-> n, class |-> Classify(field)]

\* Mutant of Compare: the fills one list has beyond the other are left out.
CompareZipped(os, ns) ==
    { Difference(i, f, os[i][f], ns[i][f]) : i \in DOMAIN os \cap DOMAIN ns,
                                             f \in { f \in Fields : \E j \in DOMAIN os \cap DOMAIN ns : os[j][f] # ns[j][f] } }

\* _compare_fills, fill by fill and field by field.
Compare(os, ns) ==
    LET both == DOMAIN os \cap DOMAIN ns IN
    { Difference(i, "fill", "expected", None) : i \in DOMAIN os \ both }
    \cup { Difference(i, "fill", None, "unexpected") : i \in DOMAIN ns \ both }
    \cup UNION { { Difference(i, f, os[i][f], ns[i][f]) : f \in { f \in Fields : os[i][f] # ns[i][f] } }
                 : i \in both }

CompareFills ==
    /\ pc = "compare"
    /\ differences' = Compare(oracle_fills, fills)
    /\ pc' = "done"
    /\ UNCHANGED <<job, fed, upstream, fills, tape, oracle_fills, others>>

-----------------------------------------------------------------------------
(* A decoding: decode_dbn_file, record by record; the file's digest was    *)
(* checked before.                                                         *)

Decoded == Len(neutral)

\* Mutant of RecordRefused: a reversal is not noticed.
RecordRefusedUntimed(n, previous) ==
    \/ n.type # "OrderBookDelta"
    \/ n.instrument_id # job.instrument_id
    \/ NativeDeltaRefused(n)

RecordRefused(n, previous) ==
    \/ n.type # "OrderBookDelta"
    \/ n.instrument_id # job.instrument_id
    \/ previous # None /\ n.ts_event < previous
    \/ NativeDeltaRefused(n)

StartDecoding ==
    /\ pc = "start" /\ job.kind = "decode"
    /\ IF job.digest_matches
       THEN neutral' = <<>> /\ pc' = "decode" /\ UNCHANGED <<job, session, native>>
       ELSE Fail

DecodeRecord ==
    /\ pc = "decode" /\ Decoded < Len(job.records)
    /\ LET n == job.records[Decoded + 1]
           previous == IF Decoded = 0 THEN None ELSE job.records[Decoded].ts_event
       IN IF RecordRefused(n, previous)
          THEN Fail
          ELSE /\ neutral' = Append(neutral, FromBookDelta(n))
               /\ UNCHANGED <<job, pc, session, native>>

EndDecoding ==
    /\ pc = "decode" /\ Decoded = Len(job.records)
    /\ pc' = "decoded"
    /\ UNCHANGED <<job, session, others>>

-----------------------------------------------------------------------------
(* A conversion, there and back.                                           *)

Refused(kind, r) ==
    CASE kind = "instrument" -> InstrumentRefused(r, job.lot_size)
      [] kind = "trade" -> TradeRefused(r)
      [] kind = "quote" -> QuoteRefused(r)
      [] kind = "delta" -> DeltaRefused(r)
      [] kind = "order" -> OrderRefused(r)
      [] kind = "fill" -> FillRefused(r)
      [] kind = "ledger" -> LedgerRefused(r, job.maintenance)

To(kind, r) ==
    CASE kind = "instrument" -> ToInstrument(r)
      [] kind = "trade" -> ToTrade(r)
      [] kind = "quote" -> ToQuote(r)
      [] kind = "delta" -> ToBookDelta(r)
      [] kind = "order" -> ToOrder(r)
      [] kind = "fill" -> ToFill(r)
      [] kind = "ledger" -> ToLedger(r)

From(kind, n, sequence) ==
    CASE kind = "instrument" -> FromInstrument(n)
      [] kind = "trade" -> FromTrade(n)
      [] kind = "quote" -> FromQuote(n, sequence)
      [] kind = "delta" -> FromBookDelta(n)
      [] kind = "order" -> FromOrder(n, sequence)
      [] kind = "fill" -> FromFill(n, sequence)
      [] kind = "ledger" -> FromLedger(n)

Translate ==
    /\ pc = "start" /\ job.kind = "convert"
    /\ IF Refused(job.record_kind, job.record)
       THEN Fail
       ELSE /\ native' = To(job.record_kind, job.record)
            /\ pc' = "native"
            /\ UNCHANGED <<job, session, neutral>>

Restore ==
    /\ pc = "native"
    /\ IF job.record_kind = "ledger" /\ LedgerChanged(native)
       THEN Fail
       ELSE /\ neutral' = From(job.record_kind, native, job.sequence)
            /\ pc' = "restored"
            /\ UNCHANGED <<job, session, native>>

-----------------------------------------------------------------------------
Init ==
    /\ job \in Jobs
    /\ pc = "start"
    /\ fed = <<>> /\ upstream = <<>> /\ fills = <<>> /\ tape = <<>>
    /\ oracle_fills = <<>> /\ differences = {}
    /\ native = None /\ neutral = None

Next ==
    \/ StartSession \/ ProcessOrder \/ ProcessTrade \/ CollectFills \/ RunOracle \/ CompareFills
    \/ StartDecoding \/ DecodeRecord \/ EndDecoding
    \/ Translate \/ Restore

Spec == Init /\ [][Next]_vars

-----------------------------------------------------------------------------
(* Properties.                                                             *)

\* The engine works on the request and on nothing else: what it was fed,
\* translated back, is the request's orders and then its trades, each in the
\* order listed, none changed, dropped or fed twice; its clock does not go
\* back from one trade to the next and has passed the time each was received
\* (worker.py:101-140 and the translators on the way).
EngineFollowsRequest ==
    job.kind = "session" =>
        /\ \A i \in DOMAIN fed :
               IF i <= Len(orders)
               THEN FromOrder(fed[i].what, orders[i].sequence) = orders[i]
               ELSE /\ FromTrade(fed[i].what) = events[i - Len(orders)]
                    /\ fed[i].at >= events[i - Len(orders)].receive_ts
                    /\ i > Len(orders) + 1 => fed[i].at >= fed[i - 1].at
        /\ pc \in {"oracle", "compare", "done"} => Fed = Len(orders) + Len(events)

\* No difference between the two engines is lost on the way: what is written
\* as differences is empty exactly when the fills the engine reported are the
\* oracle's, one by one and in every field compared, and every fill one engine
\* has and the other lacks is among them (worker.py:142-205).
DifferencesAccount ==
    pc = "done" =>
        LET reported(i) == FromFill(Filled[i], i - 1)
            same(i) == \A f \in Fields : oracle_fills[i][f] = reported(i)[f]
        IN \A i \in 1 .. MaxReports + MaxFills :
               (\E d \in differences : d.index = i) <=>
                   \/ i \in DOMAIN Filled /\ i \notin DOMAIN oracle_fills
                   \/ i \notin DOMAIN Filled /\ i \in DOMAIN oracle_fills
                   \/ i \in DOMAIN Filled /\ i \in DOMAIN oracle_fills /\ ~same(i)

\* A decoding that ends has turned every record of the file into a neutral one
\* with all that a neutral one holds of it, in an order in which time does not go
\* back (dbn.py:97-131).
DecodedWhole ==
    pc = "decoded" =>
        /\ Len(neutral) = Len(job.records)
        /\ \A i \in DOMAIN neutral :
               LET d == neutral[i]
                   n == job.records[i]
               IN /\ <<d.action, d.side, d.price, d.size, d.level>>
                         = <<n.action, n.order.side, n.order.price, n.order.size, n.order.order_id>>
                  /\ <<d.sequence, d.exchange_ts, d.receive_ts>> = <<n.sequence, n.ts_event, n.ts_init>>
                  /\ i > 1 => neutral[i - 1].exchange_ts <= d.exchange_ts

\* A record that comes back is the one that went, every decimal of it to the last
\* digit, but for what the engine's object has no place for: an instrument's
\* size precision, a fill's slippage, queue position and provenance, and the
\* stamps of a snapshot's parts (translators.py:90-557).
Carried(kind, r) ==
    CASE kind = "instrument" -> [r EXCEPT !.size_precision = ContractSizePrecision]
      [] kind = "fill" -> [r EXCEPT !.slippage = None, !.queue_position = None,
                                    !.provenance = "nautilus"]
      [] kind = "ledger" -> [r EXCEPT !.positions[1].stamp = r.stamp]
      [] OTHER -> r

TranslationExact ==
    pc = "restored" => neutral = Carried(job.record_kind, job.record)

\* "sequence ... is the sole authority for ordering" and "shuffling the input
\* array can never change downstream replay results" (ordering.py:3-10): the
\* engine and the oracle are given the same tape.
SameTape ==
    pc = "compare" =>
        tape = [i \in DOMAIN events |-> FromTrade(fed[Len(orders) + i].what)]

==============================================================================
