-------------------------- MODULE GoldenOracle_proofs --------------------------
(***************************************************************************)
(* Proofs about GoldenOracle: position, cash and fills agree across the    *)
(* two components of a replay.  What is known of each component alone      *)
(* (OrderMatching_proofs, OracleLedger_proofs) is used through instances   *)
(* of those modules; their definitions are those of M and L under other    *)
(* names, which the first lemmas say.                                      *)
(***************************************************************************)
EXTENDS GoldenOracle, TLAPS

MP == INSTANCE OrderMatching_proofs
LP == INSTANCE OracleLedger_proofs WITH Prices <- Int, Quantities <- Nat \ {0}, MaxFills <- 0

------------------------------------------------------------------------------
(***************************************************************************)
(* The instances agree.                                                    *)
(***************************************************************************)

\* The two instances of the ledger round alike.
LEMMA SameRounding == \A n, d : L!Rounded(n, d) = LP!Rounded(n, d)
<1>1. \A n : L!Abs(n) = LP!Abs(n)
    BY DEF L!Abs, LP!Abs
<1>2. \A n, d : L!HalfEven(n, d) = LP!HalfEven(n, d)
    BY <1>1, Zenon DEF L!HalfEven, LP!HalfEven, L!Abs, LP!Abs
<1>3. \A n, d : L!Scale(n, d) = LP!Scale(n, d)
    BY Zenon DEF L!Scale, LP!Scale, L!Abs, LP!Abs
<1>4. QED
    BY <1>2, <1>3, Zenon DEF L!Rounded, LP!Rounded

\* They compute the same amounts.
LEMMA SameAmounts ==
    /\ \A p, q : L!Notional(p, q) = LP!Notional(p, q)
    /\ \A p, q : L!Fee(p, q) = LP!Fee(p, q)
    /\ \A s, p, q : L!Flow(s, p, q) = LP!Flow(s, p, q)
    /\ \A s, q : L!Signed(s, q) = LP!Signed(s, q)
    /\ \A d : L!Extends(d) = LP!Extends(d)
    /\ \A d : L!Flips(d) = LP!Flips(d)
    /\ \A d : L!Closing(d) = LP!Closing(d)
    /\ L!Direction = LP!Direction
    /\ \A p, q : L!Cost(p, q) = LP!Cost(p, q)
    /\ \A p : L!Gain(p) = LP!Gain(p)
<1>1. \A p, q : L!Notional(p, q) = LP!Notional(p, q)
    BY SameRounding DEF L!Notional, LP!Notional
<1>2. \A p, q : L!Fee(p, q) = LP!Fee(p, q)
    BY <1>1, SameRounding DEF L!Fee, LP!Fee
<1>3. \A s, p, q : L!Flow(s, p, q) = LP!Flow(s, p, q)
    BY <1>1, <1>2, SameRounding DEF L!Flow, LP!Flow
<1>4. \A s, q : L!Signed(s, q) = LP!Signed(s, q)
    BY DEF L!Signed, LP!Signed
<1>5. \A d : L!Extends(d) = LP!Extends(d)
    BY DEF L!Extends, LP!Extends
<1>6. \A d : L!Flips(d) = LP!Flips(d)
    BY DEF L!Flips, LP!Flips, L!Abs, LP!Abs
<1>7. \A d : L!Closing(d) = LP!Closing(d)
    BY <1>6 DEF L!Closing, LP!Closing, L!Abs, LP!Abs
<1>8. L!Direction = LP!Direction
    BY DEF L!Direction, LP!Direction
<1>9. \A p, q : L!Cost(p, q) = LP!Cost(p, q)
    BY <1>1, SameRounding DEF L!Cost, LP!Cost, L!Abs, LP!Abs
<1>10. \A p : L!Gain(p) = LP!Gain(p)
    BY SameRounding DEF L!Gain, LP!Gain
<1>11. QED
    BY <1>1, <1>2, <1>3, <1>4, <1>5, <1>6, <1>7, <1>8, <1>9, <1>10

\* They book a fill alike.
LEMMA SameLedger ==
    ASSUME NEW s, NEW p, NEW q
    PROVE  L!ExecuteFill(s, p, q) <=> LP!ExecuteFill(s, p, q)
<1>1. \A d : L!ApplyPositionDelta(p, d) <=> LP!ApplyPositionDelta(p, d)
    BY SameAmounts, SameRounding DEF L!ApplyPositionDelta, LP!ApplyPositionDelta, L!Abs, LP!Abs
<1>2. L!Book(s, p, q) <=> LP!Book(s, p, q)
    BY <1>1, SameAmounts, SameRounding DEF L!Book, LP!Book
<1>3. \A c, n, a, r, l : L!SnapshotOf(c, n, a, r, l) = LP!SnapshotOf(c, n, a, r, l)
    BY SameRounding
    DEF L!SnapshotOf, LP!SnapshotOf, L!UsedMargin, LP!UsedMargin, L!Available, LP!Available,
        L!Abs, LP!Abs
<1>4. L!ExactFill(s, p, q) <=> LP!ExactFill(s, p, q)
    BY SameAmounts DEF L!ExactFill, LP!ExactFill, L!Abs, LP!Abs
<1>5. L!RecordHistory(s, p, q) <=> LP!RecordHistory(s, p, q)
    BY <1>4, SameAmounts
    DEF L!RecordHistory, LP!RecordHistory, L!Lower, LP!Lower, L!Upper, LP!Upper
<1>6. L!ValidFill(p, q) <=> LP!ValidFill(p, q)
    BY SameAmounts DEF L!ValidFill, LP!ValidFill
<1>7. \A r : L!ValidSnapshot(r) <=> LP!ValidSnapshot(r)
    BY DEF L!ValidSnapshot, LP!ValidSnapshot
<1>8. QED
    BY <1>2, <1>3, <1>5, <1>6, <1>7 DEF L!ExecuteFill, LP!ExecuteFill

\* The two instances of the matching loop take the same steps.
LEMMA SameMatching ==
    /\ M!Init <=> MP!Init
    /\ M!QuietStep <=> MP!QuietStep
    /\ M!FillOrder <=> MP!FillOrder
    /\ M!RejectFill <=> MP!RejectFill
    /\ M!RejectSnapshot <=> MP!RejectSnapshot
    /\ M!Finish <=> MP!Finish
    /\ M!Runtime = MP!Runtime
    /\ M!Price = MP!Price
    /\ M!Qty = MP!Qty
    /\ \A q : M!Total(q) = MP!Total(q)
    /\ \A e : M!EventTs(e) = MP!EventTs(e)
<1>. USE DEF M!Statuses, M!TerminalStatuses, M!ActiveStatuses, M!NoStatus,
     M!AllowedTransitions, M!ValidTransition, M!LimitTypes, M!StopTypes, M!SingleShotTIF, M!vars,
     M!Open, M!High, M!Low, M!Liquidity, M!EventTs, M!Eligible, M!GapsThroughStop, M!ReachesStop,
     M!WithinLimit, M!Triggered, M!Marketable, M!FillPrice, M!FillQty, M!Event, M!Intent,
     M!Runtime, M!MoveTo, M!InLoop, M!Touches, M!Consumed, M!Offered, M!Qty, M!Price, M!Filled,
     M!StatusFor, M!Advance, M!TouchOrder, M!NewFill, M!Total,
     MP!Statuses, MP!TerminalStatuses, MP!ActiveStatuses, MP!NoStatus,
     MP!AllowedTransitions, MP!ValidTransition, MP!LimitTypes, MP!StopTypes, MP!SingleShotTIF,
     MP!vars, MP!Open, MP!High, MP!Low, MP!Liquidity, MP!EventTs, MP!Eligible,
     MP!GapsThroughStop, MP!ReachesStop, MP!WithinLimit, MP!Triggered, MP!Marketable,
     MP!FillPrice, MP!FillQty, MP!Event, MP!Intent, MP!Runtime, MP!MoveTo, MP!InLoop, MP!Touches,
     MP!Consumed, MP!Offered, MP!Qty, MP!Price, MP!Filled, MP!StatusFor, MP!Advance,
     MP!TouchOrder, MP!NewFill, MP!Total
<1>1. M!Init <=> MP!Init
    BY Zenon DEF M!Init, MP!Init
<1>2. M!QuietStep <=> MP!QuietStep
    BY Zenon DEF M!QuietStep, M!AcceptOrder, M!StartReplay, M!ReceiveEvent, M!PastExpiry,
           M!ExpireOrder, M!KeepOrder, M!StartMatching, M!SkipOrder, M!PassOver, M!MissOrder,
           M!StartCanceling, M!Canceling, M!TouchedRuntime, M!Residual, M!CancelResidual,
           M!LeaveResting, M!EndEvent,
           MP!QuietStep, MP!AcceptOrder, MP!StartReplay, MP!ReceiveEvent, MP!PastExpiry,
           MP!ExpireOrder, MP!KeepOrder, MP!StartMatching, MP!SkipOrder, MP!PassOver,
           MP!MissOrder, MP!StartCanceling, MP!Canceling, MP!TouchedRuntime, MP!Residual,
           MP!CancelResidual, MP!LeaveResting, MP!EndEvent
<1>3. M!FillOrder <=> MP!FillOrder
    BY Zenon DEF M!FillOrder, MP!FillOrder
<1>4. M!RejectFill <=> MP!RejectFill
    BY Zenon DEF M!RejectFill, MP!RejectFill
<1>5. M!Finish <=> MP!Finish
    BY Zenon DEF M!Finish, MP!Finish
<1>6. M!Runtime = MP!Runtime /\ M!Price = MP!Price /\ M!Qty = MP!Qty
    BY Zenon
<1>7. \A q : M!Total(q) = MP!Total(q)
    BY Zenon
<1>8. \A e : M!EventTs(e) = MP!EventTs(e)
    BY Zenon
<1>9. M!RejectSnapshot <=> MP!RejectSnapshot
    BY Zenon DEF M!RejectSnapshot, MP!RejectSnapshot
<1>10. QED
    BY <1>1, <1>2, <1>3, <1>4, <1>5, <1>6, <1>7, <1>8, <1>9

\* The inputs are what the components assume of them.
LEMMA MatchingAssumed == MP!IntentAssumption /\ MP!EventAssumption /\ MP!BoundAssumption
BY GoldenAssumption
DEF M!IntentAssumption, M!EventAssumption, M!BoundAssumption, M!LimitTypes, M!StopTypes,
    M!SingleShotTIF,
    MP!IntentAssumption, MP!EventAssumption, MP!BoundAssumption, MP!LimitTypes, MP!StopTypes,
    MP!SingleShotTIF

\* So are the amounts.
LEMMA LedgerAssumed == LP!LedgerAssumption
<1>1. /\ {Unit, Limit} \subseteq Nat \ {0} /\ Scales \subseteq Nat \ {0}
      /\ \A c \in Configs : {c.starting_cash, c.fee_rate, c.margin_rate} \subseteq Int
    BY GoldenAssumption
<1>2. Int \subseteq Int /\ Nat \ {0} \subseteq Nat \ {0}
    OBVIOUS
<1>3. 0 \in Nat
    OBVIOUS
<1>4. QED
    BY <1>1, <1>2, <1>3, Zenon DEF LP!LedgerAssumption

\* The invariants of the matching loop: whatever the order ids, and when they
\* are distinct.
Replayed == MP!IInv /\ MP!Conserved
Matched == MP!IInv /\ MP!Streamed

\* They hold initially.
LEMMA LoopInit == Init => Replayed /\ Matched
<1>1. MP!Init => MP!IInv
    BY MP!InvariantInit, MatchingAssumed
    DEF MP!IntentAssumption, MP!EventAssumption, MP!BoundAssumption
<1>2. MP!Init => MP!Conserved
    BY MP!ConservedInit, MatchingAssumed
    DEF MP!IntentAssumption, MP!EventAssumption, MP!BoundAssumption
<1>3. MP!Init => MP!Streamed
    BY MP!StreamedInit, MatchingAssumed
    DEF MP!IntentAssumption, MP!EventAssumption, MP!BoundAssumption
<1>4. QED
    BY <1>1, <1>2, <1>3, SameMatching DEF Init, Replayed, Matched

\* A step of the replay is one of the loop's, or leaves the loop alone.
LEMMA LoopSteps == [Next]_vars => [MP!Next]_MP!vars
BY SameMatching
DEF Next, Quiet, Fill, RejectedFill, RejectedSnapshot, ReturnOpen, Liquidates, Liquidate,
    RefusedLiquidation, Terminated, vars, matching, MP!Next, MP!Step, MP!vars

\* So it keeps the loop's invariants.
LEMMA ReplayedStep == Replayed /\ [Next]_vars => Replayed'
<1>. SUFFICES ASSUME Replayed, [Next]_vars PROVE Replayed'
    OBVIOUS
<1>1. MP!IInv'
    BY LoopSteps, MP!InvariantStep, MatchingAssumed
    DEF MP!IntentAssumption, MP!EventAssumption, MP!BoundAssumption, Replayed
<1>2. MP!Conserved'
    BY LoopSteps, MP!ConservedStep, MatchingAssumed
    DEF MP!IntentAssumption, MP!EventAssumption, MP!BoundAssumption, Replayed
<1>3. QED
    BY <1>1, <1>2 DEF Replayed

LEMMA MatchedStep == UniqueIds /\ Matched /\ [Next]_vars => Matched'
<1>. SUFFICES ASSUME UniqueIds, Matched, [Next]_vars PROVE Matched'
    OBVIOUS
<1>1. MP!IInv'
    BY LoopSteps, MP!InvariantStep, MatchingAssumed
    DEF MP!IntentAssumption, MP!EventAssumption, MP!BoundAssumption, Matched
<1>2. MP!Streamed'
    BY LoopSteps, MP!StreamedStep, MatchingAssumed
    DEF MP!IntentAssumption, MP!EventAssumption, MP!BoundAssumption, Matched
<1>3. QED
    BY <1>1, <1>2 DEF Matched

------------------------------------------------------------------------------
(***************************************************************************)
(* What the orders have executed.                                          *)
(***************************************************************************)

\* What the orders have executed, one by one, and all together.
Shares == [n \in DOMAIN intents |-> Executed(intents[n].order_id)]
Net == M!Total(Shares)

\* What the n-th order has executed, from its runtime.
Executes(n) == L!Signed(MP!Rt(n).intent.side, MP!Rt(n).intent.quantity - MP!Rt(n).remaining)

\* Sides, quantities and residuals are what they should be.
LEMMA OrderNumbers ==
    Matched => /\ intents \in Seq(Intents)
               /\ \A n \in DOMAIN intents :
                    /\ MP!Rt(n).intent.side \in {"BUY", "SELL"}
                    /\ MP!Rt(n).intent.quantity \in Nat \ {0}
                    /\ MP!Rt(n).remaining \in 0 .. MP!Rt(n).intent.quantity
<1>. SUFFICES ASSUME Matched
              PROVE  /\ intents \in Seq(Intents)
                     /\ \A n \in DOMAIN intents :
                          /\ MP!Rt(n).intent.side \in {"BUY", "SELL"}
                          /\ MP!Rt(n).intent.quantity \in Nat \ {0}
                          /\ MP!Rt(n).remaining \in 0 .. MP!Rt(n).intent.quantity
    OBVIOUS
<1>1. \A n \in DOMAIN intents : MP!RuntimeInv(MP!Rt(n))
    BY MP!OrderFacts, MatchingAssumed
    DEF Matched, MP!Streamed, MP!IntentAssumption, MP!EventAssumption, MP!BoundAssumption
<1>2. \A n \in DOMAIN intents : /\ MP!Rt(n).intent \in Intents
                                /\ MP!Rt(n).remaining \in 0 .. MP!Rt(n).intent.quantity
    BY <1>1 DEF MP!RuntimeInv, MP!RuntimeOK
<1>3. \A i \in Intents : i.side \in {"BUY", "SELL"} /\ i.quantity \in Nat \ {0}
    BY MatchingAssumed DEF MP!IntentAssumption
<1>4. intents \in Seq(Intents)
    BY DEF Matched, MP!IInv, MP!Scalars
<1>5. QED
    BY <1>2, <1>3, <1>4

\* The n-th share is what the n-th order has executed.
Tallied == /\ Shares \in Seq(Int) /\ Shares = [n \in 1 .. Len(intents) |-> Executes(n)]
           /\ Len(Shares) = Len(intents) /\ Len(intents) \in Nat
           /\ DOMAIN intents = 1 .. Len(intents)

\* It is in every state of the loop,
LEMMA SharesTallied == Matched => Tallied
<1>. SUFFICES ASSUME Matched PROVE Tallied
    OBVIOUS
<1>1. Len(intents) \in Nat /\ DOMAIN intents = 1 .. Len(intents)
    BY OrderNumbers
<1>2. \A n \in DOMAIN intents : Executed(intents[n].order_id) = Executes(n)
    BY DEF Executed, Executes, MP!Rt
<1>3. \A n \in DOMAIN intents : Executes(n) \in Int
    BY OrderNumbers DEF Executes, L!Signed
<1>4. Shares = [n \in 1 .. Len(intents) |-> Executes(n)]
    BY <1>1, <1>2 DEF Shares
<1>5. QED
    BY <1>1, <1>3, <1>4 DEF Tallied

\* and in the one after.
LEMMA SharesStayTallied == Matched' => Tallied'
BY SharesTallied, PTL

\* A step that leaves every order as it was, or accepts one, leaves the sum alone.
LEMMA QuietNet ==
    ASSUME UniqueIds, Matched, Matched',
           MP!QuietStep \/ MP!RejectFill \/ MP!RejectSnapshot \/ MP!Finish \/ UNCHANGED MP!vars
    PROVE  Net' = Net /\ Net \in Int
<1>1. Tallied /\ Tallied'
    BY SharesTallied, SharesStayTallied
<1>2. \/ MP!Kept
      \/ \E i \in Intents : MP!AcceptOrder(i)
    BY MP!QuietKeeps, MatchingAssumed
    DEF Matched, MP!IntentAssumption, MP!EventAssumption, MP!BoundAssumption
<1>3. CASE MP!Kept
    <2>1. intents' = intents /\ \A n \in DOMAIN intents : Executes(n)' = Executes(n)
        BY <1>3 DEF MP!Kept, Executes, L!Signed
    <2>2. Shares' = Shares
        BY <1>1, <2>1 DEF Tallied
    <2>3. MP!Total(Shares) \in Int
        BY <1>1, MP!TotalInt, MatchingAssumed
        DEF Tallied, MP!IntentAssumption, MP!EventAssumption, MP!BoundAssumption
    <2>4. QED
        BY <2>2, <2>3, SameMatching DEF Net
<1>4. CASE \E i \in Intents : MP!AcceptOrder(i)
    <2>1. PICK i \in Intents : MP!AcceptOrder(i)
        BY <1>4
    <2>2. /\ MP!OrderIds' = MP!OrderIds \cup {i.order_id}
          /\ \A o \in MP!OrderIds : runtimes'[o] = runtimes[o]
          /\ runtimes'[i.order_id].intent = i
          /\ runtimes'[i.order_id].remaining = i.quantity
        <3>1. MP!IInv /\ MP!Filing
            BY DEF Matched, MP!Streamed
        <3>2. /\ MP!OrderIds' = MP!OrderIds \cup {i.order_id}
              /\ \A o \in MP!OrderIds : runtimes'[o] = runtimes[o]
              /\ runtimes'[i.order_id] =
                    [intent |-> i, status |-> "ACCEPTED", remaining |-> i.quantity,
                     stop_triggered |-> FALSE, first_event_consumed |-> FALSE]
            BY <2>1, <3>1, MP!AcceptEffect, MatchingAssumed
            DEF MP!IntentAssumption, MP!EventAssumption, MP!BoundAssumption
        <3>3. QED
            BY <3>2
    <2>3. /\ intents' = Append(intents, i) /\ intents \in Seq(Intents) /\ i.quantity \in Nat
          /\ \A n \in DOMAIN intents : intents[n].order_id \in MP!OrderIds
        BY <2>1, OrderNumbers, MatchingAssumed
        DEF Matched, MP!AcceptOrder, MP!IInv, MP!Scalars, MP!IntentAssumption
    <2>4. PICK c \in Nat : /\ c - 1 = Len(intents) /\ c = Len(intents') /\ intents'[c] = i
                           /\ \A n \in 1 .. c - 1 : n \in DOMAIN intents /\ intents'[n] =
                               intents[n]
        BY <2>3
    <2>5. \A n \in 1 .. c - 1 : Executes(n)' = Executes(n)
        <3>1. \A n \in 1 .. c - 1 : MP!Rt(n)' = MP!Rt(n)
            BY <2>2, <2>3, <2>4 DEF MP!Rt
        <3>2. QED
            BY <3>1 DEF Executes, L!Signed
    <2>6. Executes(c)' = 0
        <3>1. MP!Rt(c)'.intent = i /\ MP!Rt(c)'.remaining = i.quantity
            BY <2>2, <2>4 DEF MP!Rt
        <3>2. QED
            BY <2>3, <3>1 DEF Executes, L!Signed
    <2>7. /\ Shares \in Seq(Int) /\ Shares' \in Seq(Int) /\ Len(Shares') = Len(Shares) + 1
          /\ \A n \in 1 .. Len(Shares) : Shares'[n] = Shares[n]
          /\ Shares'[Len(Shares) + 1] = 0
        <3>1. /\ Shares = [n \in 1 .. c - 1 |-> Executes(n)]
              /\ Shares' = [n \in 1 .. c |-> Executes(n)']
            BY <1>1, <2>4 DEF Tallied
        <3>2. Len(Shares) = c - 1 /\ Len(Shares') = c
            BY <1>1, <2>4, <3>1 DEF Tallied
        <3>3. \A n \in 1 .. c - 1 : Shares'[n] = Shares[n]
            BY <2>4, <2>5, <3>1
        <3>4. Shares'[c] = 0
            BY <2>4, <2>6, <3>1
        <3>5. QED
            <4>1. Shares \in Seq(Int) /\ Shares' \in Seq(Int)
                BY <1>1 DEF Tallied
            <4>2. c = Len(Shares) + 1 /\ c = Len(Shares') /\ c - 1 = Len(Shares)
                BY <2>4, <3>2
            <4>3. QED
                BY <3>3, <3>4, <4>1, <4>2
    <2>8. MP!Total(Shares) \in Int /\ MP!Total(Shares') = MP!Total(Shares) + 0
        BY <2>7, MP!TotalAppend, MatchingAssumed
        DEF MP!IntentAssumption, MP!EventAssumption, MP!BoundAssumption
    <2>9. QED
        BY <2>8, SameMatching DEF Net
<1>5. QED
    BY <1>2, <1>3, <1>4

\* A fill adds what it trades to the sum.
LEMMA FillNet ==
    ASSUME UniqueIds, Matched, Matched', MP!FillOrder
    PROVE  Net \in Int /\ Net' = Net + L!Signed(MP!Runtime.intent.side, MP!Qty)
<1>1. Tallied /\ Tallied'
    BY SharesTallied, SharesStayTallied
<1>2. /\ intents' = intents /\ cursor \in DOMAIN intents /\ MP!Runtime = MP!Rt(cursor)
      /\ MP!Qty \in Nat \ {0}
      /\ \A n \in DOMAIN intents :
            /\ MP!Rt(n)'.intent = MP!Rt(n).intent
            /\ MP!Rt(n)'.remaining = MP!Rt(n).remaining - IF n = cursor THEN MP!Qty ELSE 0
    BY MP!FillTrades, MP!FillBooks, MatchingAssumed
    DEF Matched, MP!IntentAssumption, MP!EventAssumption, MP!BoundAssumption
<1>3. PICK c \in DOMAIN intents : c = cursor
    BY <1>2
<1>4. PICK x \in Nat \ {0} : x = MP!Qty
    BY <1>2
<1>5. \A n \in DOMAIN intents :
         Executes(n)' = Executes(n) + IF n = c THEN L!Signed(MP!Rt(n).intent.side, x) ELSE 0
    <2>1. TAKE n \in DOMAIN intents
    <2>2. PICK side, q, r : /\ side = MP!Rt(n).intent.side
                            /\ q = MP!Rt(n).intent.quantity /\ r = MP!Rt(n).remaining
                            /\ q \in Int /\ r \in Int
        BY OrderNumbers
    <2>3. /\ MP!Rt(n)'.intent.side = side /\ MP!Rt(n)'.intent.quantity = q
          /\ MP!Rt(n)'.remaining = r - IF n = c THEN x ELSE 0
        BY <1>2, <1>3, <1>4, <2>2
    <2>4. /\ Executes(n) = IF side = "BUY" THEN q - r ELSE -(q - r)
          /\ Executes(n)' = IF side = "BUY" THEN q - (r - IF n = c THEN x ELSE 0)
                            ELSE -(q - (r - IF n = c THEN x ELSE 0))
          /\ L!Signed(MP!Rt(n).intent.side, x) = IF side = "BUY" THEN x ELSE -x
        BY <2>2, <2>3 DEF Executes, L!Signed
    <2>5. QED
        BY <1>4, <2>2, <2>4
<1>6. /\ Shares \in Seq(Int) /\ Shares' \in Seq(Int) /\ Len(Shares') = Len(Shares)
      /\ c \in 1 .. Len(Shares) /\ \A n \in 1 .. Len(Shares) : n # c => Shares'[n] = Shares[n]
      /\ Shares'[c] - Shares[c] = L!Signed(MP!Runtime.intent.side, x)
    <2>1. \A n \in DOMAIN intents : Executes(n) \in Int
        BY OrderNumbers DEF Executes, L!Signed
    <2>2. L!Signed(MP!Runtime.intent.side, x) \in Int
        BY DEF L!Signed
    <2>3. /\ Shares = [n \in 1 .. Len(intents) |-> Executes(n)]
          /\ Shares' = [n \in 1 .. Len(intents) |-> Executes(n)']
          /\ Len(intents) \in Nat /\ DOMAIN intents = 1 .. Len(intents)
        BY <1>1, <1>2 DEF Tallied
    <2>4. Len(Shares) = Len(intents) /\ Len(Shares') = Len(intents)
        BY <1>1, <1>2 DEF Tallied
    <2>5. \A n \in 1 .. Len(intents) : n # c => Shares'[n] = Shares[n]
        BY <1>5, <2>1, <2>3
    <2>6. Shares'[c] - Shares[c] = L!Signed(MP!Runtime.intent.side, x)
        BY <1>2, <1>3, <1>5, <2>1, <2>2, <2>3
    <2>7. QED
        BY <1>1, <1>3, <2>3, <2>4, <2>5, <2>6 DEF Tallied
<1>7. MP!Total(Shares) \in Int /\ MP!Total(Shares') = MP!Total(Shares) + (Shares'[c] - Shares[c])
    BY <1>6, MP!TotalBump, MatchingAssumed
    DEF MP!IntentAssumption, MP!EventAssumption, MP!BoundAssumption
<1>8. QED
    BY <1>2, <1>4, <1>6, <1>7, SameMatching DEF Net

------------------------------------------------------------------------------
(***************************************************************************)
(* The invariant of a replay.                                              *)
(***************************************************************************)

\* The last snapshot reports the position without the fill that ended the replay,
\* if one did; until then the ledger's books balance, and a configured liquidation
\* leaves no position.
Accounts ==
    /\ LP!ExactInv
    /\ {position_qty, refused} \subseteq Int
    /\ snapshot.quantity = position_qty - refused
    /\ refused # 0 => phase = "raised"
    /\ liquidation # <<>> => phase = "done"
    /\ phase # "raised" =>
          /\ position_qty = 0 => avg_price = 0
          /\ position_qty # 0 => last_price \in Nat \ {0}
          /\ phase = "done" /\ config.final_liquidation_ts # None => position_qty = 0

\* Fills come in the order of their events; the liquidation has its timestamp.
Ordered ==
    /\ \A j, k \in DOMAIN fills : j < k => fills[j].event <= fills[k].event
    /\ liquidation = <<>> \/ \E r : liquidation = <<r>> /\ r.ts = config.final_liquidation_ts

\* The inductive invariant, whatever the order ids.
Settled == Replayed /\ Accounts /\ Ordered

\* With distinct ids the position is what the orders executed and a fill was
\* refused, until it is closed.
NetHeld == liquidation = <<>> => position_qty = Net + refused
Reconciled == Settled /\ Matched /\ NetHeld

\* A step that books nothing neither ends the replay nor follows its end.
LEMMA QuietPhase ==
    ASSUME MP!QuietStep
    PROVE  phase \notin {"done", "raised"} /\ phase' # "done"
BY DEF MP!QuietStep, MP!AcceptOrder, MP!StartReplay, MP!ReceiveEvent, MP!ExpireOrder,
       MP!KeepOrder, MP!StartMatching, MP!SkipOrder, MP!PassOver, MP!MissOrder,
       MP!StartCanceling, MP!Canceling, MP!CancelResidual, MP!LeaveResting, MP!EndEvent,
       MP!InLoop, MP!TouchOrder, MP!MoveTo

\* What a fill does to the ledger that is booked and then refused.
Refuses(s, q) == /\ position_qty' = position_qty + L!Signed(s, q)
                 /\ refused' = L!Signed(s, q)
                 /\ UNCHANGED <<config, snapshot, history>>

LEMMA RefusesEffect ==
    ASSUME NEW s, NEW p, NEW q, L!Refuse(s, p, q)
    PROVE  Refuses(s, q)
BY DEF L!Refuse, L!Book, L!ApplyPositionDelta, Refuses

\* The two components step together.
LEMMA Steps ==
    ASSUME [Next]_vars
    PROVE  \/ MP!QuietStep /\ UNCHANGED <<ledger, liquidation>>
           \/ MP!FillOrder /\ LP!ExecuteFill(MP!Runtime.intent.side, MP!Price, MP!Qty)
                  /\ UNCHANGED liquidation
           \/ /\ MP!RejectFill \/ MP!RejectSnapshot
              /\ Refuses(MP!Runtime.intent.side, MP!Qty) /\ UNCHANGED liquidation
           \/ /\ config.final_liquidation_ts = None \/ position_qty = 0
              /\ MP!Finish /\ UNCHANGED <<ledger, liquidation>>
           \/ /\ config.final_liquidation_ts # None /\ position_qty # 0
              /\ MP!Finish /\ phase' = "done"
              /\ LP!ExecuteFill(ClosingSide, last_price, ClosingQty)
              /\ \E r : liquidation' = <<r>> /\ r.ts = config.final_liquidation_ts
           \/ /\ position_qty # 0 /\ MP!Finish /\ phase' = "raised"
              /\ Refuses(ClosingSide, ClosingQty) /\ UNCHANGED liquidation
           \/ UNCHANGED MP!vars /\ UNCHANGED <<ledger, liquidation>>
<1>1. CASE Quiet
    BY <1>1, SameMatching DEF Quiet
<1>2. CASE Fill
    <2>1. M!FillOrder /\ UNCHANGED liquidation
        BY <1>2 DEF Fill
    <2>2. L!ExecuteFill(M!Runtime.intent.side, M!Price, M!Qty)
        BY <1>2 DEF Fill
    <2>3. PICK s, p, q : s = MP!Runtime.intent.side /\ p = MP!Price /\ q = MP!Qty
        OBVIOUS
    <2>4. L!ExecuteFill(s, p, q)
        BY <2>2, <2>3, SameMatching
    <2>5. LP!ExecuteFill(s, p, q)
        BY <2>4, SameLedger
    <2>6. LP!ExecuteFill(MP!Runtime.intent.side, MP!Price, MP!Qty)
        BY <2>3, <2>5
    <2>7. QED
        BY <2>1, <2>6, SameMatching
<1>3. CASE RejectedFill \/ RejectedSnapshot
    <2>1. PICK s, p, q : s = M!Runtime.intent.side /\ p = M!Price /\ q = M!Qty
        OBVIOUS
    <2>2. L!Refuse(s, p, q)
        BY <1>3, <2>1
        DEF RejectedFill, RejectedSnapshot, L!RefuseFill, L!RefuseSnapshot
    <2>3. Refuses(s, q)
        BY <2>2, RefusesEffect
    <2>4. Refuses(MP!Runtime.intent.side, MP!Qty)
        BY <2>1, <2>3, SameMatching
    <2>5. QED
        BY <1>3, <2>4, SameMatching DEF RejectedFill, RejectedSnapshot
<1>4. CASE ReturnOpen
    BY <1>4, SameMatching DEF ReturnOpen
<1>5. CASE Liquidate
    <2>1. PICK s, p, q : s = ClosingSide /\ p = last_price /\ q = ClosingQty
        OBVIOUS
    <2>2. L!ExecuteFill(s, p, q)
        BY <1>5, <2>1 DEF Liquidate
    <2>3. LP!ExecuteFill(s, p, q)
        BY <2>2, SameLedger
    <2>4. LP!ExecuteFill(ClosingSide, last_price, ClosingQty)
        BY <2>1, <2>3
    <2>5. QED
        BY <1>5, <2>4, SameMatching DEF Liquidates, Liquidate, ClosingTs
<1>6. CASE RefusedLiquidation
    <2>1. PICK s, p, q : s = ClosingSide /\ p = last_price /\ q = ClosingQty
        OBVIOUS
    <2>2. L!Refuse(s, p, q)
        BY <1>6, <2>1 DEF RefusedLiquidation
    <2>3. Refuses(ClosingSide, ClosingQty)
        BY <2>1, <2>2, RefusesEffect
    <2>4. QED
        BY <1>6, <2>3, SameMatching DEF Liquidates, RefusedLiquidation
<1>7. CASE Terminated \/ UNCHANGED vars
    BY <1>7 DEF Terminated, vars, matching, ledger, MP!vars
<1>8. QED
    BY <1>1, <1>2, <1>3, <1>4, <1>5, <1>6, <1>7 DEF Next

\* A fill of a positive quantity at a positive price.
Books(s, p, q) == /\ LP!ExecuteFill(s, p, q) /\ s \in {"BUY", "SELL"}
                  /\ p \in Nat \ {0} /\ q \in Nat \ {0}

\* It moves the position by what it trades and keeps the books balanced.
LEMMA BooksMove ==
    ASSUME phase # "raised", Accounts, NEW s, NEW p, NEW q, Books(s, p, q)
    PROVE  /\ LP!ExactInv'
           /\ position_qty' = position_qty + L!Signed(s, q) /\ position_qty' \in Int
           /\ position_qty' = 0 => avg_price' = 0
           /\ last_price' \in Nat \ {0}
           /\ snapshot'.quantity = position_qty' - refused'
           /\ refused = 0 /\ UNCHANGED <<config, refused>>
<1>1. LP!ExactInv /\ position_qty \in Int /\ refused = 0
    BY DEF Accounts
<1>2. /\ LP!ExecuteFill(s, p, q) /\ s \in LP!Sides /\ p \in Int /\ p \in Nat \ {0}
      /\ q \in Nat \ {0}
    BY DEF Books, LP!Sides
<1>3. LP!ExactInv'
    BY <1>1, <1>2, LP!ExactFillStep, LedgerAssumed DEF LP!LedgerAssumption
<1>4. /\ position_qty' = position_qty + LP!Signed(s, q) /\ position_qty' \in Int
      /\ last_price' = p /\ snapshot'.quantity = position_qty'
      /\ position_qty' = 0 => avg_price' = 0
    BY <1>1, <1>2, LP!PositionMoves, LedgerAssumed DEF LP!LedgerAssumption
<1>5. UNCHANGED <<config, refused>>
    BY <1>2 DEF LP!ExecuteFill
<1>6. QED
    BY <1>1, <1>2, <1>3, <1>4, <1>5, SameAmounts

\* A refused fill moves the position by as much, and its snapshot is missing.
LEMMA RefusesMove ==
    ASSUME phase # "raised", Accounts, NEW s \in {"BUY", "SELL"}, NEW q \in Nat \ {0},
           Refuses(s, q), phase' = "raised", liquidation = <<>>, UNCHANGED liquidation
    PROVE  Accounts'
<1>1. /\ LP!ExactInv /\ position_qty \in Int /\ refused = 0
      /\ snapshot.quantity = position_qty - refused
    BY DEF Accounts
<1>2. refused' \in Int /\ refused' # 0 /\ position_qty' = position_qty + refused'
      /\ UNCHANGED <<config, snapshot, history>>
    BY DEF Refuses, L!Signed
<1>3. LP!ExactInv'
    BY <1>1, <1>2 DEF LP!ExactInv
<1>4. QED
    BY <1>1, <1>2, <1>3 DEF Accounts

\* A refused fill of the loop is of a positive quantity.
LEMMA LoopRefuses ==
    ASSUME Replayed, MP!RejectFill \/ MP!RejectSnapshot
    PROVE  /\ phase = "match" /\ phase' = "raised"
           /\ MP!Qty \in Nat \ {0} /\ MP!Runtime.intent.side \in {"BUY", "SELL"}
<1>1. MP!IInv /\ MP!TouchOrder /\ MP!Qty > 0
    BY DEF Replayed, MP!RejectFill, MP!RejectSnapshot
<1>2. /\ phase = "match" /\ MP!Qty \in Nat \ {0}
      /\ MP!Runtime.intent.side \in {"BUY", "SELL"}
    BY <1>1, MP!QtyFacts, MatchingAssumed
    DEF MP!IntentAssumption, MP!EventAssumption, MP!BoundAssumption
<1>3. QED
    BY <1>2 DEF MP!RejectFill, MP!RejectSnapshot

\* A fill of the loop is one the ledger can book.
LEMMA LoopBooks ==
    ASSUME Replayed, MP!FillOrder, LP!ExecuteFill(MP!Runtime.intent.side, MP!Price, MP!Qty)
    PROVE  /\ phase = "match" /\ phase' = "match"
           /\ Books(MP!Runtime.intent.side, MP!Price, MP!Qty)
BY MP!FillBooks, MatchingAssumed
DEF Replayed, Books, MP!IntentAssumption, MP!EventAssumption, MP!BoundAssumption

\* Every step keeps the accounts.
LEMMA AccountsStep ==
    ASSUME Replayed, Accounts, [Next]_vars
    PROVE  Accounts'
<1>1. CASE /\ UNCHANGED <<ledger, liquidation>>
           /\ MP!QuietStep \/ UNCHANGED MP!vars
    <2>1. phase = "done" => phase' = "done"
        BY <1>1, QuietPhase DEF MP!vars
    <2>2. phase = "raised" => phase' = "raised"
        BY <1>1, QuietPhase DEF MP!vars
    <2>3. phase' = "done" => phase = "done"
        BY <1>1, QuietPhase DEF MP!vars
    <2>4. LP!ExactInv'
        BY <1>1 DEF Accounts, ledger, LP!ExactInv, LP!BookBalances
    <2>5. QED
        BY <1>1, <2>1, <2>2, <2>3, <2>4 DEF Accounts, ledger
<1>2. CASE /\ MP!FillOrder /\ LP!ExecuteFill(MP!Runtime.intent.side, MP!Price, MP!Qty)
           /\ UNCHANGED liquidation
    <2>1. PICK s, p, q : Books(s, p, q)
        BY <1>2, LoopBooks
    <2>2. phase = "match" /\ phase' = "match"
        BY <1>2, LoopBooks
    <2>3. /\ LP!ExactInv' /\ position_qty' \in Int
          /\ position_qty' = 0 => avg_price' = 0
          /\ last_price' \in Nat \ {0} /\ snapshot'.quantity = position_qty' - refused'
          /\ refused' = 0
        BY <2>1, <2>2, BooksMove
    <2>4. liquidation = <<>> /\ liquidation' = <<>>
        BY <1>2, <2>2 DEF Accounts
    <2>5. QED
        BY <2>2, <2>3, <2>4 DEF Accounts
<1>3. CASE /\ MP!RejectFill \/ MP!RejectSnapshot
           /\ Refuses(MP!Runtime.intent.side, MP!Qty) /\ UNCHANGED liquidation
    <2>1. PICK s \in {"BUY", "SELL"}, q \in Nat \ {0} : Refuses(s, q)
        BY <1>3, LoopRefuses
    <2>2. phase = "match" /\ phase' = "raised"
        BY <1>3, LoopRefuses
    <2>3. liquidation = <<>>
        BY <2>2 DEF Accounts
    <2>4. QED
        BY <1>3, <2>1, <2>2, <2>3, RefusesMove
<1>4. CASE /\ config.final_liquidation_ts = None \/ position_qty = 0
           /\ MP!Finish /\ UNCHANGED <<ledger, liquidation>>
    <2>1. phase = "idle" /\ liquidation = <<>>
        BY <1>4 DEF MP!Finish, Accounts
    <2>2. LP!ExactInv'
        BY <1>4 DEF Accounts, ledger, LP!ExactInv, LP!BookBalances
    <2>3. QED
        BY <1>4, <2>1, <2>2 DEF Accounts, ledger
<1>5. CASE /\ config.final_liquidation_ts # None /\ position_qty # 0
           /\ MP!Finish /\ phase' = "done"
           /\ LP!ExecuteFill(ClosingSide, last_price, ClosingQty)
           /\ \E r : liquidation' = <<r>> /\ r.ts = config.final_liquidation_ts
    <2>1. phase = "idle"
        BY <1>5 DEF MP!Finish
    <2>2. position_qty \in Int /\ position_qty # 0 /\ last_price \in Nat \ {0}
        BY <1>5, <2>1 DEF Accounts
    <2>3. PICK s, p, q : /\ s = ClosingSide /\ p = last_price /\ q = ClosingQty
                         /\ Books(s, p, q)
        BY <1>5, <2>2 DEF Books, ClosingSide, ClosingQty, L!Abs
    <2>4. /\ LP!ExactInv' /\ position_qty' = position_qty + L!Signed(s, q)
          /\ position_qty' = 0 => avg_price' = 0
          /\ last_price' \in Nat \ {0} /\ snapshot'.quantity = position_qty' - refused'
          /\ refused' = 0
        BY <2>1, <2>3, BooksMove
    <2>5. position_qty' = 0
        BY <2>2, <2>3, <2>4 DEF ClosingSide, ClosingQty, L!Abs, L!Signed
    <2>6. QED
        BY <1>5, <2>4, <2>5 DEF Accounts
<1>6. CASE /\ position_qty # 0 /\ MP!Finish /\ phase' = "raised"
           /\ Refuses(ClosingSide, ClosingQty) /\ UNCHANGED liquidation
    <2>1. phase = "idle" /\ liquidation = <<>> /\ position_qty \in Int
        BY <1>6 DEF MP!Finish, Accounts
    <2>2. ClosingSide \in {"BUY", "SELL"} /\ ClosingQty \in Nat \ {0}
        BY <1>6, <2>1 DEF ClosingSide, ClosingQty, L!Abs
    <2>3. QED
        BY <1>6, <2>1, <2>2, RefusesMove
<1>7. QED
    BY <1>1, <1>2, <1>3, <1>4, <1>5, <1>6, Steps

\* Every step keeps the position what the orders executed.
LEMMA NetStep ==
    ASSUME UniqueIds, Replayed, Matched, Matched', Accounts, NetHeld, [Next]_vars
    PROVE  NetHeld'
<1>1. CASE /\ UNCHANGED <<ledger, liquidation>>
           /\ MP!QuietStep \/ MP!Finish \/ UNCHANGED MP!vars
    <2>1. Net' = Net
        BY <1>1, QuietNet
    <2>2. QED
        BY <1>1, <2>1 DEF NetHeld, ledger
<1>2. CASE /\ MP!FillOrder /\ LP!ExecuteFill(MP!Runtime.intent.side, MP!Price, MP!Qty)
           /\ UNCHANGED liquidation
    <2>1. Net \in Int /\ Net' = Net + L!Signed(MP!Runtime.intent.side, MP!Qty)
        BY <1>2, FillNet
    <2>2. phase = "match"
        BY <1>2, LoopBooks
    <2>3. PICK s, p, q : /\ s = MP!Runtime.intent.side /\ p = MP!Price /\ q = MP!Qty
                         /\ Books(s, p, q)
        BY <1>2, LoopBooks
    <2>4. position_qty' = position_qty + L!Signed(s, q) /\ refused = 0 /\ refused' = 0
        BY <2>2, <2>3, BooksMove
    <2>5. L!Signed(s, q) \in Int
        BY <2>3 DEF Books, L!Signed
    <2>6. QED
        BY <1>2, <2>1, <2>3, <2>4, <2>5 DEF NetHeld
<1>3. CASE /\ MP!RejectFill \/ MP!RejectSnapshot
           /\ Refuses(MP!Runtime.intent.side, MP!Qty) /\ UNCHANGED liquidation
    <2>1. Net' = Net /\ Net \in Int
        BY <1>3, QuietNet
    <2>2. phase = "match"
        BY <1>3, LoopRefuses
    <2>3. refused = 0
        BY <2>2 DEF Accounts
    <2>4. PICK x : position_qty' = position_qty + x /\ refused' = x
        BY <1>3 DEF Refuses
    <2>5. QED
        BY <1>3, <2>1, <2>3, <2>4 DEF NetHeld
<1>4. CASE \E r : liquidation' = <<r>>
    BY <1>4 DEF NetHeld
<1>5. CASE /\ MP!Finish /\ Refuses(ClosingSide, ClosingQty) /\ UNCHANGED liquidation
    <2>1. Net' = Net /\ Net \in Int
        BY <1>5, QuietNet
    <2>2. refused = 0
        BY <1>5 DEF MP!Finish, Accounts
    <2>3. PICK x : position_qty' = position_qty + x /\ refused' = x
        BY <1>5 DEF Refuses
    <2>4. QED
        BY <1>5, <2>1, <2>2, <2>3 DEF NetHeld
<1>6. QED
    BY <1>1, <1>2, <1>3, <1>4, <1>5, Steps

\* Fills are of events received, whose timestamps they carry.
LEMMA FillsKnown ==
    ASSUME Replayed
    PROVE  /\ fills \in Seq(MP!FillRecords) /\ Len(events) \in Nat
           /\ \A k \in DOMAIN fills : /\ fills[k].event \in 1 .. Len(events)
                                      /\ fills[k].ts = M!EventTs(events[fills[k].event])
           /\ \A m \in 1 .. Len(events) : M!EventTs(events[m]) \in Nat
<1>1. events \in Seq(Events)
    BY DEF Replayed, MP!IInv, MP!Scalars
<1>2. \A e \in Events : MP!EventTs(e) \in Nat
    BY MatchingAssumed DEF MP!EventAssumption, MP!EventTs
<1>3. /\ fills \in Seq(MP!FillRecords)
      /\ \A k \in DOMAIN fills : /\ fills[k].event \in DOMAIN events
                                 /\ fills[k].ts = MP!EventTs(events[fills[k].event])
    BY DEF Replayed, MP!Conserved, MP!Booking
<1>4. Len(events) \in Nat /\ DOMAIN events = 1 .. Len(events)
      /\ \A m \in 1 .. Len(events) : events[m] \in Events
    BY <1>1
<1>5. QED
    BY <1>2, <1>3, <1>4, SameMatching

\* Every step keeps the fills in the order of their events.
LEMMA OrderedStep ==
    ASSUME Replayed, Ordered, [Next]_vars
    PROVE  Ordered'
<1>1. \A j, k \in DOMAIN fills' : j < k => fills'[j].event <= fills'[k].event
    <2>1. CASE fills' = fills
        BY <2>1 DEF Ordered
    <2>2. CASE \E f : fills' = Append(fills, f) /\ f.event = Len(events)
        <3>1. PICK f : fills' = Append(fills, f) /\ f.event = Len(events)
            BY <2>2
        <3>2. /\ DOMAIN fills = 1 .. Len(fills) /\ DOMAIN fills' = 1 .. Len(fills) + 1
              /\ Len(fills) \in Nat /\ fills'[Len(fills) + 1] = f
              /\ \A k \in 1 .. Len(fills) : fills'[k] = fills[k]
            BY <3>1, FillsKnown
        <3>3. \A k \in 1 .. Len(fills) : fills[k].event \in Int /\ fills[k].event <= f.event
            <4>1. \A k \in DOMAIN fills : fills[k].event \in 1 .. Len(events)
                BY FillsKnown
            <4>2. Len(events) \in Nat
                BY FillsKnown
            <4>3. QED
                BY <3>1, <3>2, <4>1, <4>2
        <3>4. QED
            BY <3>2, <3>3 DEF Ordered
    <2>3. fills' = fills \/ \E f : fills' = Append(fills, f) /\ f.event = Len(events)
        <3>1. CASE MP!FillOrder
            BY <3>1, MP!FillBooks, MatchingAssumed
            DEF Replayed, MP!IntentAssumption, MP!EventAssumption, MP!BoundAssumption
        <3>2. CASE MP!RejectSnapshot
            BY <3>2 DEF MP!RejectSnapshot, MP!NewFill
        <3>3. CASE MP!QuietStep \/ MP!RejectFill \/ MP!Finish \/ UNCHANGED MP!vars
            BY <3>3, MP!OnlyFillsTrade, MatchingAssumed
            DEF MP!IntentAssumption, MP!EventAssumption, MP!BoundAssumption
        <3>4. QED
            BY <3>1, <3>2, <3>3, Steps
    <2>4. QED
        BY <2>1, <2>2, <2>3
<1>2. \/ liquidation' = liquidation
      \/ \E r : liquidation' = <<r>> /\ r.ts = config.final_liquidation_ts
    BY Steps
<1>3. config' = config
    BY Steps DEF Refuses, ledger, LP!ExecuteFill
<1>4. QED
    BY <1>1, <1>2, <1>3 DEF Ordered

\* Nothing is traded and nothing owned.
LEMMA ReconciledInit == Init => Reconciled
<1>. SUFFICES ASSUME Init PROVE Reconciled
    OBVIOUS
<1>1. Replayed /\ Matched
    BY LoopInit
<1>2. LP!Init
    BY DEF Init, L!Init, LP!Init
<1>3. LP!ExactInv
    BY <1>2, LP!ExactInit, LedgerAssumed DEF LP!LedgerAssumption
<1>4. intents = <<>> /\ fills = <<>> /\ phase = "accept" /\ liquidation = <<>>
      /\ position_qty = 0 /\ avg_price = 0 /\ snapshot.quantity = 0 /\ refused = 0
    BY DEF Init, M!Init, L!Init
<1>5. Net = 0
    <2>1. Shares = <<>>
        BY <1>4 DEF Shares
    <2>2. QED
        BY <2>1, SameMatching, MP!TotalEmpty, MatchingAssumed
        DEF Net, MP!IntentAssumption, MP!EventAssumption, MP!BoundAssumption
<1>6. QED
    BY <1>1, <1>3, <1>4, <1>5 DEF Reconciled, Settled, Accounts, Ordered, NetHeld

\* So the invariants hold throughout.
LEMMA SettledStep == Settled /\ [Next]_vars => Settled'
BY ReplayedStep, AccountsStep, OrderedStep DEF Settled

LEMMA SettledInvariance == Spec => []Settled
<1>1. Init => Settled
    BY ReconciledInit DEF Reconciled
<1>2. QED
    BY <1>1, SettledStep, PTL DEF Spec

LEMMA ReconciledInvariance == ASSUME UniqueIds PROVE Spec => []Reconciled
<1>1. Reconciled /\ [Next]_vars => Reconciled'
    <2>. SUFFICES ASSUME Reconciled, [Next]_vars PROVE Reconciled'
        OBVIOUS
    <2>1. Matched' /\ Settled'
        BY MatchedStep, SettledStep DEF Reconciled
    <2>2. QED
        BY <2>1, NetStep DEF Reconciled, Settled
<1>2. QED
    BY <1>1, ReconciledInit, PTL DEF Spec

\* The ledger and the matching loop agree for all intents, events and rates: the
\* position is what the orders executed and the fill that was refused, if one
\* ended the replay; the last snapshot reports it without that fill; and a
\* configured liquidation leaves it flat.
THEOREM PositionsReconcile == ASSUME UniqueIds PROVE Spec => []PositionReconciles
<1>1. Reconciled => PositionReconciles
    BY DEF Reconciled, Settled, Accounts, NetHeld, PositionReconciles, Net, Shares
<1>2. QED
    BY <1>1, ReconciledInvariance, PTL

\* A run that liquidates and never rounded gained or lost exactly its realized
\* PnL less its fees, and the flat position costs nothing.
THEOREM LiquidationsSettle == Spec => []LiquidatedEquity
<1>1. Settled => LiquidatedEquity
    <2>. SUFFICES ASSUME Settled, phase = "done", config.final_liquidation_ts # None,
                         history.exact
                  PROVE  /\ cash = config.starting_cash + realized_pnl - history.fees
                         /\ avg_price = 0
        BY DEF LiquidatedEquity
    <2>1. LP!ExactInv /\ position_qty = 0 /\ avg_price = 0 /\ refused = 0
        BY DEF Settled, Accounts
    <2>2. /\ {cash, realized_pnl, history.fees} \subseteq Int
          /\ cash + avg_price * position_qty = config.starting_cash + realized_pnl - history.fees
        BY <2>1 DEF LP!ExactInv, LP!BookBalances
    <2>3. QED
        BY <2>1, <2>2
<1>2. QED
    BY <1>1, SettledInvariance, PTL

\* The fills of time-ordered input are in the order assert_monotonic wants.
THEOREM FillsStayOrdered == Spec => []FillStreamMonotonic
<1>1. Settled => FillStreamMonotonic
    <2>. SUFFICES ASSUME Settled, M!TimeOrdered,
                         liquidation # <<>> =>
                            \A m \in DOMAIN events : M!EventTs(events[m]) <= config.final_liquidation_ts,
                         NEW m \in DOMAIN AllFills, NEW n \in DOMAIN AllFills, m < n
                  PROVE  AllFills[m] <= AllFills[n]
        BY DEF FillStreamMonotonic
    <2>. DEFINE stamps == [k \in DOMAIN fills |-> fills[k].ts]
                last == [k \in DOMAIN liquidation |-> liquidation[k].ts]
    <2>1. /\ fills \in Seq(MP!FillRecords) /\ Len(events) \in Nat
          /\ \A k \in DOMAIN fills : /\ fills[k].event \in 1 .. Len(events)
                                     /\ fills[k].ts = M!EventTs(events[fills[k].event])
          /\ \A k \in 1 .. Len(events) : M!EventTs(events[k]) \in Nat
        BY FillsKnown DEF Settled
    <2>2. PICK c \in Nat : c = Len(fills) /\ DOMAIN fills = 1 .. c
        BY <2>1
    <2>3. stamps \in Seq(Nat) /\ Len(stamps) = c
        BY <2>1, <2>2
    <2>4. \A j, k \in 1 .. Len(events) : j <= k => M!EventTs(events[j]) <= M!EventTs(events[k])
        <3>1. events \in Seq(Events)
            BY DEF Settled, Replayed, MP!IInv, MP!Scalars
        <3>2. QED
            BY <2>1, <3>1 DEF M!TimeOrdered
    <2>5. \A j, k \in 1 .. c : j < k => fills[j].ts <= fills[k].ts
        <3>1. \A j, k \in 1 .. c : j < k => fills[j].event <= fills[k].event
            BY <2>2 DEF Settled, Ordered
        <3>2. \A k \in 1 .. c : /\ fills[k].event \in 1 .. Len(events)
                                /\ fills[k].ts = M!EventTs(events[fills[k].event])
            BY <2>1, <2>2
        <3>3. QED
            BY <2>4, <3>1, <3>2
    <2>6. CASE liquidation = <<>>
        <3>1. last = <<>>
            BY <2>6
        <3>2. AllFills = stamps
            BY <2>3, <3>1 DEF AllFills
        <3>3. QED
            BY <2>2, <2>5, <3>2
    <2>7. CASE \E r : liquidation = <<r>> /\ r.ts = config.final_liquidation_ts
        <3>1. last = <<config.final_liquidation_ts>>
            BY <2>7
        <3>2. AllFills = Append(stamps, config.final_liquidation_ts)
            BY <2>3, <3>1 DEF AllFills
        <3>3. \A k \in 1 .. c : fills[k].ts <= config.final_liquidation_ts
            <4>1. liquidation # <<>>
                BY <2>7
            <4>2. \A k \in DOMAIN events : M!EventTs(events[k]) <= config.final_liquidation_ts
                BY <4>1
            <4>3. events \in Seq(Events)
                BY DEF Settled, Replayed, MP!IInv, MP!Scalars
            <4>4. DOMAIN events = 1 .. Len(events)
                BY <4>3
            <4>. QED
                BY <2>1, <2>2, <4>2, <4>4
        <3>4. QED
            BY <2>2, <2>3, <2>5, <3>2, <3>3
    <2>8. QED
        BY <2>6, <2>7 DEF Settled, Ordered
<1>2. QED
    BY <1>1, SettledInvariance, PTL
==============================================================================
