--------------------------- MODULE Screening_proofs ---------------------------
(***************************************************************************)
(* Proofs about a screening, for any dataset, costs and family of          *)
(* variants: what a trial reports is what its signals, the prices and the  *)
(* costs imply, and the ledger lists every trial, in its one order.        *)
(*                                                                         *)
(* BooksInv: cash and cost together have moved by what was traded at the   *)
(* events' own prices.  FallsInv: the peak is the highest equity of the    *)
(* history.  FollowInv: the plan is that of the variant at cursor, every   *)
(* signal of it executes at the first event after it was available, and    *)
(* as many are available as the position tells.  LedgerInv: the results so *)
(* far are the verdicts on the first variants, and the ledger lists them   *)
(* by a permutation that sorts the completed ones and the failed ones.     *)
(***************************************************************************)
EXTENDS Screening, WellFoundedInduction, FiniteSetTheorems, SequenceTheorems, TLAPS

N == Len(Dataset)

LessThan == {ss \in Nat \X Nat : ss[1] < ss[2]}

\* Numbers have a least one.
LEMMA LeastIndex ==
    ASSUME NEW T \in SUBSET Nat, T # {}
    PROVE  \E m \in T : \A k \in T : m <= k
<1>1. IsWellFoundedOn(LessThan, Nat)
    BY NatLessThanWellFounded, Zenon DEF OpToRel, LessThan
<1>2. PICK m \in T : \A k \in T : <<k, m>> \notin LessThan
    BY <1>1, WFMin, Zenon
<1>3. \A k \in Nat : k < m => <<k, m>> \in LessThan
    BY DEF LessThan
<1>4. ASSUME NEW k \in T PROVE m <= k
    <2>1. m \in Nat /\ k \in Nat
        OBVIOUS
    <2>2. ~(k < m)
        BY <1>2, <1>3, <2>1, Zenon
    <2>3. QED
        BY <2>1, <2>2
<1>5. QED
    BY <1>4

\* A set that holds 0 and the successor of whatever it holds, up to n, holds n.
LEMMA UpTo ==
    ASSUME NEW n \in Nat, NEW S, 0 \in S, \A k \in 0 .. n - 1 : k \in S => k + 1 \in S
    PROVE  \A k \in 0 .. n : k \in S
<1>. DEFINE T == {k \in 0 .. n : k \notin S}
<1>1. SUFFICES ASSUME T # {} PROVE FALSE
    OBVIOUS
<1>2. PICK m \in T : \A k \in T : m <= k
    <2>1. T \in SUBSET Nat
        OBVIOUS
    <2>2. QED
        BY <1>1, <2>1, LeastIndex
<1>3. m \in 1 .. n
    OBVIOUS
<1>4. m - 1 \notin T
    BY <1>2, <1>3
<1>5. m - 1 \in S /\ m - 1 \in 0 .. n - 1
    BY <1>3, <1>4
<1>6. QED
    BY <1>3, <1>5

\* What a row of the plan moves.
Moved(action, q) ==
    IF q \in DOMAIN plan /\ plan[q] = action THEN Price(q) * OrderSize * One ELSE 0

\* Prices and costs are whole numbers.
LEMMA Numbers ==
    /\ N \in Nat \ {0} /\ Rows = 1 .. N
    /\ \A r \in Rows : Ts(r) \in Nat /\ Price(r) \in Nat \ {0}
    /\ \A r, s \in Rows : r < s => Ts(r) < Ts(s)
    /\ Unit \in Nat \ {0} /\ InitialCash \in Nat \ {0} /\ OrderSize \in Nat \ {0}
    /\ FeeRate \in Nat /\ FixedFee \in Nat /\ SlippageRate \in Nat
    /\ One \in Nat \ {0} /\ InitialCash * One \in Nat \ {0}
<1>1. Unit \in Nat \ {0} /\ InitialCash \in Nat \ {0} /\ OrderSize \in Nat \ {0}
    BY DatasetAssumption
<1>2. \A m, n \in Nat \ {0} : m * n \in Nat \ {0}
    OBVIOUS
<1>3. One \in Nat \ {0}
    BY <1>1, <1>2 DEF One
<1>4. InitialCash * One \in Nat \ {0}
    BY <1>1, <1>2, <1>3
<1>5. N \in Nat \ {0} /\ Rows = 1 .. N
    <2>1. Dataset \in Seq([event_ts : Nat, price : Nat \ {0}]) /\ Dataset # <<>>
        BY DatasetAssumption
    <2>2. QED
        BY <2>1 DEF N, Rows
<1>6. \A r \in Rows : Ts(r) \in Nat /\ Price(r) \in Nat \ {0}
    <2>1. ASSUME NEW r \in Rows PROVE Dataset[r] \in [event_ts : Nat, price : Nat \ {0}]
        <3>1. Dataset \in Seq([event_ts : Nat, price : Nat \ {0}]) /\ r \in 1 .. Len(Dataset)
            BY <1>5, DatasetAssumption, Zenon DEF N
        <3>2. QED
            BY <3>1, ElementOfSeq
    <2>2. QED
        BY <2>1 DEF Ts, Price
<1>7. QED
    BY <1>1, <1>3, <1>4, <1>5, <1>6, DatasetAssumption DEF Ts

\* What a row moves is a whole number.
LEMMA MovedInt == \A action, q : q \in Rows => Moved(action, q) \in Int
<1>1. \A m, n, k \in Int : m * n * k \in Int
    OBVIOUS
<1>2. QED
    BY <1>1, Numbers DEF Moved

\* Value starts with nothing and adds what every row moves.
Grows(action) ==
    /\ Value(action, 0) = 0
    /\ \A r \in Rows : /\ Value(action, r - 1) \in Int
                       /\ Value(action, r) = Value(action, r - 1) + Moved(action, r)

\* The recursive function of Value exists.
LEMMA ValueGrows ==
    ASSUME NEW action
    PROVE  Grows(action)
<1>. DEFINE Up(k, f) == /\ f \in [0 .. k -> Int] /\ f[0] = 0
                        /\ \A n \in 1 .. k : f[n] = f[n - 1] + Moved(action, n)
            S == {k \in 0 .. N : \E f : Up(k, f)}
            value == CHOOSE f : f = [q \in 0 .. Len(Dataset) |->
                         IF q = 0 THEN 0
                         ELSE f[q - 1] + (IF q \in DOMAIN plan /\ plan[q] = action
                                          THEN Price(q) * OrderSize * One ELSE 0)]
<1>1. N \in Nat /\ \A n \in 1 .. N : Moved(action, n) \in Int
    BY Numbers, MovedInt
<1>2. Up(0, [n \in 0 .. 0 |-> 0])
    OBVIOUS
<1>3. ASSUME NEW k \in 0 .. N - 1, NEW f, Up(k, f) PROVE \E g : Up(k + 1, g)
    <2>1. DEFINE g == [n \in 0 .. k + 1 |->
                          IF n = k + 1 THEN f[k] + Moved(action, k + 1) ELSE f[n]]
    <2>2. g \in [0 .. k + 1 -> Int]
        BY <1>1, <1>3
    <2>3. g[0] = 0 /\ \A n \in 1 .. k + 1 : g[n] = g[n - 1] + Moved(action, n)
        BY <1>1, <1>3
    <2>4. QED
        BY <2>2, <2>3, Zenon
<1>4. PICK f : Up(N, f)
    <2>. HIDE DEF Up
    <2>1. 0 \in S
        BY <1>1, <1>2
    <2>2. \A k \in 0 .. N - 1 : k \in S => k + 1 \in S
        BY <1>1, <1>3
    <2>. HIDE DEF S
    <2>3. \A k \in 0 .. N : k \in S
        BY <1>1, <2>1, <2>2, UpTo, Zenon
    <2>4. N \in S
        BY <1>1, <2>3
    <2>5. QED
        BY <2>4 DEF S
<1>5. f = [q \in 0 .. N |-> IF q = 0 THEN 0 ELSE f[q - 1] + Moved(action, q)]
    BY <1>1, <1>4
<1>6. f = [q \in 0 .. Len(Dataset) |->
              IF q = 0 THEN 0
              ELSE f[q - 1] + (IF q \in DOMAIN plan /\ plan[q] = action
                               THEN Price(q) * OrderSize * One ELSE 0)]
    BY <1>5, Zenon DEF Moved, N
<1>7. value = [q \in 0 .. Len(Dataset) |->
                  IF q = 0 THEN 0
                  ELSE value[q - 1] + (IF q \in DOMAIN plan /\ plan[q] = action
                                       THEN Price(q) * OrderSize * One ELSE 0)]
    BY <1>6, Zenon
<1>8. \A r : Value(action, r) = value[r]
    BY DEF Value
<1>. HIDE DEF value
<1>9. value = [q \in 0 .. N |-> IF q = 0 THEN 0 ELSE value[q - 1] + Moved(action, q)]
    BY <1>7, Zenon DEF Moved, N
<1>10. value[0] = 0 /\ \A q \in 1 .. N : value[q] = value[q - 1] + Moved(action, q)
    BY <1>1, <1>9
<1>. DEFINE I == {k \in 0 .. N : value[k] \in Int}
<1>11. 0 \in I /\ \A k \in 0 .. N - 1 : k \in I => k + 1 \in I
    <2>1. SUFFICES ASSUME NEW k \in 0 .. N - 1, k \in I PROVE k + 1 \in I
        BY <1>1, <1>10
    <2>2. k + 1 \in 1 .. N /\ (k + 1) - 1 = k
        BY <1>1
    <2>3. value[k + 1] = value[k] + Moved(action, k + 1)
        BY <1>10, <2>2
    <2>4. QED
        BY <1>1, <2>1, <2>2, <2>3
<1>12. \A k \in 0 .. N : k \in I
    <2>. HIDE DEF I
    <2>1. QED
        BY <1>1, <1>11, UpTo, Zenon
<1>13. \A r \in Rows : r - 1 \in 0 .. N /\ r \in 1 .. N
    BY Numbers
<1>14. QED
    BY <1>8, <1>10, <1>12, <1>13 DEF Grows

\* So it does for what is bought and what is sold, whatever the plan.
ValuesGrow == Grows("enter_long") /\ Grows("exit_long")

LEMMA BothGrow == ValuesGrow
BY ValueGrows DEF ValuesGrow

-------------------------------------------------------------------------------
(* The books of a replay.                                                  *)

\* Where the locals of recompute_metrics range.
Typed ==
    /\ stage \in {"idle", "running", "ok", "refused"} /\ row \in 1 .. N + 1
    /\ cash \in Int /\ total_cost \in Int /\ position \in {0, OrderSize}
    /\ stage = "ok" => row = N + 1

\* Products are whole numbers.
LEMMA Products == \A a, b \in Int : a * b \in Int
OBVIOUS

\* What slippage costs is the difference of two values.
LEMMA PricedAway ==
    ASSUME NEW e \in Int, NEW p \in Int, NEW q \in Int, NEW u \in Int
    PROVE  (e - p * u) * q * u = e * q * u - p * q * (u * u)
OBVIOUS

\* Prices, values and fees are whole numbers.
LEMMA AmountsInt ==
    ASSUME row \in Rows, NEW q \in Int
    PROVE  /\ EntryPrice \in Int /\ ExitPrice \in Int
           /\ \A p \in Int : Notional(p, q) \in Int /\ Fee(p, q) \in Int
           /\ q * Price(row) * One \in Int
<1>1. Price(row) \in Int /\ Unit \in Int /\ SlippageRate \in Int /\ FeeRate \in Int
      /\ FixedFee \in Int /\ One \in Int
    BY Numbers
<1>2. EntryPrice \in Int /\ ExitPrice \in Int
    BY <1>1 DEF EntryPrice, ExitPrice
<1>3. ASSUME NEW p \in Int PROVE Notional(p, q) \in Int /\ Fee(p, q) \in Int
    <2>1. p * q \in Int
        OBVIOUS
    <2>2. p * q * Unit \in Int /\ p * q * FeeRate \in Int /\ FixedFee * One \in Int
        BY <1>1, <2>1, Products
    <2>3. QED
        BY <2>2 DEF Notional, Fee
<1>4. QED
    BY <1>1, <1>2, <1>3

\* What one event does to the books: cash and costs together move by the plan's
\* trade at the event's own price, whatever slippage and fees are.
LEMMA Booked ==
    ASSUME Typed, Enter \/ Exit \/ Hold
    PROVE  /\ stage = "running" /\ UNCHANGED <<stage, plan>> /\ row \in Rows /\ row' = row + 1
           /\ cash' \in Int /\ total_cost' \in Int /\ position' \in {0, OrderSize}
           /\ cash' + total_cost' = cash + total_cost + Moved("exit_long", row)
                                        - Moved("enter_long", row)
           /\ position' = position + (IF Action = "enter_long" THEN OrderSize ELSE 0)
                                   - (IF Action = "exit_long" THEN OrderSize ELSE 0)
           /\ Action \in {"enter_long", "exit_long", "hold"}
<1>1. /\ AtRow /\ MarkToMarket
    BY DEF Enter, Exit, Hold
<1>2. stage = "running" /\ UNCHANGED <<stage, plan>> /\ row \in Rows /\ row' = row + 1
    BY <1>1 DEF AtRow, MarkToMarket
<1>3. cash \in Int /\ total_cost \in Int /\ OrderSize \in Int /\ position \in Int
    BY Numbers DEF Typed
<1>4. PICK p \in Int, u \in Int, q \in Int :
          p = Price(row) /\ u = Unit /\ q = OrderSize
    BY <1>2, Numbers
<1>5. /\ EntryPrice \in Int /\ ExitPrice \in Int
      /\ Notional(EntryPrice, q) \in Int /\ Fee(EntryPrice, q) \in Int
      /\ Notional(ExitPrice, q) \in Int /\ Fee(ExitPrice, q) \in Int
    BY <1>2, <1>4, AmountsInt
<1>6. PICK v \in Int : v = p * q * (u * u)
    OBVIOUS
<1>7. \A e \in Int : (e - p * u) * q * u = Notional(e, q) - v
    BY <1>4, <1>6, PricedAway DEF Notional
<1>8. (p * u - ExitPrice) * q * u = v - Notional(ExitPrice, q)
    <2>1. PICK x \in Int : x = ExitPrice - p * u
        BY <1>5
    <2>2. x * q * u = Notional(ExitPrice, q) - v
        BY <1>5, <1>7, <2>1
    <2>3. p * u - ExitPrice = -1 * x
        BY <1>5, <2>1
    <2>4. (-1 * x) * q * u = -1 * (x * q * u)
        OBVIOUS
    <2>5. QED
        BY <1>5, <1>6, <2>2, <2>3, <2>4
<1>9. \A action : Moved(action, row) = IF row \in DOMAIN plan /\ plan[row] = action THEN v ELSE 0
    BY <1>4, <1>6 DEF Moved, One
<1>10. CASE Enter
    <2>1. /\ Action = "enter_long" /\ position = 0 /\ position' = q
          /\ cash' = cash - Notional(EntryPrice, q) - Fee(EntryPrice, q)
          /\ total_cost' = total_cost + (EntryPrice - p * u) * q * u + Fee(EntryPrice, q)
        BY <1>4, <1>10 DEF Enter
    <2>2. Moved("exit_long", row) = 0 /\ Moved("enter_long", row) = v
        BY <1>9, <2>1 DEF Action
    <2>3. total_cost' = total_cost + (Notional(EntryPrice, q) - v) + Fee(EntryPrice, q)
        BY <1>5, <1>7, <2>1
    <2>4. QED
        BY <1>2, <1>3, <1>4, <1>5, <1>6, <2>1, <2>2, <2>3
<1>11. CASE Exit
    <2>1. /\ Action = "exit_long" /\ position = q /\ position' = 0
          /\ cash' = cash + Notional(ExitPrice, q) - Fee(ExitPrice, q)
          /\ total_cost' = total_cost + (p * u - ExitPrice) * q * u + Fee(ExitPrice, q)
        BY <1>4, <1>11 DEF Exit, Typed
    <2>2. Moved("exit_long", row) = v /\ Moved("enter_long", row) = 0
        BY <1>9, <2>1 DEF Action
    <2>3. total_cost' = total_cost + (v - Notional(ExitPrice, q)) + Fee(ExitPrice, q)
        BY <1>8, <2>1
    <2>4. QED
        BY <1>2, <1>3, <1>4, <1>5, <1>6, <2>1, <2>2, <2>3
<1>12. CASE Hold
    <2>1. Action = "hold" /\ UNCHANGED <<cash, position, total_cost>>
        BY <1>12 DEF Hold
    <2>2. Moved("exit_long", row) = 0 /\ Moved("enter_long", row) = 0
        BY <1>9, <2>1 DEF Action
    <2>3. QED
        BY <1>2, <1>3, <2>1, <2>2 DEF Typed
<1>13. QED
    BY <1>10, <1>11, <1>12

\* What a step of the screening does to the replay.
LEMMA Steps ==
    ASSUME [Next]_vars
    PROVE  \/ UNCHANGED trial
           \/ Enter \/ Exit \/ Hold
           \/ BeginPreflight /\ Start(Variant.signals)
           \/ Finish
           \/ stage' \in {"idle", "refused"} /\ UNCHANGED <<row, cash, position, total_cost>>
<1>1. CASE BeginPreflight
    BY <1>1 DEF BeginPreflight, RefusePlan
<1>2. CASE Replay
    BY <1>2 DEF Replay, ReplayStep, Refuse
<1>3. CASE EndPreflight
    BY <1>3 DEF EndPreflight, Release
<1>4. CASE UNCHANGED trial
    BY <1>4
<1>5. QED
    BY <1>1, <1>2, <1>3, <1>4
       DEF Next, RunEngine, Judge, BuildLedger, VerifyLedger, Terminated, vars

\* The books of a trial are typed and balance.
BooksInv == Typed /\ CostsExplainProfit

\* Every step keeps the books.
LEMMA StepBooks ==
    ASSUME BooksInv, [Next]_vars
    PROVE  BooksInv'
<1>1. CASE UNCHANGED trial
    <2>1. \A action, r : Value(action, r)' = Value(action, r)
        BY <1>1 DEF trial, Value
    <2>2. QED
        BY <1>1, <2>1 DEF trial, BooksInv, Typed, CostsExplainProfit, Replaying
<1>2. CASE Enter \/ Exit \/ Hold
    <2>1. /\ stage = "running" /\ UNCHANGED <<stage, plan>> /\ row \in Rows /\ row' = row + 1
          /\ cash' \in Int /\ total_cost' \in Int /\ position' \in {0, OrderSize}
          /\ cash' + total_cost' = cash + total_cost + Moved("exit_long", row)
                                       - Moved("enter_long", row)
        BY <1>2, Booked DEF BooksInv
    <2>2. Typed'
        BY <2>1, Numbers DEF Typed
    <2>3. PICK r \in Rows : r = row
        BY <2>1
    <2>4. \A action : Value(action, r)' = Value(action, r)
        BY <2>1 DEF Value
    <2>5. row' - 1 = r /\ row - 1 = r - 1
        BY <2>1, <2>3, Numbers
    <2>6. PICK b \in Int, s \in Int, mb \in Int, ms \in Int, i \in Int :
              /\ b = Value("enter_long", r - 1) /\ s = Value("exit_long", r - 1)
              /\ mb = Moved("enter_long", r) /\ ms = Moved("exit_long", r)
              /\ i = InitialCash * One
        <3>1. ASSUME NEW action PROVE Moved(action, r) \in Int
            BY <2>3, MovedInt
        <3>2. Value("enter_long", r - 1) \in Int /\ Value("exit_long", r - 1) \in Int
            BY <2>3, BothGrow DEF ValuesGrow, Grows
        <3>3. InitialCash * One \in Int
            BY Numbers
        <3>4. Moved("enter_long", r) \in Int /\ Moved("exit_long", r) \in Int
            BY <3>1
        <3>5. QED
            BY <3>2, <3>3, <3>4, Zenon
    <2>7. cash = i + s - b - total_cost
        BY <2>1, <2>5, <2>6 DEF BooksInv, CostsExplainProfit, Replaying
    <2>8. Value("enter_long", r) = b + mb /\ Value("exit_long", r) = s + ms
        BY <2>3, <2>6, BothGrow DEF ValuesGrow, Grows
    <2>9. cash' = i + (s + ms) - (b + mb) - total_cost'
        <3>1. cash \in Int /\ total_cost \in Int /\ cash' \in Int /\ total_cost' \in Int
            BY <2>1 DEF BooksInv, Typed
        <3>2. cash' + total_cost' = cash + total_cost + ms - mb
            BY <2>1, <2>3, <2>6
        <3>3. b \in Int /\ s \in Int /\ mb \in Int /\ ms \in Int /\ i \in Int
            BY <2>6
        <3>4. PICK c \in Int, t \in Int, d \in Int, u \in Int :
                  c = cash /\ t = total_cost /\ d = cash' /\ u = total_cost'
            BY <3>1
        <3>5. d + u = c + t + ms - mb /\ c = i + s - b - t
            BY <2>7, <3>2, <3>4, Zenon
        <3>6. d = i + (s + ms) - (b + mb) - u
            <4>1. c \in Int /\ t \in Int /\ d \in Int /\ u \in Int
                BY <3>4
            <4>2. QED
                BY <3>3, <3>5, <4>1
        <3>7. QED
            BY <3>4, <3>6, Zenon
    <2>10. Value("enter_long", r)' = b + mb /\ Value("exit_long", r)' = s + ms
        BY <2>4, <2>8
    <2>11. CostsExplainProfit'
        BY <2>5, <2>6, <2>9, <2>10 DEF CostsExplainProfit
    <2>12. QED
        BY <2>2, <2>11 DEF BooksInv
<1>3. CASE Start(Variant.signals)
    <2>1. /\ row' = 1 /\ cash' = InitialCash * One /\ position' = 0 /\ total_cost' = 0
          /\ stage' = "running"
        BY <1>3 DEF Start, Reset
    <2>2. Typed'
        BY <2>1, Numbers DEF Typed
    <2>3. Value("enter_long", 0)' = 0 /\ Value("exit_long", 0)' = 0
        <3>1. ValuesGrow'
            BY BothGrow, PTL
        <3>2. QED
            BY <3>1 DEF ValuesGrow, Grows
    <2>4. row' - 1 = 0
        BY <2>1
    <2>5. CostsExplainProfit'
        BY <2>1, <2>3, <2>4, Numbers DEF CostsExplainProfit
    <2>6. QED
        BY <2>2, <2>5 DEF BooksInv
<1>4. CASE Finish
    <2>1. /\ stage = "running" /\ stage' = "ok" /\ row \notin Rows
          /\ UNCHANGED <<plan, row, cash, position, total_cost>>
        BY <1>4 DEF Finish
    <2>2. Typed'
        BY <2>1, Numbers DEF BooksInv, Typed
    <2>3. \A action, r : Value(action, r)' = Value(action, r)
        BY <2>1 DEF Value
    <2>4. CostsExplainProfit'
        BY <2>1, <2>3 DEF BooksInv, CostsExplainProfit, Replaying
    <2>5. QED
        BY <2>2, <2>4 DEF BooksInv
<1>5. CASE stage' \in {"idle", "refused"} /\ UNCHANGED <<row, cash, position, total_cost>>
    BY <1>5 DEF BooksInv, Typed, CostsExplainProfit, Replaying
<1>6. QED
    BY <1>1, <1>2, <1>3, <1>4, <1>5, Steps

\* Double entry: what the trades at the events' own prices would have made, less
\* the reported cost, is what the cash shows (metrics.py:68-107), for any prices,
\* costs and signals and however often the position was entered and left.
THEOREM CostsExplain == Spec => []CostsExplainProfit
<1>1. Init => BooksInv
    BY Numbers DEF Init, InitTrial, BooksInv, Typed, CostsExplainProfit, Replaying
<1>2. BooksInv => CostsExplainProfit
    BY DEF BooksInv
<1>3. QED
    BY <1>1, <1>2, StepBooks, PTL DEF Spec

-------------------------------------------------------------------------------
(* Ratios, and the largest fall so far.                                    *)

Ratio == [num : Int, den : Nat \ {0}]

\* Factors are not lost from an inequality.
LEMMA Scaled == \A a, b \in Int : \A d \in Nat \ {0} : a * d <= b * d <=> a <= b
OBVIOUS

\* Ratios are ordered.
LEMMA NotLessTransitive ==
    ASSUME NEW x \in Ratio, NEW y \in Ratio, NEW z \in Ratio, ~Less(x, y), ~Less(y, z)
    PROVE  ~Less(x, z)
<1>1. PICK a \in Int, c \in Int, e \in Int, b \in Nat \ {0}, d \in Nat \ {0}, f \in Nat \ {0} :
          /\ a = x.num /\ b = x.den /\ c = y.num /\ d = y.den /\ e = z.num /\ f = z.den
    BY DEF Ratio
<1>2. \A u, v \in Int : u * v \in Int
    OBVIOUS
<1>3. c * b <= a * d /\ e * d <= c * f
    BY <1>1, <1>2 DEF Less
<1>4. c * b * f <= a * d * f /\ e * d * b <= c * f * b
    BY <1>2, <1>3, Scaled
<1>5. e * b * d <= a * f * d
    <2>1. c * b * f = c * f * b /\ e * d * b = e * b * d /\ a * d * f = a * f * d
        OBVIOUS
    <2>2. e * b * d \in Int /\ c * f * b \in Int /\ a * f * d \in Int
        BY <1>2
    <2>3. QED
        BY <1>4, <2>1, <2>2
<1>6. e * b <= a * f
    BY <1>2, <1>5, Scaled
<1>7. QED
    BY <1>1, <1>2, <1>6 DEF Less

\* What is less is not more.
LEMMA LessAsymmetric ==
    ASSUME NEW x \in Ratio, NEW y \in Ratio, Less(x, y)
    PROVE  ~Less(y, x)
<1>1. \A u, v \in Int : u * v \in Int
    OBVIOUS
<1>2. x.num * y.den \in Int /\ y.num * x.den \in Int
    BY <1>1 DEF Ratio
<1>3. QED
    BY <1>2 DEF Less

\* A rise is no fall.
LEMMA RiseNoFall ==
    ASSUME NEW x \in Ratio, x.num >= 0, NEW m \in Nat \ {0}, NEW n \in Int, m <= n
    PROVE  ~Less(x, Drop(m, n))
<1>1. PICK a \in Nat, b \in Nat \ {0} : a = x.num /\ b = x.den
    BY DEF Ratio
<1>2. PICK k \in Nat : k = n - m
    OBVIOUS
<1>3. a * m \in Nat /\ k * b \in Nat
    OBVIOUS
<1>4. (m - n) * b = -1 * (k * b)
    BY <1>2
<1>5. QED
    BY <1>1, <1>3, <1>4 DEF Less, Drop

\* The fall from a higher equity is the larger share, of what is left at least.
LEMMA HigherFall ==
    ASSUME NEW m \in Nat \ {0}, NEW p \in Nat \ {0}, NEW n \in Int, m <= p,
           n < 0 => m = p
    PROVE  ~Less(Drop(p, n), Drop(m, n))
<1>1. p * m \in Int /\ n * m \in Int /\ n * p \in Int
    OBVIOUS
<1>2. n * m <= n * p
    <2>1. CASE n < 0
        BY <1>1, <2>1
    <2>2. CASE n \in Nat
        <3>1. PICK k \in Nat : p = m + k
            <4>1. p - m \in Nat /\ p = m + (p - m)
                OBVIOUS
            <4>2. QED
                BY <4>1, Zenon
        <3>2. n * p = n * m + n * k /\ n * k \in Nat
            BY <2>2, <3>1
        <3>3. QED
            BY <1>1, <3>2
    <2>3. QED
        BY <2>1, <2>2
<1>3. (p - n) * m = p * m - n * m /\ (m - n) * p = p * m - n * p
    OBVIOUS
<1>4. (m - n) * p <= (p - n) * m
    BY <1>1, <1>2, <1>3
<1>5. (m - n) * p \in Int /\ (p - n) * m \in Int
    OBVIOUS
<1>6. QED
    BY <1>4, <1>5 DEF Less, Drop

\* The invariant: the peak is the highest equity so far, the drawdown a ratio.
Peaked ==
    Replaying =>
        /\ equities \in Seq(Int) /\ Len(equities) = row - 1
        /\ peak_equity \in Nat \ {0}
        /\ \E i \in DOMAIN History : History[i] = peak_equity
        /\ \A i \in DOMAIN History : History[i] <= peak_equity
        /\ max_drawdown \in Ratio /\ max_drawdown.num >= 0

\* The history of equities grows by the last one.
LEMMA HistoryGrows ==
    ASSUME equities \in Seq(Int), NEW e \in Int, equities' = Append(equities, e)
    PROVE  /\ Len(equities) \in Nat
           /\ equities' \in Seq(Int) /\ Len(equities') = Len(equities) + 1
           /\ DOMAIN History = 1 .. Len(equities) + 1
           /\ DOMAIN History' = 1 .. Len(equities) + 2
           /\ \A i \in DOMAIN History : History[i] \in Int /\ History'[i] = History[i]
           /\ History'[Len(equities) + 2] = e
<1>1. PICK c \in Int : c = InitialCash * One
    BY Numbers
<1>2. PICK n \in Nat : n = Len(equities)
    OBVIOUS
<1>3. /\ equities' \in Seq(Int) /\ Len(equities') = n + 1
      /\ \A k \in 1 .. n : equities'[k] = equities[k] /\ equities[k] \in Int
      /\ equities'[n + 1] = e
    BY <1>2
<1>4. <<c>> \in Seq(Int) /\ Len(<<c>>) = 1 /\ <<c>>[1] = c
    OBVIOUS
<1>5. /\ Len(History) = n + 1 /\ History \in Seq(Int)
      /\ \A i \in 1 .. n + 1 : History[i] = IF i <= 1 THEN <<c>>[i] ELSE equities[i - 1]
    BY <1>1, <1>2, <1>4, ConcatProperties DEF History
<1>6. /\ Len(History') = n + 2 /\ History' \in Seq(Int)
      /\ \A i \in 1 .. n + 2 : History'[i] = IF i <= 1 THEN <<c>>[i] ELSE equities'[i - 1]
    BY <1>1, <1>3, <1>4, ConcatProperties DEF History
<1>7. DOMAIN History = 1 .. n + 1 /\ DOMAIN History' = 1 .. n + 2
    BY <1>5, <1>6
<1>8. ASSUME NEW i \in 1 .. n + 1 PROVE History[i] \in Int /\ History'[i] = History[i]
    <2>1. i \in 1 .. n + 2 /\ (i <= 1 => i = 1) /\ (~(i <= 1) => i - 1 \in 1 .. n)
        BY <1>2
    <2>2. CASE i <= 1
        BY <1>1, <1>4, <1>5, <1>6, <2>1, <2>2
    <2>3. CASE ~(i <= 1)
        BY <1>3, <1>5, <1>6, <2>1, <2>3
    <2>4. QED
        BY <2>2, <2>3
<1>9. History'[n + 2] = e
    <2>1. n + 2 \in 1 .. n + 2 /\ ~(n + 2 <= 1) /\ (n + 2) - 1 = n + 1
        BY <1>2
    <2>2. QED
        BY <1>3, <1>6, <2>1
<1>10. QED
    BY <1>2, <1>3, <1>7, <1>8, <1>9

\* Nothing of the replay's equities is touched.
LEMMA PeaksKept ==
    ASSUME Peaked, DrawdownExact, UNCHANGED <<row, peak_equity, max_drawdown, equities>>,
           Replaying' => Replaying
    PROVE  Peaked' /\ DrawdownExact'
<1>1. History' = History
    BY DEF History
<1>2. Peaked'
    BY <1>1 DEF Peaked
<1>3. \A i, j : FallsFrom(i, j)' <=> FallsFrom(i, j)
    BY <1>1 DEF FallsFrom
<1>4. DrawdownExact'
    BY <1>1, <1>3 DEF DrawdownExact
<1>5. QED
    BY <1>2, <1>4

\* The end of an iteration counts the new equity's falls and no others.
LEMMA MarkExact ==
    ASSUME Peaked, DrawdownExact, stage = "running", row \in Rows, MarkToMarket,
           cash' + position' * Price(row) * One \in Int
    PROVE  Peaked' /\ DrawdownExact'
<1>1. PICK e \in Int : e = cash' + position' * Price(row) * One
    OBVIOUS
<1>2. PICK p \in Nat \ {0}, md \in Ratio : p = peak_equity /\ md = max_drawdown
    BY DEF Peaked, Replaying
<1>3. /\ equities' = Append(equities, e)
      /\ peak_equity' = IF e > p THEN e ELSE p
      /\ max_drawdown' = IF e <= p /\ p > 0 /\ Less(md, Drop(p, e)) THEN Drop(p, e) ELSE md
      /\ row' = row + 1 /\ UNCHANGED stage
    BY <1>1, <1>2 DEF MarkToMarket, Peak, Drop
<1>4. PICK n \in Nat : n = Len(equities)
    BY DEF Peaked, Replaying
<1>5. /\ equities' \in Seq(Int) /\ Len(equities') = n + 1
      /\ DOMAIN History = 1 .. n + 1 /\ DOMAIN History' = 1 .. n + 2
      /\ \A i \in 1 .. n + 1 : History[i] \in Int /\ History'[i] = History[i]
      /\ History'[n + 2] = e
    <2>1. equities \in Seq(Int)
        BY DEF Peaked, Replaying
    <2>2. QED
        BY <1>3, <1>4, <2>1, HistoryGrows
<1>6. Drop(p, e) \in Ratio
    BY DEF Drop, Ratio
<1>7. PICK t \in 1 .. n + 1 : History[t] = p
    BY <1>2, <1>5 DEF Peaked, Replaying
<1>8. \A i \in 1 .. n + 1 : History[i] <= p
    BY <1>2, <1>5 DEF Peaked, Replaying
<1>9. md.num >= 0
    BY <1>2 DEF Peaked, Replaying
<1>10. PICK nd : nd = max_drawdown'
    OBVIOUS
<1>11. nd \in Ratio /\ nd.num >= 0 /\ ~Less(nd, md) /\ (e <= p => ~Less(nd, Drop(p, e)))
    <2>1. CASE e <= p /\ Less(md, Drop(p, e))
        <3>1. nd = Drop(p, e) /\ ~Less(nd, md)
            BY <1>2, <1>3, <1>6, <1>10, <2>1, LessAsymmetric
        <3>2. ~Less(nd, nd)
            BY <1>6, <3>1, LessAsymmetric
        <3>3. nd.num >= 0
            BY <2>1, <3>1 DEF Drop
        <3>4. QED
            BY <1>6, <3>1, <3>2, <3>3
    <2>2. CASE ~(e <= p /\ Less(md, Drop(p, e)))
        <3>1. nd = md
            BY <1>3, <1>10, <2>2
        <3>2. ~Less(md, md)
            BY LessAsymmetric
        <3>3. QED
            BY <1>2, <1>9, <2>2, <3>1, <3>2
    <2>3. QED
        BY <2>1, <2>2
<1>12. Peaked'
    <2>1. Len(equities') = row' - 1
        BY <1>3, <1>4, <1>5, Numbers DEF Peaked, Replaying
    <2>2. CASE e > p
        <3>1. peak_equity' = e /\ e \in Nat \ {0}
            BY <1>3, <2>2
        <3>2. \A i \in 1 .. n + 2 : History'[i] <= e
            BY <1>5, <1>8, <2>2
        <3>3. n + 2 \in DOMAIN History' /\ History'[n + 2] = peak_equity'
            BY <1>5, <3>1
        <3>4. \A i \in DOMAIN History' : History'[i] <= peak_equity'
            BY <1>5, <3>1, <3>2
        <3>5. QED
            BY <1>5, <1>10, <1>11, <2>1, <3>1, <3>3, <3>4 DEF Peaked
    <2>3. CASE ~(e > p)
        <3>1. peak_equity' = p
            BY <1>3, <2>3
        <3>2. \A i \in 1 .. n + 2 : History'[i] <= p
            BY <1>5, <1>8, <2>3
        <3>3. t \in DOMAIN History' /\ History'[t] = peak_equity'
            BY <1>5, <1>7, <3>1
        <3>4. \A i \in DOMAIN History' : History'[i] <= peak_equity'
            BY <1>5, <3>1, <3>2
        <3>5. QED
            BY <1>5, <1>10, <1>11, <2>1, <3>1, <3>3, <3>4 DEF Peaked
    <2>4. QED
        BY <2>2, <2>3
<1>13. ASSUME NEW i \in 1 .. n + 1, NEW j \in 1 .. n + 1
       PROVE  FallsFrom(i, j)' <=> FallsFrom(i, j)
    <2>1. History'[i] = History[i] /\ History'[j] = History[j]
        BY <1>5
    <2>2. \A k \in 1 .. j - 1 : k \in 1 .. n + 1
        OBVIOUS
    <2>3. \A k \in 1 .. j - 1 : History'[k] = History[k]
        BY <1>5, <2>2
    <2>4. QED
        BY <2>1, <2>3 DEF FallsFrom
<1>14. ASSUME NEW i \in 1 .. n + 2, NEW j \in 1 .. n + 2, FallsFrom(i, j)'
       PROVE  ~Less(nd, Drop(History'[i], History'[j]))
    <2>1. i < j /\ History'[i] > 0 /\ i \in 1 .. n + 1
        BY <1>14 DEF FallsFrom
    <2>2. PICK m \in Nat \ {0} : m = History'[i] /\ m = History[i] /\ m <= p
        BY <1>5, <1>8, <2>1
    <2>3. CASE j \in 1 .. n + 1
        <3>1. ~Less(md, Drop(History[i], History[j]))
            BY <1>2, <1>5, <1>13, <1>14, <2>1, <2>3 DEF DrawdownExact, Replaying
        <3>2. Drop(History[i], History[j]) \in Ratio
            BY <1>5, <2>2, <2>3 DEF Drop, Ratio
        <3>3. History'[i] = History[i] /\ History'[j] = History[j]
            BY <1>5, <2>1, <2>3
        <3>4. QED
            BY <1>11, <3>1, <3>2, <3>3, NotLessTransitive
    <2>4. CASE j = n + 2
        <3>1. History'[j] = e
            BY <1>5, <2>4
        <3>2. CASE e > p
            BY <1>11, <2>2, <3>1, <3>2, RiseNoFall
        <3>3. CASE e <= p
            <4>1. e < 0 => m = p
                <5>1. e < 0 => History'[t] <= History'[i]
                    BY <1>5, <1>7, <1>14, <2>4, <3>1 DEF FallsFrom
                <5>2. QED
                    BY <1>5, <1>7, <2>2, <5>1
            <4>2. ~Less(Drop(p, e), Drop(m, e))
                BY <2>2, <4>1, HigherFall
            <4>3. Drop(m, e) \in Ratio
                BY DEF Drop, Ratio
            <4>4. ~Less(nd, Drop(m, e))
                BY <1>6, <1>11, <3>3, <4>2, <4>3, NotLessTransitive
            <4>5. QED
                BY <2>2, <3>1, <4>4
        <3>4. QED
            BY <3>2, <3>3
    <2>5. QED
        BY <2>3, <2>4
<1>15. nd.num = 0 \/ \E i, j \in 1 .. n + 2 :
                         FallsFrom(i, j)' /\ nd = Drop(History'[i], History'[j])
    <2>1. CASE nd = md
        <3>1. md.num = 0 \/ \E i, j \in 1 .. n + 1 :
                                FallsFrom(i, j) /\ md = Drop(History[i], History[j])
            BY <1>2, <1>5 DEF DrawdownExact, Replaying
        <3>2. ASSUME NEW i \in 1 .. n + 1, NEW j \in 1 .. n + 1, FallsFrom(i, j),
                     md = Drop(History[i], History[j])
              PROVE  FallsFrom(i, j)' /\ md = Drop(History'[i], History'[j])
            BY <1>5, <1>13, <3>2
        <3>3. 1 .. n + 1 \subseteq 1 .. n + 2
            OBVIOUS
        <3>4. QED
            BY <2>1, <3>1, <3>2, <3>3
    <2>2. CASE nd = Drop(p, e)
        <3>1. FallsFrom(t, n + 2)'
            <4>1. t < n + 2 /\ History'[t] = p
                BY <1>5, <1>7
            <4>2. \A k \in 1 .. (n + 2) - 1 : History'[k] <= History'[t]
                BY <1>5, <1>8, <4>1
            <4>3. QED
                BY <4>1, <4>2 DEF FallsFrom
        <3>2. nd = Drop(History'[t], History'[n + 2])
            BY <1>5, <1>7, <2>2
        <3>3. t \in 1 .. n + 2 /\ n + 2 \in 1 .. n + 2
            OBVIOUS
        <3>4. QED
            BY <3>1, <3>2, <3>3
    <2>3. QED
        BY <1>3, <1>10, <2>1, <2>2
<1>16. DrawdownExact'
    BY <1>5, <1>10, <1>14, <1>15 DEF DrawdownExact
<1>17. QED
    BY <1>12, <1>16

\* The invariant of the drawdown.
FallsInv == BooksInv /\ Peaked /\ DrawdownExact

\* Every step keeps the peak and the drawdown.
LEMMA StepFalls ==
    ASSUME FallsInv, [Next]_vars
    PROVE  FallsInv'
<1>1. BooksInv'
    BY StepBooks DEF FallsInv
<1>2. CASE UNCHANGED trial \/ Finish
    BY <1>1, <1>2, PeaksKept DEF FallsInv, trial, Finish, Replaying
<1>3. CASE Enter \/ Exit \/ Hold
    <2>1. MarkToMarket
        BY <1>3 DEF Enter, Exit, Hold
    <2>2. /\ stage = "running" /\ row \in Rows
          /\ cash' \in Int /\ position' \in {0, OrderSize}
        BY <1>3, Booked DEF FallsInv, BooksInv
    <2>3. PICK c \in Int, q \in Int, v \in Int :
              c = cash' /\ q = position' /\ v = q * Price(row) * One
        <3>1. position' \in Int
            BY <2>2, Numbers
        <3>2. position' * Price(row) * One \in Int
            BY <2>2, <3>1, AmountsInt
        <3>3. QED
            BY <2>2, <3>1, <3>2, Zenon
    <2>4. c + v \in Int
        OBVIOUS
    <2>5. cash' + position' * Price(row) * One \in Int
        BY <2>3, <2>4, Zenon
    <2>6. Peaked' /\ DrawdownExact'
        BY <2>1, <2>2, <2>5, MarkExact DEF FallsInv
    <2>7. QED
        BY <1>1, <2>6 DEF FallsInv
<1>4. CASE Start(Variant.signals)
    <2>1. /\ row' = 1 /\ peak_equity' = InitialCash * One /\ equities' = <<>>
          /\ max_drawdown' = [num |-> 0, den |-> 1]
        BY <1>4 DEF Start, Reset
    <2>2. PICK c \in Nat \ {0} : c = InitialCash * One
        BY Numbers
    <2>3. History' = <<c>>
        <3>1. History' = <<c>> \o <<>>
            BY <2>1, <2>2 DEF History
        <3>2. QED
            BY <3>1
    <2>4. DOMAIN History' = {1} /\ History'[1] = c
        BY <2>3
    <2>5. max_drawdown' \in Ratio /\ max_drawdown'.num = 0
        BY <2>1 DEF Ratio
    <2>6. Peaked'
        BY <2>1, <2>2, <2>4, <2>5 DEF Peaked
    <2>7. DrawdownExact'
        BY <2>4, <2>5 DEF DrawdownExact, FallsFrom
    <2>8. QED
        BY <1>1, <2>6, <2>7 DEF FallsInv
<1>5. CASE stage' \in {"idle", "refused"}
    BY <1>1, <1>5 DEF FallsInv, Peaked, DrawdownExact, Replaying
<1>6. QED
    BY <1>2, <1>3, <1>4, <1>5, Steps

\* The drawdown reported is the largest fall of the equity, as a share of what it
\* fell from (metrics.py:100-104): none is missed, none is invented.
THEOREM DrawdownsExact == Spec => []DrawdownExact
<1>1. Init => FallsInv
    <2>1. Init => BooksInv
        BY Numbers DEF Init, InitTrial, BooksInv, Typed, CostsExplainProfit, Replaying
    <2>2. Init => Peaked /\ DrawdownExact
        BY DEF Init, InitTrial, Peaked, DrawdownExact, Replaying
    <2>3. QED
        BY <2>1, <2>2 DEF FallsInv
<1>2. FallsInv => DrawdownExact
    BY DEF FallsInv
<1>3. QED
    BY <1>1, <1>2, StepFalls, PTL DEF Spec

-------------------------------------------------------------------------------
(* The position and the signals.                                           *)

\* A replay is one of a declared variant whose signals are bound to events.
Bound ==
    /\ variants \in Seq(Variants) /\ cursor \in Nat \ {0}
    /\ Replaying => /\ phase = "preflight" /\ cursor <= Len(variants)
                    /\ \A s \in Variant.signals : Binds(s)
                    /\ plan = PlanOf(Variant.signals)

\* As many signals were available as the position tells.
Counted ==
    Replaying =>
        /\ IsFiniteSet(Available("enter_long")) /\ IsFiniteSet(Available("exit_long"))
        /\ PositionFollowsSignals

FollowInv == Typed /\ Bound /\ Counted

\* The variant at cursor is a declared one.
LEMMA VariantDeclared ==
    ASSUME Bound, cursor <= Len(variants)
    PROVE  Variant \in Variants
<1>1. cursor \in 1 .. Len(variants)
    BY DEF Bound
<1>2. QED
    BY <1>1, ElementOfSeq DEF Bound, Variant

\* The row a bound signal executes at is the first one after it was available.
LEMMA FirstRow ==
    ASSUME NEW s, Binds(s), s.available_at_ts \in Int
    PROVE  \E m \in Rows : /\ Ts(m) = s.execution_ts
                           /\ \A r \in Rows : Ts(r) > s.available_at_ts <=> m <= r
<1>. DEFINE T == After(s.available_at_ts)
<1>1. T \in SUBSET Nat /\ T # {} /\ T \subseteq Rows
    BY Numbers DEF Binds, After
<1>2. \E m \in T : \A k \in T : m <= k
    BY <1>1, LeastIndex
<1>3. Min(T) \in T /\ \A k \in T : Min(T) <= k
    BY <1>2 DEF Min
<1>4. PICK m \in Rows : m = Min(T)
    BY <1>1, <1>3
<1>5. Ts(m) = s.execution_ts
    BY <1>4 DEF Binds
<1>6. ASSUME NEW r \in Rows, m <= r PROVE Ts(r) > s.available_at_ts
    <2>1. Ts(m) > s.available_at_ts
        BY <1>3, <1>4 DEF After
    <2>2. m \in Int /\ r \in Int /\ Ts(m) \in Int /\ Ts(r) \in Int
        BY Numbers
    <2>3. m < r => Ts(m) < Ts(r)
        BY Numbers
    <2>4. m = r \/ m < r
        BY <1>6, <2>2
    <2>5. QED
        BY <2>1, <2>2, <2>3, <2>4
<1>7. ASSUME NEW r \in Rows, Ts(r) > s.available_at_ts PROVE m <= r
    BY <1>3, <1>4, <1>7 DEF After
<1>8. QED
    BY <1>5, <1>6, <1>7

\* The signals that execute at the row become available with its event, and no
\* others do.
LEMMA MoreAvailable ==
    ASSUME Bound, stage = "running", row \in Rows, row' = row + 1,
           UNCHANGED <<variants, cursor>>, NEW action
    PROVE  LET due == {s \in At(Variant.signals, row) : s.action = action}
           IN  Available(action)' = Available(action) \cup due /\ Available(action) \cap due = {}
<1>1. PICK r \in Rows : r = row
    OBVIOUS
<1>2. r \in Nat \ {0} /\ r \in 1 .. N
    BY Numbers
<1>3. Variant' = Variant
    BY DEF Variant
<1>4. /\ Available(action) = {s \in Variant.signals : /\ s.action = action /\ r > 1
                                                      /\ s.available_at_ts < Ts(r - 1)}
      /\ Available(action)' = {s \in Variant.signals : /\ s.action = action /\ r + 1 > 1
                                                       /\ s.available_at_ts < Ts((r + 1) - 1)}
    BY <1>1, <1>3 DEF Available
<1>5. r + 1 > 1 /\ (r + 1) - 1 = r /\ (r > 1 => r - 1 \in Rows)
    BY <1>2, Numbers
<1>6. ASSUME NEW s \in Variant.signals
      PROVE  /\ s.available_at_ts < Ts(r) <=>
                    (r > 1 /\ s.available_at_ts < Ts(r - 1)) \/ s.execution_ts = Ts(r)
             /\ ~(r > 1 /\ s.available_at_ts < Ts(r - 1) /\ s.execution_ts = Ts(r))
    <2>1. Binds(s) /\ s.available_at_ts \in Nat
        BY VariantDeclared, VariantAssumption DEF Bound, Replaying
    <2>2. PICK m \in Rows : /\ Ts(m) = s.execution_ts
                            /\ \A q \in Rows : Ts(q) > s.available_at_ts <=> m <= q
        BY <2>1, FirstRow
    <2>3. m \in Int /\ m >= 1
        BY Numbers
    <2>4. \A q \in Rows : s.available_at_ts < Ts(q) <=> m <= q
        BY <2>1, <2>2, Numbers
    <2>5. s.execution_ts = Ts(r) <=> m = r
        <3>1. m < r => Ts(m) < Ts(r)
            BY Numbers
        <3>2. r < m => Ts(r) < Ts(m)
            BY Numbers
        <3>3. Ts(m) \in Int /\ Ts(r) \in Int
            BY Numbers
        <3>4. QED
            BY <1>2, <2>2, <2>3, <3>1, <3>2, <3>3
    <2>6. s.available_at_ts < Ts(r) <=> m <= r
        BY <2>4
    <2>7. r > 1 => (s.available_at_ts < Ts(r - 1) <=> m <= r - 1)
        BY <1>5, <2>4
    <2>8. QED
        BY <1>2, <2>3, <2>5, <2>6, <2>7
<1>7. At(Variant.signals, row) = {s \in Variant.signals : s.execution_ts = Ts(r)}
    BY <1>1 DEF At
<1>8. QED
    BY <1>4, <1>5, <1>6, <1>7

\* The action of a row is that of the one signal that executes there.
LEMMA OneSignal ==
    ASSUME Bound, stage = "running", row \in Rows
    PROVE  /\ Action \in {"enter_long", "exit_long"} =>
                  \E s : At(Variant.signals, row) = {s} /\ s.action = Action
           /\ Action = "hold" => At(Variant.signals, row) = {}
<1>1. Variant \in Variants /\ plan = PlanOf(Variant.signals)
    BY VariantDeclared DEF Bound, Replaying
<1>2. \A s, t \in At(Variant.signals, row) : s = t
    BY <1>1, VariantAssumption DEF At
<1>3. \A s \in At(Variant.signals, row) : s.action \in {"enter_long", "exit_long"}
    BY <1>1, VariantAssumption DEF At
<1>4. CASE At(Variant.signals, row) = {}
    <2>1. row \notin DOMAIN plan
        BY <1>1, <1>4 DEF PlanOf
    <2>2. QED
        BY <1>4, <2>1 DEF Action
<1>5. CASE At(Variant.signals, row) # {}
    <2>1. PICK s : s = CHOOSE x \in At(Variant.signals, row) : TRUE
        OBVIOUS
    <2>2. s \in At(Variant.signals, row)
        BY <1>5, <2>1
    <2>3. At(Variant.signals, row) = {s}
        BY <1>2, <2>2
    <2>4. row \in DOMAIN plan /\ plan[row] = s.action
        BY <1>1, <1>5, <2>1 DEF PlanOf
    <2>5. QED
        BY <1>3, <2>2, <2>3, <2>4 DEF Action
<1>6. QED
    BY <1>4, <1>5

\* An event executes the signals that became available with it.
LEMMA EventFollows ==
    ASSUME FollowInv, Enter \/ Exit \/ Hold, UNCHANGED <<variants, cursor>>
    PROVE  Counted'
<1>1. /\ stage = "running" /\ stage' = stage /\ row \in Rows /\ row' = row + 1
      /\ position' = position + (IF Action = "enter_long" THEN OrderSize ELSE 0)
                              - (IF Action = "exit_long" THEN OrderSize ELSE 0)
      /\ Action \in {"enter_long", "exit_long", "hold"}
    BY Booked DEF FollowInv
<1>. DEFINE due(a) == {s \in At(Variant.signals, row) : s.action = a}
<1>2. \A a : Available(a)' = Available(a) \cup due(a) /\ Available(a) \cap due(a) = {}
    BY <1>1, MoreAvailable DEF FollowInv
<1>3. \A a : due(a) = {} \/ \E s : due(a) = {s} /\ Action = a
    BY <1>1, OneSignal DEF FollowInv
<1>4. \A a \in {"enter_long", "exit_long"} : Action = a => due(a) # {}
    BY <1>1, OneSignal DEF FollowInv
<1>. HIDE DEF due
<1>5. ASSUME NEW a \in {"enter_long", "exit_long"}
      PROVE  /\ IsFiniteSet(Available(a)') /\ Cardinality(Available(a)) \in Nat
             /\ Cardinality(Available(a)') =
                    Cardinality(Available(a)) + (IF Action = a THEN 1 ELSE 0)
    <2>1. IsFiniteSet(Available(a)) /\ Cardinality(Available(a)) \in Nat
        BY <1>1, FS_CardinalityType DEF FollowInv, Counted, Replaying
    <2>2. CASE Action # a
        <3>1. Available(a)' = Available(a)
            BY <1>2, <1>3, <2>2
        <3>2. QED
            BY <2>1, <2>2, <3>1
    <2>3. CASE Action = a
        <3>1. PICK s : due(a) = {s}
            BY <1>3, <1>4, <2>3
        <3>2. Available(a)' = Available(a) \cup {s} /\ s \notin Available(a)
            BY <1>2, <3>1
        <3>3. QED
            BY <2>1, <2>3, <3>2, FS_AddElement
    <2>4. QED
        BY <2>2, <2>3
<1>6. PICK m \in Nat, n \in Nat, z \in Int :
          /\ m = Cardinality(Available("enter_long")) /\ n = Cardinality(Available("exit_long"))
          /\ z = OrderSize
    BY <1>5, Numbers
<1>7. position = z * (m - n)
    BY <1>1, <1>6 DEF FollowInv, Counted, PositionFollowsSignals, Replaying
<1>8. position' = z * ((m + (IF Action = "enter_long" THEN 1 ELSE 0))
                         - (n + (IF Action = "exit_long" THEN 1 ELSE 0)))
    <2>1. z * ((m + 1) - n) = z * (m - n) + z /\ z * (m - (n + 1)) = z * (m - n) - z
          /\ z * (m - n) \in Int
        OBVIOUS
    <2>2. CASE Action = "enter_long"
        <3>1. position' = z * (m - n) + z
            BY <1>1, <1>6, <1>7, <2>1, <2>2
        <3>2. QED
            BY <2>1, <2>2, <3>1
    <2>3. CASE Action = "exit_long"
        <3>1. position' = z * (m - n) - z
            BY <1>1, <1>6, <1>7, <2>1, <2>3
        <3>2. QED
            BY <2>1, <2>3, <3>1
    <2>4. CASE Action = "hold"
        BY <1>1, <1>6, <1>7, <2>1, <2>4
    <2>5. QED
        BY <1>1, <2>2, <2>3, <2>4
<1>9. PositionFollowsSignals'
    BY <1>5, <1>6, <1>8 DEF PositionFollowsSignals
<1>10. QED
    BY <1>5, <1>9 DEF Counted

\* Every step follows the signals.
LEMMA StepFollows ==
    ASSUME FollowInv, BooksInv, [Next]_vars
    PROVE  FollowInv'
<1>1. Typed'
    BY StepBooks DEF BooksInv
<1>2. ASSUME UNCHANGED <<variants, phase, cursor>>, Replaying' => Replaying /\ UNCHANGED plan
      PROVE  Bound'
    BY <1>2 DEF FollowInv, Bound, Variant
<1>3. ASSUME UNCHANGED <<variants, cursor, row, position>>, Replaying' => Replaying
      PROVE  Counted'
    <2>1. \A a : Available(a)' = Available(a)
        BY <1>3 DEF Available, Variant
    <2>2. QED
        BY <1>3, <2>1 DEF FollowInv, Counted, PositionFollowsSignals
<1>4. CASE UNCHANGED vars
    BY <1>1, <1>2, <1>3, <1>4 DEF FollowInv, vars, trial, family, Replaying
<1>5. CASE BeginPreflight
    <2>1. /\ UNCHANGED <<variants, phase, cursor>>
          /\ phase = "preflight" /\ cursor <= Len(variants)
        BY <1>5 DEF BeginPreflight, family, InLoop
    <2>2. CASE Start(Variant.signals)
        <3>1. /\ \A s \in Variant.signals : Binds(s)
              /\ plan' = PlanOf(Variant.signals) /\ row' = 1 /\ position' = 0
            BY <2>2 DEF Start, Reset
        <3>2. Bound'
            BY <2>1, <3>1 DEF FollowInv, Bound, Variant
        <3>3. \A a : Available(a)' = {}
            BY <3>1 DEF Available
        <3>4. IsFiniteSet({}) /\ Cardinality({}) = 0 /\ OrderSize * (0 - 0) = 0
            BY FS_EmptySet, Numbers
        <3>5. Counted'
            BY <3>1, <3>3, <3>4 DEF Counted, PositionFollowsSignals
        <3>6. QED
            BY <1>1, <3>2, <3>5 DEF FollowInv
    <2>3. CASE RefusePlan(Variant.signals)
        <3>1. ~Replaying'
            BY <2>3 DEF RefusePlan, Replaying
        <3>2. QED
            BY <1>1, <1>2, <2>1, <3>1 DEF FollowInv, Counted
    <2>4. QED
        BY <1>5, <2>2, <2>3 DEF BeginPreflight
<1>6. CASE Replay /\ (Enter \/ Exit \/ Hold)
    <2>1. UNCHANGED <<variants, phase, cursor>>
        BY <1>6 DEF Replay, family
    <2>2. Replaying /\ UNCHANGED plan
        BY <1>6, Booked DEF FollowInv, Replaying
    <2>3. QED
        BY <1>1, <1>2, <1>6, <2>1, <2>2, EventFollows DEF FollowInv
<1>7. CASE Replay /\ (Refuse \/ Finish)
    <2>1. /\ UNCHANGED <<variants, phase, cursor, plan, row, position>>
          /\ Replaying' => Replaying
        BY <1>7 DEF Replay, family, Refuse, Finish, Replaying, AtRow
    <2>2. QED
        BY <1>1, <1>2, <1>3, <2>1 DEF FollowInv
<1>8. ASSUME ~Replaying', variants' = variants, cursor' \in Nat \ {0}
      PROVE  FollowInv'
    BY <1>1, <1>8 DEF FollowInv, Bound, Counted
<1>9. cursor \in Nat \ {0} /\ Len(variants) \in Nat
    BY DEF FollowInv, Bound
<1>10. CASE EndPreflight
    BY <1>8, <1>9, <1>10 DEF EndPreflight, Release, Replaying
<1>11. CASE RunEngine \/ Judge \/ BuildLedger \/ VerifyLedger
    <2>1. variants' = variants /\ cursor' \in Nat \ {0} /\ stage' = stage
        <3>1. UNCHANGED trial /\ variants' = variants /\ cursor' \in {1, cursor, cursor + 1}
            BY <1>11 DEF RunEngine, Judge, BuildLedger, VerifyLedger
        <3>2. stage' = stage
            BY <3>1 DEF trial
        <3>3. QED
            BY <1>9, <3>1, <3>2
    <2>2. phase # "preflight" \/ cursor > Len(variants)
        BY <1>11 DEF RunEngine, Judge, BuildLedger, VerifyLedger, InLoop
    <2>3. ~Replaying
        BY <1>9, <2>2 DEF FollowInv, Bound
    <2>4. QED
        BY <1>8, <2>1, <2>3 DEF Replaying
<1>12. QED
    BY <1>4, <1>5, <1>6, <1>7, <1>10, <1>11 DEF Next, Replay, ReplayStep, Terminated

\* The position is what the signals available before the last event say, none of
\* them early, late or lost (build_execution_plan and the loop of
\* recompute_metrics), for any dataset and any variant that binds to it.
THEOREM PositionsFollowSignals == Spec => []PositionFollowsSignals
<1>1. Init => BooksInv /\ FollowInv
    <2>1. SUFFICES ASSUME Init PROVE BooksInv /\ FollowInv
        OBVIOUS
    <2>2. BooksInv /\ ~Replaying
        BY <2>1, Numbers DEF Init, InitTrial, BooksInv, Typed, CostsExplainProfit, Replaying
    <2>3. variants \in Seq(Variants) /\ cursor = 1
        BY <2>1, VariantAssumption DEF Init
    <2>4. QED
        BY <2>2, <2>3 DEF BooksInv, FollowInv, Bound, Counted
<1>2. FollowInv => PositionFollowsSignals
    BY DEF FollowInv, Counted, PositionFollowsSignals
<1>3. BooksInv /\ FollowInv /\ [Next]_vars => BooksInv' /\ FollowInv'
    BY StepBooks, StepFollows
<1>4. QED
    BY <1>1, <1>2, <1>3, PTL DEF Spec

-------------------------------------------------------------------------------
(* The ledger.                                                             *)

\* A strict total order on a finite set has a sorted enumeration, in which
\* every element is once: an element's place is given by how many precede it.
LEMMA SortedEnumerates ==
    ASSUME NEW K, IsFiniteSet(K), NEW R,
           \A x \in K : <<x, x>> \notin R,
           \A x, y \in K : x # y => <<x, y>> \in R \/ <<y, x>> \in R,
           \A x, y, z \in K : <<x, y>> \in R /\ <<y, z>> \in R => <<x, z>> \in R
    PROVE  /\ Cardinality(K) \in Nat
           /\ Sorted(K, R) \in [1 .. Cardinality(K) -> K]
           /\ \A i, j \in 1 .. Cardinality(K) :
                  i < j => <<Sorted(K, R)[i], Sorted(K, R)[j]>> \in R
           /\ \A i, j \in 1 .. Cardinality(K) : Sorted(K, R)[i] = Sorted(K, R)[j] => i = j
           /\ \A x \in K : \E i \in 1 .. Cardinality(K) : Sorted(K, R)[i] = x
<1>. DEFINE Before(x) == {y \in K : <<y, x>> \in R}
            n == Cardinality(K)
            rank == [x \in K |-> Cardinality(Before(x)) + 1]
            Orders(p) == \A i, j \in DOMAIN p : i < j => <<p[i], p[j]>> \in R
<1>1. n \in Nat /\ IsFiniteSet(1 .. n) /\ Cardinality(1 .. n) = n
    <2>1. n \in Nat
        BY FS_CardinalityType
    <2>2. QED
        BY <2>1, FS_Interval
<1>2. ASSUME NEW x \in K
      PROVE  /\ IsFiniteSet(Before(x)) /\ Cardinality(Before(x)) \in Nat
             /\ Cardinality(Before(x)) < n
    <2>1. Before(x) \in SUBSET K /\ Before(x) # K
        OBVIOUS
    <2>. HIDE DEF Before
    <2>2. IsFiniteSet(Before(x)) /\ Cardinality(Before(x)) <= n /\ Cardinality(Before(x)) # n
        BY <2>1, FS_Subset
    <2>3. Cardinality(Before(x)) \in Nat
        BY <2>2, FS_CardinalityType
    <2>4. QED
        BY <1>1, <2>2, <2>3
<1>3. rank \in [K -> 1 .. n]
    <2>. HIDE DEF Before, n
    <2>1. QED
        BY <1>1, <1>2
<1>4. ASSUME NEW x \in K, NEW y \in K, <<x, y>> \in R PROVE rank[x] < rank[y]
    <2>1. Before(x) \in SUBSET Before(y) /\ x \in Before(y) /\ x \notin Before(x)
        BY <1>4
    <2>. HIDE DEF Before
    <2>2. Cardinality(Before(x)) <= Cardinality(Before(y))
          /\ Cardinality(Before(x)) # Cardinality(Before(y))
        BY <1>2, <2>1, FS_Subset
    <2>3. Cardinality(Before(x)) < Cardinality(Before(y))
        BY <1>2, <2>2
    <2>4. QED
        BY <1>2, <2>3
<1>. HIDE DEF rank
<1>5. \A x, y \in K : rank[x] = rank[y] => x = y
    <2>1. SUFFICES ASSUME NEW x \in K, NEW y \in K, rank[x] = rank[y], x # y PROVE FALSE
        OBVIOUS
    <2>2. rank[x] < rank[y] \/ rank[y] < rank[x]
        BY <1>4, <2>1
    <2>3. QED
        BY <1>1, <1>3, <2>1, <2>2
<1>6. \A i \in 1 .. n : \E x \in K : rank[x] = i
    <2>1. rank \in Injection(K, 1 .. n)
        BY <1>3, <1>5 DEF Injection, IsInjective
    <2>2. rank \in Surjection(K, 1 .. n)
        BY <1>1, <2>1, FS_Injection
    <2>3. QED
        BY <2>2 DEF Surjection
<1>. DEFINE q == [i \in 1 .. n |-> CHOOSE x \in K : rank[x] = i]
<1>7. q \in [1 .. n -> K] /\ \A i \in 1 .. n : rank[q[i]] = i
    BY <1>6
<1>8. Orders(q)
    <2>1. SUFFICES ASSUME NEW i \in 1 .. n, NEW j \in 1 .. n, i < j PROVE <<q[i], q[j]>> \in R
        BY <1>7
    <2>. HIDE DEF q
    <2>2. q[i] # q[j] /\ q[i] \in K /\ q[j] \in K
        BY <1>1, <1>7, <2>1
    <2>3. <<q[j], q[i]>> \notin R
        <3>1. SUFFICES ASSUME <<q[j], q[i]>> \in R PROVE FALSE
            OBVIOUS
        <3>2. rank[q[j]] < rank[q[i]]
            BY <1>4, <2>2, <3>1
        <3>3. j < i
            BY <1>7, <3>2
        <3>4. QED
            BY <1>1, <2>1, <3>3
    <2>4. QED
        BY <2>2, <2>3
<1>. HIDE DEF q
<1>9. PICK p : p = Sorted(K, R)
    OBVIOUS
<1>10. p \in [1 .. n -> K] /\ Orders(p)
    <2>1. p = CHOOSE o \in [1 .. n -> K] : Orders(o)
        BY <1>9 DEF Sorted
    <2>. HIDE DEF Orders
    <2>2. QED
        BY <1>7, <1>8, <2>1
<1>11. \A i, j \in 1 .. n : i < j => <<p[i], p[j]>> \in R
    BY <1>10
<1>12. \A i, j \in 1 .. n : p[i] = p[j] => i = j
    <2>1. SUFFICES ASSUME NEW i \in 1 .. n, NEW j \in 1 .. n, p[i] = p[j], i # j PROVE FALSE
        OBVIOUS
    <2>2. i < j \/ j < i
        BY <1>1, <2>1
    <2>3. <<p[i], p[j]>> \in R \/ <<p[j], p[i]>> \in R
        BY <1>11, <2>2
    <2>4. QED
        BY <1>10, <2>1, <2>3
<1>13. \A x \in K : \E i \in 1 .. n : p[i] = x
    <2>1. p \in Injection(1 .. n, K)
        BY <1>10, <1>12 DEF Injection, IsInjective
    <2>2. p \in Surjection(1 .. n, K)
        BY <1>1, <2>1, FS_Injection
    <2>3. QED
        BY <2>2 DEF Surjection
<1>14. QED
    BY <1>1, <1>9, <1>10, <1>11, <1>12, <1>13

\* The result of the k-th variant.
Judgement(k) == Verdict(variants[k].trial_id)

\* The results so far are those of the first variants.
Judged == /\ results \in Seq({Judgement(k) : k \in DOMAIN variants})
          /\ \A k \in 1 .. Len(results) : results[k] = Judgement(k)

\* What the ledger is built from, and that verification finds no problem with it.
JudgeInv ==
    /\ phase \in {"preflight", "judge", "verify", "done"}
    /\ \A k, l \in DOMAIN variants : variants[k].trial_id = variants[l].trial_id => k = l
    /\ stage # "idle" => phase = "preflight" /\ cursor <= Len(variants)
    /\ \A id \in Valid : preflight[id].net_profit \in Int
    /\ phase = "preflight" => results = <<>>
    /\ phase = "judge" => Judged /\ Len(results) = cursor - 1 /\ Len(results) <= Len(variants)
    /\ phase \in {"preflight", "judge"} => ledger = None
    /\ phase = "verify" => Verified

\* Everything is judged.
Complete == Bound /\ JudgeInv /\ Judged /\ Len(results) = Len(variants)

\* The variants are indexed as a sequence, with numbers as ids of their own.
LEMMA Declared ==
    ASSUME Bound, JudgeInv
    PROVE  /\ Len(variants) \in Nat /\ DOMAIN variants = 1 .. Len(variants)
           /\ \A k \in 1 .. Len(variants) : variants[k].trial_id \in Nat
           /\ \A k, l \in 1 .. Len(variants) :
                  variants[k].trial_id = variants[l].trial_id => k = l
<1>1. variants \in Seq(Variants)
    BY DEF Bound
<1>2. Len(variants) \in Nat /\ DOMAIN variants = 1 .. Len(variants)
    BY <1>1, LenProperties
<1>3. ASSUME NEW k \in 1 .. Len(variants) PROVE variants[k].trial_id \in Nat
    <2>1. variants[k] \in Variants
        BY <1>1, ElementOfSeq
    <2>2. QED
        BY <2>1, VariantAssumption
<1>4. QED
    BY <1>2, <1>3 DEF JudgeInv

\* Each reason has its own cause.
LEMMA Causes ==
    ASSUME NEW id
    PROVE  OwnReason(Failure(id), id)
<1>1. CASE id \notin Valid
    BY <1>1 DEF Failure, OwnReason
<1>2. CASE id \in Valid /\ engine_error
    BY <1>2 DEF Failure, OwnReason
<1>3. CASE id \in Valid /\ ~engine_error
    BY <1>3 DEF Failure, OwnReason
<1>4. QED
    BY <1>1, <1>2, <1>3

\* What a verdict says of a trial.
LEMMA VerdictFacts ==
    ASSUME NEW id
    PROVE  /\ Verdict(id).trial_id = id /\ Verdict(id).reason = Failure(id)
           /\ Verdict(id).rank = None /\ Verdict(id).status \in {"completed", "failed"}
           /\ Verdict(id).status = "completed" <=> Verdict(id).metrics # None
           /\ Verdict(id).status = "completed"
                  <=> id \in Valid /\ ~engine_error /\ native[id] = "agrees"
           /\ Verdict(id).metrics # None =>
                  id \in Valid /\ Verdict(id).metrics = preflight[id]
           /\ \A i : LET r == [Verdict(id) EXCEPT !.rank = i]
                     IN  /\ r.trial_id = id /\ r.reason = Failure(id) /\ r.rank = i
                         /\ r.status = Verdict(id).status /\ r.metrics = Verdict(id).metrics
<1>1. Failure(id) = "none" <=> id \in Valid /\ ~engine_error /\ native[id] = "agrees"
    BY DEF Failure
<1>2. CASE Failure(id) = "none"
    <2>1. Verdict(id) = [trial_id |-> id, status |-> "completed", metrics |-> preflight[id],
                         reason |-> "none", rank |-> None]
        BY <1>2 DEF Verdict
    <2>2. preflight[id] # None
        BY <1>1, <1>2 DEF Valid
    <2>3. QED
        BY <1>1, <1>2, <2>1, <2>2
<1>3. CASE Failure(id) # "none"
    <2>1. Verdict(id) = [trial_id |-> id, status |-> "failed", metrics |-> None,
                         reason |-> Failure(id), rank |-> None]
        BY <1>3 DEF Verdict
    <2>2. QED
        BY <1>1, <1>3, <2>1
<1>4. QED
    BY <1>2, <1>3

\* The results in an order of the ledger: completed ones by return and id, failed
\* ones by id, are strictly and totally ordered.
LEMMA Ordered ==
    ASSUME Complete
    PROVE  /\ \A k \in CompletedAt : <<k, k>> \notin Best
           /\ \A k, l \in CompletedAt : k # l => <<k, l>> \in Best \/ <<l, k>> \in Best
           /\ \A k, l, m \in CompletedAt :
                  <<k, l>> \in Best /\ <<l, m>> \in Best => <<k, m>> \in Best
           /\ \A k \in FailedAt : <<k, k>> \notin Lowest
           /\ \A k, l \in FailedAt : k # l => <<k, l>> \in Lowest \/ <<l, k>> \in Lowest
           /\ \A k, l, m \in FailedAt :
                  <<k, l>> \in Lowest /\ <<l, m>> \in Lowest => <<k, m>> \in Lowest
           /\ \A k, l \in CompletedAt : <<k, l>> \in Best =>
                  \/ results[k].metrics.net_profit > results[l].metrics.net_profit
                  \/ /\ results[k].metrics.net_profit = results[l].metrics.net_profit
                     /\ results[k].trial_id < results[l].trial_id
           /\ \A k, l \in FailedAt : <<k, l>> \in Lowest =>
                  results[k].trial_id < results[l].trial_id
<1>1. PICK n \in Nat : n = Len(variants)
    BY Declared DEF Complete
<1>2. PICK id : id = [k \in 1 .. n |-> variants[k].trial_id]
    OBVIOUS
<1>3. PICK profit : profit = [k \in 1 .. n |-> results[k].metrics.net_profit]
    OBVIOUS
<1>4. DOMAIN results = 1 .. n
    BY <1>1, LenProperties DEF Complete, Judged
<1>5. \A k \in 1 .. n : id[k] \in Nat /\ results[k] = Verdict(id[k])
    BY <1>1, <1>2, Declared DEF Complete, Judged, Judgement
<1>6. \A k, l \in 1 .. n : id[k] = id[l] => k = l
    BY <1>1, <1>2, Declared DEF Complete
<1>7. \A k \in 1 .. n : results[k].trial_id = id[k]
    BY <1>5, VerdictFacts
<1>8. \A k \in 1 .. n : results[k].metrics.net_profit = profit[k]
    BY <1>3
<1>9. ASSUME NEW k \in CompletedAt PROVE k \in 1 .. n /\ profit[k] \in Int
    <2>1. k \in 1 .. n /\ results[k].metrics # None
        BY <1>4 DEF CompletedAt, Completed
    <2>2. id[k] \in Valid /\ results[k].metrics = preflight[id[k]]
        BY <1>5, <2>1, VerdictFacts
    <2>3. QED
        BY <1>8, <2>1, <2>2 DEF Complete, JudgeInv
<1>10. \A k \in FailedAt : k \in 1 .. n
    BY <1>4 DEF FailedAt
<1>11. \A k, l \in 1 .. n : <<k, l>> \in Best <=>
           \/ profit[k] > profit[l]
           \/ profit[k] = profit[l] /\ id[k] < id[l]
           \/ ~(\/ profit[l] > profit[k]
                \/ profit[l] = profit[k] /\ id[l] < id[k]) /\ k < l
    BY <1>4, <1>7, <1>8 DEF Best, Better
<1>12. \A k, l \in 1 .. n : <<k, l>> \in Lowest <=>
           \/ id[k] < id[l]
           \/ ~(id[l] < id[k]) /\ k < l
    BY <1>4, <1>7 DEF Lowest, Lower
<1>13. \A k, l \in CompletedAt : <<k, l>> \in Best <=>
           \/ profit[k] > profit[l]
           \/ profit[k] = profit[l] /\ id[k] < id[l]
    <2>1. SUFFICES ASSUME NEW k \in CompletedAt, NEW l \in CompletedAt
                   PROVE  <<k, l>> \in Best <=>
                              \/ profit[k] > profit[l]
                              \/ profit[k] = profit[l] /\ id[k] < id[l]
        OBVIOUS
    <2>2. k \in 1 .. n /\ l \in 1 .. n /\ profit[k] \in Int /\ profit[l] \in Int
        BY <1>9
    <2>3. id[k] \in Nat /\ id[l] \in Nat /\ (k = l \/ id[k] # id[l])
        BY <1>5, <1>6, <2>2
    <2>4. <<k, l>> \in Best <=>
              \/ profit[k] > profit[l]
              \/ profit[k] = profit[l] /\ id[k] < id[l]
              \/ ~(\/ profit[l] > profit[k]
                   \/ profit[l] = profit[k] /\ id[l] < id[k]) /\ k < l
        BY <1>11, <2>2
    <2>5. QED
        BY <2>2, <2>3, <2>4
<1>14. \A k, l \in FailedAt : <<k, l>> \in Lowest <=> id[k] < id[l]
    <2>1. SUFFICES ASSUME NEW k \in FailedAt, NEW l \in FailedAt
                   PROVE  <<k, l>> \in Lowest <=> id[k] < id[l]
        OBVIOUS
    <2>2. k \in 1 .. n /\ l \in 1 .. n
        BY <1>10
    <2>3. id[k] \in Nat /\ id[l] \in Nat /\ (k = l \/ id[k] # id[l])
        BY <1>5, <1>6, <2>2
    <2>4. <<k, l>> \in Lowest <=>
              \/ id[k] < id[l]
              \/ ~(id[l] < id[k]) /\ k < l
        BY <1>12, <2>2
    <2>5. QED
        BY <2>2, <2>3, <2>4
<1>15. \A k \in CompletedAt : profit[k] \in Int /\ id[k] \in Nat
    BY <1>5, <1>9
<1>16. \A k \in FailedAt : id[k] \in Nat
    BY <1>5, <1>10
<1>17. \A k, l \in CompletedAt : id[k] = id[l] => k = l
    BY <1>6, <1>9
<1>18. \A k, l \in FailedAt : id[k] = id[l] => k = l
    BY <1>6, <1>10
<1>19. \A k \in CompletedAt : <<k, k>> \notin Best
    BY <1>13, <1>15
<1>20. \A k, l \in CompletedAt : k # l => <<k, l>> \in Best \/ <<l, k>> \in Best
    BY <1>13, <1>15, <1>17
<1>21. \A k, l, m \in CompletedAt :
           <<k, l>> \in Best /\ <<l, m>> \in Best => <<k, m>> \in Best
    BY <1>13, <1>15
<1>22. \A k, l \in CompletedAt : <<k, l>> \in Best =>
           \/ results[k].metrics.net_profit > results[l].metrics.net_profit
           \/ /\ results[k].metrics.net_profit = results[l].metrics.net_profit
              /\ results[k].trial_id < results[l].trial_id
    BY <1>7, <1>8, <1>9, <1>13
<1>23. \A k \in FailedAt : <<k, k>> \notin Lowest
    BY <1>14, <1>16
<1>24. \A k, l \in FailedAt : k # l => <<k, l>> \in Lowest \/ <<l, k>> \in Lowest
    BY <1>14, <1>16, <1>18
<1>25. \A k, l, m \in FailedAt :
           <<k, l>> \in Lowest /\ <<l, m>> \in Lowest => <<k, m>> \in Lowest
    BY <1>14, <1>16
<1>26. \A k, l \in FailedAt : <<k, l>> \in Lowest =>
           results[k].trial_id < results[l].trial_id
    BY <1>7, <1>10, <1>14
<1>27. QED
    BY <1>19, <1>20, <1>21, <1>22, <1>23, <1>24, <1>25, <1>26

\* A function from an initial segment of the numbers is a sequence.
LEMMA SegmentSeq ==
    ASSUME NEW n \in Nat, NEW S, NEW f \in [1 .. n -> S]
    PROVE  f \in Seq(S) /\ Len(f) = n
OBVIOUS

\* The ledger lists every result at one place: the completed ones, sorted, with
\* their ranks, then the failed ones, sorted.
Lists(n, m, at) ==
    /\ n = Len(variants) /\ at \in [1 .. n -> 1 .. n]
    /\ \A i, j \in 1 .. n : at[i] = at[j] => i = j
    /\ \A k \in 1 .. n : \E i \in 1 .. n : at[i] = k
    /\ Len(Trials) = n /\ DOMAIN Trials = 1 .. n
    /\ \A i \in 1 .. m : /\ at[i] \in CompletedAt
                         /\ Trials[i] = [results[at[i]] EXCEPT !.rank = i]
    /\ \A i \in m + 1 .. n : at[i] \in FailedAt /\ Trials[i] = results[at[i]]
    /\ \A i, j \in 1 .. m : i < j => <<at[i], at[j]>> \in Best
    /\ \A i, j \in m + 1 .. n : i < j => <<at[i], at[j]>> \in Lowest

\* build_ledger lists the results.
LEMMA Listed ==
    ASSUME Complete
    PROVE  \E n \in Nat : \E m \in 0 .. n : \E at : Lists(n, m, at)
<1>1. PICK n \in Nat : n = Len(variants)
    BY Declared DEF Complete
<1>2. DOMAIN results = 1 .. n
    BY <1>1, LenProperties DEF Complete, Judged
<1>3. PICK K : K = CompletedAt
    OBVIOUS
<1>4. PICK F : F = FailedAt
    OBVIOUS
<1>5. K \cup F = 1 .. n /\ K \cap F = {}
    BY <1>2, <1>3, <1>4 DEF CompletedAt, FailedAt, Completed, Failed
<1>6. IsFiniteSet(K) /\ IsFiniteSet(F)
    <2>1. IsFiniteSet(1 .. n)
        BY FS_Interval
    <2>2. K \in SUBSET (1 .. n) /\ F \in SUBSET (1 .. n)
        BY <1>5
    <2>3. QED
        BY <2>1, <2>2, FS_Subset
<1>7. PICK m : m = Cardinality(K)
    OBVIOUS
<1>8. PICK f : f = Cardinality(F)
    OBVIOUS
<1>9. m \in Nat /\ f \in Nat /\ m + f = n
    <2>1. m \in Nat /\ f \in Nat
        BY <1>6, <1>7, <1>8, FS_CardinalityType
    <2>2. Cardinality(K \cup F) = m + f - Cardinality(K \cap F)
        BY <1>6, <1>7, <1>8, FS_Union
    <2>3. Cardinality(K \cap F) = 0
        BY <1>5, FS_EmptySet
    <2>4. Cardinality(1 .. n) = n
        BY FS_Interval
    <2>5. Cardinality(K \cup F) = n
        BY <1>5, <2>4
    <2>6. n = m + f - 0
        BY <2>2, <2>3, <2>5
    <2>7. QED
        BY <2>1, <2>6
<1>10. PICK p : p = Sorted(K, Best)
    OBVIOUS
<1>11. PICK q : q = Sorted(F, Lowest)
    OBVIOUS
<1>12. /\ p \in [1 .. m -> K]
       /\ \A i, j \in 1 .. m : i < j => <<p[i], p[j]>> \in Best
       /\ \A i, j \in 1 .. m : p[i] = p[j] => i = j
       /\ \A k \in K : \E i \in 1 .. m : p[i] = k
    <2>1. /\ \A x \in K : <<x, x>> \notin Best
          /\ \A x, y \in K : x # y => <<x, y>> \in Best \/ <<y, x>> \in Best
          /\ \A x, y, z \in K : <<x, y>> \in Best /\ <<y, z>> \in Best => <<x, z>> \in Best
        BY <1>3, Ordered
    <2>. HIDE DEF Sorted
    <2>2. QED
        BY <1>6, <1>7, <1>10, <2>1, SortedEnumerates
<1>13. /\ q \in [1 .. f -> F]
       /\ \A i, j \in 1 .. f : i < j => <<q[i], q[j]>> \in Lowest
       /\ \A i, j \in 1 .. f : q[i] = q[j] => i = j
       /\ \A k \in F : \E i \in 1 .. f : q[i] = k
    <2>1. /\ \A x \in F : <<x, x>> \notin Lowest
          /\ \A x, y \in F : x # y => <<x, y>> \in Lowest \/ <<y, x>> \in Lowest
          /\ \A x, y, z \in F :
                 <<x, y>> \in Lowest /\ <<y, z>> \in Lowest => <<x, z>> \in Lowest
        BY <1>4, Ordered
    <2>2. QED
        BY <1>6, <1>8, <1>11, <2>1, SortedEnumerates
<1>14. PICK at : at = [i \in 1 .. n |-> IF i <= m THEN p[i] ELSE q[i - m]]
    OBVIOUS
<1>15. \A i \in 1 .. m : i \in 1 .. n /\ at[i] = p[i] /\ at[i] \in K
    BY <1>9, <1>12, <1>14
<1>16. \A i \in m + 1 .. n :
           /\ i \in 1 .. n /\ i - m \in 1 .. f /\ at[i] = q[i - m] /\ at[i] \in F
    <2>1. SUFFICES ASSUME NEW i \in m + 1 .. n
                   PROVE  /\ i \in 1 .. n /\ i - m \in 1 .. f
                          /\ at[i] = q[i - m] /\ at[i] \in F
        OBVIOUS
    <2>2. i \in 1 .. n /\ i - m \in 1 .. f /\ ~(i <= m)
        BY <1>9
    <2>3. QED
        BY <1>13, <1>14, <2>2
<1>17. \A i \in 1 .. n : i \in 1 .. m \/ i \in m + 1 .. n
    BY <1>9
<1>18. at \in [1 .. n -> 1 .. n]
    <2>1. \A i \in 1 .. n : at[i] \in 1 .. n
        BY <1>5, <1>15, <1>16, <1>17
    <2>2. QED
        BY <1>14, <2>1
<1>19. \A i, j \in 1 .. n : at[i] = at[j] => i = j
    <2>1. SUFFICES ASSUME NEW i \in 1 .. n, NEW j \in 1 .. n, at[i] = at[j] PROVE i = j
        OBVIOUS
    <2>2. CASE i \in 1 .. m /\ j \in 1 .. m
        BY <1>12, <1>15, <2>1, <2>2
    <2>3. CASE i \in m + 1 .. n /\ j \in m + 1 .. n
        <3>1. i - m \in 1 .. f /\ j - m \in 1 .. f /\ q[i - m] = q[j - m]
            BY <1>16, <2>1, <2>3
        <3>2. i - m = j - m
            BY <1>13, <3>1
        <3>3. QED
            BY <1>9, <3>2
    <2>4. ~(i \in 1 .. m /\ j \in m + 1 .. n) /\ ~(i \in m + 1 .. n /\ j \in 1 .. m)
        BY <1>5, <1>15, <1>16, <2>1
    <2>5. QED
        BY <1>17, <2>2, <2>3, <2>4
<1>20. \A k \in 1 .. n : \E i \in 1 .. n : at[i] = k
    <2>1. SUFFICES ASSUME NEW k \in 1 .. n PROVE \E i \in 1 .. n : at[i] = k
        OBVIOUS
    <2>2. CASE k \in K
        BY <1>12, <1>15, <2>2
    <2>3. CASE k \in F
        <3>1. PICK i \in 1 .. f : q[i] = k
            BY <1>13, <2>3
        <3>2. i + m \in m + 1 .. n /\ (i + m) - m = i
            BY <1>9
        <3>3. QED
            BY <1>16, <3>1, <3>2
    <2>4. QED
        BY <1>5, <2>2, <2>3
<1>21. \A i, j \in 1 .. m : i < j => <<at[i], at[j]>> \in Best
    BY <1>12, <1>15
<1>22. \A i, j \in m + 1 .. n : i < j => <<at[i], at[j]>> \in Lowest
    <2>1. SUFFICES ASSUME NEW i \in m + 1 .. n, NEW j \in m + 1 .. n, i < j
                   PROVE  <<at[i], at[j]>> \in Lowest
        OBVIOUS
    <2>2. i - m \in 1 .. f /\ j - m \in 1 .. f /\ at[i] = q[i - m] /\ at[j] = q[j - m]
        BY <1>16
    <2>3. i - m < j - m
        BY <1>9, <2>1
    <2>4. QED
        BY <1>13, <2>2, <2>3
<1>23. PICK r : r = Ranked
    OBVIOUS
<1>24. PICK u : u = Unranked
    OBVIOUS
<1>25. r = [i \in 1 .. m |-> [results[p[i]] EXCEPT !.rank = i]]
    BY <1>3, <1>10, <1>12, <1>23 DEF Ranked
<1>26. u = [i \in 1 .. f |-> results[q[i]]]
    BY <1>4, <1>11, <1>13, <1>24 DEF Unranked
<1>27. PICK S : S = {r[i] : i \in 1 .. m} \cup {u[i] : i \in 1 .. f}
    OBVIOUS
<1>28. r \in Seq(S) /\ Len(r) = m
    <2>1. r \in [1 .. m -> S]
        BY <1>25, <1>27
    <2>2. QED
        BY <1>9, <2>1, SegmentSeq
<1>29. u \in Seq(S) /\ Len(u) = f
    <2>1. u \in [1 .. f -> S]
        BY <1>26, <1>27
    <2>2. QED
        BY <1>9, <2>1, SegmentSeq
<1>30. PICK t : t = Trials
    OBVIOUS
<1>31. t = r \o u
    BY <1>23, <1>24, <1>30 DEF Trials
<1>32. t \in Seq(S) /\ Len(t) = n /\ DOMAIN t = 1 .. n
    <2>1. t \in Seq(S) /\ Len(t) = m + f
        BY <1>28, <1>29, <1>31, ConcatProperties
    <2>2. QED
        BY <1>9, <2>1, LenProperties
<1>33. \A i \in 1 .. m + f : t[i] = IF i <= m THEN r[i] ELSE u[i - m]
    BY <1>28, <1>29, <1>31, ConcatProperties
<1>34. \A i \in 1 .. m : t[i] = [results[at[i]] EXCEPT !.rank = i]
    <2>1. SUFFICES ASSUME NEW i \in 1 .. m PROVE t[i] = [results[at[i]] EXCEPT !.rank = i]
        OBVIOUS
    <2>2. i \in 1 .. m + f /\ i <= m
        BY <1>9
    <2>3. t[i] = r[i]
        BY <1>33, <2>2
    <2>4. QED
        BY <1>15, <1>25, <2>3
<1>35. \A i \in m + 1 .. n : t[i] = results[at[i]]
    <2>1. SUFFICES ASSUME NEW i \in m + 1 .. n PROVE t[i] = results[at[i]]
        OBVIOUS
    <2>2. i \in 1 .. m + f /\ ~(i <= m)
        BY <1>9
    <2>3. t[i] = u[i - m] /\ i - m \in 1 .. f /\ at[i] = q[i - m]
        BY <1>16, <1>33, <2>2
    <2>4. QED
        BY <1>26, <2>3
<1>36. m \in 0 .. n
    BY <1>9
<1>37. Lists(n, m, at)
    BY <1>1, <1>3, <1>4, <1>15, <1>16, <1>18, <1>19, <1>20, <1>21, <1>22, <1>30, <1>32,
       <1>34, <1>35 DEF Lists
<1>38. QED
    BY <1>36, <1>37

\* A declared family has as many ids as variants.
LEMMA AsManyIds ==
    ASSUME Bound, JudgeInv
    PROVE  Cardinality(Ids) = Len(variants)
<1>1. PICK n \in Nat : n = Len(variants)
    BY Declared
<1>2. PICK f : f = [k \in 1 .. n |-> variants[k].trial_id]
    OBVIOUS
<1>3. DOMAIN variants = 1 .. n /\ \A k, l \in 1 .. n : f[k] = f[l] => k = l
    BY <1>1, <1>2, Declared
<1>4. f \in Bijection(1 .. n, Ids)
    <2>1. f \in [1 .. n -> Ids] /\ \A id \in Ids : \E k \in 1 .. n : f[k] = id
        BY <1>2, <1>3 DEF Ids
    <2>2. QED
        BY <1>3, <2>1 DEF Bijection, Injection, Surjection, IsInjective
<1>5. IsFiniteSet(1 .. n) /\ Cardinality(1 .. n) = n
    BY FS_Interval
<1>6. QED
    BY <1>1, <1>4, <1>5, FS_Bijection DEF ExistsBijection

\* Where the ledger lists a result, it says of the trial what its verdict says.
LEMMA EntryFacts ==
    ASSUME Complete, NEW n \in Nat, NEW m \in 0 .. n, NEW at, Lists(n, m, at),
           NEW t, t = Trials, NEW i \in 1 .. n
    PROVE  LET id == variants[at[i]].trial_id
           IN  /\ at[i] \in 1 .. n
               /\ t[i].trial_id = results[at[i]].trial_id /\ t[i].trial_id = id
               /\ t[i].metrics = results[at[i]].metrics /\ t[i].reason = Failure(id)
               /\ t[i].status = "completed" <=> t[i].metrics # None
               /\ t[i].status = "completed"
                      <=> id \in Valid /\ ~engine_error /\ native[id] = "agrees"
               /\ t[i].status = IF i <= m THEN "completed" ELSE "failed"
               /\ t[i].rank = IF i <= m THEN i ELSE None
<1>1. PICK k \in 1 .. n : k = at[i]
    BY DEF Lists
<1>2. PICK id : id = variants[k].trial_id
    OBVIOUS
<1>3. DOMAIN results = 1 .. n /\ results[k] = Verdict(id)
    <2>1. results \in Seq({Judgement(l) : l \in DOMAIN variants}) /\ Len(results) = n
        BY DEF Complete, Judged, Lists
    <2>2. DOMAIN results = 1 .. n
        BY <2>1, LenProperties
    <2>3. results[k] = Judgement(k)
        BY <1>1, <2>1 DEF Complete, Judged
    <2>4. QED
        BY <1>2, <2>2, <2>3 DEF Judgement
<1>4. CASE i <= m
    <2>1. i \in 1 .. m
        BY <1>4
    <2>2. k \in CompletedAt /\ t[i] = [Verdict(id) EXCEPT !.rank = i]
        BY <1>1, <1>3, <2>1 DEF Lists
    <2>3. Verdict(id).metrics # None
        BY <1>3, <2>2 DEF CompletedAt, Completed
    <2>4. /\ t[i].trial_id = id /\ t[i].reason = Failure(id) /\ t[i].rank = i
          /\ t[i].status = Verdict(id).status /\ t[i].metrics = Verdict(id).metrics
        BY <2>2, VerdictFacts
    <2>5. QED
        BY <1>1, <1>2, <1>3, <1>4, <2>3, <2>4, VerdictFacts
<1>5. CASE ~(i <= m)
    <2>1. i \in m + 1 .. n
        BY <1>5
    <2>2. k \in FailedAt /\ t[i] = Verdict(id)
        BY <1>1, <1>3, <2>1 DEF Lists
    <2>3. Verdict(id).metrics = None
        BY <1>3, <2>2 DEF FailedAt, Failed
    <2>4. QED
        BY <1>1, <1>2, <1>3, <1>5, <2>2, <2>3, VerdictFacts
<1>6. QED
    BY <1>4, <1>5

\* Each declared trial is in the ledger once, and with its own verdict.
LEMMA AllListed ==
    ASSUME Complete, NEW t, t = Trials
    PROVE  /\ DOMAIN t = 1 .. Len(variants) /\ Len(t) = Len(variants)
           /\ {t[i].trial_id : i \in DOMAIN t} = Ids
           /\ \A i \in DOMAIN t : t[i].status = "completed" <=> t[i].metrics # None
           /\ \A id \in Ids : \E k \in DOMAIN t :
                  /\ \A l \in DOMAIN t : t[l].trial_id = id <=> l = k
                  /\ t[k].reason = Failure(id)
                  /\ t[k].status = "completed"
                         <=> id \in Valid /\ ~engine_error /\ native[id] = "agrees"
<1>1. PICK n \in Nat : \E m \in 0 .. n : \E at : Lists(n, m, at)
    BY Listed
<1>2. PICK m \in 0 .. n : \E at : Lists(n, m, at)
    BY <1>1
<1>3. PICK at : Lists(n, m, at)
    BY <1>2
<1>4. n = Len(variants) /\ DOMAIN t = 1 .. n /\ Len(t) = n /\ DOMAIN variants = 1 .. n
    BY <1>3, Declared DEF Lists, Complete
<1>5. \A k \in 1 .. n : \E i \in 1 .. n : at[i] = k
    BY <1>3 DEF Lists
<1>6. \A i, j \in 1 .. n : at[i] = at[j] => i = j
    BY <1>3 DEF Lists
<1>7. \A k, l \in 1 .. n : variants[k].trial_id = variants[l].trial_id => k = l
    BY <1>4, Declared DEF Complete
<1>8. \A i \in 1 .. n : /\ at[i] \in 1 .. n /\ t[i].trial_id = variants[at[i]].trial_id
                        /\ t[i].status = "completed" <=> t[i].metrics # None
    BY <1>3, EntryFacts
<1>9. {t[i].trial_id : i \in DOMAIN t} = Ids
    <2>1. \A i \in 1 .. n : t[i].trial_id \in Ids
        BY <1>4, <1>8 DEF Ids
    <2>2. \A id \in Ids : \E i \in 1 .. n : t[i].trial_id = id
        BY <1>4, <1>5, <1>8 DEF Ids
    <2>3. QED
        BY <1>4, <2>1, <2>2
<1>10. ASSUME NEW id \in Ids
      PROVE  \E k \in DOMAIN t :
                 /\ \A l \in DOMAIN t : t[l].trial_id = id <=> l = k
                 /\ t[k].reason = Failure(id)
                 /\ t[k].status = "completed"
                        <=> id \in Valid /\ ~engine_error /\ native[id] = "agrees"
    <2>1. PICK k \in 1 .. n : variants[k].trial_id = id
        BY <1>4 DEF Ids
    <2>2. PICK i \in 1 .. n : at[i] = k
        BY <1>5
    <2>3. \A l \in 1 .. n : t[l].trial_id = id <=> l = i
        BY <1>6, <1>7, <1>8, <2>1, <2>2
    <2>4. /\ t[i].reason = Failure(id)
          /\ t[i].status = "completed"
                 <=> id \in Valid /\ ~engine_error /\ native[id] = "agrees"
        BY <1>3, <2>1, <2>2, EntryFacts
    <2>5. QED
        BY <1>4, <2>3, <2>4
<1>11. QED
    BY <1>4, <1>8, <1>9, <1>10

\* The ledger is in its one order, and its ranks are places in it.
LEMMA AllRanked ==
    ASSUME Complete, NEW t, t = Trials
    PROVE  /\ \A k, l \in DOMAIN t : k < l =>
                  \/ t[k].status = "completed" /\ t[l].status = "failed"
                  \/ /\ t[k].status = "failed" /\ t[l].status = "failed"
                     /\ t[k].trial_id < t[l].trial_id
                  \/ /\ t[k].status = "completed" /\ t[l].status = "completed"
                     /\ \/ t[k].metrics.net_profit > t[l].metrics.net_profit
                        \/ /\ t[k].metrics.net_profit = t[l].metrics.net_profit
                           /\ t[k].trial_id < t[l].trial_id
           /\ \A k \in DOMAIN t :
                  t[k].rank = IF t[k].status = "completed" THEN k ELSE None
<1>1. PICK n \in Nat : \E m \in 0 .. n : \E at : Lists(n, m, at)
    BY Listed
<1>2. PICK m \in 0 .. n : \E at : Lists(n, m, at)
    BY <1>1
<1>3. PICK at : Lists(n, m, at)
    BY <1>2
<1>4. DOMAIN t = 1 .. n
    BY <1>3 DEF Lists
<1>5. \A i \in 1 .. n : /\ t[i].trial_id = results[at[i]].trial_id
                        /\ t[i].metrics = results[at[i]].metrics
                        /\ t[i].status = IF i <= m THEN "completed" ELSE "failed"
                        /\ t[i].rank = IF i <= m THEN i ELSE None
    BY <1>3, EntryFacts
<1>6. ASSUME NEW k \in 1 .. n, NEW l \in 1 .. n, k < l
      PROVE  \/ t[k].status = "completed" /\ t[l].status = "failed"
             \/ /\ t[k].status = "failed" /\ t[l].status = "failed"
                /\ t[k].trial_id < t[l].trial_id
             \/ /\ t[k].status = "completed" /\ t[l].status = "completed"
                /\ \/ t[k].metrics.net_profit > t[l].metrics.net_profit
                   \/ /\ t[k].metrics.net_profit = t[l].metrics.net_profit
                      /\ t[k].trial_id < t[l].trial_id
    <2>1. CASE l <= m
        <3>1. k \in 1 .. m /\ l \in 1 .. m /\ k <= m
            BY <1>6, <2>1
        <3>2. <<at[k], at[l]>> \in Best /\ at[k] \in CompletedAt /\ at[l] \in CompletedAt
            BY <1>3, <1>6, <3>1 DEF Lists
        <3>3. \/ results[at[k]].metrics.net_profit > results[at[l]].metrics.net_profit
              \/ /\ results[at[k]].metrics.net_profit = results[at[l]].metrics.net_profit
                 /\ results[at[k]].trial_id < results[at[l]].trial_id
            BY <3>2, Ordered
        <3>4. QED
            BY <1>5, <2>1, <3>1, <3>3
    <2>2. CASE k <= m /\ ~(l <= m)
        BY <1>5, <2>2
    <2>3. CASE ~(k <= m)
        <3>1. k \in m + 1 .. n /\ l \in m + 1 .. n /\ ~(l <= m)
            BY <1>6, <2>3
        <3>2. <<at[k], at[l]>> \in Lowest /\ at[k] \in FailedAt /\ at[l] \in FailedAt
            BY <1>3, <1>6, <3>1 DEF Lists
        <3>3. results[at[k]].trial_id < results[at[l]].trial_id
            BY <3>2, Ordered
        <3>4. QED
            BY <1>5, <2>3, <3>1, <3>3
    <2>4. QED
        BY <2>1, <2>2, <2>3
<1>7. \A k \in 1 .. n : t[k].rank = IF t[k].status = "completed" THEN k ELSE None
    BY <1>5
<1>8. QED
    BY <1>4, <1>6, <1>7

LedgerInv == FollowInv /\ JudgeInv /\ EveryTrialOnce /\ RankingCanonical

\* What the family's loops leave alone stays as it was.
LEMMA FamilyKept ==
    ASSUME LedgerInv, UNCHANGED family,
           stage' # "idle" => phase = "preflight" /\ cursor <= Len(variants)
    PROVE  JudgeInv' /\ EveryTrialOnce' /\ RankingCanonical'
<1>1. /\ variants' = variants /\ phase' = phase /\ cursor' = cursor /\ ledger' = ledger
      /\ preflight' = preflight /\ native' = native /\ engine_error' = engine_error
      /\ results' = results
    BY DEF family
<1>2. Ids' = Ids /\ Valid' = Valid
    BY <1>1 DEF Ids, Valid
<1>3. \A reason, id : OwnReason(reason, id)' = OwnReason(reason, id)
    BY <1>1, <1>2 DEF OwnReason
<1>4. \A k : Judgement(k)' = Judgement(k)
    BY <1>1, <1>2 DEF Judgement, Verdict, Failure
<1>5. Judged' <=> Judged
    BY <1>1, <1>4 DEF Judged
<1>6. Verified' <=> Verified
    BY <1>1, <1>2 DEF Verified, Completed
<1>7. JudgeInv'
    BY <1>1, <1>2, <1>5, <1>6 DEF LedgerInv, JudgeInv
<1>8. EveryTrialOnce'
    BY <1>1, <1>2, <1>3 DEF LedgerInv, EveryTrialOnce
<1>9. RankingCanonical'
    BY <1>1 DEF LedgerInv, RankingCanonical
<1>10. QED
    BY <1>7, <1>8, <1>9

\* While there is no ledger, there is nothing to say of it.
LEMMA NoLedger ==
    ASSUME ledger = None
    PROVE  EveryTrialOnce /\ RankingCanonical
BY DEF EveryTrialOnce, RankingCanonical

\* The metrics of a replay that ended well tell a profit.
LEMMA ProfitInt ==
    ASSUME Typed
    PROVE  Metrics.net_profit \in Int
<1>1. N \in Rows /\ Price(N) \in Int /\ One \in Int /\ InitialCash \in Int
      /\ position \in Int /\ cash \in Int
    BY Numbers DEF Typed
<1>2. position * Price(N) * One \in Int /\ InitialCash * One \in Int
    BY <1>1, Products
<1>3. FinalEquity \in Int
    BY <1>1, <1>2 DEF FinalEquity, N
<1>4. QED
    BY <1>2, <1>3 DEF Metrics

\* A variant's replay is taken into the family.
LEMMA StepPreflight ==
    ASSUME LedgerInv, EndPreflight
    PROVE  JudgeInv' /\ EveryTrialOnce' /\ RankingCanonical'
<1>1. /\ variants' = variants /\ phase' = phase /\ ledger' = ledger /\ results' = results
      /\ stage \in {"ok", "refused"} /\ stage' = "idle" /\ cursor' = cursor + 1
      /\ preflight' = [id \in DOMAIN preflight \cup {Variant.trial_id} |->
                          IF id # Variant.trial_id THEN preflight[id]
                          ELSE IF stage = "ok" THEN Metrics ELSE None]
    BY DEF EndPreflight, Release
<1>2. phase = "preflight" /\ ledger = None /\ results = <<>>
    BY <1>1 DEF LedgerInv, JudgeInv
<1>3. ASSUME NEW id \in Valid' PROVE preflight'[id].net_profit \in Int
    <2>1. id \in DOMAIN preflight \cup {Variant.trial_id} /\ preflight'[id] # None
        BY <1>1, <1>3 DEF Valid
    <2>2. CASE id # Variant.trial_id
        <3>1. id \in Valid /\ preflight'[id] = preflight[id]
            BY <1>1, <2>1, <2>2 DEF Valid
        <3>2. QED
            BY <3>1 DEF LedgerInv, JudgeInv
    <2>3. CASE id = Variant.trial_id
        <3>1. preflight'[id] = Metrics
            BY <1>1, <2>1, <2>3
        <3>2. Typed
            BY DEF LedgerInv, FollowInv
        <3>3. QED
            BY <3>1, <3>2, ProfitInt
    <2>4. QED
        BY <2>2, <2>3
<1>4. JudgeInv'
    BY <1>1, <1>2, <1>3 DEF LedgerInv, JudgeInv
<1>5. ledger' = None
    BY <1>1, <1>2
<1>6. QED
    BY <1>4, <1>5 DEF EveryTrialOnce, RankingCanonical

\* The engine's answer starts the loop over the results.
LEMMA StepEngine ==
    ASSUME LedgerInv, RunEngine
    PROVE  JudgeInv' /\ EveryTrialOnce' /\ RankingCanonical'
<1>1. /\ variants' = variants /\ ledger' = ledger /\ results' = results
      /\ preflight' = preflight /\ phase' = "judge" /\ cursor' = 1
      /\ phase = "preflight" /\ cursor > Len(variants) /\ stage' = stage
    BY DEF RunEngine, trial
<1>2. results = <<>> /\ ledger = None
    BY <1>1 DEF LedgerInv, JudgeInv
<1>3. stage = "idle"
    <2>1. cursor \in Int /\ Len(variants) \in Int
        BY DEF LedgerInv, FollowInv, Bound
    <2>2. QED
        BY <1>1, <2>1 DEF LedgerInv, JudgeInv
<1>4. Judged' /\ Len(results') = 0
    <2>1. \A S : <<>> \in Seq(S) /\ Len(<<>>) = 0
        BY EmptySeq
    <2>2. QED
        BY <1>1, <1>2, <2>1 DEF Judged
<1>5. Valid' = Valid
    BY <1>1 DEF Valid
<1>6. Len(variants) \in Nat
    BY DEF LedgerInv, FollowInv, Bound
<1>7. JudgeInv'
    BY <1>1, <1>2, <1>3, <1>4, <1>5, <1>6 DEF LedgerInv, JudgeInv
<1>8. ledger' = None
    BY <1>1, <1>2
<1>9. QED
    BY <1>7, <1>8 DEF EveryTrialOnce, RankingCanonical

\* Another variant has its result.
LEMMA StepJudge ==
    ASSUME LedgerInv, Judge
    PROVE  JudgeInv' /\ EveryTrialOnce' /\ RankingCanonical'
<1>1. /\ variants' = variants /\ ledger' = ledger /\ phase' = phase
      /\ preflight' = preflight /\ native' = native /\ engine_error' = engine_error
      /\ phase = "judge" /\ cursor <= Len(variants) /\ cursor' = cursor + 1 /\ stage' = stage
      /\ results' = Append(results, Judgement(cursor))
    BY DEF Judge, InLoop, trial, Judgement, Variant
<1>2. Judged /\ Len(results) = cursor - 1 /\ ledger = None /\ stage = "idle"
    BY <1>1 DEF LedgerInv, JudgeInv
<1>3. cursor \in 1 .. Len(variants) /\ Len(variants) \in Nat /\ cursor \in Nat
      /\ DOMAIN variants = 1 .. Len(variants)
    <2>1. Len(variants) \in Nat /\ DOMAIN variants = 1 .. Len(variants)
        BY Declared DEF LedgerInv, FollowInv
    <2>2. cursor \in Nat \ {0}
        BY DEF LedgerInv, FollowInv, Bound
    <2>3. QED
        BY <1>1, <2>1, <2>2
<1>4. Valid' = Valid
    BY <1>1 DEF Valid
<1>5. \A k : Judgement(k)' = Judgement(k)
    BY <1>1, <1>4 DEF Judgement, Verdict, Failure
<1>6. PICK S : S = {Judgement(k) : k \in DOMAIN variants}
    OBVIOUS
<1>7. results \in Seq(S) /\ Judgement(cursor) \in S
    BY <1>2, <1>3, <1>6 DEF Judged
<1>8. PICK r : r = Append(results, Judgement(cursor))
    OBVIOUS
<1>9. r \in Seq(S) /\ Len(r) = cursor /\ \A k \in 1 .. cursor : r[k] = Judgement(k)
    <2>1. /\ r \in Seq(S) /\ Len(r) = Len(results) + 1
          /\ \A k \in 1 .. Len(results) : r[k] = results[k]
          /\ r[Len(results) + 1] = Judgement(cursor)
        BY <1>7, <1>8, AppendProperties
    <2>2. Len(r) = cursor /\ r[cursor] = Judgement(cursor)
        BY <1>2, <1>3, <2>1
    <2>3. \A k \in 1 .. cursor - 1 : r[k] = Judgement(k)
        BY <1>2, <2>1 DEF Judged
    <2>4. \A k \in 1 .. cursor : k = cursor \/ k \in 1 .. cursor - 1
        BY <1>3
    <2>5. QED
        BY <2>1, <2>2, <2>3, <2>4
<1>10. Judged' /\ Len(results') = cursor
    <2>1. {Judgement(k) : k \in DOMAIN variants}' = S
        BY <1>1, <1>5, <1>6
    <2>2. QED
        BY <1>1, <1>5, <1>8, <1>9, <2>1 DEF Judged
<1>11. Len(results') = cursor' - 1 /\ Len(results') <= Len(variants')
    BY <1>1, <1>3, <1>10
<1>12. JudgeInv'
    BY <1>1, <1>2, <1>4, <1>10, <1>11 DEF LedgerInv, JudgeInv
<1>13. ledger' = None
    BY <1>1, <1>2
<1>14. QED
    BY <1>12, <1>13 DEF EveryTrialOnce, RankingCanonical

\* build_ledger builds what verification accepts.
LEMMA StepBuild ==
    ASSUME LedgerInv, BuildLedger
    PROVE  JudgeInv' /\ EveryTrialOnce' /\ RankingCanonical'
<1>1. /\ variants' = variants /\ cursor' = cursor /\ results' = results
      /\ preflight' = preflight /\ native' = native /\ engine_error' = engine_error
      /\ phase = "judge" /\ cursor > Len(variants) /\ phase' = "verify" /\ stage' = stage
      /\ ledger' = Trials
    BY DEF BuildLedger, trial
<1>2. Complete
    <2>1. cursor \in Int /\ Len(variants) \in Int
        BY DEF LedgerInv, FollowInv, Bound
    <2>2. Judged /\ Len(results) = cursor - 1 /\ Len(results) <= Len(variants)
        BY <1>1 DEF LedgerInv, JudgeInv
    <2>3. Len(results) = Len(variants)
        BY <1>1, <2>1, <2>2
    <2>4. QED
        BY <2>2, <2>3 DEF Complete, LedgerInv, FollowInv
<1>3. PICK t : t = Trials
    OBVIOUS
<1>4. /\ DOMAIN t = 1 .. Len(variants) /\ Len(t) = Len(variants)
      /\ {t[i].trial_id : i \in DOMAIN t} = Ids
      /\ \A i \in DOMAIN t : t[i].status = "completed" <=> t[i].metrics # None
      /\ \A id \in Ids : \E k \in DOMAIN t :
             /\ \A l \in DOMAIN t : t[l].trial_id = id <=> l = k
             /\ t[k].reason = Failure(id)
             /\ t[k].status = "completed"
                    <=> id \in Valid /\ ~engine_error /\ native[id] = "agrees"
    BY <1>2, <1>3, AllListed
<1>5. Cardinality(Ids) = Len(variants)
    BY AsManyIds DEF LedgerInv, FollowInv
<1>6. Ids' = Ids /\ Valid' = Valid /\ ledger' = t
    BY <1>1, <1>3 DEF Ids, Valid
<1>7. \A reason, id : OwnReason(reason, id)' = OwnReason(reason, id)
    BY <1>1, <1>6 DEF OwnReason
<1>8. Verified'
    <2>1. {ledger'[k].trial_id : k \in DOMAIN ledger'} = Ids' /\ Len(ledger') = Len(variants')
        BY <1>1, <1>4, <1>6
    <2>2. Cardinality(Ids') = Len(ledger')
        BY <1>1, <1>4, <1>5, <1>6
    <2>3. \A k \in DOMAIN ledger' :
              (ledger'[k].status = "completed") = (ledger'[k].metrics # None)
        BY <1>4, <1>6
    <2>4. QED
        BY <2>1, <2>2, <2>3 DEF Verified, Completed
<1>9. stage = "idle"
    BY <1>1 DEF LedgerInv, JudgeInv
<1>10. JudgeInv'
    BY <1>1, <1>6, <1>8, <1>9 DEF LedgerInv, JudgeInv
<1>11. EveryTrialOnce'
    BY <1>1, <1>4, <1>5, <1>6, <1>7, Causes DEF EveryTrialOnce
<1>12. RankingCanonical'
    <2>1. /\ \A k, l \in DOMAIN t : k < l =>
                 \/ t[k].status = "completed" /\ t[l].status = "failed"
                 \/ /\ t[k].status = "failed" /\ t[l].status = "failed"
                    /\ t[k].trial_id < t[l].trial_id
                 \/ /\ t[k].status = "completed" /\ t[l].status = "completed"
                    /\ \/ t[k].metrics.net_profit > t[l].metrics.net_profit
                       \/ /\ t[k].metrics.net_profit = t[l].metrics.net_profit
                          /\ t[k].trial_id < t[l].trial_id
          /\ \A k \in DOMAIN t :
                 t[k].rank = IF t[k].status = "completed" THEN k ELSE None
        BY <1>2, <1>3, AllRanked
    <2>2. QED
        BY <1>6, <2>1 DEF RankingCanonical
<1>13. QED
    BY <1>10, <1>11, <1>12

\* Verification finds nothing, and changes nothing but the phase.
LEMMA StepVerify ==
    ASSUME LedgerInv, VerifyLedger
    PROVE  JudgeInv' /\ EveryTrialOnce' /\ RankingCanonical'
<1>1. /\ variants' = variants /\ cursor' = cursor /\ results' = results /\ ledger' = ledger
      /\ preflight' = preflight /\ native' = native /\ engine_error' = engine_error
      /\ phase = "verify" /\ stage' = stage
    BY DEF VerifyLedger, trial
<1>2. Verified
    BY <1>1 DEF LedgerInv, JudgeInv
<1>3. phase' = "done" /\ stage = "idle"
    BY <1>1, <1>2 DEF VerifyLedger, LedgerInv, JudgeInv
<1>4. Ids' = Ids /\ Valid' = Valid
    BY <1>1 DEF Ids, Valid
<1>5. \A reason, id : OwnReason(reason, id)' = OwnReason(reason, id)
    BY <1>1, <1>4 DEF OwnReason
<1>6. JudgeInv'
    BY <1>1, <1>3, <1>4 DEF LedgerInv, JudgeInv
<1>7. EveryTrialOnce'
    BY <1>1, <1>3, <1>4, <1>5 DEF LedgerInv, EveryTrialOnce
<1>8. RankingCanonical'
    BY <1>1 DEF LedgerInv, RankingCanonical
<1>9. QED
    BY <1>6, <1>7, <1>8

\* Every step keeps the ledger sound.
LEMMA StepLedger ==
    ASSUME LedgerInv, BooksInv, [Next]_vars
    PROVE  LedgerInv'
<1>1. FollowInv'
    BY StepFollows DEF LedgerInv
<1>2. stage # "idle" => phase = "preflight" /\ cursor <= Len(variants)
    BY DEF LedgerInv, JudgeInv
<1>3. CASE UNCHANGED vars
    <2>1. UNCHANGED family /\ stage' = stage
        BY <1>3 DEF vars, trial
    <2>2. QED
        BY <1>1, <1>2, <2>1, FamilyKept DEF LedgerInv
<1>4. CASE BeginPreflight
    <2>1. UNCHANGED family /\ phase = "preflight" /\ cursor <= Len(variants)
        BY <1>4 DEF BeginPreflight, InLoop
    <2>2. QED
        BY <1>1, <2>1, FamilyKept DEF LedgerInv
<1>5. CASE Replay
    <2>1. UNCHANGED family /\ stage # "idle"
        BY <1>5 DEF Replay, ReplayStep, Enter, Exit, Hold, Refuse, Finish, AtRow
    <2>2. QED
        BY <1>1, <1>2, <2>1, FamilyKept DEF LedgerInv
<1>6. QED
    BY <1>1, <1>3, <1>4, <1>5, StepPreflight, StepEngine, StepJudge, StepBuild, StepVerify
       DEF Next, Terminated, LedgerInv

\* Initially nothing is judged.
LEMMA InitLedger ==
    ASSUME Init
    PROVE  BooksInv /\ LedgerInv
<1>1. BooksInv /\ ~Replaying /\ stage = "idle"
    BY Numbers DEF Init, InitTrial, BooksInv, Typed, CostsExplainProfit, Replaying
<1>2. variants \in Seq(Variants) /\ cursor = 1
    BY VariantAssumption DEF Init
<1>3. FollowInv
    BY <1>1, <1>2 DEF BooksInv, FollowInv, Bound, Counted
<1>4. JudgeInv
    BY <1>1 DEF Init, JudgeInv, Valid
<1>5. QED
    BY <1>1, <1>3, <1>4, NoLedger DEF Init, LedgerInv

\* Each declared trial is in the ledger once, completed or with the reason that
\* failed it, and verify_ledger accepts the ledger (_screen_trials, build_ledger
\* and verify_ledger), for any family, dataset and costs, and whatever the engine
\* answers.
THEOREM EveryTrialListed == Spec => []EveryTrialOnce
<1>1. Init => BooksInv /\ LedgerInv
    BY InitLedger
<1>2. BooksInv /\ LedgerInv /\ [Next]_vars => BooksInv' /\ LedgerInv'
    BY StepBooks, StepLedger
<1>3. LedgerInv => EveryTrialOnce
    BY DEF LedgerInv
<1>4. QED
    BY <1>1, <1>2, <1>3, PTL DEF Spec

\* The ledger is ranked in the one order that its trials' results and ids allow
\* (build_ledger), in whichever order the family was declared.
THEOREM RankingsCanonical == Spec => []RankingCanonical
<1>1. Init => BooksInv /\ LedgerInv
    BY InitLedger
<1>2. BooksInv /\ LedgerInv /\ [Next]_vars => BooksInv' /\ LedgerInv'
    BY StepBooks, StepLedger
<1>3. LedgerInv => RankingCanonical
    BY DEF LedgerInv
<1>4. QED
    BY <1>1, <1>2, <1>3, PTL DEF Spec
===============================================================================
