-------------------------- MODULE OrderMatching_proofs --------------------------
(***************************************************************************)
(* Proofs about the matching loop, for any intents and events the schema   *)
(* accepts and any number of them.                                         *)
(***************************************************************************)
EXTENDS OrderMatching, TLAPS, NaturalsInduction, SequenceTheorems, WellFoundedInduction

(***************************************************************************)
(* Facts about the operators the loop is built from.                       *)
(***************************************************************************)

\* What an event brings, and when, are natural numbers.
LEMMA EventFacts ==
    ASSUME NEW e \in Events
    PROVE  Liquidity(e) \in Nat /\ EventTs(e) \in Nat
BY EventAssumption DEF Liquidity, EventTs

\* _match_runtime takes no more than the residual and no more than what is
\* left of the event, and from a FOK order all or nothing.
LEMMA FillQtyBounds ==
    ASSUME NEW rt, RuntimeOK(rt), NEW e, NEW liquidity \in Nat
    PROVE  /\ FillQty(rt, e, liquidity) \in 0 .. rt.remaining
           /\ FillQty(rt, e, liquidity) <= liquidity
           /\ rt.intent.time_in_force = "FOK" =>
                 FillQty(rt, e, liquidity) \in {0, rt.remaining}
<1>1. rt.remaining \in Nat
    BY IntentAssumption DEF RuntimeOK
<1>2. QED
    BY <1>1 DEF FillQty

(***************************************************************************)
(* The type invariant and the consistency of status and residual, proved   *)
(* together: that an active order has something left, which FillQty and    *)
(* the status of a fill rest on, is half of each.                          *)
(***************************************************************************)

RuntimeInv(rt) == RuntimeOK(rt) /\ ResidualOK(rt)

RuntimesInv == \A o \in OrderIds : RuntimeInv(runtimes[o]) /\ runtimes[o].intent.order_id = o

\* The type invariant without the runtimes.
Scalars ==
    /\ intents \in Seq(Intents) /\ events \in Seq(Events)
    /\ phase \in {"accept", "idle", "expire", "match", "cancel", "done", "raised"}
    /\ OrderIds = {intents[n].order_id : n \in DOMAIN intents}
    /\ cursor \in Nat \ {0} /\ available \in Nat
    /\ touched \in Seq(OrderIds)
    /\ phase \in {"expire", "match", "cancel"} => events # <<>>

IInv == Scalars /\ RuntimesInv

LEMMA InvariantSplit == IInv <=> TypeInvariant /\ ResidualConsistent
BY DEF IInv, Scalars, RuntimesInv, RuntimeInv, TypeInvariant, ResidualConsistent

\* Storing a good runtime under its own order id keeps every runtime good.
LEMMA StoreRuntime ==
    ASSUME RuntimesInv, NEW o \in OrderIds,
           NEW rt, RuntimeInv(rt), rt.intent.order_id = o,
           runtimes' = [runtimes EXCEPT ![o] = rt]
    PROVE  RuntimesInv' /\ OrderIds' = OrderIds
BY DEF RuntimesInv, OrderIds, RuntimeInv, RuntimeOK, ResidualOK

\* The loops' orders are orders with a runtime.
LEMMA LoopFacts ==
    ASSUME IInv
    PROVE  /\ cursor <= Len(intents) => /\ Intent \in Intents
                                        /\ Intent.order_id \in OrderIds
                                        /\ RuntimeInv(Runtime)
                                        /\ Runtime.intent.order_id = Intent.order_id
           /\ phase \in {"expire", "match", "cancel"} => Event \in Events
           /\ Canceling => /\ touched[cursor] \in OrderIds
                           /\ RuntimeInv(TouchedRuntime)
                           /\ TouchedRuntime.intent.order_id = touched[cursor]
<1>1. ASSUME cursor <= Len(intents)
      PROVE  Intent \in Intents /\ Intent.order_id \in OrderIds
    BY <1>1 DEF IInv, Scalars, Intent
<1>2. ASSUME phase \in {"expire", "match", "cancel"} PROVE Event \in Events
    BY <1>2 DEF IInv, Scalars, Event
<1>3. ASSUME Canceling PROVE touched[cursor] \in OrderIds
    BY <1>3 DEF IInv, Scalars, Canceling
<1>4. QED
    BY <1>1, <1>2, <1>3 DEF IInv, RuntimesInv, Runtime, TouchedRuntime

\* A status change keeps the runtimes good if the new status fits the residual.
LEMMA MoveToPreserves ==
    ASSUME RuntimesInv, NEW o \in OrderIds, NEW to,
           to \in {"PARTIALLY_FILLED"} \cup TerminalStatuses,
           NEW rt, RuntimeOK(rt), rt.intent.order_id = o,
           RuntimeInv([rt EXCEPT !.status = to]),
           ValidTransition(rt.status, to),
           MoveTo(o, rt, to)
    PROVE  RuntimesInv' /\ OrderIds' = OrderIds /\ phase' = phase
<1>. DEFINE moved == [rt EXCEPT !.status = to]
<1>1. moved.intent.order_id = o
    BY DEF RuntimeOK
<1>2. runtimes' = [runtimes EXCEPT ![o] = moved] /\ phase' = phase
    BY DEF MoveTo
<1>3. QED
    BY <1>1, <1>2, StoreRuntime

\* Every status the loop moves an active order to is an allowed transition.
LEMMA ActiveMayMove ==
    ASSUME NEW from \in ActiveStatuses,
           NEW to \in {"PARTIALLY_FILLED", "FILLED", "CANCELED", "EXPIRED"}
    PROVE  ValidTransition(from, to)
BY DEF ValidTransition, AllowedTransitions, ActiveStatuses, Statuses, NoStatus

\* Giving up an active order's residual keeps its runtime good.
LEMMA GiveUpInv ==
    ASSUME NEW rt, RuntimeInv(rt), rt.status \in ActiveStatuses,
           NEW to \in {"CANCELED", "EXPIRED"}
    PROVE  RuntimeInv([rt EXCEPT !.status = to])
<1>1. rt.remaining # 0
    BY DEF RuntimeInv, ResidualOK, ActiveStatuses
<1>2. QED
    BY <1>1 DEF RuntimeInv, RuntimeOK, ResidualOK, TerminalStatuses

\* What the matching loop makes of a good, active runtime it touches.
LEMMA OfferedInv ==
    ASSUME IInv, InLoop("match"), Touches
    PROVE  /\ RuntimeInv(Offered)
           /\ Offered.intent.order_id = Intent.order_id
           /\ Offered.status = Runtime.status /\ Offered.remaining = Runtime.remaining
           /\ RuntimeInv([Runtime EXCEPT !.first_event_consumed = Consumed])
<1>1. RuntimeInv(Runtime) /\ Runtime.intent.order_id = Intent.order_id
    BY LoopFacts DEF InLoop
<1>2. Consumed \in BOOLEAN /\ Triggered(Runtime, Event) \in BOOLEAN
    BY <1>1 DEF Consumed, Triggered, RuntimeInv, RuntimeOK
<1>3. QED
    BY <1>1, <1>2 DEF Offered, RuntimeInv, RuntimeOK, ResidualOK

\* A fill reduces the residual and leaves a good runtime with its new status.
LEMMA FilledInv ==
    ASSUME IInv, InLoop("match"), Touches, available > 0, Qty > 0
    PROVE  /\ available - Qty \in Nat
           /\ Filled.intent.order_id = Intent.order_id
           /\ Filled.status = Runtime.status
           /\ RuntimeOK(Filled)
           /\ RuntimeInv([Filled EXCEPT !.status = StatusFor(Filled.remaining)])
<1>1. /\ RuntimeInv(Offered) /\ Offered.intent.order_id = Intent.order_id
      /\ Offered.status = Runtime.status /\ Offered.remaining = Runtime.remaining
    BY OfferedInv
<1>2. RuntimeInv(Runtime) /\ available \in Nat
    BY LoopFacts DEF InLoop, IInv, Scalars
<1>3. Qty \in 0 .. Runtime.remaining /\ Qty <= available
    BY <1>2, FillQtyBounds DEF Qty, RuntimeInv
<1>4. Offered.remaining \in 0 .. Offered.intent.quantity /\ Offered.intent.quantity \in Nat
    BY <1>1, IntentAssumption DEF RuntimeInv, RuntimeOK
<1>5. Filled = [Offered EXCEPT !.remaining = Offered.remaining - Qty]
    BY DEF Filled
<1>6. Offered.remaining - Qty \in 0 .. Offered.intent.quantity - 1
    BY <1>1, <1>3, <1>4
<1>7. /\ RuntimeOK(Filled) /\ Filled.intent.quantity \in Nat
      /\ Filled.remaining \in 0 .. Filled.intent.quantity - 1
    BY <1>1, <1>4, <1>5, <1>6 DEF RuntimeInv, RuntimeOK
<1>8. RuntimeInv([Filled EXCEPT !.status = StatusFor(Filled.remaining)])
    <2>1. CASE Filled.remaining = 0
        BY <2>1, <1>7 DEF StatusFor, RuntimeInv, RuntimeOK, ResidualOK, TerminalStatuses
    <2>2. CASE Filled.remaining > 0
        BY <2>2, <1>7 DEF StatusFor, RuntimeInv, RuntimeOK, ResidualOK, ActiveStatuses
    <2>3. QED
        BY <2>1, <2>2, <1>4, <1>7
<1>9. QED
    BY <1>1, <1>2, <1>3, <1>5, <1>7, <1>8 DEF RuntimeInv, RuntimeOK

LEMMA InvariantInit == Init => IInv
<1>1. ASSUME Init PROVE OrderIds = {} /\ DOMAIN intents = {}
    BY <1>1 DEF Init, OrderIds
<1>2. QED
    BY <1>1 DEF Init, IInv, Scalars, RuntimesInv

\* A step that changes neither lists nor runtimes, other than by extending
\* `touched` with an order id, only has its own scalars to answer for.
LEMMA StillRuntimes ==
    ASSUME RuntimesInv, runtimes' = runtimes
    PROVE  RuntimesInv' /\ OrderIds' = OrderIds
BY DEF RuntimesInv, OrderIds, RuntimeInv, RuntimeOK, ResidualOK

LEMMA InvariantStep == IInv /\ [Next]_vars => IInv'
<1>. SUFFICES ASSUME IInv, [Next]_vars PROVE IInv'
    OBVIOUS
<1>. USE DEF IInv
<1>1. ASSUME NEW i \in Intents, AcceptOrder(i) PROVE IInv'
    <2>. DEFINE rt == [intent |-> i, status |-> "ACCEPTED", remaining |-> i.quantity,
                       stop_triggered |-> FALSE, first_event_consumed |-> FALSE]
    <2>1. /\ intents' = Append(intents, i)
          /\ runtimes' = [o \in OrderIds \cup {i.order_id} |->
                             IF o = i.order_id THEN rt ELSE runtimes[o]]
        BY <1>1 DEF AcceptOrder, OrderIds
    <2>2. RuntimeInv(rt)
        BY IntentAssumption DEF RuntimeInv, RuntimeOK, ResidualOK, ActiveStatuses
    <2>3. OrderIds' = OrderIds \cup {i.order_id}
        BY <2>1 DEF OrderIds
    <2>4. RuntimesInv'
        BY <2>1, <2>2, <2>3 DEF RuntimesInv, RuntimeInv, RuntimeOK, ResidualOK
    <2>5. /\ intents' \in Seq(Intents)
          /\ OrderIds' = {intents'[n].order_id : n \in DOMAIN intents'}
        <3>1. /\ Len(intents') = Len(intents) + 1 /\ intents' \in Seq(Intents)
              /\ \A n \in 1 .. Len(intents) : intents'[n] = intents[n]
              /\ intents'[Len(intents) + 1] = i
            BY <2>1 DEF Scalars
        <3>2. DOMAIN intents = 1 .. Len(intents) /\ DOMAIN intents' = 1 .. Len(intents')
            BY <3>1 DEF Scalars
        <3>3. Len(intents) \in Nat
            BY DEF Scalars
        <3>4. OrderIds = {intents[n].order_id : n \in 1 .. Len(intents)}
            BY <3>2 DEF Scalars
        <3>5. {intents'[n].order_id : n \in 1 .. Len(intents) + 1}
                  = {intents[n].order_id : n \in 1 .. Len(intents)} \cup {i.order_id}
            BY <3>1, <3>3
        <3>6. QED
            BY <2>3, <3>1, <3>2, <3>4, <3>5
    <2>6. touched' \in Seq(OrderIds')
        <3>1. touched' = touched /\ touched \in Seq(OrderIds) /\ OrderIds \subseteq OrderIds'
            BY <1>1, <2>3 DEF AcceptOrder, Scalars
        <3>2. QED
            BY <3>1
    <2>7. QED
        BY <1>1, <2>4, <2>5, <2>6 DEF AcceptOrder, Scalars
<1>2. CASE StartReplay
    BY <1>2, StillRuntimes DEF StartReplay, Scalars
<1>3. ASSUME NEW e \in Events, ReceiveEvent(e) PROVE IInv'
    <2>1. events' \in Seq(Events) /\ events' # <<>>
        BY <1>3 DEF ReceiveEvent, Scalars
    <2>2. available' \in Nat /\ touched' \in Seq(OrderIds)
        BY <1>3, EventFacts DEF ReceiveEvent
    <2>3. QED
        BY <1>3, <2>1, <2>2, StillRuntimes DEF ReceiveEvent, Scalars
<1>4. CASE ExpireOrder
    <2>1. /\ Intent.order_id \in OrderIds /\ RuntimeInv(Runtime)
          /\ Runtime.intent.order_id = Intent.order_id
        BY <1>4, LoopFacts DEF ExpireOrder, InLoop
    <2>2. Runtime.status \in ActiveStatuses
        BY <1>4 DEF ExpireOrder, PastExpiry
    <2>3. RuntimesInv' /\ OrderIds' = OrderIds /\ phase' = phase
        BY <1>4, <2>1, <2>2, GiveUpInv, ActiveMayMove, MoveToPreserves
            DEF ExpireOrder, TerminalStatuses, RuntimeInv
    <2>4. QED
        BY <1>4, <2>3 DEF ExpireOrder, Scalars
<1>5. CASE KeepOrder
    BY <1>5, StillRuntimes DEF KeepOrder, Scalars
<1>6. CASE StartMatching
    BY <1>6, StillRuntimes DEF StartMatching, Scalars
<1>7. CASE SkipOrder
    BY <1>7, StillRuntimes DEF SkipOrder, Advance, Scalars
<1>8. ASSUME TouchOrder
      PROVE  touched' \in Seq(OrderIds) /\ Intent.order_id \in OrderIds /\ InLoop("match") /\ Touches
    BY <1>8, LoopFacts DEF TouchOrder, InLoop, Scalars
<1>9. CASE PassOver
    <2>1. TouchOrder
        BY <1>9 DEF PassOver
    <2>2. RuntimesInv' /\ OrderIds' = OrderIds
        <3>. DEFINE rt == [Runtime EXCEPT !.first_event_consumed = Consumed]
        <3>1. RuntimeInv(rt) /\ RuntimeInv(Runtime) /\ Runtime.intent.order_id = Intent.order_id
            BY <1>8, <2>1, OfferedInv, LoopFacts DEF InLoop
        <3>2. rt.intent.order_id = Intent.order_id
            BY <3>1 DEF RuntimeInv, RuntimeOK
        <3>3. runtimes' = [runtimes EXCEPT ![Intent.order_id] = rt]
            BY <1>9 DEF PassOver, Runtime
        <3>4. QED
            BY <1>8, <2>1, <3>1, <3>2, <3>3, StoreRuntime
    <2>3. QED
        BY <1>8, <1>9, <2>1, <2>2 DEF PassOver, Advance, Scalars
<1>10. CASE MissOrder
    <2>1. TouchOrder
        BY <1>10 DEF MissOrder
    <2>2. RuntimesInv' /\ OrderIds' = OrderIds
        BY <1>8, <1>10, <2>1, OfferedInv, StoreRuntime DEF MissOrder
    <2>3. QED
        BY <1>8, <1>10, <2>1, <2>2 DEF MissOrder, Advance, Scalars
<1>11. CASE FillOrder
    <2>1. TouchOrder /\ available > 0 /\ Qty > 0
        BY <1>11 DEF FillOrder
    <2>2. /\ available - Qty \in Nat
          /\ Filled.intent.order_id = Intent.order_id /\ Filled.status = Runtime.status
          /\ RuntimeOK(Filled)
          /\ RuntimeInv([Filled EXCEPT !.status = StatusFor(Filled.remaining)])
        BY <1>8, <2>1, FilledInv
    <2>3. RuntimesInv' /\ OrderIds' = OrderIds /\ phase' = phase
        <3>1. CASE StatusFor(Filled.remaining) # Runtime.status
            <4>1. StatusFor(Filled.remaining) \in {"PARTIALLY_FILLED", "FILLED"}
                BY DEF StatusFor
            <4>2. Filled.status \in ActiveStatuses
                BY <1>8, <2>1, <2>2 DEF Touches
            <4>3. ValidTransition(Filled.status, StatusFor(Filled.remaining))
                BY <4>1, <4>2, ActiveMayMove
            <4>4. QED
                BY <1>8, <1>11, <2>1, <2>2, <3>1, <4>1, <4>3, MoveToPreserves
                    DEF FillOrder, TerminalStatuses
        <3>2. CASE StatusFor(Filled.remaining) = Runtime.status
            <4>1. [Filled EXCEPT !.status = StatusFor(Filled.remaining)].intent = Filled.intent
                BY <2>2 DEF RuntimeOK
            <4>2. RuntimeInv(Filled)
                BY <2>2, <3>2, <4>1 DEF RuntimeInv, RuntimeOK, ResidualOK
            <4>3. QED
                BY <1>8, <1>11, <2>1, <2>2, <3>2, <4>2, StoreRuntime DEF FillOrder
        <3>3. QED
            BY <3>1, <3>2
    <2>4. QED
        BY <1>8, <1>11, <2>1, <2>2, <2>3 DEF FillOrder, Advance, Scalars
<1>12. CASE RejectFill \/ RejectSnapshot
    <2>1. TouchOrder /\ runtimes' = [runtimes EXCEPT ![Intent.order_id] = Offered]
        BY <1>12 DEF RejectFill, RejectSnapshot
    <2>2. RuntimesInv' /\ OrderIds' = OrderIds
        BY <1>8, <2>1, OfferedInv, StoreRuntime
    <2>3. QED
        BY <1>8, <1>12, <2>1, <2>2 DEF RejectFill, RejectSnapshot, Scalars
<1>13. CASE StartCanceling
    BY <1>13, StillRuntimes DEF StartCanceling, Scalars
<1>14. CASE CancelResidual
    <2>1. /\ touched[cursor] \in OrderIds /\ RuntimeInv(TouchedRuntime)
          /\ TouchedRuntime.intent.order_id = touched[cursor]
        BY <1>14, LoopFacts DEF CancelResidual
    <2>2. TouchedRuntime.status \in ActiveStatuses
        BY <1>14 DEF CancelResidual, Residual
    <2>3. RuntimesInv' /\ OrderIds' = OrderIds /\ phase' = phase
        BY <1>14, <2>1, <2>2, GiveUpInv, ActiveMayMove, MoveToPreserves
            DEF CancelResidual, TerminalStatuses, RuntimeInv
    <2>4. QED
        BY <1>14, <2>3 DEF CancelResidual, Advance, Scalars
<1>15. CASE LeaveResting
    BY <1>15, StillRuntimes DEF LeaveResting, Advance, Scalars
<1>16. CASE EndEvent
    BY <1>16, StillRuntimes DEF EndEvent, Scalars
<1>17. CASE Finish
    BY <1>17, StillRuntimes DEF Finish, Scalars
<1>18. CASE UNCHANGED vars
    BY <1>18, StillRuntimes DEF vars, Scalars
<1>19. QED
    BY <1>1, <1>2, <1>3, <1>4, <1>5, <1>6, <1>7, <1>9, <1>10, <1>11, <1>12, <1>13,
       <1>14, <1>15, <1>16, <1>17, <1>18 DEF Next, Step, QuietStep, Terminated

\* In every reachable state of a replay the state variables have their types,
\* and an order's status agrees with its residual.
THEOREM Invariance == Spec => []IInv
BY InvariantInit, InvariantStep, PTL DEF Spec

\* _OrderRuntime, the streams and the loop indices keep their types, whatever
\* the intents and events are and however many there are.
THEOREM TypeCorrect == Spec => []TypeInvariant
BY Invariance, InvariantSplit, PTL

\* An order is FILLED exactly when nothing of it remains, and ACCEPTED or
\* PARTIALLY_FILLED according to what has traded.
THEOREM ResidualsConsistent == Spec => []ResidualConsistent
BY Invariance, InvariantSplit, PTL

------------------------------------------------------------------------------
(***************************************************************************)
(* The loop implements OrderLifecycle when order ids are distinct: each    *)
(* step moves one order as its lifecycle allows, or none.                  *)
(***************************************************************************)

\* The refinement mapping, and its value for one order.
StatusMap == [o \in AllOrderIds |-> IF o \in OrderIds THEN runtimes[o].status ELSE NoStatus]
LeavesMap == [o \in AllOrderIds |-> IF o \in OrderIds THEN runtimes[o].remaining ELSE 0]

LEMMA KnownIds == IInv => OrderIds \subseteq AllOrderIds
BY DEF IInv, Scalars, AllOrderIds

\* Storing a runtime moves the order it belongs to and no other.
LEMMA StoreMoves ==
    ASSUME IInv, NEW o \in OrderIds, NEW rt, OrderIds' = OrderIds,
           runtimes' = [runtimes EXCEPT ![o] = rt]
    PROVE  Lifecycle!Move(o, rt.status, rt.remaining)
<1>1. o \in AllOrderIds
    BY KnownIds
<1>2. /\ StatusMap' = [StatusMap EXCEPT ![o] = rt.status]
      /\ LeavesMap' = [LeavesMap EXCEPT ![o] = rt.remaining]
    <2>1. \A p \in OrderIds :
            /\ runtimes'[p].status = IF p = o THEN rt.status ELSE runtimes[p].status
            /\ runtimes'[p].remaining = IF p = o THEN rt.remaining ELSE runtimes[p].remaining
        BY DEF OrderIds
    <2>2. /\ StatusMap' = [p \in AllOrderIds |->
                            IF p \in OrderIds THEN runtimes'[p].status ELSE NoStatus]
          /\ LeavesMap' = [p \in AllOrderIds |->
                            IF p \in OrderIds THEN runtimes'[p].remaining ELSE 0]
        BY DEF StatusMap, LeavesMap, AllOrderIds
    <2>3. QED
        BY <1>1, <2>1, <2>2 DEF StatusMap, LeavesMap
<1>3. QED
    BY <1>2 DEF Lifecycle!Move, StatusMap, LeavesMap

\* A step that leaves every order's status and residual alone is a stutter.
LEMMA Stutters ==
    ASSUME OrderIds' = OrderIds,
           \A o \in OrderIds : /\ runtimes'[o].status = runtimes[o].status
                               /\ runtimes'[o].remaining = runtimes[o].remaining
    PROVE  UNCHANGED Lifecycle!vars
BY DEF Lifecycle!vars, AllOrderIds

LEMMA StoreStutters ==
    ASSUME NEW o \in OrderIds, NEW rt, OrderIds' = OrderIds,
           runtimes' = [runtimes EXCEPT ![o] = rt],
           rt.status = runtimes[o].status, rt.remaining = runtimes[o].remaining
    PROVE  UNCHANGED Lifecycle!vars
<1>1. \A p \in OrderIds : runtimes'[p] = IF p = o THEN rt ELSE runtimes[p]
    BY DEF OrderIds
<1>2. QED
    BY <1>1, Stutters

\* An order the loop finds active is active in its lifecycle.
LEMMA ActiveMaps ==
    ASSUME IInv, NEW o \in OrderIds, runtimes[o].status \in ActiveStatuses
    PROVE  /\ o \in AllOrderIds
           /\ Lifecycle!Active(o)
           /\ StatusMap[o] = runtimes[o].status /\ LeavesMap[o] = runtimes[o].remaining
           /\ runtimes[o].remaining \in Nat \ {0}
<1>1. o \in AllOrderIds
    BY KnownIds
<1>2. /\ runtimes[o].remaining \in 0 .. runtimes[o].intent.quantity
      /\ runtimes[o].remaining # 0 /\ runtimes[o].intent.quantity \in Nat
    BY IntentAssumption
        DEF IInv, RuntimesInv, RuntimeInv, RuntimeOK, ResidualOK, ActiveStatuses
<1>3. QED
    BY <1>1, <1>2 DEF Lifecycle!Active, Lifecycle!ActiveStatuses, StatusMap, LeavesMap, ActiveStatuses

\* MoveTo applied to a residual-preserving runtime gives the order up.
LEMMA MoveToGivesUp ==
    ASSUME IInv, NEW o \in OrderIds, runtimes[o].status \in ActiveStatuses,
           NEW to \in {"CANCELED", "EXPIRED"},
           RuntimeInv(runtimes[o]), MoveTo(o, runtimes[o], to)
    PROVE  Lifecycle!GiveUp(o) /\ o \in AllOrderIds
<1>. PICK rt : rt = [runtimes[o] EXCEPT !.status = to]
    OBVIOUS
<1>1. ValidTransition(runtimes[o].status, to)
    BY ActiveMayMove
<1>2. runtimes' = [runtimes EXCEPT ![o] = rt] /\ OrderIds' = OrderIds
    BY <1>1 DEF MoveTo, OrderIds
<1>3. Lifecycle!Move(o, rt.status, rt.remaining)
    BY <1>2, StoreMoves
<1>4. rt.status = to /\ rt.remaining = runtimes[o].remaining
    BY DEF RuntimeInv, RuntimeOK
<1>5. o \in AllOrderIds /\ Lifecycle!Active(o) /\ LeavesMap[o] = runtimes[o].remaining
    BY ActiveMaps
<1>6. QED
    BY <1>3, <1>4, <1>5 DEF Lifecycle!GiveUp, Lifecycle!Move, LeavesMap

LEMMA RefinementInit == Init => Lifecycle!Init
BY DEF Init, OrderIds, Lifecycle!Init, NoStatus, Lifecycle!NoStatus

LEMMA AcceptRefines ==
    ASSUME IInv, UniqueIds, NEW i \in Intents, AcceptOrder(i)
    PROVE  Lifecycle!Accept(i.order_id) /\ i.order_id \in AllOrderIds
<1>1. i.order_id \in AllOrderIds /\ i.order_id \notin OrderIds /\ i.quantity \in Nat \ {0}
    BY IntentAssumption DEF AllOrderIds, AcceptOrder, OrderIds
<1>2. /\ OrderIds' = OrderIds \cup {i.order_id}
      /\ runtimes'[i.order_id].status = "ACCEPTED"
      /\ runtimes'[i.order_id].remaining = i.quantity
      /\ \A o \in OrderIds : runtimes'[o] = runtimes[o]
    BY <1>1 DEF AcceptOrder, OrderIds
<1>3. /\ StatusMap' = [StatusMap EXCEPT ![i.order_id] = "ACCEPTED"]
      /\ LeavesMap' = [LeavesMap EXCEPT ![i.order_id] = i.quantity]
    <2>1. /\ StatusMap' = [p \in AllOrderIds |->
                            IF p \in OrderIds' THEN runtimes'[p].status ELSE NoStatus]
          /\ LeavesMap' = [p \in AllOrderIds |->
                            IF p \in OrderIds' THEN runtimes'[p].remaining ELSE 0]
        BY DEF StatusMap, LeavesMap, AllOrderIds
    <2>2. QED
        BY <1>1, <1>2, <2>1 DEF StatusMap, LeavesMap
<1>4. /\ StatusMap[i.order_id] = NoStatus
      /\ LeavesMap'[i.order_id] = i.quantity
    BY <1>1, <1>3 DEF StatusMap, LeavesMap
<1>5. QED
    BY <1>1, <1>3, <1>4
        DEF Lifecycle!Accept, Lifecycle!Move, StatusMap, LeavesMap, NoStatus, Lifecycle!NoStatus

LEMMA FillRefines ==
    ASSUME IInv, FillOrder
    PROVE  \E o \in AllOrderIds : Lifecycle!PartialFill(o) \/ Lifecycle!CompleteFill(o)
<1>. PICK o : o = Intent.order_id
    OBVIOUS
<1>1. /\ InLoop("match") /\ Touches /\ available > 0 /\ Qty > 0
      /\ o \in OrderIds /\ RuntimeInv(Runtime) /\ Runtime = runtimes[o]
      /\ Runtime.status \in ActiveStatuses
    BY LoopFacts DEF FillOrder, TouchOrder, InLoop, Touches, Runtime
<1>2. /\ o \in AllOrderIds /\ Lifecycle!Active(o)
      /\ StatusMap[o] = Runtime.status /\ LeavesMap[o] = Runtime.remaining
      /\ Runtime.remaining \in Nat \ {0}
    BY <1>1, ActiveMaps
<1>3. Qty \in 1 .. Runtime.remaining
    BY <1>1, <1>2, FillQtyBounds DEF Qty, IInv, Scalars, RuntimeInv
<1>4. /\ RuntimeOK(Filled) /\ Filled.status = Runtime.status
      /\ Filled.remaining = Runtime.remaining - Qty
    <2>1. RuntimeOK(Filled) /\ Filled.status = Runtime.status
        BY <1>1, FilledInv
    <2>2. Offered.remaining = Runtime.remaining /\ RuntimeOK(Offered)
        BY <1>1, OfferedInv DEF RuntimeInv
    <2>3. QED
        BY <2>1, <2>2 DEF Filled, RuntimeOK
<1>5. \E rt : /\ rt.status = StatusFor(Filled.remaining)
              /\ rt.remaining = Runtime.remaining - Qty
              /\ runtimes' = [runtimes EXCEPT ![o] = rt]
    <2>1. CASE StatusFor(Filled.remaining) # Runtime.status
        <3>1. ValidTransition(Filled.status, StatusFor(Filled.remaining))
            BY <1>1, <1>4, ActiveMayMove DEF StatusFor
        <3>2. PICK rt : rt = [Filled EXCEPT !.status = StatusFor(Filled.remaining)]
            OBVIOUS
        <3>3. rt.status = StatusFor(Filled.remaining) /\ rt.remaining = Runtime.remaining - Qty
            BY <1>4, <3>2 DEF RuntimeOK
        <3>4. runtimes' = [runtimes EXCEPT ![o] = rt]
            BY <2>1, <3>1, <3>2 DEF FillOrder, MoveTo
        <3>5. QED
            BY <3>3, <3>4
    <2>2. CASE StatusFor(Filled.remaining) = Runtime.status
        BY <1>4, <2>2 DEF FillOrder
    <2>3. QED
        BY <2>1, <2>2
<1>6. PICK rt : /\ rt.status = StatusFor(Filled.remaining)
                /\ rt.remaining = Runtime.remaining - Qty
                /\ runtimes' = [runtimes EXCEPT ![o] = rt]
    BY <1>5
<1>7. OrderIds' = OrderIds
    BY <1>6 DEF OrderIds
<1>8. Lifecycle!Move(o, rt.status, rt.remaining)
    BY <1>1, <1>6, <1>7, StoreMoves
<1>9. CASE Qty = Runtime.remaining
    <2>1. rt.status = "FILLED" /\ rt.remaining = 0
        BY <1>2, <1>4, <1>6, <1>9 DEF StatusFor
    <2>2. Lifecycle!CompleteFill(o)
        BY <1>2, <1>8, <2>1 DEF Lifecycle!CompleteFill, Lifecycle!Move
    <2>3. QED
        BY <1>2, <2>2
<1>10. CASE Qty # Runtime.remaining
    <2>1. /\ rt.status = "PARTIALLY_FILLED" /\ rt.remaining = LeavesMap[o] - Qty
          /\ Qty \in 1 .. LeavesMap[o] - 1
        BY <1>2, <1>3, <1>4, <1>6, <1>10 DEF StatusFor
    <2>2. Lifecycle!Move(o, "PARTIALLY_FILLED", LeavesMap[o] - Qty)
        BY <1>8, <2>1 DEF Lifecycle!Move
    <2>3. Lifecycle!PartialFill(o)
        BY <1>2, <2>1, <2>2 DEF Lifecycle!PartialFill, Lifecycle!Move, LeavesMap
    <2>4. QED
        BY <1>2, <2>3
<1>11. QED
    BY <1>9, <1>10

LEMMA RefinementStep ==
    IInv /\ UniqueIds /\ [Next]_vars => [Lifecycle!Next]_(Lifecycle!vars)
<1>. SUFFICES ASSUME IInv, UniqueIds, [Next]_vars
              PROVE  Lifecycle!Next \/ UNCHANGED Lifecycle!vars
    OBVIOUS
<1>1. ASSUME NEW i \in Intents, AcceptOrder(i) PROVE Lifecycle!Next
    BY <1>1, AcceptRefines DEF Lifecycle!Next
<1>2. CASE FillOrder
    BY <1>2, FillRefines DEF Lifecycle!Next
<1>3. CASE ExpireOrder
    <2>1. Intent.order_id \in OrderIds /\ RuntimeInv(Runtime)
        BY <1>3, LoopFacts DEF ExpireOrder, InLoop
    <2>2. Lifecycle!GiveUp(Intent.order_id) /\ Intent.order_id \in AllOrderIds
        BY <1>3, <2>1, MoveToGivesUp DEF ExpireOrder, PastExpiry, Runtime
    <2>3. QED
        BY <2>2 DEF Lifecycle!Next
<1>4. CASE CancelResidual
    <2>1. touched[cursor] \in OrderIds /\ RuntimeInv(TouchedRuntime)
        BY <1>4, LoopFacts DEF CancelResidual
    <2>2. Lifecycle!GiveUp(touched[cursor]) /\ touched[cursor] \in AllOrderIds
        BY <1>4, <2>1, MoveToGivesUp DEF CancelResidual, Residual, TouchedRuntime
    <2>3. QED
        BY <2>2 DEF Lifecycle!Next
<1>5. CASE PassOver \/ MissOrder \/ RejectFill \/ RejectSnapshot
    <2>1. /\ InLoop("match") /\ Touches /\ Intent.order_id \in OrderIds
          /\ Runtime = runtimes[Intent.order_id] /\ RuntimeOK(Runtime)
        BY <1>5, LoopFacts
            DEF PassOver, MissOrder, RejectFill, RejectSnapshot, TouchOrder, InLoop, Runtime,
                RuntimeInv
    <2>2. PICK rt : /\ runtimes' = [runtimes EXCEPT ![Intent.order_id] = rt]
                    /\ rt \in {Offered, [Runtime EXCEPT !.first_event_consumed = Consumed]}
        BY <1>5, <2>1 DEF PassOver, MissOrder, RejectFill, RejectSnapshot
    <2>3. rt.status = Runtime.status /\ rt.remaining = Runtime.remaining
        BY <2>1, <2>2 DEF Offered, RuntimeOK
    <2>4. OrderIds' = OrderIds
        BY <2>2 DEF OrderIds
    <2>5. QED
        BY <2>1, <2>2, <2>3, <2>4, StoreStutters
<1>6. CASE runtimes' = runtimes
    BY <1>6, Stutters DEF OrderIds
<1>7. StartReplay \/ (\E e \in Events : ReceiveEvent(e)) \/ KeepOrder \/ StartMatching
      \/ SkipOrder \/ StartCanceling \/ LeaveResting \/ EndEvent \/ Finish \/ UNCHANGED vars
      => runtimes' = runtimes
    BY DEF StartReplay, ReceiveEvent, KeepOrder, StartMatching, SkipOrder, StartCanceling,
           LeaveResting, EndEvent, Finish, vars
<1>8. QED
    BY <1>1, <1>2, <1>3, <1>4, <1>5, <1>6, <1>7 DEF Next, Step, QuietStep, Terminated

\* With distinct order ids, every order of a replay goes through OrderLifecycle:
\* it is accepted once, its residual only shrinks by fills, it is FILLED exactly
\* when nothing is left, and a terminal order never changes again.
THEOREM MatchingImplementsLifecycle ==
    ASSUME UniqueIds
    PROVE  Spec => ImplementsLifecycle
<1>1. Init => Lifecycle!Init
    BY RefinementInit
<1>2. IInv /\ [Next]_vars => [Lifecycle!Next]_(Lifecycle!vars)
    BY RefinementStep
<1>3. QED
    BY <1>1, <1>2, Invariance, PTL DEF Spec, ImplementsLifecycle, Lifecycle!Spec

------------------------------------------------------------------------------
(***************************************************************************)
(* The streams of a replay whose order ids are distinct: what the fills    *)
(* add up to, when they happen, and which orders they leave.               *)
(***************************************************************************)

(***************************************************************************)
(* Sums of sequences.  Total is a recursive function, which exists and     *)
(* grows by each appended element: proved by the least counterexample.     *)
(***************************************************************************)

LessThan == {ss \in Nat \X Nat : ss[1] < ss[2]}
\* Numbers have a least one.
LEMMA LeastIndex ==
    ASSUME NEW T \in SUBSET Nat, T # {}
    PROVE  \E m \in T : \A k \in T : m <= k
<1>1. IsWellFoundedOn(LessThan, Nat)
    BY NatLessThanWellFounded, Zenon DEF OpToRel, LessThan
<1>2. PICK m \in T : \A k \in T : <<k, m>> \notin LessThan
    BY <1>1, WFMin, Zenon
<1>3. \A k \in Nat : k < m => <<k, m>> \in LessThan
    BY DEF LessThan
<1>4. ASSUME NEW k \in T PROVE m <= k
    <2>1. m \in Nat /\ k \in Nat
        OBVIOUS
    <2>2. ~(k < m)
        BY <1>2, <1>3, <2>1, Zenon
    <2>3. QED
        BY <2>1, <2>2
<1>5. QED
    BY <1>4

\* A set that holds 0 and the successor of whatever it holds, up to n, holds n.
LEMMA UpTo ==
    ASSUME NEW n \in Nat, NEW S, 0 \in S, \A k \in 0 .. n - 1 : k \in S => k + 1 \in S
    PROVE  \A k \in 0 .. n : k \in S
<1>. DEFINE T == {k \in 0 .. n : k \notin S}
<1>1. SUFFICES ASSUME T # {} PROVE FALSE
    OBVIOUS
<1>2. PICK m \in T : \A k \in T : m <= k
    <2>1. T \in SUBSET Nat
        OBVIOUS
    <2>2. QED
        BY <1>1, <2>1, LeastIndex
<1>3. m \in 1 .. n
    OBVIOUS
<1>4. m - 1 \notin T
    BY <1>2, <1>3
<1>5. m - 1 \in S /\ m - 1 \in 0 .. n - 1
    BY <1>3, <1>4
<1>6. QED
    BY <1>3, <1>5

\* f holds the partial sums of q.
Sums(f, q) == /\ f \in [0 .. Len(q) -> Int]
              /\ f[0] = 0
              /\ \A n \in 1 .. Len(q) : f[n] = f[n - 1] + q[n]

\* There are such sums.
LEMMA SumsExist ==
    ASSUME NEW q \in Seq(Int)
    PROVE  \E f : Sums(f, q)
<1>. DEFINE Up(k, f) == /\ f \in [0 .. k -> Int] /\ f[0] = 0
                        /\ \A n \in 1 .. k : f[n] = f[n - 1] + q[n]
            S == {k \in 0 .. Len(q) : \E f : Up(k, f)}
<1>1. Len(q) \in Nat /\ \A n \in 1 .. Len(q) : q[n] \in Int
    OBVIOUS
<1>2. Up(0, [n \in 0 .. 0 |-> 0])
    OBVIOUS
<1>3. ASSUME NEW k \in 0 .. Len(q) - 1, NEW f, Up(k, f) PROVE \E g : Up(k + 1, g)
    <2>1. DEFINE g == [n \in 0 .. k + 1 |-> IF n = k + 1 THEN f[k] + q[k + 1] ELSE f[n]]
    <2>2. g \in [0 .. k + 1 -> Int]
        BY <1>1, <1>3
    <2>3. g[0] = 0 /\ \A n \in 1 .. k + 1 : g[n] = g[n - 1] + q[n]
        BY <1>1, <1>3
    <2>4. QED
        BY <2>2, <2>3, Zenon
<1>4. Len(q) \in S
    <2>. HIDE DEF Up
    <2>1. 0 \in S
        BY <1>1, <1>2
    <2>2. \A k \in 0 .. Len(q) - 1 : k \in S => k + 1 \in S
        BY <1>1, <1>3
    <2>. HIDE DEF S
    <2>3. \A k \in 0 .. Len(q) : k \in S
        BY <1>1, <2>1, <2>2, UpTo, Zenon
    <2>4. QED
        BY <1>1, <2>3
<1>5. QED
    BY <1>4 DEF Sums

\* The partial sums of two sequences agree as far as the sequences do.
LEMMA SumsAgree ==
    ASSUME NEW q, NEW r, NEW f, NEW g, Sums(f, q), Sums(g, r), NEW n \in Nat,
           n <= Len(q), n <= Len(r), Len(q) \in Nat, Len(r) \in Nat,
           \A k \in 1 .. n : q[k] = r[k]
    PROVE  f[n] = g[n]
<1>. DEFINE S == {k \in 0 .. n : f[k] = g[k]}
<1>1. 0 \in S
    BY DEF Sums
<1>2. ASSUME NEW k \in 0 .. n - 1, k \in S PROVE k + 1 \in S
    <2>1. k + 1 \in 1 .. Len(q) /\ k + 1 \in 1 .. Len(r) /\ k + 1 \in 1 .. n /\ (k + 1) - 1 = k
        OBVIOUS
    <2>2. f[k + 1] = f[k] + q[k + 1] /\ g[k + 1] = g[k] + r[k + 1]
        BY <2>1 DEF Sums
    <2>3. QED
        BY <1>2, <2>1, <2>2
<1>3. n \in S
    <2>. HIDE DEF S
    <2>1. \A k \in 0 .. n - 1 : k \in S => k + 1 \in S
        BY <1>2
    <2>2. \A k \in 0 .. n : k \in S
        BY <1>1, <2>1, UpTo, Zenon
    <2>3. QED
        BY <2>2
<1>4. QED
    BY <1>3

\* Total is the last of them.
LEMMA TotalIsSum ==
    ASSUME NEW q \in Seq(Int), NEW f, Sums(f, q)
    PROVE  Total(q) = f[Len(q)]
<1>. DEFINE sum == CHOOSE s : s = [n \in 0 .. Len(q) |-> IF n = 0 THEN 0 ELSE s[n - 1] + q[n]]
<1>1. Len(q) \in Nat /\ \A n \in 1 .. Len(q) : q[n] \in Int
    OBVIOUS
<1>2. f = [n \in 0 .. Len(q) |-> IF n = 0 THEN 0 ELSE f[n - 1] + q[n]]
    BY <1>1 DEF Sums
<1>3. sum = [n \in 0 .. Len(q) |-> IF n = 0 THEN 0 ELSE sum[n - 1] + q[n]]
    BY <1>2, Zenon
<1>4. Total(q) = sum[Len(q)]
    BY DEF Total
<1>. HIDE DEF sum
<1>5. sum[0] = 0 /\ \A n \in 1 .. Len(q) : sum[n] = sum[n - 1] + q[n]
    BY <1>1, <1>3
<1>6. Sums(sum, q)
    <2>. DEFINE S == {k \in 0 .. Len(q) : sum[k] \in Int}
    <2>1. 0 \in S
        BY <1>1, <1>5
    <2>2. \A k \in 0 .. Len(q) - 1 : k \in S => k + 1 \in S
        <3>1. SUFFICES ASSUME NEW k \in 0 .. Len(q) - 1, k \in S PROVE k + 1 \in S
            OBVIOUS
        <3>2. k + 1 \in 1 .. Len(q) /\ (k + 1) - 1 = k
            BY <1>1
        <3>3. sum[k + 1] = sum[k] + q[k + 1]
            BY <1>5, <3>2
        <3>4. QED
            BY <1>1, <3>1, <3>2, <3>3
    <2>3. \A k \in 0 .. Len(q) : k \in S
        <3>. HIDE DEF S
        <3>1. QED
            BY <1>1, <2>1, <2>2, UpTo, Zenon
    <2>4. \A k \in 0 .. Len(q) : sum[k] \in Int
        BY <2>3
    <2>5. sum \in [0 .. Len(q) -> Int]
        BY <1>3, <2>4
    <2>6. QED
        BY <1>5, <2>5 DEF Sums
<1>7. sum[Len(q)] = f[Len(q)]
    BY <1>1, <1>6, SumsAgree
<1>8. QED
    BY <1>4, <1>7

\* A sum of integers is one.
LEMMA TotalInt == ASSUME NEW q \in Seq(Int) PROVE Total(q) \in Int
<1>1. PICK f : Sums(f, q)
    BY SumsExist
<1>2. Len(q) \in Nat
    OBVIOUS
<1>3. QED
    BY <1>1, <1>2, TotalIsSum DEF Sums

\* The empty sum.
LEMMA TotalEmpty == Total(<<>>) = 0
<1>1. <<>> \in Seq(Int) /\ Len(<<>>) = 0
    OBVIOUS
<1>2. PICK f : Sums(f, <<>>)
    BY <1>1, SumsExist
<1>3. QED
    BY <1>1, <1>2, TotalIsSum DEF Sums

\* One more element adds what it is.
LEMMA TotalAppend ==
    ASSUME NEW q \in Seq(Int), NEW r \in Seq(Int), Len(r) = Len(q) + 1,
           \A n \in 1 .. Len(q) : r[n] = q[n]
    PROVE  Total(q) \in Int /\ Total(r) = Total(q) + r[Len(q) + 1]
<1>1. PICK f, g : Sums(f, q) /\ Sums(g, r)
    BY SumsExist
<1>2. Len(q) \in Nat /\ Len(r) \in Nat
    OBVIOUS
<1>3. f[Len(q)] = g[Len(q)]
    <2>1. PICK n \in Nat : n = Len(q)
        BY <1>2
    <2>2. n <= Len(q) /\ n <= Len(r) /\ \A k \in 1 .. n : q[k] = r[k]
        BY <1>2, <2>1
    <2>3. Sums(f, q) /\ Sums(g, r)
        BY <1>1
    <2>4. \A k \in 1 .. n : q[k] = r[k]
        BY <2>2
    <2>5. f[n] = g[n]
        BY <1>2, <2>2, <2>3, <2>4, SumsAgree, SMTT(30)
    <2>6. QED
        BY <2>1, <2>5
<1>4. g[Len(r)] = g[Len(q)] + r[Len(q) + 1]
    BY <1>1, <1>2 DEF Sums
<1>5. Total(q) = f[Len(q)] /\ Total(r) = g[Len(r)]
    BY <1>1, TotalIsSum
<1>6. f[Len(q)] \in Int
    BY <1>1, <1>2 DEF Sums
<1>7. QED
    BY <1>3, <1>4, <1>5, <1>6

\* Nothing adds up to nothing.
LEMMA TotalZero ==
    ASSUME NEW q \in Seq(Int), \A n \in 1 .. Len(q) : q[n] = 0
    PROVE  Total(q) = 0
<1>1. Sums([n \in 0 .. Len(q) |-> 0], q)
    BY DEF Sums
<1>2. QED
    BY <1>1, TotalIsSum

\* Changing one element of a sequence changes its sum by as much.
LEMMA TotalBump ==
    ASSUME NEW q \in Seq(Int), NEW r \in Seq(Int), Len(r) = Len(q), NEW c \in 1 .. Len(q),
           \A n \in 1 .. Len(q) : n # c => r[n] = q[n]
    PROVE  Total(q) \in Int /\ Total(r) = Total(q) + (r[c] - q[c])
<1>1. PICK f : Sums(f, q)
    BY SumsExist
<1>2. /\ Len(q) \in Nat /\ \A n \in 1 .. Len(q) : q[n] \in Int /\ r[n] \in Int
      /\ f \in [0 .. Len(q) -> Int]
    BY <1>1 DEF Sums
<1>3. PICK x \in Int : x = r[c] - q[c]
    BY <1>2
<1>4. PICK g : g = [n \in 0 .. Len(q) |-> IF n < c THEN f[n] ELSE f[n] + x]
    OBVIOUS
<1>5. Sums(g, r)
    <2>1. g \in [0 .. Len(r) -> Int] /\ g[0] = 0
        BY <1>1, <1>2, <1>3, <1>4 DEF Sums
    <2>2. ASSUME NEW n \in 1 .. Len(r) PROVE g[n] = g[n - 1] + r[n]
        <3>1. n \in 1 .. Len(q) /\ n \in 0 .. Len(q) /\ n - 1 \in 0 .. Len(q) /\ n \in Int
            BY <1>2
        <3>2. /\ f[n] = f[n - 1] + q[n]
              /\ f[n] \in Int /\ f[n - 1] \in Int /\ q[n] \in Int /\ r[n] \in Int
            BY <1>1, <1>2, <3>1 DEF Sums
        <3>3. /\ g[n] = IF n < c THEN f[n] ELSE f[n] + x
              /\ g[n - 1] = IF n - 1 < c THEN f[n - 1] ELSE f[n - 1] + x
            BY <1>4, <3>1
        <3>4. CASE n = c
            <4>1. x = r[n] - q[n] /\ g[n] = f[n] + x /\ g[n - 1] = f[n - 1]
                BY <1>3, <3>1, <3>3, <3>4
            <4>2. g[n] = f[n - 1] + q[n] + (r[n] - q[n])
                BY <3>2, <4>1
            <4>3. f[n - 1] + q[n] + (r[n] - q[n]) = f[n - 1] + r[n]
                BY <3>2
            <4>4. QED
                BY <4>1, <4>2, <4>3
        <3>5. CASE n # c
            <4>1. r[n] = q[n] /\ (n < c <=> n - 1 < c)
                BY <3>1, <3>5
            <4>2. CASE n < c
                BY <3>2, <3>3, <4>1, <4>2
            <4>3. CASE ~(n < c)
                <5>1. g[n] = f[n] + x /\ g[n - 1] = f[n - 1] + x
                    BY <3>3, <4>1, <4>3
                <5>2. f[n - 1] + q[n] + x = (f[n - 1] + x) + q[n]
                    <6>1. PICK a \in Int, b \in Int : a = f[n - 1] /\ b = q[n]
                        BY <3>2, Zenon
                    <6>2. a + b + x = (a + x) + b
                        BY <6>1
                    <6>3. QED
                        BY <6>1, <6>2, Zenon
                <5>3. QED
                    BY <3>2, <4>1, <5>1, <5>2
            <4>4. QED
                BY <4>2, <4>3
        <3>6. QED
            BY <3>4, <3>5
    <2>3. QED
        BY <2>1, <2>2 DEF Sums
<1>6. Total(q) = f[Len(q)] /\ Total(r) = g[Len(q)]
    BY <1>1, <1>5, TotalIsSum
<1>7. g[Len(q)] = f[Len(q)] + x /\ f[Len(q)] \in Int
    BY <1>2, <1>3, <1>4
<1>8. QED
    BY <1>3, <1>6, <1>7

-------------------------------------------------------------------------------
(***************************************************************************)
(* The inductive invariant.  Rt(n) is the runtime of the n-th order of the *)
(* loop, and Offers(n) the number of events it has been offered so far.    *)
(***************************************************************************)

Rt(n) == runtimes[intents[n].order_id]
ActiveAt(n) == Rt(n).status \in ActiveStatuses

Offers(n) == IF phase = "expire" \/ (phase = "match" /\ n >= cursor)
             THEN Len(events) - 1 ELSE Len(events)

\* Every intent has the runtime filed under its order id, and no other has it;
\* nothing has been replayed while orders are accepted.
Filing ==
    /\ \A n \in DOMAIN intents : Rt(n).intent = intents[n]
    /\ \A m, n \in DOMAIN intents : intents[m].order_id = intents[n].order_id => m = n
    /\ phase = "accept" => /\ events = <<>> /\ fills = <<>>
                           /\ \A n \in DOMAIN intents :
                                 ~Rt(n).stop_triggered /\ ~Rt(n).first_event_consumed

FillRecords == [order_id : AllOrderIds, side : {"BUY", "SELL"}, price : Int,
                quantity : Nat, ts : Nat, event : Nat]

\* Fills are of known orders, at events already received.
Booking ==
    /\ fills \in Seq(FillRecords)
    /\ \A k \in DOMAIN fills : /\ fills[k].order_id \in OrderIds
                               /\ fills[k].event \in DOMAIN events
                               /\ fills[k].ts = EventTs(events[fills[k].event])

\* `touched` holds orders the matching loop has passed, and every active
\* IOC/FOK order that met its event is in it until the cancel loop reaches it.
Touching ==
    /\ phase = "expire" => touched = <<>>
    /\ phase = "match" => \A k \in DOMAIN touched :
                             \E n \in DOMAIN intents : n < cursor /\ touched[k] = intents[n].order_id
    /\ phase # "raised" =>
          \A o \in OrderIds :
             SingleShot(o) /\ Active(o) /\ runtimes[o].first_event_consumed =>
                \E k \in DOMAIN touched :
                   touched[k] = o /\ (phase = "match" \/ (phase = "cancel" /\ k >= cursor))

\* An active IOC/FOK order that consumed no event was eligible for none.
WaitingFor(n) ==
    ActiveAt(n) /\ intents[n].time_in_force \in SingleShotTIF /\ ~Rt(n).first_event_consumed
    => \A m \in 1 .. Offers(n) : ~Eligible(intents[n], events[m])

Waiting == phase # "raised" => \A n \in DOMAIN intents : WaitingFor(n)

\* Once the expiry loop has passed it, an active GTD order is not past expiry.
Unexpired ==
    \A n \in DOMAIN intents :
        phase = "match" \/ (phase = "expire" /\ n < cursor) =>
            (ActiveAt(n) /\ intents[n].time_in_force = "GTD" =>
                EventTs(Event) <= intents[n].expiry_ts)

\* A FOK order has traded fully or not at all.
AllOrNothing ==
    \A o \in OrderIds : runtimes[o].intent.time_in_force = "FOK" =>
        runtimes[o].remaining \in {0, runtimes[o].intent.quantity}

\* A stop is triggered by an event that reached it.
TriggerCause ==
    \A o \in OrderIds : runtimes[o].stop_triggered => \E m \in DOMAIN events : Reached(o, m)

\* An active stop that an offered event reached was left no liquidity by it.
MissedFor(n) ==
    ActiveAt(n) /\ ~Rt(n).stop_triggered =>
        \A m \in 1 .. Offers(n) :
            Reached(intents[n].order_id, m) => TradedAt(m) = Liquidity(events[m])

Missed == phase # "raised" => \A n \in DOMAIN intents : MissedFor(n)

\* That an order was offered the event and could still trade at it, unless it
\* is a FOK, means the event is used up.
ServedFor(n) ==
    /\ Offers(n) = Len(events) /\ ActiveAt(n) /\ intents[n].time_in_force # "FOK"
    /\ Eligible(intents[n], Event) /\ Marketable(Rt(n), Event)
    => available = 0

Served == phase # "raised" /\ events # <<>> => \A n \in DOMAIN intents : ServedFor(n)

\* The inductive invariant is IInv and all of these.
Streamed ==
    /\ Filing /\ Booking
    /\ FillsReconcile /\ LiquidityConserved /\ CausalFills
    /\ Touching /\ Waiting /\ Unexpired /\ AllOrNothing
    /\ TriggerCause /\ Missed /\ Served

-------------------------------------------------------------------------------
(***************************************************************************)
(* What the fills add up to.                                               *)
(***************************************************************************)

\* The summands of Traded.
Quantities(fs, S) == [k \in DOMAIN fs |-> IF k \in S THEN fs[k].quantity ELSE 0]

\* The summands are one number for each fill.
LEMMA QuantitiesSeq ==
    ASSUME NEW fs \in Seq(FillRecords), NEW S
    PROVE  Quantities(fs, S) \in Seq(Int) /\ Len(Quantities(fs, S)) = Len(fs)
<1>1. DOMAIN fs = 1 .. Len(fs) /\ Len(fs) \in Nat
    OBVIOUS
<1>2. \A k \in 1 .. Len(fs) : fs[k].quantity \in Int
    <2>1. \A k \in 1 .. Len(fs) : fs[k] \in FillRecords
        OBVIOUS
    <2>2. \A f \in FillRecords : f.quantity \in Int
        BY DEF FillRecords
    <2>3. QED
        BY <2>1, <2>2
<1>3. Quantities(fs, S) = [k \in 1 .. Len(fs) |-> IF k \in S THEN fs[k].quantity ELSE 0]
    BY <1>1 DEF Quantities
<1>4. Quantities(fs, S) \in [1 .. Len(fs) -> Int]
    BY <1>2, <1>3
<1>5. QED
    BY <1>1, <1>4, SeqDef

\* A fill adds its quantity to every sum it belongs to.
LEMMA OneMoreFill ==
    ASSUME NEW fs \in Seq(FillRecords), NEW f \in FillRecords, NEW gs, gs = Append(fs, f),
           NEW S, NEW T, \A k \in 1 .. Len(fs) : k \in S <=> k \in T
    PROVE  /\ Total(Quantities(fs, S)) \in Int
           /\ Total(Quantities(gs, T)) =
                 Total(Quantities(fs, S)) + (IF Len(fs) + 1 \in T THEN f.quantity ELSE 0)
<1>1. /\ gs \in Seq(FillRecords) /\ Len(gs) = Len(fs) + 1 /\ gs[Len(fs) + 1] = f
      /\ \A k \in 1 .. Len(fs) : gs[k] = fs[k]
      /\ Len(fs) \in Nat /\ DOMAIN fs = 1 .. Len(fs) /\ DOMAIN gs = 1 .. Len(gs)
    OBVIOUS
<1>. PICK q, r : q = Quantities(fs, S) /\ r = Quantities(gs, T)
    OBVIOUS
<1>2. q \in Seq(Int) /\ r \in Seq(Int) /\ Len(q) = Len(fs) /\ Len(r) = Len(gs)
    BY <1>1, QuantitiesSeq
<1>3. \A k \in 1 .. Len(q) : r[k] = q[k]
    BY <1>1, <1>2 DEF Quantities
<1>4. r[Len(q) + 1] = IF Len(fs) + 1 \in T THEN f.quantity ELSE 0
    BY <1>1, <1>2 DEF Quantities
<1>5. Total(q) \in Int /\ Total(r) = Total(q) + r[Len(q) + 1]
    BY <1>1, <1>2, <1>3, TotalAppend
<1>6. QED
    BY <1>4, <1>5


\* Booking a fill changes what its order and its event have traded, and no other.
LEMMA BookedFill ==
    ASSUME Booking, NEW f \in FillRecords, fills' = Append(fills, f)
    PROVE  /\ \A m : /\ TradedAt(m) \in Int
                     /\ TradedAt(m)' = TradedAt(m) + (IF f.event = m THEN f.quantity ELSE 0)
           /\ \A o : /\ TradedBy(o) \in Int
                     /\ TradedBy(o)' = TradedBy(o) + (IF f.order_id = o THEN f.quantity ELSE 0)
<1>1. fills \in Seq(FillRecords)
    BY DEF Booking
<1>2. /\ Len(fills') = Len(fills) + 1 /\ fills'[Len(fills) + 1] = f /\ Len(fills) \in Nat
      /\ \A k \in 1 .. Len(fills) : fills'[k] = fills[k]
      /\ DOMAIN fills = 1 .. Len(fills) /\ DOMAIN fills' = 1 .. Len(fills) + 1
    BY <1>1
<1>3. ASSUME NEW m
      PROVE  /\ TradedAt(m) \in Int
             /\ TradedAt(m)' = TradedAt(m) + (IF f.event = m THEN f.quantity ELSE 0)
    <2>. DEFINE S == {n \in DOMAIN fills : fills[n].event = m}
                T == {n \in DOMAIN fills' : fills'[n].event = m}
    <2>1. /\ \A k \in 1 .. Len(fills) : k \in S <=> k \in T
          /\ Len(fills) + 1 \in T <=> f.event = m
        BY <1>2
    <2>2. TradedAt(m) = Total(Quantities(fills, S)) /\ TradedAt(m)' = Total(Quantities(fills', T))
        BY DEF Traded, TradedAt, Quantities
    <2>. HIDE DEF S, T
    <2>3. Len(fills) + 1 \in T <=> f.event = m
        BY <2>1
    <2>4. /\ Total(Quantities(fills, S)) \in Int
          /\ Total(Quantities(fills', T)) = Total(Quantities(fills, S))
                + (IF Len(fills) + 1 \in T THEN f.quantity ELSE 0)
        BY <1>1, <2>1, OneMoreFill
    <2>5. QED
        BY <2>2, <2>3, <2>4
<1>4. ASSUME NEW o
      PROVE  /\ TradedBy(o) \in Int
             /\ TradedBy(o)' = TradedBy(o) + (IF f.order_id = o THEN f.quantity ELSE 0)
    <2>. DEFINE S == {n \in DOMAIN fills : fills[n].order_id = o}
                T == {n \in DOMAIN fills' : fills'[n].order_id = o}
    <2>1. /\ \A k \in 1 .. Len(fills) : k \in S <=> k \in T
          /\ Len(fills) + 1 \in T <=> f.order_id = o
        BY <1>2
    <2>2. TradedBy(o) = Total(Quantities(fills, S)) /\ TradedBy(o)' = Total(Quantities(fills', T))
        BY DEF Traded, TradedBy, Quantities
    <2>. HIDE DEF S, T
    <2>3. Len(fills) + 1 \in T <=> f.order_id = o
        BY <2>1
    <2>4. /\ Total(Quantities(fills, S)) \in Int
          /\ Total(Quantities(fills', T)) = Total(Quantities(fills, S))
                + (IF Len(fills) + 1 \in T THEN f.quantity ELSE 0)
        BY <1>1, <2>1, OneMoreFill
    <2>5. QED
        BY <2>2, <2>3, <2>4
<1>5. QED
    BY <1>3, <1>4

\* Whatever is summed, the sum is a number.
LEMMA TradedInt ==
    ASSUME Booking
    PROVE  (\A m : TradedAt(m) \in Int) /\ (\A o : TradedBy(o) \in Int)
<1>1. fills \in Seq(FillRecords)
    BY DEF Booking
<1>2. ASSUME NEW S PROVE Total(Quantities(fills, S)) \in Int
    <2>1. PICK q \in Seq(Int) : q = Quantities(fills, S)
        BY <1>1, QuantitiesSeq
    <2>2. PICK f : Sums(f, q)
        BY SumsExist
    <2>3. Total(q) = f[Len(q)] /\ f[Len(q)] \in Int
        BY <2>2, TotalIsSum DEF Sums
    <2>4. QED
        BY <2>1, <2>3
<1>3. QED
    BY <1>2 DEF TradedAt, TradedBy, Traded, Quantities

\* Without a new fill every sum stays what it was.
LEMMA StillFills ==
    ASSUME fills' = fills
    PROVE  (\A m : TradedAt(m)' = TradedAt(m)) /\ (\A o : TradedBy(o)' = TradedBy(o))
BY DEF TradedAt, TradedBy, Traded

\* An event or an order none of the fills is of has traded nothing.
LEMMA NothingTraded ==
    ASSUME Booking
    PROVE  /\ \A m : (\A k \in DOMAIN fills : fills[k].event # m) => TradedAt(m) = 0
           /\ \A o : (\A k \in DOMAIN fills : fills[k].order_id # o) => TradedBy(o) = 0
<1>1. fills \in Seq(FillRecords) /\ DOMAIN fills = 1 .. Len(fills) /\ Len(fills) \in Nat
    BY DEF Booking
<1>2. Total(Quantities(fills, {})) = 0
    <2>1. Quantities(fills, {}) \in Seq(Int) /\ Len(Quantities(fills, {})) = Len(fills)
        BY <1>1, QuantitiesSeq
    <2>2. \A k \in 1 .. Len(fills) : Quantities(fills, {})[k] = 0
        BY <1>1 DEF Quantities
    <2>3. QED
        BY <2>1, <2>2, TotalZero
<1>3. Traded({}) = 0
    BY <1>2 DEF Traded, Quantities
<1>4. ASSUME NEW m, \A k \in DOMAIN fills : fills[k].event # m PROVE TradedAt(m) = 0
    <2>1. {n \in DOMAIN fills : fills[n].event = m} = {}
        BY <1>4
    <2>2. QED
        BY <1>3, <2>1 DEF TradedAt
<1>5. ASSUME NEW o, \A k \in DOMAIN fills : fills[k].order_id # o PROVE TradedBy(o) = 0
    <2>1. {n \in DOMAIN fills : fills[n].order_id = o} = {}
        BY <1>5
    <2>2. QED
        BY <1>3, <2>1 DEF TradedBy
<1>6. QED
    BY <1>4, <1>5

-------------------------------------------------------------------------------
(***************************************************************************)
(* What is conserved whatever the order ids.  Two orders may share an id,  *)
(* and then a runtime, whose intent is the later of theirs: the fills of   *)
(* that id still add up to what the runtime has lost, and those of an      *)
(* event to what it has lost.                                              *)
(***************************************************************************)

\* Fills are of known orders and events and account for both; none is booked
\* while orders are accepted.
Conserved == /\ Booking /\ FillsReconcile /\ LiquidityConserved
             /\ phase = "accept" => events = <<>> /\ fills = <<>>

\* No runtime changes its intent or its residual.
SameResiduals == /\ OrderIds' = OrderIds
                 /\ \A o \in OrderIds : /\ runtimes'[o].intent = runtimes[o].intent
                                        /\ runtimes'[o].remaining = runtimes[o].remaining

\* Residuals are numbers no larger than the quantities of their orders.
LEMMA ResidualNumbers ==
    ASSUME IInv, NEW o \in OrderIds
    PROVE  /\ RuntimeOK(runtimes[o]) /\ runtimes[o].intent.quantity \in Nat
           /\ runtimes[o].remaining \in 0 .. runtimes[o].intent.quantity
<1>1. RuntimeOK(runtimes[o])
    BY DEF IInv, RuntimesInv, RuntimeInv
<1>2. QED
    BY <1>1, IntentAssumption DEF RuntimeOK

\* Storing a runtime with another status or other flags.
LEMMA StoreSameResidual ==
    ASSUME IInv, NEW o \in OrderIds, NEW rt, runtimes' = [runtimes EXCEPT ![o] = rt],
           rt.intent = runtimes[o].intent, rt.remaining = runtimes[o].remaining
    PROVE  SameResiduals
BY DEF SameResiduals, OrderIds

\* Giving an order up is such a change.
LEMMA MoveSameResidual ==
    ASSUME IInv, NEW o \in OrderIds, NEW to, MoveTo(o, runtimes[o], to)
    PROVE  SameResiduals /\ phase' \in {phase, "raised"}
<1>1. CASE ValidTransition(runtimes[o].status, to)
    <2>1. PICK rt : rt = [runtimes[o] EXCEPT !.status = to]
        OBVIOUS
    <2>2. rt.intent = runtimes[o].intent /\ rt.remaining = runtimes[o].remaining
        BY <2>1, ResidualNumbers DEF RuntimeOK
    <2>3. runtimes' = [runtimes EXCEPT ![o] = rt] /\ phase' = phase
        BY <1>1, <2>1 DEF MoveTo
    <2>4. QED
        BY <2>2, <2>3, StoreSameResidual
<1>2. CASE ~ValidTransition(runtimes[o].status, to)
    <2>1. runtimes' = [runtimes EXCEPT ![o] = runtimes[o]] /\ phase' = "raised"
        BY <1>2 DEF MoveTo
    <2>2. SameResiduals
        BY <2>1, StoreSameResidual
    <2>3. QED
        BY <2>1, <2>2
<1>3. QED
    BY <1>1, <1>2

\* What a step of the replay may do to the runtimes and the event's liquidity
\* without trading.
TradesNothing == /\ UNCHANGED <<events, fills, available>> /\ SameResiduals
                 /\ phase' = "accept" => phase = "accept"
                 /\ phase = "raised" => phase' = "raised"

\* Only accepting an order, receiving an event and a fill do more than that.
LEMMA OthersTradeNothing ==
    ASSUME IInv, [Next]_vars, ~FillOrder, ~RejectSnapshot,
           \A i \in Intents : ~AcceptOrder(i), \A e \in Events : ~ReceiveEvent(e)
    PROVE  TradesNothing
<1>1. CASE ExpireOrder
    <2>1. /\ UNCHANGED <<events, fills, available>> /\ phase = "expire"
          /\ MoveTo(Intent.order_id, runtimes[Intent.order_id], "EXPIRED")
          /\ Intent.order_id \in OrderIds
        BY <1>1, LoopFacts DEF ExpireOrder, InLoop, Runtime
    <2>2. QED
        BY <2>1, MoveSameResidual DEF TradesNothing
<1>2. CASE CancelResidual
    <2>1. /\ UNCHANGED <<events, fills, available>> /\ phase = "cancel"
          /\ MoveTo(touched[cursor], runtimes[touched[cursor]], "CANCELED")
          /\ touched[cursor] \in OrderIds
        BY <1>2, LoopFacts DEF CancelResidual, Canceling, TouchedRuntime, Advance
    <2>2. QED
        BY <2>1, MoveSameResidual DEF TradesNothing
<1>3. CASE PassOver \/ MissOrder \/ RejectFill
    <2>1. /\ UNCHANGED <<events, fills, available>> /\ phase = "match" /\ phase' \in {phase, "raised"}
          /\ Intent.order_id \in OrderIds /\ Runtime = runtimes[Intent.order_id]
        BY <1>3, LoopFacts DEF PassOver, MissOrder, RejectFill, TouchOrder, InLoop, Advance, Runtime
    <2>2. RuntimeOK(Runtime)
        BY <2>1, ResidualNumbers
    <2>3. PICK rt : /\ runtimes' = [runtimes EXCEPT ![Intent.order_id] = rt]
                    /\ rt.intent = Runtime.intent /\ rt.remaining = Runtime.remaining
        <3>1. CASE PassOver
            <4>1. PICK rt : rt = [Runtime EXCEPT !.first_event_consumed = Consumed]
                OBVIOUS
            <4>2. rt.intent = Runtime.intent /\ rt.remaining = Runtime.remaining
                BY <2>2, <4>1 DEF RuntimeOK
            <4>3. runtimes' = [runtimes EXCEPT ![Intent.order_id] = rt]
                BY <2>1, <3>1, <4>1 DEF PassOver
            <4>4. QED
                BY <4>2, <4>3
        <3>2. CASE MissOrder \/ RejectFill
            <4>1. Offered.intent = Runtime.intent /\ Offered.remaining = Runtime.remaining
                BY <2>2 DEF RuntimeOK, Offered
            <4>2. runtimes' = [runtimes EXCEPT ![Intent.order_id] = Offered]
                BY <3>2 DEF MissOrder, RejectFill
            <4>3. QED
                BY <4>1, <4>2
        <3>3. QED
            BY <1>3, <3>1, <3>2
    <2>4. SameResiduals
        BY <2>1, <2>3, StoreSameResidual
    <2>5. QED
        BY <2>1, <2>4 DEF TradesNothing
<1>4. CASE StartReplay \/ KeepOrder \/ StartMatching \/ SkipOrder \/ StartCanceling
           \/ LeaveResting \/ EndEvent \/ Finish \/ UNCHANGED vars
    <2>1. /\ UNCHANGED <<runtimes, events, fills, available>>
          /\ phase' = "accept" => phase = "accept"
          /\ phase = "raised" => phase' = "raised"
        BY <1>4 DEF StartReplay, KeepOrder, StartMatching, SkipOrder, StartCanceling,
                    LeaveResting, EndEvent, Finish, vars, Advance, InLoop, Canceling
    <2>2. QED
        BY <2>1 DEF TradesNothing, SameResiduals, OrderIds
<1>5. QED
    BY <1>1, <1>2, <1>3, <1>4 DEF Next, Step, QuietStep, Terminated

\* No step but a fill adds to the stream of fills.
LEMMA OnlyFillsTrade ==
    ASSUME QuietStep \/ RejectFill \/ Finish \/ UNCHANGED vars
    PROVE  fills' = fills
BY DEF QuietStep, AcceptOrder, StartReplay, ReceiveEvent, ExpireOrder, KeepOrder, StartMatching,
       SkipOrder, PassOver, MissOrder, RejectFill, StartCanceling, CancelResidual, LeaveResting,
       EndEvent, Finish, vars

\* Such a step conserves what was.
LEMMA TradesNothingConserves ==
    ASSUME Conserved, TradesNothing
    PROVE  Conserved'
<1>1. UNCHANGED <<events, fills, available>> /\ OrderIds' = OrderIds
    BY DEF TradesNothing, SameResiduals
<1>2. (\A m : TradedAt(m)' = TradedAt(m)) /\ (\A o : TradedBy(o)' = TradedBy(o))
    BY <1>1, StillFills
<1>3. Booking' /\ LiquidityConserved'
    BY <1>1, <1>2 DEF Conserved, Booking, LiquidityConserved, TradesNothing
<1>4. FillsReconcile'
    BY <1>1, <1>2 DEF Conserved, FillsReconcile, TradesNothing, SameResiduals
<1>5. phase' = "accept" => events' = <<>> /\ fills' = <<>>
    BY <1>1 DEF Conserved, TradesNothing
<1>6. QED
    BY <1>3, <1>4, <1>5 DEF Conserved

\* An accepted order, new or in place of one of its id, has traded nothing.
LEMMA AcceptConserves ==
    ASSUME IInv, Conserved, NEW i \in Intents, AcceptOrder(i)
    PROVE  Conserved'
<1>1. /\ UNCHANGED <<events, phase, available, fills>> /\ phase = "accept"
      /\ runtimes' = [o \in OrderIds \cup {i.order_id} |->
            IF o = i.order_id
            THEN [intent |-> i, status |-> "ACCEPTED", remaining |-> i.quantity,
                  stop_triggered |-> FALSE, first_event_consumed |-> FALSE]
            ELSE runtimes[o]]
    BY DEF AcceptOrder, OrderIds
<1>2. events = <<>> /\ fills = <<>> /\ OrderIds' = OrderIds \cup {i.order_id}
    BY <1>1 DEF Conserved, OrderIds
<1>3. Booking' /\ LiquidityConserved'
    BY <1>1, <1>2 DEF Conserved, Booking, LiquidityConserved
<1>4. \A o : TradedBy(o) = 0 /\ TradedBy(o)' = 0
    BY <1>1, <1>2, NothingTraded, StillFills DEF Conserved
<1>5. ASSUME NEW o \in OrderIds'
      PROVE  TradedBy(o)' = runtimes'[o].intent.quantity - runtimes'[o].remaining
    <2>1. CASE o = i.order_id
        <3>1. runtimes'[o].intent = i /\ runtimes'[o].remaining = i.quantity
            BY <1>1, <1>2, <2>1
        <3>2. i.quantity \in Int
            BY IntentAssumption
        <3>3. QED
            BY <1>4, <3>1, <3>2
    <2>2. CASE o # i.order_id
        <3>1. o \in OrderIds /\ runtimes'[o] = runtimes[o]
            BY <1>1, <1>2, <2>2
        <3>2. QED
            BY <1>1, <1>4, <3>1 DEF Conserved, FillsReconcile
    <2>3. QED
        BY <2>1, <2>2
<1>6. QED
    BY <1>1, <1>2, <1>3, <1>5 DEF Conserved, FillsReconcile

\* The events before the new one keep what they traded, of which they brought
\* enough; the new one has traded nothing.
LEMMA ReceiveConserves ==
    ASSUME IInv, Conserved, NEW e \in Events, ReceiveEvent(e)
    PROVE  Conserved'
<1>1. /\ UNCHANGED <<runtimes, fills>> /\ phase = "idle" /\ phase' = "expire"
      /\ events' = Append(events, e) /\ available' = Liquidity(e)
    BY DEF ReceiveEvent
<1>2. /\ Len(events) \in Nat /\ DOMAIN events = 1 .. Len(events)
      /\ Len(events') = Len(events) + 1 /\ DOMAIN events' = 1 .. Len(events) + 1
      /\ \A m \in 1 .. Len(events) : events'[m] = events[m]
      /\ events'[Len(events) + 1] = e
    BY <1>1 DEF IInv, Scalars
<1>3. OrderIds' = OrderIds
    BY <1>1 DEF OrderIds
<1>4. (\A m : TradedAt(m)' = TradedAt(m)) /\ (\A o : TradedBy(o)' = TradedBy(o))
    BY <1>1, StillFills
<1>5. FillsReconcile'
    BY <1>1, <1>3, <1>4 DEF Conserved, FillsReconcile
<1>6. \A k \in DOMAIN fills : fills[k].event \in 1 .. Len(events)
    BY <1>2 DEF Conserved, Booking
<1>7. Booking'
    BY <1>1, <1>2, <1>3, <1>6 DEF Conserved, Booking
<1>8. ASSUME NEW m \in 1 .. Len(events) PROVE TradedAt(m) <= Liquidity(events[m])
    <2>1. CASE m = Len(events)
        <3>1. TradedAt(m) + available = Liquidity(events[m]) /\ available \in Nat
            BY <1>1, <1>2, <2>1 DEF Conserved, LiquidityConserved, IInv, Scalars
        <3>2. TradedAt(m) \in Int
            BY TradedInt DEF Conserved
        <3>3. QED
            BY <3>1, <3>2
    <2>2. CASE m # Len(events)
        BY <1>1, <1>2, <2>2 DEF Conserved, LiquidityConserved
    <2>3. QED
        BY <2>1, <2>2
<1>9. TradedAt(Len(events) + 1) = 0
    <2>1. \A k \in DOMAIN fills : fills[k].event # Len(events) + 1
        BY <1>2, <1>6
    <2>2. QED
        BY <2>1, NothingTraded DEF Conserved
<1>10. Liquidity(e) \in Nat
    BY EventFacts
<1>11. LiquidityConserved'
    BY <1>1, <1>2, <1>4, <1>8, <1>9, <1>10 DEF LiquidityConserved
<1>12. QED
    BY <1>1, <1>5, <1>7, <1>11 DEF Conserved

\* An order that trades at an event trades some of its residual.
LEMMA QtyFacts ==
    ASSUME IInv, TouchOrder, Qty > 0
    PROVE  /\ phase = "match" /\ Qty \in Nat \ {0} /\ Qty <= Runtime.remaining
           /\ Intent.order_id \in OrderIds /\ Runtime = runtimes[Intent.order_id]
           /\ Runtime.intent \in Intents /\ Runtime.intent.side \in {"BUY", "SELL"}
<1>1. phase = "match" /\ InLoop("match") /\ events # <<>> /\ cursor <= Len(intents)
    BY DEF TouchOrder, InLoop, IInv, Scalars
<1>2. PICK o \in OrderIds : o = Intent.order_id /\ Runtime = runtimes[o]
    BY <1>1, LoopFacts DEF Runtime
<1>3. /\ Runtime.intent \in Intents /\ RuntimeOK(Runtime) /\ available \in Nat
      /\ Runtime.intent.quantity \in Nat /\ Runtime.remaining \in 0 .. Runtime.intent.quantity
    BY <1>2, ResidualNumbers DEF RuntimeOK, IInv, Scalars
<1>4. Qty \in Nat \ {0} /\ Qty <= Runtime.remaining
    BY <1>3, FillQtyBounds DEF Qty
<1>5. QED
    BY <1>1, <1>2, <1>3, <1>4, IntentAssumption

\* The fill the matching loop makes of an order at an event: a positive quantity
\* at a positive price, of that order and of the event being processed.
LEMMA NewFillFacts ==
    ASSUME IInv, TouchOrder, Qty > 0, Price > 0
    PROVE  /\ Price \in Nat \ {0} /\ NewFill \in FillRecords
           /\ NewFill.order_id = Intent.order_id /\ NewFill.quantity = Qty
           /\ NewFill.event = Len(events) /\ NewFill.ts = EventTs(Event)
           /\ Len(events) \in DOMAIN events /\ Event = events[Len(events)]
<1>1. /\ phase = "match" /\ Qty \in Nat \ {0} /\ Runtime.intent \in Intents
      /\ Runtime.intent.side \in {"BUY", "SELL"}
    BY QtyFacts
<1>2. /\ InLoop("match") /\ events # <<>> /\ Event \in Events /\ Intent \in Intents
    BY <1>1, LoopFacts DEF TouchOrder, InLoop, IInv, Scalars
<1>3. Price \in Nat \ {0}
    <2>1. Open(Event) \in Int
        BY <1>2, EventAssumption DEF Open
    <2>2. /\ Runtime.intent.order_type \in LimitTypes => Runtime.intent.limit_price \in Int
          /\ Runtime.intent.order_type = "STOP" => Runtime.intent.stop_price \in Int
        BY <1>1, IntentAssumption DEF StopTypes
    <2>3. Price \in Int
        BY <2>1, <2>2 DEF Price, FillPrice
    <2>4. QED
        BY <2>3
<1>4. /\ EventTs(Event) \in Nat /\ Len(events) \in Nat /\ Len(events) \in DOMAIN events
      /\ Event = events[Len(events)]
    BY <1>2, EventFacts DEF IInv, Scalars, Event
<1>5. NewFill \in FillRecords
    BY <1>1, <1>2, <1>3, <1>4 DEF NewFill, FillRecords, AllOrderIds
<1>6. QED
    BY <1>3, <1>4, <1>5 DEF NewFill

\* Such a fill keeps the stream one of known orders at events already received.
LEMMA BookingGrows ==
    ASSUME Booking, OrderIds' = OrderIds, events' = events, NEW f \in FillRecords,
           fills' = Append(fills, f), f.order_id \in OrderIds, f.event \in DOMAIN events,
           f.ts = EventTs(events[f.event])
    PROVE  Booking'
<1>1. /\ fills' \in Seq(FillRecords) /\ DOMAIN fills' = 1 .. Len(fills) + 1
      /\ Len(fills) \in Nat /\ DOMAIN fills = 1 .. Len(fills)
      /\ fills'[Len(fills) + 1] = f /\ \A k \in 1 .. Len(fills) : fills'[k] = fills[k]
    BY DEF Booking
<1>2. QED
    BY <1>1 DEF Booking

\* A fill trades a positive quantity at a positive price, of one order and of
\* the event being processed, and takes it from the residual and from the event.
LEMMA FillBooks ==
    ASSUME IInv, FillOrder
    PROVE  /\ phase = "match" /\ phase' = "match" /\ UNCHANGED <<intents, events>>
           /\ Price \in Nat \ {0} /\ Qty \in Nat \ {0} /\ Runtime.intent.side \in {"BUY", "SELL"}
           /\ Qty <= Runtime.remaining /\ available \in Nat /\ available' = available - Qty
           /\ Intent.order_id \in OrderIds /\ Runtime = runtimes[Intent.order_id]
           /\ \E rt : /\ runtimes' = [runtimes EXCEPT ![Intent.order_id] = rt]
                      /\ rt.intent = Runtime.intent /\ rt.remaining = Runtime.remaining - Qty
           /\ \E f \in FillRecords :
                 /\ fills' = Append(fills, f) /\ f.order_id = Intent.order_id /\ f.quantity = Qty
                 /\ f.event = Len(events) /\ f.ts = EventTs(Event)
           /\ Len(events) \in DOMAIN events /\ Event = events[Len(events)]
<1>1. /\ TouchOrder /\ UNCHANGED <<intents, events>> /\ available > 0 /\ Qty > 0 /\ Price > 0
      /\ available' = available - Qty
    BY DEF FillOrder, Advance
<1>2. /\ phase = "match" /\ InLoop("match") /\ Touches
      /\ Qty \in Nat \ {0} /\ Qty <= Runtime.remaining
      /\ Runtime.intent.side \in {"BUY", "SELL"} /\ available \in Nat
    BY <1>1, QtyFacts DEF TouchOrder, InLoop, IInv, Scalars
<1>3. PICK o \in OrderIds : o = Intent.order_id /\ Runtime = runtimes[o]
    BY <1>1, QtyFacts
<1>4. /\ RuntimeOK(Runtime) /\ Runtime.remaining \in 0 .. Runtime.intent.quantity
      /\ Runtime.intent.quantity \in Nat /\ Runtime.status \in ActiveStatuses
    BY <1>2, <1>3, ResidualNumbers DEF Touches
<1>5. PICK rt : /\ runtimes' = [runtimes EXCEPT ![o] = rt]
                /\ rt.intent = Runtime.intent /\ rt.remaining = Runtime.remaining - Qty
                /\ phase' = phase
    <2>1. /\ RuntimeOK(Filled) /\ Filled.status = Runtime.status
          /\ Filled.intent = Runtime.intent /\ Filled.remaining = Runtime.remaining - Qty
        <3>1. RuntimeOK(Filled) /\ Filled.status = Runtime.status
            BY <1>1, <1>2, FilledInv
        <3>2. DOMAIN Offered = DOMAIN Runtime /\ Offered.remaining = Runtime.remaining
              /\ Offered.intent = Runtime.intent
            BY <1>4 DEF Offered, RuntimeOK
        <3>3. QED
            BY <1>4, <3>1, <3>2 DEF Filled, RuntimeOK
    <2>2. CASE StatusFor(Filled.remaining) # Runtime.status
        <3>1. ValidTransition(Filled.status, StatusFor(Filled.remaining))
            BY <1>4, <2>1, ActiveMayMove DEF StatusFor
        <3>2. PICK rt : rt = [Filled EXCEPT !.status = StatusFor(Filled.remaining)]
            OBVIOUS
        <3>3. runtimes' = [runtimes EXCEPT ![o] = rt] /\ phase' = phase
            BY <1>3, <2>2, <3>1, <3>2 DEF FillOrder, MoveTo
        <3>4. rt.intent = Runtime.intent /\ rt.remaining = Runtime.remaining - Qty
            BY <2>1, <3>2 DEF RuntimeOK
        <3>5. QED
            BY <3>3, <3>4
    <2>3. CASE StatusFor(Filled.remaining) = Runtime.status
        BY <1>3, <2>1, <2>3 DEF FillOrder
    <2>4. QED
        BY <2>2, <2>3
<1>6. fills' = Append(fills, NewFill)
    BY DEF FillOrder
<1>7. /\ Price \in Nat \ {0} /\ NewFill \in FillRecords
      /\ NewFill.order_id = Intent.order_id /\ NewFill.quantity = Qty
      /\ NewFill.event = Len(events) /\ NewFill.ts = EventTs(Event)
      /\ Len(events) \in DOMAIN events /\ Event = events[Len(events)]
    BY <1>1, NewFillFacts
<1>8. \E r : /\ runtimes' = [runtimes EXCEPT ![Intent.order_id] = r]
             /\ r.intent = Runtime.intent /\ r.remaining = Runtime.remaining - Qty
    BY <1>3, <1>5, Zenon
<1>9. QED
    BY <1>1, <1>2, <1>3, <1>5, <1>6, <1>7, <1>8, Zenon

\* What it takes is what it adds to the stream.
LEMMA FillConserves ==
    ASSUME IInv, Conserved, FillOrder
    PROVE  Conserved'
<1>1. /\ UNCHANGED events /\ phase = "match" /\ phase' = "match"
      /\ available \in Nat /\ available' = available - Qty
      /\ Qty \in Nat \ {0} /\ Qty <= Runtime.remaining
      /\ Len(events) \in DOMAIN events /\ Event = events[Len(events)]
    BY FillBooks
<1>2. PICK o \in OrderIds : o = Intent.order_id /\ Runtime = runtimes[o]
    BY FillBooks
<1>3. /\ Runtime.intent.quantity \in Nat /\ Runtime.remaining \in 0 .. Runtime.intent.quantity
    BY <1>2, ResidualNumbers
<1>4. PICK rt : /\ runtimes' = [runtimes EXCEPT ![o] = rt]
                /\ rt.intent = Runtime.intent /\ rt.remaining = Runtime.remaining - Qty
    BY <1>2, FillBooks
<1>5. PICK f \in FillRecords : /\ fills' = Append(fills, f) /\ f.order_id = o /\ f.quantity = Qty
                               /\ f.event = Len(events) /\ f.ts = EventTs(Event)
    BY <1>2, FillBooks
<1>6. /\ \A m : /\ TradedAt(m) \in Int
                /\ TradedAt(m)' = TradedAt(m) + (IF Len(events) = m THEN Qty ELSE 0)
      /\ \A p : /\ TradedBy(p) \in Int
                /\ TradedBy(p)' = TradedBy(p) + (IF o = p THEN Qty ELSE 0)
    BY <1>5, BookedFill DEF Conserved
<1>7. OrderIds' = OrderIds /\ runtimes'[o] = rt
      /\ \A p \in OrderIds : p # o => runtimes'[p] = runtimes[p]
    BY <1>4 DEF OrderIds
<1>8. Booking'
    BY <1>1, <1>5, <1>7, BookingGrows DEF Conserved
<1>9. ASSUME NEW p \in OrderIds
      PROVE  TradedBy(p)' = runtimes'[p].intent.quantity - runtimes'[p].remaining
    <2>1. TradedBy(p) = runtimes[p].intent.quantity - runtimes[p].remaining
        BY <1>1 DEF Conserved, FillsReconcile
    <2>2. CASE p = o
        <3>1. TradedBy(p) = Runtime.intent.quantity - Runtime.remaining
            BY <1>2, <2>1, <2>2
        <3>2. TradedBy(p)' = TradedBy(p) + Qty
            BY <1>6, <2>2
        <3>3. runtimes'[p].intent = Runtime.intent /\ runtimes'[p].remaining = Runtime.remaining - Qty
            BY <1>4, <1>7, <2>2
        <3>4. QED
            BY <1>1, <1>3, <3>1, <3>2, <3>3
    <2>3. CASE p # o
        BY <1>6, <1>7, <2>1, <2>3
    <2>4. QED
        BY <2>2, <2>3
<1>10. ASSUME NEW m \in DOMAIN events
       PROVE  IF m = Len(events) THEN TradedAt(m)' + available' = Liquidity(events[m])
                                 ELSE TradedAt(m)' <= Liquidity(events[m])
    <2>1. IF m = Len(events) THEN TradedAt(m) + available = Liquidity(events[m])
                             ELSE TradedAt(m) <= Liquidity(events[m])
        BY <1>1 DEF Conserved, LiquidityConserved
    <2>2. CASE m = Len(events)
        BY <1>1, <1>6, <2>1, <2>2
    <2>3. CASE m # Len(events)
        BY <1>6, <2>1, <2>3
    <2>4. QED
        BY <2>2, <2>3
<1>11. FillsReconcile' /\ LiquidityConserved'
    BY <1>1, <1>7, <1>9, <1>10 DEF FillsReconcile, LiquidityConserved
<1>12. QED
    BY <1>1, <1>8, <1>11 DEF Conserved

\* A refused snapshot leaves its fill in the stream of a run that has raised.
LEMMA RejectSnapshotConserves ==
    ASSUME IInv, Conserved, RejectSnapshot
    PROVE  Conserved'
<1>1. /\ TouchOrder /\ available > 0 /\ Qty > 0 /\ Price > 0 /\ UNCHANGED events
      /\ fills' = Append(fills, NewFill) /\ phase' = "raised"
      /\ runtimes' = [runtimes EXCEPT ![Intent.order_id] = Offered]
    BY DEF RejectSnapshot
<1>2. /\ NewFill \in FillRecords /\ NewFill.order_id \in OrderIds
      /\ NewFill.event = Len(events) /\ NewFill.ts = EventTs(Event)
      /\ Len(events) \in DOMAIN events /\ Event = events[Len(events)]
    BY <1>1, NewFillFacts, QtyFacts
<1>3. OrderIds' = OrderIds
    BY <1>1 DEF OrderIds
<1>4. Booking'
    BY <1>1, <1>2, <1>3, BookingGrows DEF Conserved
<1>5. QED
    BY <1>1, <1>4 DEF Conserved, FillsReconcile, LiquidityConserved

\* It holds initially and every step preserves it.
LEMMA ConservedInit == Init => Conserved
<1>. SUFFICES ASSUME Init PROVE Conserved
    OBVIOUS
<1>1. events = <<>> /\ fills = <<>> /\ OrderIds = {} /\ fills \in Seq(FillRecords)
      /\ DOMAIN events = {} /\ DOMAIN fills = {}
    BY DEF Init, OrderIds
<1>2. QED
    BY <1>1 DEF Conserved, Booking, FillsReconcile, LiquidityConserved

LEMMA ConservedStep == IInv /\ Conserved /\ [Next]_vars => Conserved'
<1>. SUFFICES ASSUME IInv, Conserved, [Next]_vars PROVE Conserved'
    OBVIOUS
<1>1. CASE \E i \in Intents : AcceptOrder(i)
    BY <1>1, AcceptConserves
<1>2. CASE \E e \in Events : ReceiveEvent(e)
    BY <1>2, ReceiveConserves
<1>3. CASE FillOrder
    BY <1>3, FillConserves
<1>4. CASE RejectSnapshot
    BY <1>4, RejectSnapshotConserves
<1>5. QED
    BY <1>1, <1>2, <1>3, <1>4, OthersTradeNothing, TradesNothingConserves

LEMMA ConservedInvariance == Spec => [](IInv /\ Conserved)
<1>1. Init => IInv /\ Conserved
    BY InvariantInit, ConservedInit
<1>2. IInv /\ Conserved /\ [Next]_vars => (IInv /\ Conserved)'
    BY InvariantStep, ConservedStep
<1>3. QED
    BY <1>1, <1>2, PTL DEF Spec

\* The fills of an order add up to what its residual has lost, in every state
\* and whatever events and other orders there are, its id shared or not.
THEOREM OrdersReconcile == Spec => []FillsReconcile
<1>1. IInv /\ Conserved => FillsReconcile
    BY DEF Conserved
<1>2. QED
    BY <1>1, ConservedInvariance, PTL

\* No event trades more than it brought, and what it still offers is exactly
\* what its fills have left of it, whatever the order ids.
THEOREM EventsConserve == Spec => []LiquidityConserved
<1>1. IInv /\ Conserved => LiquidityConserved
    BY DEF Conserved
<1>2. QED
    BY <1>1, ConservedInvariance, PTL

\* The larger invariant of distinct order ids includes it, so a step need not
\* show it again.
LEMMA StepConserves ==
    ASSUME IInv, Streamed, [Next]_vars
    PROVE  Booking' /\ FillsReconcile' /\ LiquidityConserved'
<1>1. Conserved
    BY DEF Streamed, Conserved, Filing
<1>2. QED
    BY <1>1, ConservedStep DEF Conserved

-------------------------------------------------------------------------------
(***************************************************************************)
(* What the steps of the loop may change.                                  *)
(***************************************************************************)

\* The n-th order and the order being visited have a good runtime, filed under
\* their id, that no other order shares.
LEMMA OrderFacts ==
    ASSUME IInv, Filing
    PROVE  /\ \A n \in DOMAIN intents : /\ n \in Nat \ {0} /\ intents[n] \in Intents
                                        /\ intents[n].order_id \in OrderIds
                                        /\ RuntimeInv(Rt(n)) /\ Rt(n).intent = intents[n]
           /\ \A o \in OrderIds : RuntimeInv(runtimes[o]) /\ runtimes[o].intent.order_id = o
           /\ \A o \in OrderIds : \E n \in DOMAIN intents : o = intents[n].order_id
           /\ cursor <= Len(intents) => /\ cursor \in DOMAIN intents
                                        /\ Intent = intents[cursor] /\ Runtime = Rt(cursor)
<1>1. DOMAIN intents = 1 .. Len(intents) /\ Len(intents) \in Nat
      /\ \A n \in DOMAIN intents : intents[n] \in Intents
    BY DEF IInv, Scalars
<1>2. \A o \in OrderIds : RuntimeInv(runtimes[o]) /\ runtimes[o].intent.order_id = o
    BY DEF IInv, RuntimesInv
<1>3. OrderIds = {intents[n].order_id : n \in DOMAIN intents} /\ cursor \in Nat \ {0}
    BY DEF IInv, Scalars
<1>4. QED
    BY <1>1, <1>2, <1>3 DEF Filing, Rt, Runtime, Intent

\* After accepting, an order keeps its intent, and its flags and its being over
\* are for good.
Monotone ==
    /\ intents' = intents /\ OrderIds' = OrderIds
    /\ \A o \in OrderIds :
          /\ runtimes'[o].intent = runtimes[o].intent
          /\ Active(o)' => Active(o)
          /\ runtimes[o].stop_triggered => runtimes'[o].stop_triggered
          /\ runtimes[o].first_event_consumed => runtimes'[o].first_event_consumed

\* A step that stores one runtime, of an order that goes on from the old one.
LEMMA StoreMonotone ==
    ASSUME intents' = intents, NEW o \in OrderIds, NEW rt,
           runtimes' = [runtimes EXCEPT ![o] = rt],
           rt.intent = runtimes[o].intent,
           rt.status \in ActiveStatuses => Active(o),
           runtimes[o].stop_triggered => rt.stop_triggered,
           runtimes[o].first_event_consumed => rt.first_event_consumed
    PROVE  Monotone
BY DEF Monotone, OrderIds, Active

\* So does a step that stores none.
LEMMA StillMonotone ==
    ASSUME intents' = intents, runtimes' = runtimes
    PROVE  Monotone
BY DEF Monotone, OrderIds, Active

\* Giving an active order up stores its runtime under the new status.
LEMMA GiveUpEffect ==
    ASSUME NEW o \in OrderIds, RuntimeInv(runtimes[o]), Active(o),
           NEW to \in {"CANCELED", "EXPIRED"}, MoveTo(o, runtimes[o], to)
    PROVE  /\ phase' = phase
           /\ \E rt : /\ runtimes' = [runtimes EXCEPT ![o] = rt]
                      /\ rt.status = to /\ to \notin ActiveStatuses
                      /\ rt.intent = runtimes[o].intent
                      /\ rt.remaining = runtimes[o].remaining
                      /\ rt.stop_triggered = runtimes[o].stop_triggered
                      /\ rt.first_event_consumed = runtimes[o].first_event_consumed
<1>1. ValidTransition(runtimes[o].status, to)
    BY ActiveMayMove DEF Active
<1>2. PICK rt : rt = [runtimes[o] EXCEPT !.status = to]
    OBVIOUS
<1>3. runtimes' = [runtimes EXCEPT ![o] = rt] /\ phase' = phase
    BY <1>1, <1>2 DEF MoveTo
<1>4. /\ rt.status = to
      /\ rt.intent = runtimes[o].intent
      /\ rt.remaining = runtimes[o].remaining
      /\ rt.stop_triggered = runtimes[o].stop_triggered
      /\ rt.first_event_consumed = runtimes[o].first_event_consumed
    BY <1>2 DEF RuntimeInv, RuntimeOK
<1>5. to \notin ActiveStatuses
    BY DEF ActiveStatuses
<1>6. QED
    BY <1>3, <1>4, <1>5

\* What _expire_gtd_orders does to an order past its expiry.
LEMMA ExpireEffect ==
    ASSUME IInv, Filing, ExpireOrder
    PROVE  /\ phase = "expire" /\ phase' = phase /\ cursor \in DOMAIN intents
           /\ UNCHANGED <<intents, events, available, touched, fills>> /\ cursor' = cursor + 1
           /\ Intent.order_id \in OrderIds
           /\ \E rt : /\ runtimes' = [runtimes EXCEPT ![Intent.order_id] = rt]
                      /\ rt.status \notin ActiveStatuses
                      /\ rt.intent = Runtime.intent
                      /\ rt.remaining = Runtime.remaining
                      /\ rt.stop_triggered = Runtime.stop_triggered
                      /\ rt.first_event_consumed = Runtime.first_event_consumed
<1>1. /\ phase = "expire" /\ cursor <= Len(intents) /\ cursor' = cursor + 1
      /\ UNCHANGED <<intents, events, available, touched, fills>>
      /\ MoveTo(Intent.order_id, Runtime, "EXPIRED") /\ Runtime.status \in ActiveStatuses
    BY DEF ExpireOrder, InLoop, PastExpiry
<1>2. cursor \in DOMAIN intents /\ Intent.order_id \in OrderIds /\ RuntimeInv(Runtime)
    BY <1>1, LoopFacts, OrderFacts
<1>3. Runtime = runtimes[Intent.order_id]
    BY DEF Runtime
<1>4. QED
    BY <1>1, <1>2, <1>3, GiveUpEffect DEF Active

\* What the last loop of _process_event does to the residual of an IOC/FOK order.
LEMMA CancelEffect ==
    ASSUME IInv, Filing, CancelResidual
    PROVE  /\ phase = "cancel" /\ phase' = phase
           /\ UNCHANGED <<intents, events, available, touched, fills>> /\ cursor' = cursor + 1
           /\ touched[cursor] \in OrderIds
           /\ \E rt : /\ runtimes' = [runtimes EXCEPT ![touched[cursor]] = rt]
                      /\ rt.status \notin ActiveStatuses
                      /\ rt.intent = TouchedRuntime.intent
                      /\ rt.remaining = TouchedRuntime.remaining
                      /\ rt.stop_triggered = TouchedRuntime.stop_triggered
                      /\ rt.first_event_consumed = TouchedRuntime.first_event_consumed
<1>1. /\ phase = "cancel" /\ cursor <= Len(touched) /\ cursor' = cursor + 1 /\ Canceling
      /\ UNCHANGED <<intents, events, available, touched, fills>>
      /\ MoveTo(touched[cursor], TouchedRuntime, "CANCELED")
      /\ TouchedRuntime.status \in ActiveStatuses
    BY DEF CancelResidual, Canceling, Residual, Advance
<1>2. touched[cursor] \in OrderIds /\ RuntimeInv(TouchedRuntime)
    BY <1>1, LoopFacts
<1>3. TouchedRuntime = runtimes[touched[cursor]]
    BY DEF TouchedRuntime
<1>4. QED
    BY <1>1, <1>2, <1>3, GiveUpEffect DEF Active

\* What is known of an order the loop touches.
LEMMA TouchFacts ==
    ASSUME IInv, Filing, TouchOrder
    PROVE  /\ phase = "match" /\ cursor \in DOMAIN intents /\ events # <<>> /\ Event \in Events
           /\ touched' = Append(touched, Intent.order_id) /\ Intent.order_id \in OrderIds
           /\ Intent = intents[cursor] /\ Runtime = runtimes[Intent.order_id]
           /\ Runtime = Rt(cursor) /\ Runtime.intent = Intent /\ RuntimeInv(Runtime)
           /\ Runtime.status \in ActiveStatuses /\ Eligible(Intent, Event)
           /\ Intent.time_in_force \in SingleShotTIF => ~Runtime.first_event_consumed
           /\ InLoop("match") /\ Touches
<1>1. /\ phase = "match" /\ cursor <= Len(intents) /\ touched' = Append(touched, Intent.order_id)
      /\ InLoop("match") /\ Touches
    BY DEF TouchOrder, InLoop
<1>2. events # <<>>
    BY <1>1 DEF IInv, Scalars
<1>3. /\ cursor \in DOMAIN intents /\ Intent.order_id \in OrderIds /\ Event \in Events
      /\ Intent = intents[cursor] /\ Runtime = Rt(cursor) /\ RuntimeInv(Runtime)
      /\ Rt(cursor).intent = intents[cursor]
    BY <1>1, LoopFacts, OrderFacts
<1>4. QED
    BY <1>1, <1>2, <1>3 DEF Touches, Runtime

\* PassOver, MissOrder and RejectFill keep what an order has done, and only
\* the flags of its runtime move.
LEMMA OfferEffect ==
    ASSUME IInv, Filing, PassOver \/ MissOrder \/ RejectFill
    PROVE  /\ TouchOrder /\ UNCHANGED <<intents, events, available, fills>>
           /\ \E rt : /\ runtimes' = [runtimes EXCEPT ![Intent.order_id] = rt]
                      /\ rt.intent = Intent
                      /\ rt.status = Runtime.status /\ rt.remaining = Runtime.remaining
                      /\ rt.first_event_consumed = Consumed
                      /\ rt.stop_triggered =
                            IF PassOver THEN Runtime.stop_triggered ELSE Triggered(Runtime, Event)
<1>1. TouchOrder /\ UNCHANGED <<intents, events, available, fills>>
    BY DEF PassOver, MissOrder, RejectFill, Advance
<1>2. RuntimeOK(Runtime) /\ Runtime.intent = Intent /\ Runtime = runtimes[Intent.order_id]
    BY <1>1, TouchFacts DEF RuntimeInv
<1>3. CASE PassOver
    <2>1. PICK rt : rt = [Runtime EXCEPT !.first_event_consumed = Consumed]
        OBVIOUS
    <2>2. runtimes' = [runtimes EXCEPT ![Intent.order_id] = rt]
        BY <1>2, <1>3, <2>1 DEF PassOver
    <2>3. /\ rt.intent = Intent
          /\ rt.status = Runtime.status /\ rt.remaining = Runtime.remaining
          /\ rt.first_event_consumed = Consumed
          /\ rt.stop_triggered = Runtime.stop_triggered
        BY <1>2, <2>1 DEF RuntimeOK
    <2>4. QED
        BY <1>1, <1>3, <2>2, <2>3
<1>4. CASE ~PassOver
    <2>1. PICK rt : rt = Offered
        OBVIOUS
    <2>2. runtimes' = [runtimes EXCEPT ![Intent.order_id] = rt]
        BY <1>4, <2>1 DEF MissOrder, RejectFill
    <2>3. /\ rt.intent = Intent
          /\ rt.status = Runtime.status /\ rt.remaining = Runtime.remaining
          /\ rt.first_event_consumed = Consumed
          /\ rt.stop_triggered = Triggered(Runtime, Event)
        BY <1>2, <2>1 DEF RuntimeOK, Offered
    <2>4. QED
        BY <1>1, <1>4, <2>2, <2>3
<1>5. QED
    BY <1>3, <1>4

\* FillOrder books a fill of the visited order at the event, reduces its
\* residual by what it traded and sets the status that residual calls for.
LEMMA FillEffect ==
    ASSUME IInv, Filing, FillOrder
    PROVE  /\ TouchOrder /\ UNCHANGED <<intents, events>> /\ phase' = phase
           /\ available > 0 /\ Qty \in 1 .. available /\ available' = available - Qty
           /\ cursor' = cursor + 1
           /\ \E rt : /\ runtimes' = [runtimes EXCEPT ![Intent.order_id] = rt]
                      /\ rt.intent = Intent
                      /\ rt.remaining = Runtime.remaining - Qty
                      /\ rt.status = StatusFor(rt.remaining)
                      /\ rt.first_event_consumed = Consumed
                      /\ rt.stop_triggered = Triggered(Runtime, Event)
           /\ \E f : /\ f \in [order_id : OrderIds, side : {"BUY", "SELL"}, price : Int,
                               quantity : Nat, ts : Nat, event : Nat]
                     /\ fills' = Append(fills, f)
                     /\ f.order_id = Intent.order_id /\ f.quantity = Qty
                     /\ f.event = Len(events) /\ f.ts = EventTs(Event)
<1>1. /\ TouchOrder /\ UNCHANGED <<intents, events>> /\ available > 0 /\ Qty > 0 /\ Price > 0
      /\ available' = available - Qty /\ cursor' = cursor + 1
    BY DEF FillOrder, Advance
<1>2. /\ RuntimeInv(Runtime) /\ RuntimeOK(Runtime) /\ Runtime.intent = Intent
      /\ Runtime = runtimes[Intent.order_id] /\ Intent.order_id \in OrderIds
      /\ InLoop("match") /\ Touches /\ Runtime.status \in ActiveStatuses
      /\ Intent \in Intents /\ Event \in Events
    BY <1>1, TouchFacts DEF RuntimeInv, RuntimeOK
<1>3. /\ available \in Nat /\ Qty \in 0 .. Runtime.remaining /\ Qty <= available
      /\ Runtime.remaining \in Nat
    <2>1. available \in Nat
        BY DEF IInv, Scalars
    <2>2. Qty \in 0 .. Runtime.remaining /\ Qty <= available
        BY <1>2, <2>1, FillQtyBounds DEF Qty
    <2>3. Runtime.remaining \in Nat
        BY <1>2, IntentAssumption DEF RuntimeOK
    <2>4. QED
        BY <2>1, <2>2, <2>3
<1>4. /\ RuntimeOK(Filled) /\ Filled.status = Runtime.status /\ Filled.intent = Intent
      /\ Filled.remaining = Runtime.remaining - Qty
      /\ Filled.first_event_consumed = Consumed
      /\ Filled.stop_triggered = Triggered(Runtime, Event)
    <2>1. RuntimeOK(Filled) /\ Filled.status = Runtime.status
        BY <1>1, <1>2, FilledInv
    <2>2. /\ DOMAIN Offered = DOMAIN Runtime /\ Offered.remaining = Runtime.remaining
          /\ Offered.first_event_consumed = Consumed
          /\ Offered.stop_triggered = Triggered(Runtime, Event)
          /\ Offered.intent = Runtime.intent
        BY <1>2 DEF Offered, RuntimeOK
    <2>3. QED
        BY <1>2, <2>1, <2>2 DEF Filled, RuntimeOK
<1>5. /\ phase' = phase
      /\ \E rt : /\ runtimes' = [runtimes EXCEPT ![Intent.order_id] = rt]
                 /\ rt.intent = Intent
                 /\ rt.remaining = Runtime.remaining - Qty
                 /\ rt.status = StatusFor(rt.remaining)
                 /\ rt.first_event_consumed = Consumed
                 /\ rt.stop_triggered = Triggered(Runtime, Event)
    <2>1. CASE StatusFor(Filled.remaining) # Runtime.status
        <3>1. ValidTransition(Filled.status, StatusFor(Filled.remaining))
            BY <1>2, <1>4, ActiveMayMove DEF StatusFor
        <3>2. PICK rt : rt = [Filled EXCEPT !.status = StatusFor(Filled.remaining)]
            OBVIOUS
        <3>3. runtimes' = [runtimes EXCEPT ![Intent.order_id] = rt] /\ phase' = phase
            BY <2>1, <3>1, <3>2 DEF FillOrder, MoveTo
        <3>4. /\ rt.intent = Intent
              /\ rt.remaining = Runtime.remaining - Qty
              /\ rt.status = StatusFor(rt.remaining)
              /\ rt.first_event_consumed = Consumed
              /\ rt.stop_triggered = Triggered(Runtime, Event)
            BY <1>4, <3>2 DEF RuntimeOK
        <3>5. QED
            BY <3>3, <3>4
    <2>2. CASE StatusFor(Filled.remaining) = Runtime.status
        <3>1. runtimes' = [runtimes EXCEPT ![Intent.order_id] = Filled] /\ phase' = phase
            BY <2>2 DEF FillOrder
        <3>2. Filled.status = StatusFor(Filled.remaining)
            BY <1>4, <2>2
        <3>3. QED
            BY <1>4, <3>1, <3>2
    <2>3. QED
        BY <2>1, <2>2
<1>6. fills' = Append(fills, NewFill)
    BY DEF FillOrder
<1>7. /\ NewFill.order_id = Intent.order_id /\ NewFill.quantity = Qty
      /\ NewFill.event = Len(events) /\ NewFill.ts = EventTs(Event)
      /\ NewFill \in [order_id : OrderIds, side : {"BUY", "SELL"}, price : Int,
                       quantity : Nat, ts : Nat, event : Nat]
    BY <1>1, <1>2, NewFillFacts DEF FillRecords, NewFill
<1>8. Qty \in 1 .. available
    BY <1>1, <1>3
<1>9. QED
    BY <1>1, <1>5, <1>6, <1>7, <1>8

-------------------------------------------------------------------------------
(***************************************************************************)
(* Accepting orders and receiving events.                                  *)
(***************************************************************************)

\* Accepting an order adds it and leaves the others alone.
LEMMA AcceptEffect ==
    ASSUME IInv, Filing, UniqueIds, NEW i \in Intents, AcceptOrder(i)
    PROVE  /\ UNCHANGED <<events, phase, cursor, available, touched, fills>>
           /\ phase = "accept" /\ events = <<>> /\ fills = <<>>
           /\ i.order_id \notin OrderIds /\ OrderIds' = OrderIds \cup {i.order_id}
           /\ \A o \in OrderIds : runtimes'[o] = runtimes[o]
           /\ runtimes'[i.order_id] =
                 [intent |-> i, status |-> "ACCEPTED", remaining |-> i.quantity,
                  stop_triggered |-> FALSE, first_event_consumed |-> FALSE]
           /\ \A n \in DOMAIN intents' :
                 \/ n \in DOMAIN intents /\ intents'[n] = intents[n] /\ intents[n].order_id \in OrderIds
                 \/ n = Len(intents) + 1 /\ intents'[n] = i
<1>1. /\ UNCHANGED <<events, phase, cursor, available, touched, fills>> /\ phase = "accept"
      /\ i.order_id \notin OrderIds /\ intents' = Append(intents, i)
      /\ runtimes' = [o \in OrderIds \cup {i.order_id} |->
            IF o = i.order_id
            THEN [intent |-> i, status |-> "ACCEPTED", remaining |-> i.quantity,
                  stop_triggered |-> FALSE, first_event_consumed |-> FALSE]
            ELSE runtimes[o]]
    BY DEF AcceptOrder, OrderIds
<1>2. OrderIds' = OrderIds \cup {i.order_id}
    BY <1>1 DEF OrderIds
<1>3. events = <<>> /\ fills = <<>>
    BY <1>1 DEF Filing
<1>4. \A n \in DOMAIN intents' :
         \/ n \in DOMAIN intents /\ intents'[n] = intents[n] /\ intents[n].order_id \in OrderIds
         \/ n = Len(intents) + 1 /\ intents'[n] = i
    <2>1. /\ Len(intents) \in Nat /\ DOMAIN intents' = 1 .. Len(intents) + 1
          /\ DOMAIN intents = 1 .. Len(intents)
          /\ \A n \in 1 .. Len(intents) : intents'[n] = intents[n]
          /\ intents'[Len(intents) + 1] = i
        BY <1>1 DEF IInv, Scalars
    <2>2. \A n \in DOMAIN intents : intents[n].order_id \in OrderIds
        BY OrderFacts
    <2>3. QED
        BY <2>1, <2>2
<1>5. QED
    BY <1>1, <1>2, <1>3, <1>4

\* No event has been seen: a new order has only to be filed.
LEMMA AcceptStep ==
    ASSUME IInv, Streamed, UniqueIds, NEW i \in Intents, AcceptOrder(i)
    PROVE  Streamed'
<1>1. /\ UNCHANGED <<events, phase, cursor, available, touched, fills>>
      /\ phase = "accept" /\ events = <<>> /\ fills = <<>>
      /\ i.order_id \notin OrderIds /\ OrderIds' = OrderIds \cup {i.order_id}
      /\ \A o \in OrderIds : runtimes'[o] = runtimes[o]
      /\ \A n \in DOMAIN intents' :
            \/ n \in DOMAIN intents /\ intents'[n] = intents[n] /\ intents[n].order_id \in OrderIds
            \/ n = Len(intents) + 1 /\ intents'[n] = i
    BY AcceptEffect DEF Streamed
<1>2. PICK rt : /\ rt = runtimes'[i.order_id]
                /\ rt.intent = i /\ rt.status = "ACCEPTED" /\ rt.remaining = i.quantity
                /\ ~rt.stop_triggered /\ ~rt.first_event_consumed
    BY AcceptEffect DEF Streamed
<1>3. \A o \in OrderIds' : runtimes'[o] = IF o = i.order_id THEN rt ELSE runtimes[o]
    BY <1>1, <1>2
<1>4. Filing'
    <2>1. \A n \in DOMAIN intents' : /\ Rt(n)' = IF n \in DOMAIN intents THEN Rt(n) ELSE rt
                                     /\ Rt(n)'.intent = intents'[n]
        BY <1>1, <1>2, OrderFacts DEF Rt, Streamed, Filing
    <2>2. ASSUME NEW m \in DOMAIN intents', NEW n \in DOMAIN intents',
                 intents'[m].order_id = intents'[n].order_id
          PROVE  m = n
        BY <1>1, <2>2 DEF Streamed, Filing
    <2>3. \A n \in DOMAIN intents' : ~Rt(n)'.stop_triggered /\ ~Rt(n)'.first_event_consumed
        BY <1>1, <1>2, <2>1 DEF Streamed, Filing
    <2>4. QED
        BY <1>1, <2>1, <2>2, <2>3 DEF Filing
<1>5. ASSUME NEW o \in OrderIds'
      PROVE  /\ ~runtimes'[o].stop_triggered /\ ~runtimes'[o].first_event_consumed
             /\ runtimes'[o].remaining = runtimes'[o].intent.quantity
             /\ TradedBy(o)' = 0
    <2>1. TradedBy(o)' = 0
        BY <1>1, NothingTraded, StillFills DEF Streamed
    <2>2. CASE o = i.order_id
        BY <1>2, <2>1, <2>2
    <2>3. CASE o \in OrderIds
        <3>1. runtimes'[o] = runtimes[o] /\ TradedBy(o) = 0
            BY <1>1, <2>1, <2>3, StillFills
        <3>2. PICK n \in DOMAIN intents : o = intents[n].order_id
            BY <2>3, OrderFacts DEF Streamed
        <3>3. ~runtimes[o].stop_triggered /\ ~runtimes[o].first_event_consumed
            BY <1>1, <3>2 DEF Streamed, Filing, Rt
        <3>4. 0 = runtimes[o].intent.quantity - runtimes[o].remaining
            BY <1>1, <2>3, <3>1 DEF Streamed, FillsReconcile
        <3>5. runtimes[o].intent.quantity \in Nat /\ runtimes[o].remaining \in Nat
            <4>1. RuntimeOK(runtimes[o])
                BY <2>3, OrderFacts DEF Streamed, RuntimeInv
            <4>2. QED
                BY <4>1, IntentAssumption DEF RuntimeOK
        <3>6. QED
            BY <2>1, <3>1, <3>3, <3>4, <3>5
    <2>4. QED
        BY <1>1, <2>2, <2>3
<1>6. Booking' /\ FillsReconcile' /\ LiquidityConserved'
    BY StepConserves DEF Next, Step, QuietStep
<1>7. CausalFills'
    BY <1>1 DEF CausalFills
<1>8. Touching' /\ AllOrNothing' /\ TriggerCause'
    BY <1>1, <1>5 DEF Touching, AllOrNothing, TriggerCause
<1>9. Waiting' /\ Missed' /\ Served' /\ Unexpired'
    <2>1. \A n \in DOMAIN intents' : Offers(n)' = 0
        BY <1>1 DEF Offers
    <2>2. Waiting' /\ Missed'
        BY <2>1 DEF Waiting, WaitingFor, Missed, MissedFor
    <2>3. Served' /\ Unexpired'
        BY <1>1 DEF Served, Unexpired
    <2>4. QED
        BY <2>2, <2>3
<1>10. QED
    BY <1>4, <1>6, <1>7, <1>8, <1>9 DEF Streamed

\* Receiving an event appends it; no order has been offered it yet.
LEMMA ReceiveStep ==
    ASSUME IInv, Streamed, NEW e \in Events, ReceiveEvent(e)
    PROVE  Streamed'
<1>1. /\ UNCHANGED <<intents, runtimes, fills>> /\ phase = "idle" /\ phase' = "expire"
      /\ events' = Append(events, e) /\ available' = Liquidity(e)
      /\ touched' = <<>> /\ cursor' = 1
    BY DEF ReceiveEvent
<1>2. /\ Len(events) \in Nat /\ DOMAIN events = 1 .. Len(events)
      /\ Len(events') = Len(events) + 1 /\ DOMAIN events' = 1 .. Len(events) + 1
      /\ \A m \in 1 .. Len(events) : events'[m] = events[m]
      /\ events'[Len(events) + 1] = e
    BY <1>1 DEF IInv, Scalars
<1>3. OrderIds' = OrderIds
    BY <1>1 DEF OrderIds
<1>4. (\A m : TradedAt(m)' = TradedAt(m)) /\ (\A o : TradedBy(o)' = TradedBy(o))
    BY <1>1, StillFills
<1>5. Filing' /\ AllOrNothing'
    BY <1>1, <1>3 DEF Streamed, Filing, AllOrNothing, Rt
<1>6. Booking' /\ FillsReconcile' /\ LiquidityConserved'
    BY StepConserves DEF Next, Step, QuietStep
<1>8. CausalFills'
    <2>1. ASSUME NEW k \in DOMAIN fills
          PROVE  fills[k].event \in 1 .. Len(events)
        BY <1>2 DEF Streamed, Booking
    <2>2. \A k \in DOMAIN fills : /\ events'[fills[k].event] = events[fills[k].event]
                                  /\ \A m \in 1 .. fills[k].event - 1 : events'[m] = events[m]
        BY <1>2, <2>1
    <2>3. QED
        BY <1>1, <2>2 DEF Streamed, CausalFills
<1>9. Touching'
    BY <1>1, <1>3 DEF Streamed, Touching, SingleShot, Active
<1>10. \A n \in DOMAIN intents : Offers(n) = Len(events) /\ Offers(n)' = Len(events)
    BY <1>1, <1>2 DEF Offers
<1>11. Waiting'
    BY <1>1, <1>2, <1>10 DEF Streamed, Waiting, WaitingFor, ActiveAt, Rt
<1>12. Unexpired'
    <2>1. \A n \in DOMAIN intents : n >= 1
        BY DEF IInv, Scalars
    <2>2. QED
        BY <1>1, <2>1 DEF Unexpired
<1>13. TriggerCause'
    BY <1>1, <1>2, <1>3 DEF Streamed, TriggerCause, Reached
<1>14. Missed'
    <2>1. \A n \in DOMAIN intents : \A m \in 1 .. Len(events) :
             Reached(intents[n].order_id, m)' <=> Reached(intents[n].order_id, m)
        BY <1>1, <1>2 DEF Reached
    <2>2. QED
        BY <1>1, <1>2, <1>4, <1>10, <2>1 DEF Streamed, Missed, MissedFor, ActiveAt, Rt
<1>15. Served'
    BY <1>1, <1>2, <1>10 DEF Served, ServedFor
<1>16. QED
    BY <1>5, <1>6, <1>8, <1>9, <1>11, <1>12, <1>13, <1>14, <1>15 DEF Streamed

-------------------------------------------------------------------------------
(***************************************************************************)
(* Steps that change no runtime.                                           *)
(***************************************************************************)

Still == UNCHANGED <<intents, runtimes, events, available, fills>>

\* They keep whatever does not depend on the position in the loops.
LEMMA StillKeeps ==
    ASSUME IInv, Streamed, Still, phase' = "accept" => phase = "accept",
           phase = "raised" => phase' = "raised"
    PROVE  /\ Filing' /\ Booking' /\ FillsReconcile' /\ LiquidityConserved' /\ CausalFills'
           /\ AllOrNothing' /\ TriggerCause' /\ OrderIds' = OrderIds
<1>1. /\ intents' = intents /\ runtimes' = runtimes /\ events' = events
      /\ available' = available /\ fills' = fills
    BY DEF Still
<1>2. OrderIds' = OrderIds
    BY <1>1 DEF OrderIds
<1>3. (\A m : TradedAt(m)' = TradedAt(m)) /\ (\A o : TradedBy(o)' = TradedBy(o))
    BY <1>1, StillFills
<1>4. Filing' /\ Booking'
    BY <1>1, <1>2 DEF Streamed, Filing, Booking, Rt
<1>5. FillsReconcile' /\ LiquidityConserved'
    BY <1>1, <1>2, <1>3 DEF Streamed, FillsReconcile, LiquidityConserved
<1>6. CausalFills' /\ AllOrNothing' /\ TriggerCause'
    BY <1>1, <1>2 DEF Streamed, CausalFills, AllOrNothing, TriggerCause, Reached
<1>7. QED
    BY <1>2, <1>4, <1>5, <1>6

\* An order that is offered no new event waits, has missed and was served as before.
LEMMA StillWaiting ==
    ASSUME Still, fills' = fills, NEW n \in DOMAIN intents, Offers(n)' = Offers(n)
    PROVE  /\ WaitingFor(n) => WaitingFor(n)'
           /\ MissedFor(n) => MissedFor(n)'
           /\ ServedFor(n) => ServedFor(n)'
<1>1. /\ intents' = intents /\ runtimes' = runtimes /\ events' = events
      /\ available' = available /\ fills' = fills
    BY DEF Still
<1>2. \A m : TradedAt(m)' = TradedAt(m)
    BY <1>1, StillFills
<1>3. ActiveAt(n)' = ActiveAt(n) /\ Rt(n)' = Rt(n) /\ Event' = Event
    BY <1>1 DEF ActiveAt, Rt, Event
<1>4. \A m : Reached(intents[n].order_id, m)' = Reached(intents[n].order_id, m)
    BY <1>1 DEF Reached
<1>5. WaitingFor(n) => WaitingFor(n)'
    BY <1>1, <1>3 DEF WaitingFor
<1>6. MissedFor(n) => MissedFor(n)'
    BY <1>1, <1>2, <1>3, <1>4 DEF MissedFor
<1>7. ServedFor(n) => ServedFor(n)'
    BY <1>1, <1>3 DEF ServedFor
<1>8. QED
    BY <1>5, <1>6, <1>7

\* ... and so for all orders together.
LEMMA StillOffers ==
    ASSUME IInv, Streamed, Still, phase # "raised",
           \A n \in DOMAIN intents : Offers(n)' = Offers(n)
    PROVE  Waiting' /\ Missed' /\ Served'
<1>1. intents' = intents /\ events' = events /\ fills' = fills
    BY DEF Still
<1>2. \A n \in DOMAIN intents : WaitingFor(n) /\ MissedFor(n) /\ (events # <<>> => ServedFor(n))
    BY DEF Streamed, Waiting, Missed, Served
<1>3. \A n \in DOMAIN intents : WaitingFor(n)' /\ MissedFor(n)' /\ (events # <<>> => ServedFor(n)')
    BY <1>1, <1>2, StillWaiting
<1>4. QED
    BY <1>1, <1>3 DEF Waiting, Missed, Served

\* The first event is still to come.
LEMMA StartReplayStep == IInv /\ Streamed /\ StartReplay => Streamed'
<1>. SUFFICES ASSUME IInv, Streamed, StartReplay PROVE Streamed'
    OBVIOUS
<1>1. Still /\ phase = "accept" /\ phase' = "idle" /\ UNCHANGED <<cursor, touched>>
    BY DEF StartReplay, Still
<1>2. \A n \in DOMAIN intents : Offers(n)' = Offers(n)
    BY <1>1 DEF Offers, Still
<1>3. Touching'
    BY <1>1, StillKeeps DEF Streamed, Touching, Still, SingleShot, Active
<1>4. Unexpired'
    BY <1>1 DEF Unexpired
<1>5. QED
    BY <1>1, <1>2, <1>3, <1>4, StillKeeps, StillOffers DEF Streamed

\* An order that the expiry loop keeps is not past its expiry.
LEMMA KeepOrderStep == IInv /\ Streamed /\ KeepOrder => Streamed'
<1>. SUFFICES ASSUME IInv, Streamed, KeepOrder PROVE Streamed'
    OBVIOUS
<1>1. /\ Still /\ phase = "expire" /\ phase' = phase /\ cursor <= Len(intents)
      /\ UNCHANGED touched /\ cursor' = cursor + 1 /\ ~PastExpiry
    BY DEF KeepOrder, Still, InLoop
<1>2. \A n \in DOMAIN intents : Offers(n)' = Offers(n)
    BY <1>1 DEF Offers, Still
<1>3. Touching'
    BY <1>1, StillKeeps DEF Streamed, Touching, Still, SingleShot, Active
<1>4. Unexpired'
    <2>1. /\ cursor \in DOMAIN intents /\ Intent = intents[cursor] /\ Runtime = Rt(cursor)
          /\ DOMAIN intents \subseteq Nat /\ cursor \in Nat
        BY <1>1, OrderFacts DEF Streamed, IInv, Scalars
    <2>2. Event \in Events /\ EventTs(Event) \in Nat /\ Intent \in Intents
        BY <1>1, LoopFacts, EventFacts
    <2>3. /\ ActiveAt(cursor) /\ intents[cursor].time_in_force = "GTD"
          => EventTs(Event) <= intents[cursor].expiry_ts
        BY <1>1, <2>1, <2>2, IntentAssumption DEF PastExpiry, ActiveAt
    <2>4. \A n \in DOMAIN intents : n < cursor' => n < cursor \/ n = cursor
        BY <1>1, <2>1
    <2>5. /\ UNCHANGED <<intents, runtimes, events>> /\ Event' = Event
        BY <1>1 DEF Still, Event
    <2>6. \A n \in DOMAIN intents : ActiveAt(n)' = ActiveAt(n)
        BY <2>5 DEF ActiveAt, Rt
    <2>7. \A n \in DOMAIN intents : n < cursor' =>
             (ActiveAt(n) /\ intents[n].time_in_force = "GTD" =>
                EventTs(Event) <= intents[n].expiry_ts)
        BY <1>1, <2>3, <2>4 DEF Streamed, Unexpired
    <2>8. QED
        BY <1>1, <2>5, <2>6, <2>7 DEF Unexpired
<1>5. QED
    BY <1>1, <1>2, <1>3, <1>4, StillKeeps, StillOffers DEF Streamed

\* The expiry loop has passed every order.
LEMMA StartMatchingStep == IInv /\ Streamed /\ StartMatching => Streamed'
<1>. SUFFICES ASSUME IInv, Streamed, StartMatching PROVE Streamed'
    OBVIOUS
<1>1. /\ Still /\ phase = "expire" /\ phase' = "match" /\ cursor > Len(intents)
      /\ UNCHANGED touched /\ cursor' = 1
    BY DEF StartMatching, Still
<1>2. DOMAIN intents = 1 .. Len(intents) /\ Len(intents) \in Nat /\ cursor \in Nat
    BY DEF IInv, Scalars
<1>3. \A n \in DOMAIN intents : Offers(n)' = Offers(n)
    BY <1>1, <1>2 DEF Offers, Still
<1>4. Touching'
    <2>1. \A o \in OrderIds : ~(SingleShot(o) /\ Active(o) /\ runtimes[o].first_event_consumed)
        BY <1>1 DEF Streamed, Touching
    <2>2. \A k \in DOMAIN touched : FALSE
        BY <1>1 DEF Streamed, Touching
    <2>3. QED
        BY <1>1, <2>1, <2>2, StillKeeps DEF Touching, Still, SingleShot, Active
<1>5. Unexpired'
    <2>1. UNCHANGED <<intents, runtimes, events>> /\ Event' = Event
        BY <1>1 DEF Still, Event
    <2>2. \A n \in DOMAIN intents : n < cursor /\ ActiveAt(n)' = ActiveAt(n)
        BY <1>1, <1>2, <2>1 DEF ActiveAt, Rt
    <2>3. QED
        BY <1>1, <2>1, <2>2 DEF Streamed, Unexpired
<1>6. QED
    BY <1>1, <1>3, <1>4, <1>5, StillKeeps, StillOffers DEF Streamed

\* The event has been offered to every order; all that were touched are ahead.
LEMMA StartCancelingStep == IInv /\ Streamed /\ StartCanceling => Streamed'
<1>. SUFFICES ASSUME IInv, Streamed, StartCanceling PROVE Streamed'
    OBVIOUS
<1>1. /\ Still /\ phase = "match" /\ phase' = "cancel" /\ cursor > Len(intents)
      /\ UNCHANGED touched /\ cursor' = 1
    BY DEF StartCanceling, Still
<1>2. DOMAIN intents = 1 .. Len(intents) /\ Len(intents) \in Nat /\ cursor \in Nat
      /\ DOMAIN touched = 1 .. Len(touched)
    BY DEF IInv, Scalars
<1>3. \A n \in DOMAIN intents : Offers(n)' = Offers(n)
    BY <1>1, <1>2 DEF Offers, Still
<1>4. Touching'
    <2>1. \A k \in DOMAIN touched : k >= cursor'
        BY <1>1, <1>2
    <2>2. QED
        BY <1>1, <2>1, StillKeeps DEF Streamed, Touching, Still, SingleShot, Active
<1>5. Unexpired'
    BY <1>1 DEF Unexpired
<1>6. QED
    BY <1>1, <1>3, <1>4, <1>5, StillKeeps, StillOffers DEF Streamed

\* An order left resting is over or not an IOC/FOK order.
LEMMA LeaveRestingStep == IInv /\ Streamed /\ LeaveResting => Streamed'
<1>. SUFFICES ASSUME IInv, Streamed, LeaveResting PROVE Streamed'
    OBVIOUS
<1>1. /\ Still /\ phase = "cancel" /\ phase' = phase /\ Canceling /\ ~Residual
      /\ UNCHANGED touched /\ cursor' = cursor + 1
    BY DEF LeaveResting, Still, Advance, Canceling
<1>2. cursor \in Nat /\ DOMAIN touched \subseteq Nat
    BY DEF IInv, Scalars
<1>3. \A n \in DOMAIN intents : Offers(n)' = Offers(n)
    BY <1>1 DEF Offers, Still
<1>4. Touching'
    <2>1. ~(SingleShot(touched[cursor]) /\ Active(touched[cursor]))
        <3>1. RuntimeInv(TouchedRuntime)
            BY <1>1, LoopFacts
        <3>2. TouchedRuntime.status \in ActiveStatuses => TouchedRuntime.remaining > 0
            BY <3>1, IntentAssumption DEF RuntimeInv, RuntimeOK, ResidualOK, ActiveStatuses
        <3>3. QED
            BY <1>1, <3>2 DEF Residual, TouchedRuntime, SingleShot, Active
    <2>2. \A o \in OrderIds :
             SingleShot(o) /\ Active(o) /\ runtimes[o].first_event_consumed =>
                \E k \in DOMAIN touched : touched[k] = o /\ k >= cursor'
        <3>1. SUFFICES ASSUME NEW o \in OrderIds, SingleShot(o), Active(o),
                              runtimes[o].first_event_consumed
                       PROVE  \E k \in DOMAIN touched : touched[k] = o /\ k >= cursor'
            OBVIOUS
        <3>2. PICK k \in DOMAIN touched : touched[k] = o /\ k >= cursor
            BY <1>1, <3>1 DEF Streamed, Touching
        <3>3. k # cursor
            BY <2>1, <3>1, <3>2
        <3>4. QED
            BY <1>1, <1>2, <3>2, <3>3
    <2>3. QED
        BY <1>1, <2>2, StillKeeps DEF Touching, Still, SingleShot, Active
<1>5. Unexpired'
    BY <1>1 DEF Unexpired
<1>6. QED
    BY <1>1, <1>3, <1>4, <1>5, StillKeeps, StillOffers DEF Streamed

\* The cancel loop has passed every order that was touched.
LEMMA EndEventStep == IInv /\ Streamed /\ EndEvent => Streamed'
<1>. SUFFICES ASSUME IInv, Streamed, EndEvent PROVE Streamed'
    OBVIOUS
<1>1. /\ Still /\ phase = "cancel" /\ phase' = "idle" /\ cursor > Len(touched)
      /\ UNCHANGED <<touched, cursor>>
    BY DEF EndEvent, Still
<1>2. \A n \in DOMAIN intents : Offers(n)' = Offers(n)
    BY <1>1 DEF Offers, Still
<1>3. Touching'
    <2>1. \A k \in DOMAIN touched : ~(k >= cursor)
        BY <1>1 DEF IInv, Scalars
    <2>2. \A o \in OrderIds : ~(SingleShot(o) /\ Active(o) /\ runtimes[o].first_event_consumed)
        BY <1>1, <2>1 DEF Streamed, Touching
    <2>3. QED
        BY <1>1, <2>2, StillKeeps DEF Touching, Still, SingleShot, Active
<1>4. Unexpired'
    BY <1>1 DEF Unexpired
<1>5. QED
    BY <1>1, <1>2, <1>3, <1>4, StillKeeps, StillOffers DEF Streamed

\* The end of the input changes nothing the streams say.
LEMMA FinishStep == IInv /\ Streamed /\ Finish => Streamed'
<1>. SUFFICES ASSUME IInv, Streamed, Finish PROVE Streamed'
    OBVIOUS
<1>1. Still /\ phase = "idle" /\ phase' \in {"done", "raised"} /\ UNCHANGED <<touched, cursor>>
    BY DEF Finish, Still
<1>2. \A n \in DOMAIN intents : Offers(n)' = Offers(n)
    BY <1>1 DEF Offers, Still
<1>3. Touching'
    BY <1>1, StillKeeps DEF Streamed, Touching, Still, SingleShot, Active
<1>4. Unexpired'
    BY <1>1 DEF Unexpired
<1>5. QED
    BY <1>1, <1>2, <1>3, <1>4, StillKeeps, StillOffers DEF Streamed

\* Nor does a stuttering step.
LEMMA StutterStep == IInv /\ Streamed /\ UNCHANGED vars => Streamed'
<1>. SUFFICES ASSUME IInv, Streamed, UNCHANGED vars PROVE Streamed'
    OBVIOUS
<1>1. Still /\ UNCHANGED <<phase, touched, cursor>>
    BY DEF vars, Still
<1>2. \A n \in DOMAIN intents : Offers(n)' = Offers(n)
    BY <1>1 DEF Offers, Still
<1>3. Touching'
    BY <1>1, StillKeeps DEF Streamed, Touching, Still, SingleShot, Active
<1>4. Unexpired'
    BY <1>1 DEF Streamed, Unexpired, Still, ActiveAt, Rt, Event
<1>5. CASE phase # "raised"
    BY <1>1, <1>2, <1>3, <1>4, <1>5, StillKeeps, StillOffers DEF Streamed
<1>6. CASE phase = "raised"
    <2>1. Waiting' /\ Missed' /\ Served'
        BY <1>1, <1>6 DEF Waiting, Missed, Served
    <2>2. QED
        BY <1>1, <1>3, <1>4, <2>1, StillKeeps DEF Streamed
<1>7. QED
    BY <1>5, <1>6

-------------------------------------------------------------------------------
(***************************************************************************)
(* Steps that store one runtime, and the visit of an order.                *)
(***************************************************************************)

\* A step that only marks orders, or gives them up, keeps all that the fills
\* and the residuals say.
LEMMA MarkKeeps ==
    ASSUME IInv, Streamed, Monotone, UNCHANGED <<events, available, fills>>,
           \A o \in OrderIds : runtimes'[o].remaining = runtimes[o].remaining,
           phase \notin {"accept", "raised"}, phase' # "accept"
    PROVE  /\ Filing' /\ Booking' /\ FillsReconcile' /\ LiquidityConserved' /\ CausalFills'
           /\ AllOrNothing'
<1>1. /\ intents' = intents /\ events' = events /\ available' = available /\ fills' = fills
      /\ OrderIds' = OrderIds
      /\ \A o \in OrderIds : runtimes'[o].intent = runtimes[o].intent
    BY DEF Monotone
<1>2. (\A m : TradedAt(m)' = TradedAt(m)) /\ (\A o : TradedBy(o)' = TradedBy(o))
    BY <1>1, StillFills
<1>3. Filing'
    BY <1>1, OrderFacts DEF Streamed, Filing, Rt
<1>4. Booking'
    BY <1>1 DEF Streamed, Booking
<1>5. FillsReconcile' /\ LiquidityConserved'
    BY <1>1, <1>2 DEF Streamed, FillsReconcile, LiquidityConserved
<1>6. CausalFills'
    BY <1>1 DEF Streamed, CausalFills, Booking
<1>7. AllOrNothing'
    BY <1>1 DEF Streamed, AllOrNothing
<1>8. QED
    BY <1>3, <1>4, <1>5, <1>6, <1>7

\* An order that is offered no new event goes on waiting ...
LEMMA WaitingKept ==
    ASSUME IInv, Filing, Monotone, events' = events,
           NEW n \in DOMAIN intents, Offers(n)' = Offers(n), WaitingFor(n)
    PROVE  WaitingFor(n)'
<1>1. intents[n].order_id \in OrderIds
    BY OrderFacts
<1>2. /\ intents' = intents
      /\ ActiveAt(n)' => ActiveAt(n)
      /\ Rt(n).first_event_consumed => Rt(n)'.first_event_consumed
    BY <1>1 DEF Monotone, ActiveAt, Rt, Active
<1>3. QED
    BY <1>2 DEF WaitingFor

\* ... and has missed nothing else, if used up events stay used up.
LEMMA MissedKept ==
    ASSUME IInv, Filing, Monotone, events' = events,
           NEW n \in DOMAIN intents, Offers(n)' = Offers(n), MissedFor(n),
           \A m \in 1 .. Offers(n) :
              TradedAt(m) = Liquidity(events[m]) => TradedAt(m)' = Liquidity(events[m])
    PROVE  MissedFor(n)'
<1>1. intents[n].order_id \in OrderIds
    BY OrderFacts
<1>2. /\ intents' = intents
      /\ ActiveAt(n)' => ActiveAt(n)
      /\ Rt(n).stop_triggered => Rt(n)'.stop_triggered
      /\ Rt(n)'.intent = Rt(n).intent
    BY <1>1 DEF Monotone, ActiveAt, Rt, Active
<1>3. \A m : Reached(intents[n].order_id, m)' <=> Reached(intents[n].order_id, m)
    BY <1>2 DEF Reached, Rt
<1>4. QED
    BY <1>2, <1>3 DEF MissedFor

\* Storing the runtime of the visited order leaves the other orders' alone.
LEMMA OthersAlone ==
    ASSUME IInv, Filing, NEW c \in DOMAIN intents, NEW rt,
           intents' = intents, runtimes' = [runtimes EXCEPT ![intents[c].order_id] = rt]
    PROVE  /\ OrderIds' = OrderIds
           /\ Rt(c)' = rt
           /\ \A n \in DOMAIN intents : n # c => Rt(n)' = Rt(n)
           /\ \A o \in OrderIds : o # intents[c].order_id => runtimes'[o] = runtimes[o]
<1>1. \A n \in DOMAIN intents : intents[n].order_id \in OrderIds
    BY OrderFacts
<1>2. \A n \in DOMAIN intents : n # c => intents[n].order_id # intents[c].order_id
    BY DEF Filing
<1>3. QED
    BY <1>1, <1>2 DEF OrderIds, Rt

\* The visit of the order at the cursor offers the event to it alone.
LEMMA VisitOffers ==
    ASSUME IInv, phase = "match", phase' = "match", cursor \in DOMAIN intents,
           cursor' = cursor + 1, UNCHANGED <<intents, events>>
    PROVE  /\ \A n \in DOMAIN intents :
                 /\ n # cursor => Offers(n)' = Offers(n)
                 /\ n = cursor => Offers(n) = Len(events) - 1 /\ Offers(n)' = Len(events)
           /\ Len(events) \in Nat \ {0} /\ Event' = Event /\ Event = events[Len(events)]
<1>1. /\ DOMAIN intents \subseteq Nat /\ cursor \in Nat /\ Len(events) \in Nat
      /\ events # <<>>
    BY DEF IInv, Scalars
<1>2. Len(events) # 0
    BY <1>1 DEF IInv, Scalars
<1>3. \A n \in DOMAIN intents :
         /\ Offers(n) = IF n >= cursor THEN Len(events) - 1 ELSE Len(events)
         /\ Offers(n)' = IF n >= cursor + 1 THEN Len(events) - 1 ELSE Len(events)
    BY DEF Offers
<1>4. \A n \in DOMAIN intents : n # cursor => (n >= cursor <=> n >= cursor + 1)
    BY <1>1
<1>5. cursor >= cursor /\ ~(cursor >= cursor + 1)
    BY <1>1
<1>6. \A n \in DOMAIN intents :
         n = cursor => Offers(n) = Len(events) - 1 /\ Offers(n)' = Len(events)
    BY <1>3, <1>5
<1>7. \A n \in DOMAIN intents : n # cursor => Offers(n)' = Offers(n)
    BY <1>3, <1>4
<1>8. QED
    BY <1>1, <1>2, <1>6, <1>7 DEF Event

\* While orders are visited, the ones that stay active stay unexpired.
LEMMA UnexpiredKept ==
    ASSUME IInv, Filing, Unexpired, Monotone, phase = "match", events' = events
    PROVE  Unexpired'
<1>1. \A n \in DOMAIN intents : ActiveAt(n)' => ActiveAt(n)
    BY OrderFacts DEF Monotone, ActiveAt, Rt, Active
<1>2. intents' = intents /\ Event' = Event
    BY DEF Monotone, Event
<1>3. QED
    BY <1>1, <1>2 DEF Unexpired

\* A trigger that the visit sets has the event as its cause.
LEMMA CauseKept ==
    ASSUME IInv, Filing, TriggerCause, Monotone, TouchOrder, events' = events, NEW rt,
           runtimes' = [runtimes EXCEPT ![Intent.order_id] = rt],
           rt.stop_triggered => Triggered(Runtime, Event)
    PROVE  TriggerCause'
<1>1. /\ cursor \in DOMAIN intents /\ Intent = intents[cursor] /\ Intent.order_id \in OrderIds
      /\ Runtime = runtimes[Intent.order_id] /\ Runtime.intent = Intent
      /\ Eligible(Intent, Event) /\ events # <<>>
    BY TouchFacts
<1>2. Len(events) \in DOMAIN events /\ Event = events[Len(events)]
    BY <1>1 DEF IInv, Scalars, Event
<1>3. \A o \in OrderIds, m \in DOMAIN events : Reached(o, m)' <=> Reached(o, m)
    BY DEF Monotone, Reached
<1>4. \A o \in OrderIds : o # Intent.order_id => runtimes'[o] = runtimes[o]
    BY DEF OrderIds
<1>5. runtimes'[Intent.order_id] = rt
    BY <1>1 DEF OrderIds
<1>6. ASSUME rt.stop_triggered PROVE \E m \in DOMAIN events : Reached(Intent.order_id, m)
    <2>1. CASE Runtime.stop_triggered
        BY <1>1, <2>1 DEF TriggerCause
    <2>2. CASE ~Runtime.stop_triggered
        <3>1. Reached(Intent.order_id, Len(events))
            BY <1>1, <1>2, <1>6, <2>2 DEF Triggered, Reached
        <3>2. QED
            BY <1>2, <3>1
    <2>3. QED
        BY <2>1, <2>2
<1>7. ASSUME NEW o \in OrderIds, runtimes'[o].stop_triggered
      PROVE  \E m \in DOMAIN events : Reached(o, m)
    <2>1. CASE o = Intent.order_id
        BY <1>5, <1>6, <1>7, <2>1
    <2>2. CASE o # Intent.order_id
        BY <1>4, <1>7, <2>2 DEF TriggerCause
    <2>3. QED
        BY <2>1, <2>2
<1>8. QED
    BY <1>3, <1>7 DEF TriggerCause, Monotone

\* A touched order is the last in `touched`.
LEMMA TouchingKept ==
    ASSUME IInv, Filing, Touching, Monotone, TouchOrder, cursor' = cursor + 1, phase' = phase,
           NEW rt, runtimes' = [runtimes EXCEPT ![Intent.order_id] = rt]
    PROVE  Touching'
<1>1. /\ phase = "match" /\ cursor \in DOMAIN intents /\ Intent = intents[cursor]
      /\ touched' = Append(touched, Intent.order_id) /\ Intent.order_id \in OrderIds
    BY TouchFacts
<1>2. /\ cursor \in Nat /\ DOMAIN intents \subseteq Nat /\ touched \in Seq(OrderIds)
    BY DEF IInv, Scalars
<1>3. /\ DOMAIN touched = 1 .. Len(touched) /\ Len(touched) \in Nat
      /\ DOMAIN touched' = 1 .. Len(touched) + 1
      /\ \A k \in DOMAIN touched : touched'[k] = touched[k] /\ k \in DOMAIN touched'
      /\ touched'[Len(touched) + 1] = Intent.order_id
    BY <1>1, <1>2
<1>4. \A k \in DOMAIN touched' :
         \E n \in DOMAIN intents : n < cursor' /\ touched'[k] = intents[n].order_id
    <2>1. ASSUME NEW k \in DOMAIN touched
          PROVE  \E n \in DOMAIN intents : n < cursor' /\ touched'[k] = intents[n].order_id
        <3>1. PICK n \in DOMAIN intents : n < cursor /\ touched[k] = intents[n].order_id
            BY <1>1 DEF Touching
        <3>2. QED
            BY <1>2, <1>3, <3>1
    <2>2. cursor < cursor' /\ touched'[Len(touched) + 1] = intents[cursor].order_id
        BY <1>1, <1>2, <1>3
    <2>3. QED
        BY <1>1, <1>3, <2>1, <2>2
<1>5. ASSUME NEW o \in OrderIds, SingleShot(o), Active(o)', runtimes'[o].first_event_consumed
      PROVE  \E k \in DOMAIN touched' : touched'[k] = o
    <2>1. CASE o = Intent.order_id
        BY <1>3, <2>1
    <2>2. CASE o # Intent.order_id
        <3>1. runtimes'[o] = runtimes[o]
            BY <2>2 DEF OrderIds
        <3>2. PICK k \in DOMAIN touched : touched[k] = o
            BY <1>1, <1>5, <3>1 DEF Touching, Active
        <3>3. QED
            BY <1>3, <3>2
    <2>3. QED
        BY <2>1, <2>2
<1>6. /\ intents' = intents /\ OrderIds' = OrderIds
      /\ \A o \in OrderIds : SingleShot(o)' = SingleShot(o)
    BY DEF Monotone, SingleShot
<1>7. QED
    BY <1>1, <1>4, <1>5, <1>6 DEF Touching

-------------------------------------------------------------------------------
(***************************************************************************)
(* One lemma for each action that stores a runtime or visits an order.     *)
(***************************************************************************)

\* An expired order is over, and has nothing more to answer for.
LEMMA ExpireOrderStep == IInv /\ Streamed /\ ExpireOrder => Streamed'
<1>. SUFFICES ASSUME IInv, Streamed, ExpireOrder PROVE Streamed'
    OBVIOUS
<1>. USE DEF Streamed
<1>1. /\ phase = "expire" /\ phase' = phase /\ cursor \in DOMAIN intents
      /\ UNCHANGED <<intents, events, available, touched, fills>> /\ cursor' = cursor + 1
      /\ Intent.order_id \in OrderIds
    BY ExpireEffect
<1>2. PICK rt : /\ runtimes' = [runtimes EXCEPT ![Intent.order_id] = rt]
                /\ rt.status \notin ActiveStatuses
                /\ rt.intent = Runtime.intent
                /\ rt.remaining = Runtime.remaining
                /\ rt.stop_triggered = Runtime.stop_triggered
                /\ rt.first_event_consumed = Runtime.first_event_consumed
    BY ExpireEffect
<1>3. PICK c \in DOMAIN intents : c = cursor
    BY <1>1
<1>4. Intent = intents[c] /\ Runtime = runtimes[Intent.order_id]
    BY <1>3 DEF Intent, Runtime
<1>5. Monotone
    BY <1>1, <1>2, <1>4, StoreMonotone
<1>6. /\ OrderIds' = OrderIds /\ Rt(c)' = rt
      /\ \A n \in DOMAIN intents : n # c => Rt(n)' = Rt(n)
      /\ \A o \in OrderIds : o # Intent.order_id => runtimes'[o] = runtimes[o]
    BY <1>1, <1>2, <1>4, OthersAlone
<1>7. runtimes'[Intent.order_id] = rt
    BY <1>1, <1>2 DEF OrderIds
<1>8. Filing' /\ Booking' /\ FillsReconcile' /\ LiquidityConserved' /\ CausalFills' /\ AllOrNothing'
    <2>1. \A o \in OrderIds : runtimes'[o].remaining = runtimes[o].remaining
        BY <1>2, <1>4, <1>6, <1>7
    <2>2. QED
        BY <1>1, <1>5, <2>1, MarkKeeps
<1>9. \A n \in DOMAIN intents : Offers(n)' = Offers(n)
    BY <1>1 DEF Offers
<1>10. Waiting'
    BY <1>1, <1>5, <1>9, WaitingKept DEF Waiting
<1>11. Missed'
    <2>1. \A m : TradedAt(m)' = TradedAt(m)
        BY <1>1, StillFills
    <2>2. QED
        BY <1>1, <1>5, <1>9, <2>1, MissedKept DEF Missed
<1>12. Served'
    <2>1. \A n \in DOMAIN intents : Offers(n)' # Len(events)
        BY <1>1, <1>9 DEF Offers, IInv, Scalars
    <2>2. QED
        BY <1>1, <2>1 DEF Served, ServedFor
<1>13. Touching'
    <2>1. \A o \in OrderIds : ~(SingleShot(o) /\ Active(o) /\ runtimes[o].first_event_consumed)
        BY <1>1 DEF Touching
    <2>2. \A o \in OrderIds : /\ SingleShot(o)' = SingleShot(o)
                              /\ Active(o)' => Active(o)
        BY <1>5 DEF Monotone, SingleShot
    <2>3. \A o \in OrderIds :
             runtimes'[o].first_event_consumed = runtimes[o].first_event_consumed
        BY <1>2, <1>4, <1>6, <1>7
    <2>4. \A o \in OrderIds : ~(SingleShot(o)' /\ Active(o)' /\ runtimes'[o].first_event_consumed)
        BY <2>1, <2>2, <2>3
    <2>5. touched' = <<>>
        BY <1>1 DEF Touching
    <2>6. QED
        BY <1>1, <1>6, <2>4, <2>5 DEF Touching
<1>14. TriggerCause'
    <2>1. \A o \in OrderIds : runtimes'[o].stop_triggered = runtimes[o].stop_triggered
        BY <1>2, <1>4, <1>6, <1>7
    <2>2. \A o \in OrderIds, m \in DOMAIN events : Reached(o, m)' <=> Reached(o, m)
        BY <1>1, <1>5 DEF Monotone, Reached
    <2>3. QED
        BY <1>1, <1>6, <2>1, <2>2 DEF TriggerCause
<1>15. Unexpired'
    <2>1. \A n \in DOMAIN intents : n < cursor' => n < cursor \/ n = c
        BY <1>1, <1>3 DEF IInv, Scalars
    <2>2. ~ActiveAt(c)' /\ \A n \in DOMAIN intents : n # c => ActiveAt(n)' = ActiveAt(n)
        BY <1>2, <1>6 DEF ActiveAt
    <2>3. Event' = Event
        BY <1>1 DEF Event
    <2>4. \A n \in DOMAIN intents : n < cursor' => n = c \/
             (ActiveAt(n) /\ intents[n].time_in_force = "GTD" =>
                EventTs(Event) <= intents[n].expiry_ts)
        BY <1>1, <2>1 DEF Unexpired
    <2>5. QED
        BY <1>1, <2>2, <2>3, <2>4 DEF Unexpired
<1>16. QED
    BY <1>8, <1>10, <1>11, <1>12, <1>13, <1>14, <1>15

\* Neither has a canceled one.
LEMMA CancelResidualStep == IInv /\ Streamed /\ CancelResidual => Streamed'
<1>. SUFFICES ASSUME IInv, Streamed, CancelResidual PROVE Streamed'
    OBVIOUS
<1>. USE DEF Streamed
<1>1. /\ phase = "cancel" /\ phase' = phase
      /\ UNCHANGED <<intents, events, available, touched, fills>> /\ cursor' = cursor + 1
      /\ touched[cursor] \in OrderIds
    BY CancelEffect
<1>2. PICK rt : /\ runtimes' = [runtimes EXCEPT ![touched[cursor]] = rt]
                /\ rt.status \notin ActiveStatuses
                /\ rt.intent = TouchedRuntime.intent
                /\ rt.remaining = TouchedRuntime.remaining
                /\ rt.stop_triggered = TouchedRuntime.stop_triggered
                /\ rt.first_event_consumed = TouchedRuntime.first_event_consumed
    BY CancelEffect
<1>3. PICK c \in DOMAIN intents : intents[c].order_id = touched[cursor]
    BY <1>1, OrderFacts
<1>4. TouchedRuntime = runtimes[touched[cursor]]
    BY DEF TouchedRuntime
<1>5. Monotone
    BY <1>1, <1>2, <1>4, StoreMonotone
<1>6. /\ OrderIds' = OrderIds /\ Rt(c)' = rt
      /\ \A n \in DOMAIN intents : n # c => Rt(n)' = Rt(n)
      /\ \A o \in OrderIds : o # touched[cursor] => runtimes'[o] = runtimes[o]
    BY <1>1, <1>2, <1>3, OthersAlone
<1>7. runtimes'[touched[cursor]] = rt
    BY <1>1, <1>2 DEF OrderIds
<1>8. Filing' /\ Booking' /\ FillsReconcile' /\ LiquidityConserved' /\ CausalFills' /\ AllOrNothing'
    <2>1. \A o \in OrderIds : runtimes'[o].remaining = runtimes[o].remaining
        BY <1>2, <1>4, <1>6, <1>7
    <2>2. QED
        BY <1>1, <1>5, <2>1, MarkKeeps
<1>9. \A n \in DOMAIN intents : Offers(n)' = Offers(n)
    BY <1>1 DEF Offers
<1>10. Waiting'
    BY <1>1, <1>5, <1>9, WaitingKept DEF Waiting
<1>11. Missed'
    <2>1. \A m : TradedAt(m)' = TradedAt(m)
        BY <1>1, StillFills
    <2>2. QED
        BY <1>1, <1>5, <1>9, <2>1, MissedKept DEF Missed
<1>12. Served'
    <2>1. ~ActiveAt(c)' /\ \A n \in DOMAIN intents : n # c => Rt(n)' = Rt(n) /\ ActiveAt(n)' = ActiveAt(n)
        BY <1>2, <1>6 DEF ActiveAt
    <2>2. Event' = Event
        BY <1>1 DEF Event
    <2>3. QED
        BY <1>1, <1>9, <2>1, <2>2 DEF Served, ServedFor
<1>13. Touching'
    <2>1. SUFFICES ASSUME NEW o \in OrderIds, SingleShot(o), Active(o)',
                          runtimes'[o].first_event_consumed
                   PROVE  \E k \in DOMAIN touched : touched[k] = o /\ k >= cursor + 1
        BY <1>1, <1>5 DEF Touching, Monotone, SingleShot
    <2>2. o # touched[cursor] /\ runtimes'[o] = runtimes[o]
        BY <1>2, <1>6, <1>7, <2>1 DEF Active
    <2>3. PICK k \in DOMAIN touched : touched[k] = o /\ k >= cursor
        BY <1>1, <2>1, <2>2 DEF Touching, Active
    <2>4. k # cursor /\ k \in Nat /\ cursor \in Nat
        BY <2>2, <2>3 DEF IInv, Scalars
    <2>5. QED
        BY <2>3, <2>4
<1>14. TriggerCause'
    <2>1. \A o \in OrderIds : runtimes'[o].stop_triggered = runtimes[o].stop_triggered
        BY <1>2, <1>4, <1>6, <1>7
    <2>2. \A o \in OrderIds, m \in DOMAIN events : Reached(o, m)' <=> Reached(o, m)
        BY <1>1, <1>5 DEF Monotone, Reached
    <2>3. QED
        BY <1>1, <1>6, <2>1, <2>2 DEF TriggerCause
<1>15. Unexpired'
    BY <1>1 DEF Unexpired
<1>16. QED
    BY <1>8, <1>10, <1>11, <1>12, <1>13, <1>14, <1>15

\* A visit that does not touch the order changes nothing for it: it is over, it
\* is not eligible, or it is an IOC/FOK order that no longer trades.
LEMMA SkipOrderStep == IInv /\ Streamed /\ SkipOrder => Streamed'
<1>. SUFFICES ASSUME IInv, Streamed, SkipOrder PROVE Streamed'
    OBVIOUS
<1>. USE DEF Streamed
<1>1. /\ Still /\ phase = "match" /\ phase' = "match" /\ cursor <= Len(intents)
      /\ touched' = touched /\ cursor' = cursor + 1 /\ ~Touches
    BY DEF SkipOrder, Still, Advance, InLoop
<1>2. UNCHANGED <<intents, runtimes, events, available, fills>>
    BY <1>1 DEF Still
<1>3. PICK c \in DOMAIN intents : c = cursor
    BY <1>1, OrderFacts
<1>4. /\ Intent = intents[c] /\ Runtime = Rt(c) /\ Runtime = runtimes[Intent.order_id]
      /\ Runtime.intent = Intent /\ Intent.order_id \in OrderIds
    BY <1>1, <1>3, OrderFacts DEF Runtime
<1>5. /\ \A n \in DOMAIN intents :
            /\ n # c => Offers(n)' = Offers(n)
            /\ n = c => Offers(n) = Len(events) - 1 /\ Offers(n)' = Len(events)
      /\ Len(events) \in Nat \ {0} /\ Event' = Event /\ Event = events[Len(events)]
    BY <1>1, <1>2, <1>3, VisitOffers
<1>6. ~ActiveAt(c) \/ ~Eligible(intents[c], Event)
    <2>1. SUFFICES ASSUME ActiveAt(c), Eligible(intents[c], Event) PROVE FALSE
        OBVIOUS
    <2>2. /\ Active(Intent.order_id) /\ SingleShot(Intent.order_id)
          /\ Runtime.first_event_consumed
        BY <1>1, <1>4, <2>1 DEF Touches, ActiveAt, Active, SingleShot
    <2>3. PICK k \in DOMAIN touched : touched[k] = Intent.order_id
        BY <1>1, <1>4, <2>2 DEF Touching
    <2>4. PICK n \in DOMAIN intents : n < cursor /\ intents[n].order_id = intents[c].order_id
        BY <1>1, <1>4, <2>3 DEF Touching
    <2>5. n = c
        BY <2>4 DEF Filing
    <2>6. QED
        BY <1>3, <2>4, <2>5 DEF IInv, Scalars
<1>7. /\ intents' = intents /\ ActiveAt(c)' = ActiveAt(c) /\ Rt(c)' = Rt(c)
    BY <1>2 DEF ActiveAt, Rt
<1>8. WaitingFor(c)'
    <2>1. WaitingFor(c)
        BY <1>1 DEF Waiting
    <2>2. \A m \in 1 .. Len(events) : m \in 1 .. Len(events) - 1 \/ m = Len(events)
        BY <1>5
    <2>3. QED
        BY <1>2, <1>5, <1>6, <1>7, <2>1, <2>2 DEF WaitingFor
<1>9. MissedFor(c)'
    <2>1. MissedFor(c)
        BY <1>1 DEF Missed
    <2>2. \A m \in 1 .. Len(events) : m \in 1 .. Len(events) - 1 \/ m = Len(events)
        BY <1>5
    <2>3. \A m : /\ TradedAt(m)' = TradedAt(m)
                 /\ Reached(intents[c].order_id, m)' <=> Reached(intents[c].order_id, m)
        BY <1>2, StillFills DEF Reached
    <2>4. ActiveAt(c) => ~Reached(intents[c].order_id, Len(events))
        BY <1>4, <1>5, <1>6 DEF Reached
    <2>5. QED
        BY <1>2, <1>5, <1>7, <2>1, <2>2, <2>3, <2>4 DEF MissedFor
<1>10. ServedFor(c)'
    BY <1>2, <1>5, <1>6, <1>7 DEF ServedFor
<1>11. events # <<>>
    BY <1>1 DEF IInv, Scalars
<1>12. \A n \in DOMAIN intents : n # c => WaitingFor(n)' /\ MissedFor(n)' /\ ServedFor(n)'
    BY <1>1, <1>2, <1>5, <1>11, StillWaiting DEF Waiting, Missed, Served
<1>13. Waiting' /\ Missed' /\ Served'
    BY <1>7, <1>8, <1>9, <1>10, <1>12 DEF Waiting, Missed, Served
<1>14. Touching'
    <2>1. \A n \in DOMAIN intents : n < cursor => n < cursor'
        BY <1>1 DEF IInv, Scalars
    <2>2. QED
        BY <1>1, <1>2, <2>1, StillKeeps DEF Touching, SingleShot, Active
<1>15. Unexpired'
    BY <1>1, <1>2, UnexpiredKept, StillMonotone
<1>16. QED
    BY <1>1, <1>13, <1>14, <1>15, StillKeeps

\* The order passed over found the event used up.
LEMMA PassOverStep == IInv /\ Streamed /\ PassOver => Streamed'
<1>. SUFFICES ASSUME IInv, Streamed, PassOver PROVE Streamed'
    OBVIOUS
<1>. USE DEF Streamed
<1>1. /\ TouchOrder /\ UNCHANGED <<intents, events, available, fills>>
      /\ phase' = phase /\ cursor' = cursor + 1 /\ available <= 0
    BY DEF PassOver, Advance
<1>2. PICK rt : /\ runtimes' = [runtimes EXCEPT ![Intent.order_id] = rt]
                /\ rt.intent = Intent
                /\ rt.status = Runtime.status /\ rt.remaining = Runtime.remaining
                /\ rt.first_event_consumed = Consumed
                /\ rt.stop_triggered = Runtime.stop_triggered
    BY OfferEffect
<1>3. /\ phase = "match" /\ cursor \in DOMAIN intents /\ events # <<>> /\ Event \in Events
      /\ touched' = Append(touched, Intent.order_id) /\ Intent.order_id \in OrderIds
      /\ Intent = intents[cursor] /\ Runtime = runtimes[Intent.order_id]
      /\ Runtime = Rt(cursor) /\ Runtime.intent = Intent /\ RuntimeInv(Runtime)
      /\ Runtime.status \in ActiveStatuses /\ Eligible(Intent, Event)
    BY <1>1, TouchFacts
<1>4. PICK c \in DOMAIN intents : c = cursor
    BY <1>3
<1>5. Intent = intents[c] /\ Runtime = Rt(c)
    BY <1>3, <1>4
<1>6. Monotone
    <2>1. Runtime.first_event_consumed => Consumed
        BY DEF Consumed
    <2>2. QED
        BY <1>1, <1>2, <1>3, <2>1, StoreMonotone DEF Active
<1>7. /\ OrderIds' = OrderIds /\ Rt(c)' = rt
      /\ \A n \in DOMAIN intents : n # c => Rt(n)' = Rt(n)
      /\ \A o \in OrderIds : o # Intent.order_id => runtimes'[o] = runtimes[o]
    BY <1>1, <1>2, <1>5, OthersAlone
<1>8. runtimes'[Intent.order_id] = rt
    BY <1>2, <1>3 DEF OrderIds
<1>9. Filing' /\ Booking' /\ FillsReconcile' /\ LiquidityConserved' /\ CausalFills' /\ AllOrNothing'
    <2>1. \A o \in OrderIds : runtimes'[o].remaining = runtimes[o].remaining
        BY <1>2, <1>3, <1>7, <1>8
    <2>2. QED
        BY <1>1, <1>3, <1>6, <2>1, MarkKeeps
<1>10. Touching'
    BY <1>1, <1>2, <1>6, TouchingKept
<1>11. Unexpired'
    BY <1>1, <1>3, <1>6, UnexpiredKept
<1>12. TriggerCause'
    BY <1>1, <1>2, <1>6, CauseKept DEF Triggered
<1>13. /\ \A n \in DOMAIN intents :
            /\ n # c => Offers(n)' = Offers(n)
            /\ n = c => Offers(n) = Len(events) - 1 /\ Offers(n)' = Len(events)
      /\ Len(events) \in Nat \ {0} /\ Event' = Event /\ Event = events[Len(events)]
    BY <1>1, <1>3, <1>4, VisitOffers
<1>14. available = 0 /\ available' = 0
    BY <1>1 DEF IInv, Scalars
<1>15. Waiting'
    <2>1. WaitingFor(c)'
        BY <1>1, <1>2, <1>5, <1>7 DEF WaitingFor, Consumed
    <2>2. \A n \in DOMAIN intents : n # c => WaitingFor(n)'
        BY <1>1, <1>3, <1>6, <1>13, WaitingKept DEF Waiting
    <2>3. QED
        BY <1>1, <2>1, <2>2 DEF Waiting
<1>16. Missed'
    <2>1. \A m : TradedAt(m)' = TradedAt(m)
        BY <1>1, StillFills
    <2>2. TradedAt(Len(events)) = Liquidity(events[Len(events)])
        <3>1. TradedAt(Len(events)) + available = Liquidity(events[Len(events)])
            BY <1>3, <1>13 DEF LiquidityConserved, IInv, Scalars
        <3>2. TradedAt(Len(events)) \in Int
            BY TradedInt
        <3>3. QED
            BY <1>14, <3>1, <3>2
    <2>3. MissedFor(c)'
        <3>1. MissedFor(c) /\ ActiveAt(c)
            BY <1>3, <1>5 DEF Missed, ActiveAt
        <3>2. \A m \in 1 .. Len(events) : m \in 1 .. Len(events) - 1 \/ m = Len(events)
            BY <1>13
        <3>3. \A m : Reached(intents[c].order_id, m)' <=> Reached(intents[c].order_id, m)
            BY <1>1, <1>3, <1>5, <1>6 DEF Reached, Monotone
        <3>4. Rt(c)'.stop_triggered = Rt(c).stop_triggered
            BY <1>2, <1>5, <1>7
        <3>5. QED
            BY <1>1, <1>13, <2>1, <2>2, <3>1, <3>2, <3>3, <3>4 DEF MissedFor
    <2>4. \A n \in DOMAIN intents : n # c => MissedFor(n)'
        BY <1>1, <1>3, <1>6, <1>13, <2>1, MissedKept DEF Missed
    <2>5. QED
        BY <1>1, <2>3, <2>4 DEF Missed
<1>17. Served'
    BY <1>14 DEF Served, ServedFor
<1>18. QED
    BY <1>9, <1>10, <1>11, <1>12, <1>15, <1>16, <1>17

\* What the schema's two ways to compare an order with an event agree on.
LEMMA EligibleIsBefore ==
    ASSUME NEW i \in Intents, NEW e \in Events
    PROVE  Eligible(i, e) <=> CreatedBefore(i, e)
<1>1. i.created_ts \in Nat
    BY IntentAssumption
<1>2. CASE e.kind = "trade"
    BY <1>1, <1>2, EventAssumption DEF Eligible, CreatedBefore
<1>3. CASE e.kind = "bar"
    BY <1>3 DEF Eligible, CreatedBefore
<1>4. QED
    BY <1>2, <1>3, EventAssumption

\* A stop order that a visit leaves untriggered was not reached by the event,
\* so it has missed no more than before.
LEMMA UntriggeredVisit ==
    ASSUME IInv, Streamed, Monotone, NEW c \in DOMAIN intents, c = cursor,
           TouchOrder, events' = events,
           Offers(c) = Len(events) - 1, Offers(c)' = Len(events), Len(events) \in Nat \ {0},
           Rt(c)'.stop_triggered = Triggered(Runtime, Event),
           \A m \in 1 .. Len(events) - 1 :
              TradedAt(m) = Liquidity(events[m]) => TradedAt(m)' = Liquidity(events[m])
    PROVE  MissedFor(c)'
<1>1. /\ phase = "match" /\ Intent = intents[c] /\ Runtime = Rt(c) /\ Runtime.intent = Intent
      /\ Runtime.status \in ActiveStatuses
    BY TouchFacts DEF Streamed
<1>2. MissedFor(c) /\ ActiveAt(c)
    BY <1>1 DEF Streamed, Missed, ActiveAt
<1>3. SUFFICES ASSUME ~Rt(c)'.stop_triggered, NEW m \in 1 .. Len(events),
                      Reached(intents[c].order_id, m)
               PROVE  TradedAt(m)' = Liquidity(events[m])
    <2>1. intents' = intents
        BY DEF Monotone
    <2>2. \A m \in 1 .. Len(events) :
             Reached(intents[c].order_id, m)' <=> Reached(intents[c].order_id, m)
        BY <1>1, OrderFacts DEF Reached, Monotone, Streamed
    <2>3. QED
        BY <2>1, <2>2 DEF MissedFor
<1>4. ~Triggered(Runtime, Event)
    BY <1>3
<1>5. m # Len(events)
    BY <1>1, <1>3, <1>4 DEF Triggered, Reached, Rt, Event
<1>6. m \in 1 .. Len(events) - 1 /\ ~Rt(c).stop_triggered
    BY <1>1, <1>3, <1>4, <1>5 DEF Triggered
<1>7. QED
    BY <1>2, <1>3, <1>6 DEF MissedFor

\* An order that _match_runtime lets nothing of cannot trade, or is a FOK.
LEMMA NothingMatched ==
    ASSUME IInv, Filing, TouchOrder, available > 0, Qty = 0, Marketable(Runtime, Event)
    PROVE  Intent.time_in_force = "FOK"
<1>1. RuntimeInv(Runtime) /\ Runtime.status \in ActiveStatuses /\ Runtime.intent = Intent
    BY TouchFacts
<1>2. Runtime.remaining # 0
    BY <1>1 DEF RuntimeInv, ResidualOK, ActiveStatuses
<1>3. available # 0
    BY DEF IInv, Scalars
<1>4. QED
    BY <1>1, <1>2, <1>3 DEF Qty, FillQty

\* Being offered the event does not change whether the order could trade at it.
LEMMA StillMarketable ==
    ASSUME NEW rt, NEW old, NEW e,
           rt.intent = old.intent, rt.stop_triggered = Triggered(old, e)
    PROVE  Marketable(rt, e) <=> Marketable(old, e)
BY DEF Marketable, Triggered

\* An order that was offered the event and took nothing of it.
LEMMA MissOrderStep == IInv /\ Streamed /\ MissOrder => Streamed'
<1>. SUFFICES ASSUME IInv, Streamed, MissOrder PROVE Streamed'
    OBVIOUS
<1>. USE DEF Streamed
<1>1. /\ TouchOrder /\ UNCHANGED <<intents, events, available, fills>>
      /\ phase' = phase /\ cursor' = cursor + 1 /\ available > 0 /\ Qty = 0
    BY DEF MissOrder, Advance
<1>2. PICK rt : /\ runtimes' = [runtimes EXCEPT ![Intent.order_id] = rt]
                /\ rt.intent = Intent
                /\ rt.status = Runtime.status /\ rt.remaining = Runtime.remaining
                /\ rt.first_event_consumed = Consumed
                /\ rt.stop_triggered = Triggered(Runtime, Event)
    <2>1. ~PassOver
        BY <1>1 DEF PassOver, IInv, Scalars
    <2>2. QED
        BY <2>1, OfferEffect
<1>3. /\ phase = "match" /\ cursor \in DOMAIN intents /\ events # <<>> /\ Event \in Events
      /\ touched' = Append(touched, Intent.order_id) /\ Intent.order_id \in OrderIds
      /\ Intent = intents[cursor] /\ Runtime = runtimes[Intent.order_id]
      /\ Runtime = Rt(cursor) /\ Runtime.intent = Intent /\ RuntimeInv(Runtime)
      /\ Runtime.status \in ActiveStatuses /\ Eligible(Intent, Event)
    BY <1>1, TouchFacts
<1>4. PICK c \in DOMAIN intents : c = cursor
    BY <1>3
<1>5. Intent = intents[c] /\ Runtime = Rt(c)
    BY <1>3, <1>4
<1>6. Monotone
    <2>1. /\ Runtime.first_event_consumed => Consumed
          /\ Runtime.stop_triggered => Triggered(Runtime, Event)
        BY DEF Consumed, Triggered
    <2>2. QED
        BY <1>1, <1>2, <1>3, <2>1, StoreMonotone DEF Active
<1>7. /\ OrderIds' = OrderIds /\ Rt(c)' = rt
      /\ \A n \in DOMAIN intents : n # c => Rt(n)' = Rt(n)
      /\ \A o \in OrderIds : o # Intent.order_id => runtimes'[o] = runtimes[o]
    BY <1>1, <1>2, <1>5, OthersAlone
<1>8. runtimes'[Intent.order_id] = rt
    BY <1>2, <1>3 DEF OrderIds
<1>9. Filing' /\ Booking' /\ FillsReconcile' /\ LiquidityConserved' /\ CausalFills' /\ AllOrNothing'
    <2>1. \A o \in OrderIds : runtimes'[o].remaining = runtimes[o].remaining
        BY <1>2, <1>3, <1>7, <1>8
    <2>2. QED
        BY <1>1, <1>3, <1>6, <2>1, MarkKeeps
<1>10. Touching'
    BY <1>1, <1>2, <1>6, TouchingKept
<1>11. Unexpired'
    BY <1>1, <1>3, <1>6, UnexpiredKept
<1>12. TriggerCause'
    BY <1>1, <1>2, <1>6, CauseKept
<1>13. /\ \A n \in DOMAIN intents :
            /\ n # c => Offers(n)' = Offers(n)
            /\ n = c => Offers(n) = Len(events) - 1 /\ Offers(n)' = Len(events)
      /\ Len(events) \in Nat \ {0} /\ Event' = Event /\ Event = events[Len(events)]
    BY <1>1, <1>3, <1>4, VisitOffers
<1>14. Waiting'
    <2>1. WaitingFor(c)'
        BY <1>1, <1>2, <1>5, <1>7 DEF WaitingFor, Consumed
    <2>2. \A n \in DOMAIN intents : n # c => WaitingFor(n)'
        BY <1>1, <1>3, <1>6, <1>13, WaitingKept DEF Waiting
    <2>3. QED
        BY <1>1, <2>1, <2>2 DEF Waiting
<1>15. Missed'
    <2>1. \A m : TradedAt(m)' = TradedAt(m)
        BY <1>1, StillFills
    <2>2. Rt(c)'.stop_triggered = Triggered(Runtime, Event)
        BY <1>2, <1>7
    <2>3. MissedFor(c)'
        BY <1>1, <1>4, <1>6, <1>13, <2>1, <2>2, UntriggeredVisit
    <2>4. \A n \in DOMAIN intents : n # c => MissedFor(n)'
        BY <1>1, <1>3, <1>6, <1>13, <2>1, MissedKept DEF Missed
    <2>5. QED
        BY <1>1, <2>3, <2>4 DEF Missed
<1>16. Served'
    <2>1. Marketable(rt, Event) => Intent.time_in_force = "FOK"
        BY <1>1, <1>2, <1>3, NothingMatched, StillMarketable
    <2>2. ServedFor(c)'
        BY <1>1, <1>5, <1>7, <1>13, <2>1 DEF ServedFor
    <2>3. \A n \in DOMAIN intents : n # c => ServedFor(n)'
        <3>1. \A n \in DOMAIN intents : n # c => ActiveAt(n)' = ActiveAt(n)
            BY <1>7 DEF ActiveAt
        <3>2. QED
            BY <1>1, <1>3, <1>7, <1>13, <3>1 DEF Served, ServedFor
    <2>4. QED
        BY <1>1, <2>2, <2>3 DEF Served
<1>17. QED
    BY <1>9, <1>10, <1>11, <1>12, <1>14, <1>15, <1>16

\* A fill of a touched order at the event being processed is causal.
LEMMA CausalGrows ==
    ASSUME IInv, Streamed, TouchOrder, Monotone, events' = events,
           NEW f \in FillRecords, fills' = Append(fills, f),
           f.order_id = Intent.order_id, f.event = Len(events), f.ts = EventTs(Event)
    PROVE  CausalFills'
<1>. USE DEF Streamed
<1>1. PICK c \in DOMAIN intents : c = cursor
    BY TouchFacts
<1>2. /\ phase = "match" /\ Intent = intents[c] /\ Intent \in Intents /\ Event \in Events
      /\ Event = events[Len(events)] /\ Len(events) \in Nat
      /\ Intent.order_id \in OrderIds /\ runtimes[Intent.order_id].intent = Intent
      /\ ActiveAt(c) /\ Eligible(Intent, Event)
      /\ Intent.time_in_force \in SingleShotTIF => ~Rt(c).first_event_consumed
    BY <1>1, TouchFacts, OrderFacts DEF ActiveAt, Event, IInv, Scalars
<1>3. /\ CreatedBefore(Intent, Event)
      /\ Intent.time_in_force = "GTD" => f.ts <= Intent.expiry_ts
      /\ Intent.time_in_force \in SingleShotTIF =>
            \A m \in 1 .. Len(events) - 1 : ~CreatedBefore(Intent, events[m])
    <2>1. CreatedBefore(Intent, Event)
        BY <1>2, EligibleIsBefore
    <2>2. Intent.time_in_force = "GTD" => f.ts <= Intent.expiry_ts
        BY <1>2 DEF Unexpired
    <2>3. ASSUME Intent.time_in_force \in SingleShotTIF, NEW m \in 1 .. Len(events) - 1
          PROVE  ~CreatedBefore(Intent, events[m])
        <3>1. Offers(c) = Len(events) - 1
            BY <1>1, <1>2 DEF Offers, IInv, Scalars
        <3>2. WaitingFor(c)
            BY <1>2 DEF Waiting
        <3>3. ~Eligible(Intent, events[m])
            BY <1>2, <2>3, <3>1, <3>2 DEF WaitingFor
        <3>4. events[m] \in Events
            BY <2>3 DEF IInv, Scalars
        <3>5. QED
            BY <1>2, <3>3, <3>4, EligibleIsBefore
    <2>4. QED
        BY <2>1, <2>2, <2>3
<1>4. /\ DOMAIN fills' = 1 .. Len(fills) + 1 /\ Len(fills) \in Nat
      /\ DOMAIN fills = 1 .. Len(fills)
      /\ fills'[Len(fills) + 1] = f /\ \A k \in 1 .. Len(fills) : fills'[k] = fills[k]
    BY DEF Booking
<1>5. \A o \in OrderIds : runtimes'[o].intent = runtimes[o].intent
    BY DEF Monotone
<1>6. ASSUME NEW n \in 1 .. Len(fills)
      PROVE  /\ fills[n].order_id \in OrderIds
             /\ CreatedBefore(runtimes[fills[n].order_id].intent, events[fills[n].event])
             /\ runtimes[fills[n].order_id].intent.time_in_force = "GTD" =>
                   fills[n].ts <= runtimes[fills[n].order_id].intent.expiry_ts
             /\ runtimes[fills[n].order_id].intent.time_in_force \in SingleShotTIF =>
                   \A m \in 1 .. fills[n].event - 1 :
                      ~CreatedBefore(runtimes[fills[n].order_id].intent, events[m])
    BY <1>4 DEF CausalFills, Booking
<1>7. runtimes'[f.order_id].intent = Intent
    BY <1>2, <1>5
<1>8. ASSUME NEW n \in DOMAIN fills'
      PROVE  LET g == fills'[n]
                 i == runtimes'[g.order_id].intent
             IN  /\ CreatedBefore(i, events[g.event])
                 /\ i.time_in_force = "GTD" => g.ts <= i.expiry_ts
                 /\ i.time_in_force \in SingleShotTIF =>
                       \A m \in 1 .. g.event - 1 : ~CreatedBefore(i, events[m])
    <2>1. CASE n = Len(fills) + 1
        BY <1>2, <1>3, <1>4, <1>7, <2>1
    <2>2. CASE n \in 1 .. Len(fills)
        BY <1>4, <1>5, <1>6, <2>2
    <2>3. QED
        BY <1>4, <2>1, <2>2
<1>9. QED
    BY <1>8 DEF CausalFills

\* Storing the runtime the event has been offered to keeps what the order has
\* done, and latches a stop only with a cause.
LEMMA OfferedKeeps ==
    ASSUME IInv, Streamed, TouchOrder, UNCHANGED <<intents, events>>,
           runtimes' = [runtimes EXCEPT ![Intent.order_id] = Offered]
    PROVE  /\ Monotone /\ TriggerCause'
           /\ \A o \in OrderIds : runtimes'[o].remaining = runtimes[o].remaining
<1>. USE DEF Streamed
<1>1. /\ Intent.order_id \in OrderIds /\ Runtime = runtimes[Intent.order_id]
      /\ Runtime.status \in ActiveStatuses /\ RuntimeOK(Runtime)
    BY TouchFacts DEF RuntimeInv
<1>2. /\ Offered.intent = Runtime.intent /\ Offered.status = Runtime.status
      /\ Offered.remaining = Runtime.remaining /\ Offered.first_event_consumed = Consumed
      /\ Offered.stop_triggered = Triggered(Runtime, Event)
    BY <1>1 DEF Offered, RuntimeOK
<1>3. /\ Runtime.first_event_consumed => Consumed
      /\ Runtime.stop_triggered => Triggered(Runtime, Event)
    BY DEF Consumed, Triggered
<1>4. Monotone
    BY <1>1, <1>2, <1>3, StoreMonotone DEF Active
<1>5. TriggerCause'
    BY <1>2, <1>4, CauseKept
<1>6. \A o \in OrderIds : runtimes'[o].remaining = runtimes[o].remaining
    BY <1>1, <1>2 DEF OrderIds
<1>7. QED
    BY <1>4, <1>5, <1>6

\* A refused fill ends the replay before the order or the streams change.
LEMMA RejectFillStep == IInv /\ Streamed /\ RejectFill => Streamed'
<1>. SUFFICES ASSUME IInv, Streamed, RejectFill PROVE Streamed'
    OBVIOUS
<1>. USE DEF Streamed
<1>1. /\ TouchOrder /\ UNCHANGED <<intents, events, available, fills>> /\ phase' = "raised"
      /\ runtimes' = [runtimes EXCEPT ![Intent.order_id] = Offered]
    BY DEF RejectFill
<1>2. phase = "match"
    BY <1>1, TouchFacts
<1>3. /\ Monotone /\ TriggerCause'
      /\ \A o \in OrderIds : runtimes'[o].remaining = runtimes[o].remaining
    BY <1>1, OfferedKeeps
<1>4. Filing' /\ Booking' /\ FillsReconcile' /\ LiquidityConserved' /\ CausalFills' /\ AllOrNothing'
    BY <1>1, <1>2, <1>3, MarkKeeps
<1>5. Touching' /\ Waiting' /\ Unexpired' /\ Missed' /\ Served'
    BY <1>1 DEF Touching, Waiting, Unexpired, Missed, Served
<1>6. QED
    BY <1>3, <1>4, <1>5

\* A refused snapshot ends it before the order changes, with the fill in the
\* stream.
LEMMA RejectSnapshotStep == IInv /\ Streamed /\ RejectSnapshot => Streamed'
<1>. SUFFICES ASSUME IInv, Streamed, RejectSnapshot PROVE Streamed'
    OBVIOUS
<1>. USE DEF Streamed
<1>1. /\ TouchOrder /\ available > 0 /\ Qty > 0 /\ Price > 0
      /\ UNCHANGED <<intents, events>> /\ phase' = "raised"
      /\ fills' = Append(fills, NewFill)
      /\ runtimes' = [runtimes EXCEPT ![Intent.order_id] = Offered]
    BY DEF RejectSnapshot
<1>2. /\ Monotone /\ TriggerCause'
      /\ \A o \in OrderIds : runtimes'[o].remaining = runtimes[o].remaining
    BY <1>1, OfferedKeeps
<1>3. /\ intents' = intents /\ OrderIds' = OrderIds
      /\ \A o \in OrderIds : runtimes'[o].intent = runtimes[o].intent
    BY <1>2 DEF Monotone
<1>4. Filing'
    BY <1>1, <1>3, OrderFacts DEF Filing, Rt
<1>5. Booking' /\ FillsReconcile' /\ LiquidityConserved'
    BY StepConserves DEF Next, Step
<1>6. CausalFills'
    <2>1. /\ NewFill \in FillRecords /\ NewFill.order_id = Intent.order_id
          /\ NewFill.event = Len(events) /\ NewFill.ts = EventTs(Event)
        BY <1>1, NewFillFacts
    <2>2. QED
        BY <1>1, <1>2, <2>1, CausalGrows
<1>7. AllOrNothing'
    BY <1>2, <1>3 DEF AllOrNothing
<1>8. Touching' /\ Waiting' /\ Unexpired' /\ Missed' /\ Served'
    BY <1>1 DEF Touching, Waiting, Unexpired, Missed, Served
<1>9. QED
    BY <1>2, <1>4, <1>5, <1>6, <1>7, <1>8

\* An order that trades at the event.
LEMMA FillOrderStep == IInv /\ Streamed /\ FillOrder => Streamed'
<1>. SUFFICES ASSUME IInv, Streamed, FillOrder PROVE Streamed'
    OBVIOUS
<1>. USE DEF Streamed
<1>1. /\ TouchOrder /\ UNCHANGED <<intents, events>> /\ phase' = phase
      /\ available > 0 /\ Qty \in 1 .. available /\ available' = available - Qty
      /\ cursor' = cursor + 1
    BY FillEffect
<1>2. PICK rt : /\ runtimes' = [runtimes EXCEPT ![Intent.order_id] = rt]
                /\ rt.intent = Intent
                /\ rt.remaining = Runtime.remaining - Qty
                /\ rt.status = StatusFor(rt.remaining)
                /\ rt.first_event_consumed = Consumed
                /\ rt.stop_triggered = Triggered(Runtime, Event)
    BY FillEffect
<1>3. PICK f : /\ f \in [order_id : OrderIds, side : {"BUY", "SELL"}, price : Int,
                         quantity : Nat, ts : Nat, event : Nat]
               /\ fills' = Append(fills, f)
               /\ f.order_id = Intent.order_id /\ f.quantity = Qty
               /\ f.event = Len(events) /\ f.ts = EventTs(Event)
    BY FillEffect
<1>4. /\ phase = "match" /\ cursor \in DOMAIN intents /\ events # <<>> /\ Event \in Events
      /\ Intent.order_id \in OrderIds
      /\ Intent = intents[cursor] /\ Runtime = runtimes[Intent.order_id]
      /\ Runtime = Rt(cursor) /\ Runtime.intent = Intent /\ RuntimeInv(Runtime)
      /\ Runtime.status \in ActiveStatuses /\ Eligible(Intent, Event)
      /\ Intent.time_in_force \in SingleShotTIF => ~Runtime.first_event_consumed
    BY <1>1, TouchFacts
<1>5. PICK c \in DOMAIN intents : c = cursor
    BY <1>4
<1>6. Intent = intents[c] /\ Runtime = Rt(c) /\ Intent \in Intents
    BY <1>4, <1>5, OrderFacts
<1>7. /\ Runtime.remaining \in Nat /\ Intent.quantity \in Nat /\ available \in Nat
      /\ Runtime.remaining # 0
    <2>1. RuntimeOK(Runtime)
        BY <1>4 DEF RuntimeInv
    <2>2. Runtime.remaining \in 0 .. Intent.quantity /\ Intent.quantity \in Nat
        BY <1>4, <1>6, <2>1, IntentAssumption DEF RuntimeOK
    <2>3. Runtime.remaining # 0
        BY <1>4 DEF RuntimeInv, ResidualOK, ActiveStatuses
    <2>4. QED
        BY <2>2, <2>3 DEF IInv, Scalars
<1>8. Monotone
    <2>1. /\ Runtime.first_event_consumed => Consumed
          /\ Runtime.stop_triggered => Triggered(Runtime, Event)
        BY DEF Consumed, Triggered
    <2>2. QED
        BY <1>1, <1>2, <1>4, <2>1, StoreMonotone DEF Active
<1>9. /\ OrderIds' = OrderIds /\ Rt(c)' = rt
      /\ \A n \in DOMAIN intents : n # c => Rt(n)' = Rt(n)
      /\ \A o \in OrderIds : o # Intent.order_id => runtimes'[o] = runtimes[o]
    BY <1>1, <1>2, <1>6, OthersAlone
<1>10. runtimes'[Intent.order_id] = rt
    BY <1>2, <1>4 DEF OrderIds
<1>11. f \in FillRecords /\ Len(events) \in DOMAIN events /\ Event = events[Len(events)]
    <2>1. OrderIds \subseteq AllOrderIds
        BY DEF IInv, Scalars, AllOrderIds
    <2>2. QED
        BY <1>3, <1>4, <2>1 DEF FillRecords, IInv, Scalars, Event
<1>12. /\ \A m : /\ TradedAt(m) \in Int
                 /\ TradedAt(m)' = TradedAt(m) + (IF Len(events) = m THEN Qty ELSE 0)
       /\ \A o : /\ TradedBy(o) \in Int
                 /\ TradedBy(o)' = TradedBy(o) + (IF Intent.order_id = o THEN Qty ELSE 0)
    BY <1>3, <1>11, BookedFill
<1>14. \A o \in OrderIds : runtimes'[o].intent = runtimes[o].intent
    BY <1>8 DEF Monotone
<1>15. Filing'
    BY <1>1, <1>4, <1>14, OrderFacts DEF Filing, Rt
<1>16. Booking' /\ FillsReconcile' /\ LiquidityConserved'
    BY StepConserves DEF Next, Step
<1>19. CausalFills'
    BY <1>1, <1>3, <1>8, <1>11, CausalGrows
<1>20. AllOrNothing'
    <2>1. ASSUME Intent.time_in_force = "FOK" PROVE rt.remaining \in {0, Intent.quantity}
        <3>1. Qty \in {0, Runtime.remaining}
            BY <1>4, <1>7, <2>1, FillQtyBounds DEF Qty, RuntimeInv
        <3>2. QED
            BY <1>1, <1>2, <1>7, <3>1
    <2>2. ASSUME NEW o \in OrderIds, runtimes'[o].intent.time_in_force = "FOK"
          PROVE  runtimes'[o].remaining \in {0, runtimes'[o].intent.quantity}
        <3>1. CASE o = Intent.order_id
            BY <1>2, <1>10, <2>1, <2>2, <3>1
        <3>2. CASE o # Intent.order_id
            BY <1>9, <2>2, <3>2 DEF AllOrNothing
        <3>3. QED
            BY <3>1, <3>2
    <2>3. QED
        BY <1>9, <2>2 DEF AllOrNothing
<1>21. Touching'
    BY <1>1, <1>2, <1>8, TouchingKept
<1>22. Unexpired'
    BY <1>1, <1>4, <1>8, UnexpiredKept
<1>23. TriggerCause'
    BY <1>1, <1>2, <1>8, CauseKept
<1>24. /\ \A n \in DOMAIN intents :
            /\ n # c => Offers(n)' = Offers(n)
            /\ n = c => Offers(n) = Len(events) - 1 /\ Offers(n)' = Len(events)
       /\ Len(events) \in Nat \ {0} /\ Event' = Event
    BY <1>1, <1>4, <1>5, VisitOffers
<1>25. Waiting'
    <2>1. WaitingFor(c)'
        BY <1>1, <1>2, <1>6, <1>9 DEF WaitingFor, Consumed
    <2>2. \A n \in DOMAIN intents : n # c => WaitingFor(n)'
        BY <1>1, <1>4, <1>8, <1>24, WaitingKept DEF Waiting
    <2>3. QED
        BY <1>1, <2>1, <2>2 DEF Waiting
<1>26. Missed'
    <2>1. \A m \in 1 .. Len(events) :
             TradedAt(m) = Liquidity(events[m]) => TradedAt(m)' = Liquidity(events[m])
        <3>1. TradedAt(Len(events)) # Liquidity(events[Len(events)])
            BY <1>1, <1>4, <1>7, <1>11, <1>12 DEF LiquidityConserved
        <3>2. QED
            BY <1>12, <3>1
    <2>2. Rt(c)'.stop_triggered = Triggered(Runtime, Event)
        BY <1>2, <1>9
    <2>3. MissedFor(c)'
        BY <1>1, <1>5, <1>8, <1>24, <2>1, <2>2, UntriggeredVisit
    <2>4. ASSUME NEW n \in DOMAIN intents, n # c PROVE MissedFor(n)'
        <3>1. Offers(n) \in {Len(events) - 1, Len(events)}
            BY DEF Offers
        <3>2. \A m \in 1 .. Offers(n) : m \in 1 .. Len(events)
            BY <1>24, <3>1
        <3>3. QED
            BY <1>1, <1>4, <1>8, <1>24, <2>1, <2>4, <3>2, MissedKept DEF Missed
    <2>5. QED
        BY <1>1, <2>3, <2>4 DEF Missed
<1>27. Served'
    <2>1. \A n \in DOMAIN intents : n # c =>
             /\ Rt(n)' = Rt(n) /\ ActiveAt(n)' = ActiveAt(n) /\ ServedFor(n) /\ Offers(n)' = Offers(n)
        BY <1>4, <1>9, <1>24 DEF Served, ActiveAt
    <2>2. \A n \in DOMAIN intents : n # c => ServedFor(n)'
        BY <1>1, <1>7, <1>24, <2>1 DEF ServedFor
    <2>3. ServedFor(c)'
        <3>1. ASSUME rt.status \in ActiveStatuses, Intent.time_in_force # "FOK"
              PROVE  available' = 0
            <4>1. rt.remaining # 0
                BY <1>2, <3>1 DEF StatusFor, ActiveStatuses
            <4>2. Qty # Runtime.remaining
                BY <1>2, <1>7, <4>1
            <4>3. Qty = available
                BY <1>1, <1>4, <3>1, <4>2 DEF Qty, FillQty
            <4>4. QED
                BY <1>1, <1>7, <4>3
        <3>2. QED
            BY <1>1, <1>6, <1>9, <3>1 DEF ServedFor, ActiveAt
    <2>4. QED
        BY <1>1, <2>2, <2>3 DEF Served
<1>28. QED
    BY <1>15, <1>16, <1>19, <1>20, <1>21, <1>22, <1>23, <1>25, <1>26, <1>27

-------------------------------------------------------------------------------
(***************************************************************************)
(* What a step adds to what the orders have executed.                      *)
(***************************************************************************)

\* What every order has executed is what it had.
Kept == /\ intents' = intents
        /\ \A n \in DOMAIN intents : Rt(n)'.intent = Rt(n).intent
                                     /\ Rt(n)'.remaining = Rt(n).remaining

\* Storing a runtime with the intent and the residual it had.
LEMMA StoreKept ==
    ASSUME intents' = intents, NEW o \in OrderIds, NEW rt,
           runtimes' = [runtimes EXCEPT ![o] = rt],
           rt.intent = runtimes[o].intent, rt.remaining = runtimes[o].remaining,
           \A n \in DOMAIN intents : intents[n].order_id \in OrderIds
    PROVE  Kept
BY DEF Kept, Rt, OrderIds

\* A step of the loop that is no fill accepts an order or leaves what the orders
\* have executed alone.
LEMMA QuietKeeps ==
    ASSUME UniqueIds, IInv, Streamed,
           QuietStep \/ RejectFill \/ RejectSnapshot \/ Finish \/ UNCHANGED vars
    PROVE  \/ Kept
           \/ \E i \in Intents : AcceptOrder(i)
<1>1. Filing /\ \A n \in DOMAIN intents : intents[n].order_id \in OrderIds
    BY OrderFacts DEF Streamed
<1>2. CASE ExpireOrder
    <2>1. intents' = intents /\ Intent.order_id \in OrderIds
        BY <1>1, <1>2, ExpireEffect
    <2>2. PICK rt : /\ runtimes' = [runtimes EXCEPT ![Intent.order_id] = rt]
                    /\ rt.intent = Runtime.intent /\ rt.remaining = Runtime.remaining
        BY <1>1, <1>2, ExpireEffect
    <2>3. Kept
        BY <1>1, <2>1, <2>2, StoreKept DEF Runtime
    <2>4. QED
        BY <2>3
<1>3. CASE CancelResidual
    <2>1. intents' = intents /\ touched[cursor] \in OrderIds
        BY <1>1, <1>3, CancelEffect
    <2>2. PICK rt : /\ runtimes' = [runtimes EXCEPT ![touched[cursor]] = rt]
                    /\ rt.intent = TouchedRuntime.intent /\ rt.remaining = TouchedRuntime.remaining
        BY <1>1, <1>3, CancelEffect
    <2>3. Kept
        BY <1>1, <2>1, <2>2, StoreKept DEF TouchedRuntime
    <2>4. QED
        BY <2>3
<1>4. CASE PassOver \/ MissOrder \/ RejectFill
    <2>1. TouchOrder /\ intents' = intents
        BY <1>1, <1>4, OfferEffect
    <2>2. PICK rt : /\ runtimes' = [runtimes EXCEPT ![Intent.order_id] = rt]
                    /\ rt.intent = Intent /\ rt.remaining = Runtime.remaining
        BY <1>1, <1>4, OfferEffect
    <2>3. /\ Intent.order_id \in OrderIds /\ Runtime = runtimes[Intent.order_id]
          /\ Runtime.intent = Intent
        BY <1>1, <2>1, TouchFacts
    <2>4. Kept
        BY <1>1, <2>1, <2>2, <2>3, StoreKept
    <2>5. QED
        BY <2>4
<1>5. CASE StartReplay \/ (\E e \in Events : ReceiveEvent(e)) \/ KeepOrder \/ StartMatching
           \/ SkipOrder \/ StartCanceling \/ LeaveResting \/ EndEvent \/ Finish \/ UNCHANGED vars
    <2>1. UNCHANGED <<intents, runtimes>>
        BY <1>5 DEF StartReplay, ReceiveEvent, KeepOrder, StartMatching, SkipOrder, StartCanceling,
                    LeaveResting, EndEvent, Finish, vars, Advance
    <2>2. QED
        BY <2>1 DEF Kept, Rt
<1>6. CASE RejectSnapshot
    <2>1. Monotone /\ \A o \in OrderIds : runtimes'[o].remaining = runtimes[o].remaining
        BY <1>6, OfferedKeeps DEF RejectSnapshot
    <2>2. Kept
        BY <1>1, <2>1 DEF Kept, Rt, Monotone
    <2>3. QED
        BY <2>2
<1>7. QED
    BY <1>2, <1>3, <1>4, <1>5, <1>6 DEF QuietStep

\* A fill reduces the residual of one order and of no other.
LEMMA FillTrades ==
    ASSUME UniqueIds, IInv, Streamed, FillOrder
    PROVE  /\ cursor \in DOMAIN intents /\ Runtime = Rt(cursor) /\ intents' = intents
           /\ \A n \in DOMAIN intents :
                 /\ Rt(n)'.intent = Rt(n).intent
                 /\ Rt(n)'.remaining = Rt(n).remaining - IF n = cursor THEN Qty ELSE 0
<1>1. intents' = intents /\ Qty \in Nat \ {0}
    BY FillBooks
<1>2. PICK rt : /\ runtimes' = [runtimes EXCEPT ![Intent.order_id] = rt]
                /\ rt.intent = Runtime.intent /\ rt.remaining = Runtime.remaining - Qty
    BY FillBooks
<1>3. /\ cursor \in DOMAIN intents /\ Intent.order_id \in OrderIds
      /\ Intent = intents[cursor] /\ Runtime = runtimes[Intent.order_id] /\ Runtime = Rt(cursor)
    BY TouchFacts DEF Streamed, FillOrder
<1>4. /\ \A n \in DOMAIN intents : /\ RuntimeInv(Rt(n)) /\ intents[n].order_id \in OrderIds
                                   /\ Rt(n).intent \in Intents
      /\ \A m, n \in DOMAIN intents : intents[m].order_id = intents[n].order_id => m = n
    BY OrderFacts DEF Streamed, Filing
<1>5. ASSUME NEW n \in DOMAIN intents
      PROVE  /\ Rt(n)'.intent = Rt(n).intent
             /\ Rt(n)'.remaining = Rt(n).remaining - IF n = cursor THEN Qty ELSE 0
    <2>1. Rt(n).remaining \in Int
        BY <1>4, IntentAssumption DEF RuntimeInv, RuntimeOK
    <2>2. Rt(n)' = runtimes'[intents[n].order_id] /\ Rt(n) = runtimes[intents[n].order_id]
        BY <1>1 DEF Rt
    <2>3. CASE n = cursor
        BY <1>2, <1>3, <2>2, <2>3 DEF OrderIds
    <2>4. CASE n # cursor
        <3>1. intents[n].order_id # Intent.order_id
            BY <1>3, <1>4, <2>4
        <3>2. Rt(n)' = Rt(n)
            BY <1>2, <2>2, <3>1
        <3>3. QED
            BY <2>1, <2>4, <3>2
    <2>5. QED
        BY <2>3, <2>4
<1>6. QED
    BY <1>1, <1>3, <1>5

-------------------------------------------------------------------------------
(***************************************************************************)
(* The invariant and what it implies.                                      *)
(***************************************************************************)

\* Nothing has happened.
LEMMA StreamedInit == Init => Streamed
<1>. SUFFICES ASSUME Init PROVE Streamed
    OBVIOUS
<1>1. /\ intents = <<>> /\ events = <<>> /\ fills = <<>> /\ touched = <<>> /\ phase = "accept"
      /\ OrderIds = {}
    BY DEF Init, OrderIds
<1>2. DOMAIN intents = {} /\ DOMAIN fills = {} /\ DOMAIN events = {} /\ fills \in Seq(FillRecords)
    BY <1>1
<1>3. Filing /\ Booking /\ FillsReconcile /\ LiquidityConserved /\ CausalFills
    BY <1>1, <1>2 DEF Filing, Booking, FillsReconcile, LiquidityConserved, CausalFills
<1>4. Touching /\ Waiting /\ Unexpired /\ AllOrNothing /\ TriggerCause /\ Missed /\ Served
    BY <1>1, <1>2 DEF Touching, Waiting, Unexpired, AllOrNothing, TriggerCause, Missed, Served
<1>5. QED
    BY <1>3, <1>4 DEF Streamed

\* Every step of a replay with distinct order ids preserves the invariant.
LEMMA StreamedStep == UniqueIds /\ IInv /\ Streamed /\ [Next]_vars => Streamed'
<1>. SUFFICES ASSUME UniqueIds, IInv, Streamed, [Next]_vars PROVE Streamed'
    OBVIOUS
<1>1. ASSUME NEW i \in Intents, AcceptOrder(i) PROVE Streamed'
    BY <1>1, AcceptStep
<1>2. ASSUME NEW e \in Events, ReceiveEvent(e) PROVE Streamed'
    BY <1>2, ReceiveStep
<1>3. QED
    BY <1>1, <1>2, StartReplayStep, KeepOrderStep, StartMatchingStep, StartCancelingStep,
       LeaveRestingStep, EndEventStep, FinishStep, StutterStep, ExpireOrderStep,
       CancelResidualStep, SkipOrderStep, PassOverStep, MissOrderStep, RejectFillStep,
       RejectSnapshotStep, FillOrderStep DEF Next, Step, QuietStep, Terminated

\* So it holds in every reachable state.
LEMMA StreamedInvariance == ASSUME UniqueIds PROVE Spec => [](IInv /\ Streamed)
<1>1. Init => IInv /\ Streamed
    BY InvariantInit, StreamedInit
<1>2. IInv /\ Streamed /\ [Next]_vars => (IInv /\ Streamed)'
    BY InvariantStep, StreamedStep
<1>3. QED
    BY <1>1, <1>2, PTL DEF Spec

\* No fill is at an event that could be known before the order was created,
\* past its expiry, or, for an IOC/FOK order, after its first chance.
THEOREM FillsAreCausal == ASSUME UniqueIds PROVE Spec => []CausalFills
<1>1. IInv /\ Streamed => CausalFills
    BY DEF Streamed
<1>2. QED
    BY <1>1, StreamedInvariance, PTL

\* Between events no IOC/FOK order that met an eligible event is active, and a
\* FOK has filled fully or not at all.
THEOREM SingleShotsResolve == ASSUME UniqueIds PROVE Spec => []SingleShotResolved
<1>1. ASSUME IInv, Streamed, phase = "idle", NEW o \in OrderIds
      PROVE  /\ SingleShot(o) /\ Active(o) =>
                   \A m \in DOMAIN events : ~Eligible(runtimes[o].intent, events[m])
             /\ runtimes[o].intent.time_in_force = "FOK" =>
                   runtimes[o].remaining \in {0, runtimes[o].intent.quantity}
    <2>1. PICK n \in DOMAIN intents : o = intents[n].order_id
        BY <1>1, OrderFacts DEF Streamed
    <2>2. runtimes[o].intent = intents[n] /\ Rt(n) = runtimes[o]
        BY <1>1, <2>1, OrderFacts DEF Streamed, Rt
    <2>3. ASSUME SingleShot(o), Active(o)
          PROVE  \A m \in DOMAIN events : ~Eligible(runtimes[o].intent, events[m])
        <3>1. ~runtimes[o].first_event_consumed
            BY <1>1, <2>3 DEF Streamed, Touching
        <3>2. WaitingFor(n) /\ Offers(n) = Len(events) /\ DOMAIN events = 1 .. Len(events)
            BY <1>1 DEF Streamed, Waiting, Offers, IInv, Scalars
        <3>3. QED
            BY <2>2, <2>3, <3>1, <3>2 DEF WaitingFor, ActiveAt, SingleShot, Active
    <2>4. QED
        BY <1>1, <2>3 DEF Streamed, AllOrNothing
<1>2. IInv /\ Streamed => SingleShotResolved
    BY <1>1 DEF SingleShotResolved
<1>3. QED
    BY <1>2, StreamedInvariance, PTL

\* A stop triggers only because an eligible event reached its level, and only
\* an event that was used up can have reached an active stop without
\* triggering it.
THEOREM StopsTriggerExactly == ASSUME UniqueIds PROVE Spec => []StopTriggerExact
<1>1. ASSUME IInv, Streamed, phase = "idle", NEW o \in OrderIds,
             Active(o), ~runtimes[o].stop_triggered, NEW m \in DOMAIN events, Reached(o, m)
      PROVE  TradedAt(m) = Liquidity(events[m])
    <2>1. PICK n \in DOMAIN intents : o = intents[n].order_id
        BY <1>1, OrderFacts DEF Streamed
    <2>2. MissedFor(n) /\ Offers(n) = Len(events) /\ DOMAIN events = 1 .. Len(events)
        BY <1>1 DEF Streamed, Missed, Offers, IInv, Scalars
    <2>3. QED
        BY <1>1, <2>1, <2>2 DEF MissedFor, ActiveAt, Active, Rt
<1>2. IInv /\ Streamed => StopTriggerExact
    BY <1>1 DEF StopTriggerExact, Streamed, TriggerCause
<1>3. QED
    BY <1>2, StreamedInvariance, PTL

\* After an event, an active order other than a FOK that could still trade at
\* it means that its liquidity is used up.
THEOREM NothingLeftOver == ASSUME UniqueIds PROVE Spec => []WorkConserving
<1>1. ASSUME IInv, Streamed, phase = "idle", events # <<>>, NEW o \in OrderIds,
             Active(o), runtimes[o].intent.time_in_force # "FOK",
             Eligible(runtimes[o].intent, Event), Marketable(runtimes[o], Event)
      PROVE  available = 0
    <2>1. PICK n \in DOMAIN intents : o = intents[n].order_id
        BY <1>1, OrderFacts DEF Streamed
    <2>2. runtimes[o].intent = intents[n] /\ Rt(n) = runtimes[o]
        BY <1>1, <2>1, OrderFacts DEF Streamed, Rt
    <2>3. ServedFor(n) /\ Offers(n) = Len(events)
        BY <1>1 DEF Streamed, Served, Offers
    <2>4. QED
        BY <1>1, <2>2, <2>3 DEF ServedFor, ActiveAt, Active
<1>2. IInv /\ Streamed => WorkConserving
    BY <1>1 DEF WorkConserving
<1>3. QED
    BY <1>2, StreamedInvariance, PTL

\* Whoever trades, every order ahead of it in the sequence that still wants to
\* trade at the event is a FOK too large for what is left.
THEOREM SequenceDecides == ASSUME UniqueIds PROVE Spec => SequencePriority
<1>1. ASSUME IInv, Streamed, [Next]_vars, fills' # fills,
             NEW n \in 1 .. cursor - 1,
             runtimes[intents[n].order_id].status \in ActiveStatuses,
             Eligible(intents[n], Event), Marketable(runtimes[intents[n].order_id], Event)
      PROVE  runtimes[intents[n].order_id].intent.time_in_force = "FOK"
    <2>1. FillOrder \/ RejectSnapshot
        BY <1>1 DEF Next, Step, QuietStep, Terminated, AcceptOrder, StartReplay, ReceiveEvent,
               ExpireOrder, KeepOrder, StartMatching, SkipOrder, PassOver, MissOrder, RejectFill,
               StartCanceling, CancelResidual, LeaveResting, EndEvent, Finish, vars
    <2>2. phase = "match" /\ cursor \in DOMAIN intents /\ available > 0 /\ events # <<>>
        BY <1>1, <2>1, TouchFacts DEF Streamed, FillOrder, RejectSnapshot
    <2>3. n \in DOMAIN intents /\ n < cursor
        BY <1>1, <2>2 DEF IInv, Scalars
    <2>4. Offers(n) = Len(events) /\ ServedFor(n)
        BY <1>1, <2>2, <2>3 DEF Offers, Streamed, Served, IInv, Scalars
    <2>5. Rt(n).intent = intents[n] /\ available # 0
        BY <1>1, <2>2, <2>3, OrderFacts DEF Streamed, IInv, Scalars
    <2>6. QED
        BY <1>1, <2>4, <2>5 DEF ServedFor, ActiveAt, Rt
<1>2. ASSUME IInv /\ Streamed, [Next]_vars
      PROVE  [fills' # fills =>
                \A n \in 1 .. cursor - 1 :
                    LET rt == runtimes[intents[n].order_id] IN
                    /\ rt.status \in ActiveStatuses
                    /\ Eligible(intents[n], Event)
                    /\ Marketable(rt, Event)
                    => rt.intent.time_in_force = "FOK"]_vars
    BY <1>1, <1>2
<1>3. QED
    BY <1>2, StreamedInvariance, PTL DEF Spec, SequencePriority
==============================================================================
