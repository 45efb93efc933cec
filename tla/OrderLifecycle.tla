---------------------------- MODULE OrderLifecycle ----------------------------
(***************************************************************************)
(* What the golden oracle promises of every order, whatever the market     *)
(* does: an order is accepted once with its full quantity open, fills only *)
(* take from what is open, it is FILLED exactly when nothing is open, and  *)
(* once terminal it never changes again.  An active order may lose its     *)
(* residual only by a fill, a cancel or an expiry.                         *)
(*                                                                         *)
(* This is the abstract specification that OrderMatching implements.       *)
(***************************************************************************)
EXTENDS Integers, OrderStatus

CONSTANTS Orders  \* the order ids

VARIABLES status,  \* order -> its status, NoStatus before it is accepted
          leaves   \* order -> quantity still open (0 before acceptance)

vars == <<status, leaves>>

Init == /\ status = [o \in Orders |-> NoStatus]
        /\ leaves = [o \in Orders |-> 0]

Move(o, to, q) == /\ status' = [status EXCEPT ![o] = to]
                  /\ leaves' = [leaves EXCEPT ![o] = q]

Active(o) == status[o] \in ActiveStatuses /\ leaves[o] > 0

Accept(o) == /\ status[o] = NoStatus
             /\ leaves'[o] \in Nat \ {0}
             /\ Move(o, "ACCEPTED", leaves'[o])

\* Part of the order trades, and a positive residual stays open.
PartialFill(o) == /\ Active(o)
                  /\ \E q \in 1 .. leaves[o] - 1 :
                        Move(o, "PARTIALLY_FILLED", leaves[o] - q)

CompleteFill(o) == Active(o) /\ Move(o, "FILLED", 0)

\* The residual is given up; what was executed stays executed.
GiveUp(o) == /\ Active(o)
             /\ \E to \in {"CANCELED", "EXPIRED"} : Move(o, to, leaves[o])

Next == \E o \in Orders :
            Accept(o) \/ PartialFill(o) \/ CompleteFill(o) \/ GiveUp(o)

Spec == Init /\ [][Next]_vars

==============================================================================
