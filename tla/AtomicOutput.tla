------------------------------ MODULE AtomicOutput ------------------------------
(***************************************************************************)
(* What launching workers towards one output directory promises: the       *)
(* directory appears at most once, all at once and for good, and a launch  *)
(* that reports success or a refusal tells the truth about it.  A launch   *)
(* whose worker was killed, or that timed out, promises nothing.           *)
(*                                                                         *)
(* This is the abstract specification that StagedPublish implements.       *)
(***************************************************************************)
CONSTANTS Jobs,  \* the launches
          None

VARIABLES published,  \* the launch whose output is there, or None
          outcome     \* launch -> what it has reported so far

vars == <<published, outcome>>

Outcomes == {"ok", "failed", "killed", "timeout"}

Init == published = None /\ outcome = [j \in Jobs |-> "pending"]

Publish(j) == /\ published = None /\ outcome[j] = "pending"
              /\ published' = j
              /\ UNCHANGED outcome

Return(j, result) == /\ outcome[j] = "pending"
                     /\ result = "ok" => published = j
                     /\ result = "failed" => published # j
                     /\ outcome' = [outcome EXCEPT ![j] = result]
                     /\ UNCHANGED published

Next == \E j \in Jobs : Publish(j) \/ \E result \in Outcomes : Return(j, result)

Spec == Init /\ [][Next]_vars

==============================================================================
