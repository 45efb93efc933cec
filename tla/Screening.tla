------------------------------- MODULE Screening -------------------------------
(***************************************************************************)
(* The screening of a preregistered family of trials                       *)
(* (adapters/vectorbt/worker.py, _screen_trials, and ledger.py): every     *)
(* variant is replayed on its own, the valid ones go through vectorbt in   *)
(* one call, each replay is compared with what vectorbt made of it, and a  *)
(* ledger of all trials is ranked, then verified before it is published.   *)
(*                                                                         *)
(* recompute_metrics depends on nothing but its arguments: the second      *)
(* replay of a variant, after the engine's run, is the first one's result. *)
(* The engine is a library: what it returns is arbitrary.  Trial ids are   *)
(* numbers, in their alphabetical order; what a trial is called, its       *)
(* parameters and the digests of unaltered records are left out.           *)
(***************************************************************************)
EXTENDS TrialReplay

CONSTANTS
    Variants,     \* the trials a request may declare: records of trial_id and signals
    MaxVariants,  \* bound on the size of a family
    None

\* What the models' validators guarantee of a variant.
ASSUME VariantAssumption ==
    /\ MaxVariants \in Nat
    /\ \A v \in Variants :
        /\ v.trial_id \in Nat
        /\ \A s \in v.signals : /\ s.action \in {"enter_long", "exit_long"}
                                /\ {s.computed_at_ts, s.available_at_ts} \subseteq Nat
                                /\ s.computed_at_ts <= s.available_at_ts
                                /\ s.available_at_ts < s.execution_ts
        /\ \A s, t \in v.signals : s.execution_ts = t.execution_ts => s = t

VARIABLES
    variants,   \* ScreeningRequest.variants
    phase, cursor,  \* the loop running, the index of the variant it is at
    preflight,  \* trial id -> its metrics, or None for one of preflight_failures
    native,     \* trial id -> how vectorbt's value compares with them
    engine_error,
    results,    \* the TrialResults so far
    ledger      \* the trials of the ScreeningLedger, or None

family == <<variants, phase, cursor, preflight, native, engine_error, results, ledger>>
vars == <<trial, family>>

Ids == {variants[k].trial_id : k \in DOMAIN variants}
Valid == {id \in DOMAIN preflight : preflight[id] # None}
Variant == variants[cursor]

\* A request declares a family of variants with ids of their own.
Init == /\ InitTrial
        /\ \E n \in 1 .. MaxVariants : variants \in [1 .. n -> Variants]
        /\ \A k, l \in DOMAIN variants :
                variants[k].trial_id = variants[l].trial_id => k = l
        /\ phase = "preflight" /\ cursor = 1
        /\ preflight = <<>> /\ native = <<>> /\ engine_error = FALSE
        /\ results = <<>> /\ ledger = None

------------------------------------------------------------------------------
InLoop(p) == phase = p /\ cursor <= Len(variants)

\* The preflight loop: bind the signals and replay, event by event.
BeginPreflight ==
    /\ InLoop("preflight")
    /\ Start(Variant.signals) \/ RefusePlan(Variant.signals)
    /\ UNCHANGED family

Replay == ReplayStep /\ UNCHANGED family

EndPreflight ==
    /\ Release
    /\ preflight' = [id \in DOMAIN preflight \cup {Variant.trial_id} |->
                        IF id # Variant.trial_id THEN preflight[id]
                        ELSE IF stage = "ok" THEN Metrics ELSE None]
    /\ cursor' = cursor + 1
    /\ UNCHANGED <<variants, phase, native, engine_error, results, ledger>>

\* _run_vectorbt: one call for all valid trials.  It fails as a whole, or its
\* value for a trial agrees with the metrics, differs or is not a number.
RunEngine ==
    /\ phase = "preflight" /\ cursor > Len(variants)
    /\ \/ /\ native' \in [Valid -> {"agrees", "differs", "not finite"}]
          /\ UNCHANGED engine_error
       \/ /\ Valid # {}  \* no call for an empty family
          /\ engine_error' = TRUE
          /\ UNCHANGED native
    /\ phase' = "judge" /\ cursor' = 1
    /\ UNCHANGED <<trial, variants, preflight, results, ledger>>

\* Why a trial fails, in the order the reasons are looked at.
\* Mutant: parity is looked at first, and an infinite value is beyond its tolerance.
FailureParityFirst(id) ==
    IF id \notin Valid THEN "preflight"
    ELSE IF engine_error THEN "engine"
    ELSE IF native[id] # "agrees" THEN "parity mismatch"
    ELSE "none"

Failure(id) ==
    IF id \notin Valid THEN "preflight"
    ELSE IF engine_error THEN "engine"
    ELSE IF native[id] = "not finite" THEN "non-finite output"
    ELSE IF native[id] # "agrees" THEN "parity mismatch"
    ELSE "none"

Verdict(id) ==
    IF Failure(id) = "none"
    THEN [trial_id |-> id, status |-> "completed", metrics |-> preflight[id], reason |-> "none",
          rank |-> None]
    ELSE [trial_id |-> id, status |-> "failed", metrics |-> None, reason |-> Failure(id),
          rank |-> None]

Judge ==
    /\ InLoop("judge")
    /\ results' = Append(results, Verdict(Variant.trial_id))
    /\ cursor' = cursor + 1
    /\ UNCHANGED <<trial, variants, phase, preflight, native, engine_error, ledger>>

------------------------------------------------------------------------------
\* build_ledger: completed trials by descending return, then by id, and ranked;
\* failed ones after them, by id.
Completed(r) == r.metrics # None
Failed(r) == r.metrics = None

\* Mutant of Better: trials of equal return in the order they were declared in.
BetterByReturn(r, s) == r.metrics.net_profit > s.metrics.net_profit

Better(r, s) == \/ r.metrics.net_profit > s.metrics.net_profit
                \/ /\ r.metrics.net_profit = s.metrics.net_profit
                   /\ r.trial_id < s.trial_id
Lower(r, s) == r.trial_id < s.trial_id

\* The order of two results, by their indices: sorted keeps those in place
\* that its key does not tell apart.
Best == {kl \in (DOMAIN results) \X (DOMAIN results) :
            \/ Better(results[kl[1]], results[kl[2]])
            \/ ~Better(results[kl[2]], results[kl[1]]) /\ kl[1] < kl[2]}
Lowest == {kl \in (DOMAIN results) \X (DOMAIN results) :
            \/ Lower(results[kl[1]], results[kl[2]])
            \/ ~Lower(results[kl[2]], results[kl[1]]) /\ kl[1] < kl[2]}

Sorted(indices, order) ==
    CHOOSE p \in [1 .. Cardinality(indices) -> indices] :
        \A i, j \in DOMAIN p : i < j => <<p[i], p[j]>> \in order

CompletedAt == {k \in DOMAIN results : Completed(results[k])}
FailedAt == {k \in DOMAIN results : Failed(results[k])}

Ranked == LET p == Sorted(CompletedAt, Best)
          IN  [i \in DOMAIN p |-> [results[p[i]] EXCEPT !.rank = i]]
Unranked == LET p == Sorted(FailedAt, Lowest)
            IN  [i \in DOMAIN p |-> results[p[i]]]

Trials == Ranked \o Unranked

BuildLedger ==
    /\ phase = "judge" /\ cursor > Len(variants)
    /\ ledger' = Trials
    /\ phase' = "verify"
    /\ UNCHANGED <<trial, variants, cursor, preflight, native, engine_error, results>>

\* verify_ledger finds no problem: no id is missing, unexpected or twice there,
\* the length is the declared budget, and the shape of each trial is its status's.
Verified ==
    LET emitted == {ledger[k].trial_id : k \in DOMAIN ledger}
    IN  /\ emitted = Ids /\ Cardinality(emitted) = Len(ledger)
        /\ Len(ledger) = Len(variants)
        /\ \A k \in DOMAIN ledger : (ledger[k].status = "completed") = Completed(ledger[k])

VerifyLedger ==
    /\ phase = "verify"
    /\ phase' = IF Verified THEN "done" ELSE "raised"
    /\ UNCHANGED <<trial, variants, cursor, preflight, native, engine_error, results, ledger>>

Terminated == phase \in {"done", "raised"} /\ UNCHANGED vars

Next == \/ BeginPreflight \/ Replay \/ EndPreflight \/ RunEngine \/ Judge
        \/ BuildLedger \/ VerifyLedger \/ Terminated

Spec == Init /\ [][Next]_vars

------------------------------------------------------------------------------
\* The reason given for a trial is the one thing that failed it.
OwnReason(reason, id) ==
    /\ reason = "preflight" <=> id \notin Valid
    /\ reason = "engine" <=> id \in Valid /\ engine_error
    /\ reason = "non-finite output"
            <=> id \in Valid /\ ~engine_error /\ native[id] = "not finite"
    /\ reason = "parity mismatch"
            <=> id \in Valid /\ ~engine_error /\ native[id] \notin {"agrees", "not finite"}

\* "Every declared trial is emitted, including preflight and engine/parity
\* failures": whatever fails, verification accepts the ledger, and each declared
\* trial is in it once, completed unless it or the engine failed it, however many
\* others of its family fail, and with its own reason.
EveryTrialOnce ==
    ledger # None =>
        /\ phase # "raised"
        /\ \A id \in Ids : \E k \in DOMAIN ledger :
            /\ \A l \in DOMAIN ledger : ledger[l].trial_id = id <=> l = k
            /\ ledger[k].status = "completed"
                   <=> id \in Valid /\ ~engine_error /\ native[id] = "agrees"
            /\ OwnReason(ledger[k].reason, id)
        /\ Len(ledger) = Cardinality(Ids)

\* The ledger does not depend on the order the family was declared in: completed
\* trials come first, best first, equal ones and failed ones by id, which leaves
\* no choice; ranks count the completed ones, and a failure has none.
RankingCanonical ==
    ledger # None =>
        /\ \A k, l \in DOMAIN ledger : k < l =>
            LET r == ledger[k]
                s == ledger[l]
            IN  \/ r.status = "completed" /\ s.status = "failed"
                \/ r.status = "failed" /\ s.status = "failed" /\ r.trial_id < s.trial_id
                \/ /\ r.status = "completed" /\ s.status = "completed"
                   /\ \/ r.metrics.net_profit > s.metrics.net_profit
                      \/ /\ r.metrics.net_profit = s.metrics.net_profit
                         /\ r.trial_id < s.trial_id
        /\ \A k \in DOMAIN ledger :
            ledger[k].rank = IF ledger[k].status = "completed" THEN k ELSE None

\* The signals of the variant at cursor that were available before the last
\* event replayed.
Available(action) == {s \in Variant.signals : /\ s.action = action
                                              /\ row > 1
                                              /\ s.available_at_ts < Ts(row - 1)}

\* "Signals execute only at the first declared event strictly after their
\* availability timestamp", judged by the position alone: it is what the signals
\* available before the last event say, none of them early, late or lost.
PositionFollowsSignals ==
    Replaying =>
        position = OrderSize * (Cardinality(Available("enter_long"))
                                    - Cardinality(Available("exit_long")))
==============================================================================
