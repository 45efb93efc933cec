--------------------------- MODULE GoldenComparison ---------------------------
(***************************************************************************)
(* compare_golden_cases (adapters/nautilus/golden.py), the command tec     *)
(* adapter nautilus compare-golden: each selected case is prepared as an   *)
(* input of its own in a temporary directory and run by a fresh worker,    *)
(* whose output goes to a staging directory; a summary and a manifest join *)
(* the outputs, and the whole is renamed to the directory asked for.       *)
(*                                                                         *)
(* The worker is a process of its own with a timeout (runner.py); what it  *)
(* does inside is the business of StagedPublish, and here it publishes its *)
(* output or not, and ends or not.  Another command may produce the same   *)
(* output directory meanwhile, and the comparison may be killed anywhere,  *)
(* which leaves its worker running.                                        *)
(***************************************************************************)
EXTENDS Integers, Sequences

CONSTANTS
    Selected,  \* the selected cases, in order
    Findings,  \* what the discrepancies.json of a worker may come to
    Summary,   \* "summary.json"
    Manifest,  \* "manifest.json"
    Partial,   \* the staging directory of a worker
    Other,     \* what another command published
    None

VARIABLES
    pc,
    worker,     \* the state of the worker process of the current case
    summaries,  \* what was read from the outputs so far, case by case
    staging,    \* the staging directory: name -> contents, None if there is none
    temp,       \* whether the temporary directory is there
    output,     \* the output directory: None, Other, or what this command published
    status      \* how the command ended

vars == <<pc, worker, summaries, staging, temp, output, status>>

Case == Selected[Len(summaries) + 1]

\* The directory d with entry n holding c; without entry n.
With(d, n, c) == [m \in DOMAIN d \cup {n} |-> IF m = n THEN c ELSE d[m]]
Without(d, n) == [m \in DOMAIN d \ {n} |-> d[m]]

Init == /\ pc = "look" /\ worker = None /\ summaries = <<>>
        /\ staging = None /\ temp = FALSE
        /\ output = None /\ status = None

------------------------------------------------------------------------------
(* The command, up to its last step.                                       *)

\* Nothing was created yet: the output is there, a path does not resolve, or
\* the clock names a staging directory that is taken.
Decline ==
    /\ pc = "look"
    /\ pc' = "ended" /\ status' = "failed"
    /\ UNCHANGED <<worker, summaries, staging, temp, output>>

MakeStaging ==
    /\ pc = "look" /\ output = None
    /\ staging' = <<>> /\ temp' = TRUE /\ pc' = "prepare"
    /\ UNCHANGED <<worker, summaries, output, status>>

\* _case_request and the input's manifest, then launch_worker.
Launch ==
    /\ pc = "prepare" /\ Len(summaries) < Len(Selected)
    /\ worker' = "running" /\ pc' = "wait"
    /\ UNCHANGED <<summaries, staging, temp, output, status>>

\* launch_worker returns, and what the worker wrote is read.
Summarise ==
    /\ pc = "wait" /\ worker = "succeeded"
    /\ summaries' = Append(summaries, [case |-> Case, finding |-> staging[Case]])
    /\ worker' = None /\ pc' = "prepare"
    /\ UNCHANGED <<staging, temp, output, status>>

\* The temporary directory is left and the summary written,
WriteSummary ==
    /\ pc = "prepare" /\ Len(summaries) = Len(Selected)
    /\ temp' = FALSE
    /\ staging' = With(staging, Summary, summaries)
    /\ pc' = "seal"
    /\ UNCHANGED <<worker, summaries, output, status>>

\* Mutant of Declared: the manifest is built before the summary is written.
DeclaredEarly == DOMAIN staging \ {Summary}

\* What build_manifest finds in the staging directory.
Declared == DOMAIN staging

\* then the manifest.
WriteManifest ==
    /\ pc = "seal"
    /\ staging' = With(staging, Manifest, Declared)
    /\ pc' = "publish"
    /\ UNCHANGED <<worker, summaries, temp, output, status>>

\* Mutant of Publish: what is there is replaced.
PublishOver ==
    /\ pc = "publish"
    /\ output' = staging /\ staging' = None /\ pc' = "return"
    /\ UNCHANGED <<worker, summaries, temp, status>>

\* rename(2) replaces no directory that has entries.
Publish ==
    /\ pc = "publish" /\ output = None
    /\ output' = staging /\ staging' = None /\ pc' = "return"
    /\ UNCHANGED <<worker, summaries, temp, status>>

\* The summary is shown; its "ok" is true, for no worker classifies a
\* difference as unresolved (NautilusAdapter).
Return ==
    /\ pc = "return"
    /\ pc' = "ended" /\ status' = "ok"
    /\ UNCHANGED <<worker, summaries, staging, temp, output>>

------------------------------------------------------------------------------
(* What can go wrong.                                                      *)

\* The with statement and the except clause give back what was created.
Abandon ==
    /\ temp' = FALSE /\ staging' = None
    /\ pc' = "ended" /\ status' = "failed" /\ worker' = None
    /\ UNCHANGED <<summaries, output>>

\* A case that cannot be prepared, an output of a worker that cannot be read,
\* an error of the file system, or an output directory that has appeared.
Fail == /\ \/ pc \in {"prepare", "seal", "publish"}
           \/ pc = "wait" /\ worker = "succeeded"
        /\ Abandon

\* launch_worker raises: the worker ended with another status than 0.
WorkerFailed == pc = "wait" /\ worker = "failed" /\ Abandon

\* Mutant of TimeOut: the worker is waited for.
TimeOutNever == FALSE /\ UNCHANGED vars

\* launch_worker's timeout kills the worker and raises TimeoutExpired, which
\* leaves the command as a traceback: no clause of cli/main.py names it.
TimeOut == pc = "wait" /\ worker \in {"running", "published"} /\ Abandon

Step == \/ Decline \/ MakeStaging \/ Launch \/ Summarise
        \/ WriteSummary \/ WriteManifest \/ Publish \/ Return
        \/ Fail \/ WorkerFailed \/ TimeOut

------------------------------------------------------------------------------
(* The worker, the other command and the operating system.                 *)

\* The worker fills a staging directory next to its output, inside of ours,
WorkerStages ==
    /\ worker = "running" /\ Partial \notin DOMAIN staging
    /\ staging' = With(staging, Partial, None)
    /\ UNCHANGED <<pc, worker, summaries, temp, output, status>>

\* and renames it.
WorkerPublishes ==
    /\ worker = "running" /\ Partial \in DOMAIN staging
    /\ \E f \in Findings : staging' = With(Without(staging, Partial), Case, f)
    /\ worker' = "published"
    /\ UNCHANGED <<pc, summaries, temp, output, status>>

\* It fails, and removes its staging directory unless it crashed; or it ends.
WorkerEnds ==
    \/ /\ worker = "published"
       /\ worker' = "succeeded"
       /\ UNCHANGED <<pc, summaries, staging, temp, output, status>>
    \/ /\ worker = "running"
       /\ worker' = "failed" /\ staging' \in {staging, Without(staging, Partial)}
       /\ UNCHANGED <<pc, summaries, temp, output, status>>

OtherPublishes ==
    /\ output = None
    /\ output' = Other
    /\ UNCHANGED <<pc, worker, summaries, staging, temp, status>>

\* The command is killed; a worker of its goes on.
Die == /\ pc # "ended"
       /\ pc' = "ended" /\ status' = "killed"
       /\ UNCHANGED <<worker, summaries, staging, temp, output>>

Next == Step \/ WorkerStages \/ WorkerPublishes \/ WorkerEnds \/ OtherPublishes \/ Die

Spec == Init /\ [][Next]_vars

\* The command runs by itself, and its timeout is enforced by its own process;
\* nothing is assumed of a worker.
FairSpec == Spec /\ WF_vars(Step)

------------------------------------------------------------------------------
(* Properties.                                                             *)

Published == output \notin {None, Other}

Cases == { Selected[n] : n \in DOMAIN Selected }

\* What is published is whole and of one piece: the output of every selected
\* case, a summary that reports in their order what these very outputs say, and
\* a manifest of exactly what is there.  Otherwise nothing is left, neither a
\* directory nor a worker, unless the command was killed (golden.py:93-149).
ComparisonWhole ==
    /\ Published =>
           /\ DOMAIN output = Cases \cup {Summary, Manifest}
           /\ output[Manifest] = DOMAIN output \ {Manifest}
           /\ output[Summary] = [n \in DOMAIN Selected |->
                  [case |-> Selected[n], finding |-> output[Selected[n]]]]
    /\ status \in {"ok", "failed"} => staging = None /\ ~temp /\ worker = None

\* Whatever its workers do, the comparison ends: a worker that hangs is killed
\* by the timeout of launch_worker (runner.py:44).
ComparisonEnds == <>(pc = "ended")

\* The comparison promises of its directory what one worker promises of its own.
Directory == INSTANCE AtomicOutput WITH
    Jobs <- {"comparison", "other"},
    published <- IF output = None THEN None
                 ELSE IF Published THEN "comparison" ELSE "other",
    outcome <- [comparison |-> IF status = None THEN "pending" ELSE status,
                other |-> "pending"]

\* It appears once, all at once and for good, and the command that reports
\* success has published it while one that reports a failure has not.
ComparisonAtomic == Directory!Spec
==============================================================================
