----------------------------- MODULE StagedPublish -----------------------------
(***************************************************************************)
(* run_worker of the two adapters (adapters/{nautilus,vectorbt}/worker.py) *)
(* and launch_worker (runner.py), which runs it in a process of its own    *)
(* with a timeout.  A worker fills a new staging directory file by file,   *)
(* each file through a temporary one (integrity/atomic.py), binds them in  *)
(* a manifest (integrity/manifest.py) and renames the directory to its     *)
(* final name.  Several launches, concurrent or later reruns, may name     *)
(* the same output directory; the file system is all they share.           *)
(*                                                                         *)
(* A directory is a function from the names of its entries to what they    *)
(* hold: the launch that wrote them, or the entries a manifest declares.   *)
(* Names of temporary files are random, hence of their worker alone: the   *)
(* worker's job stands for its temporary's name.  rename(2) replaces no    *)
(* directory that has entries, and rmtree can remove what its own worker   *)
(* created.  Durability against power loss is not modelled: the code syncs *)
(* files, not directories.                                                 *)
(***************************************************************************)
EXTENDS Integers, Sequences

CONSTANTS
    Jobs,      \* the launches that name the output directory
    Stamps,    \* readings of time_ns(), each a name of a staging directory
    Files,     \* the names of the files a run produces, in order
    Manifest,  \* "manifest.json"
    Output,    \* the name of the output directory
    None

FileNames == {Files[k] : k \in DOMAIN Files}

ASSUME NameAssumption ==
    /\ Files \in Seq(FileNames) /\ Files # <<>>
    /\ \A k, l \in DOMAIN Files : Files[k] = Files[l] => k = l
    /\ Manifest \notin FileNames \cup Jobs /\ FileNames \cap Jobs = {}
    /\ Output \notin Stamps /\ None \notin Jobs

VARIABLES
    pc,       \* where each worker is
    staging,  \* its staging directory
    written,  \* how many of its files it has committed, the manifest included
    entries,  \* the entries of the manifest it has built, or None
    dirs,     \* the directories there are: name -> contents
    outcome   \* what each launch_worker call has returned or raised

vars == <<pc, staging, written, entries, dirs, outcome>>

Exited == {"done", "failed", "killed"}

\* The directory (or file system) d with entry n holding c; without entry n.
With(d, n, c) == [m \in DOMAIN d \cup {n} |-> IF m = n THEN c ELSE d[m]]
Without(d, n) == [m \in DOMAIN d \ {n} |-> d[m]]

Exists(p) == p \in DOMAIN dirs

Init == /\ pc = [j \in Jobs |-> "verify"]
        /\ staging = [j \in Jobs |-> None]
        /\ written = [j \in Jobs |-> 0]
        /\ entries = [j \in Jobs |-> None]
        /\ dirs = <<>>
        /\ outcome = [j \in Jobs |-> "pending"]

Goto(j, label) == pc' = [pc EXCEPT ![j] = label]

------------------------------------------------------------------------------
\* The checks before anything is created: the input manifest verifies, and the
\* output directory is new.  Failing one ends the worker with exit status 1.
VerifyInput(j) ==
    /\ pc[j] = "verify"
    /\ Goto(j, "look") \/ Goto(j, "failed")
    /\ UNCHANGED <<staging, written, entries, dirs, outcome>>

CheckOutput(j) ==
    /\ pc[j] = "look"
    /\ Goto(j, IF Exists(Output) THEN "failed" ELSE "stage")
    /\ UNCHANGED <<staging, written, entries, dirs, outcome>>

\* Mutant of MakeStaging: an existing directory is used.
MakeStagingShared(j, s) ==
    /\ pc[j] = "stage"
    /\ dirs' = IF Exists(s) THEN dirs ELSE With(dirs, s, <<>>)
    /\ staging' = [staging EXCEPT ![j] = s]
    /\ Goto(j, "execute")
    /\ UNCHANGED <<written, entries, outcome>>

\* staging.mkdir(exist_ok=False).
MakeStaging(j, s) ==
    /\ pc[j] = "stage" /\ ~Exists(s)
    /\ dirs' = With(dirs, s, <<>>)
    /\ staging' = [staging EXCEPT ![j] = s]
    /\ Goto(j, "execute")
    /\ UNCHANGED <<written, entries, outcome>>

\* The clock reads the same as for another worker's staging directory.
StagingTaken(j, s) ==
    /\ pc[j] = "stage" /\ Exists(s)
    /\ Goto(j, "failed")
    /\ UNCHANGED <<staging, written, entries, dirs, outcome>>

------------------------------------------------------------------------------
Contents(j) == dirs[staging[j]]

\* The directory's contents become c.
Fill(j, c) == dirs' = With(dirs, staging[j], c)

Execute(j) ==
    /\ pc[j] = "execute"
    /\ Goto(j, "write")
    /\ UNCHANGED <<staging, written, entries, dirs, outcome>>

\* build_manifest: every file of the staging directory.
BuildManifest(j) ==
    /\ pc[j] = "write" /\ written[j] = Len(Files) /\ Exists(staging[j])
    /\ entries' = [entries EXCEPT ![j] = Without(Contents(j), Manifest)]
    /\ Goto(j, "seal")
    /\ UNCHANGED <<staging, written, dirs, outcome>>

\* atomic_write_bytes creates the parent directory if need be, then writes and
\* syncs a temporary file.
OpenTemp(j) ==
    /\ \/ pc[j] = "write" /\ written[j] < Len(Files)
       \/ pc[j] = "seal"
    /\ Fill(j, With(IF Exists(staging[j]) THEN Contents(j) ELSE <<>>, j, j))
    /\ Goto(j, "commit")
    /\ UNCHANGED <<staging, written, entries, outcome>>

\* What the temporary file becomes, and holds.
Target(j) == IF written[j] < Len(Files) THEN Files[written[j] + 1] ELSE Manifest
Payload(j) == IF written[j] < Len(Files) THEN j ELSE entries[j]

\* Mutant of CommitFile: the manifest is followed by more files.
CommitFileAgain(j) ==
    /\ pc[j] = "commit" /\ Exists(staging[j])
    /\ Fill(j, With(Without(Contents(j), j), Target(j), Payload(j)))
    /\ written' = [written EXCEPT ![j] = @ + 1]
    /\ Goto(j, IF written[j] < Len(Files) THEN "write" ELSE "seal")
    /\ UNCHANGED <<staging, entries, outcome>>

\* tmp_path.replace(path).
CommitFile(j) ==
    /\ pc[j] = "commit" /\ Exists(staging[j])
    /\ Fill(j, With(Without(Contents(j), j), Target(j), Payload(j)))
    /\ written' = [written EXCEPT ![j] = @ + 1]
    /\ Goto(j, IF written[j] < Len(Files) THEN "write" ELSE "publish")
    /\ UNCHANGED <<staging, entries, outcome>>

\* Mutant of Publish: an output that is already there is replaced.
PublishOver(j) ==
    /\ pc[j] = "publish" /\ Exists(staging[j])
    /\ dirs' = With(Without(dirs, staging[j]), Output, Contents(j))
    /\ Goto(j, "done")
    /\ UNCHANGED <<staging, written, entries, outcome>>

\* staging.replace(output_dir); the worker then exits with status 0.
Publish(j) ==
    /\ pc[j] = "publish" /\ Exists(staging[j]) /\ ~Exists(Output)
    /\ dirs' = With(Without(dirs, staging[j]), Output, Contents(j))
    /\ Goto(j, "done")
    /\ UNCHANGED <<staging, written, entries, outcome>>

\* Another worker published first: rename fails.
PublishBlocked(j) ==
    /\ pc[j] = "publish" /\ Exists(Output)
    /\ Goto(j, "clean")
    /\ UNCHANGED <<staging, written, entries, dirs, outcome>>

\* Mutant of WorkFails: an error is not caught.
WorkFailsUncaught(j) ==
    /\ pc[j] \in {"execute", "write", "seal", "commit"}
    /\ Goto(j, "failed")
    /\ UNCHANGED <<staging, written, entries, dirs, outcome>>

\* The run, or a write of one of its files, raises: atomic_write_bytes unlinks
\* its temporary file on the way out.
WorkFails(j) ==
    /\ pc[j] \in {"execute", "write", "seal", "commit"}
    /\ IF Exists(staging[j]) THEN Fill(j, Without(Contents(j), j)) ELSE UNCHANGED dirs
    /\ Goto(j, "clean")
    /\ UNCHANGED <<staging, written, entries, outcome>>

\* shutil.rmtree(staging): one entry at a time, then the directory.
RemoveEntry(j) ==
    /\ pc[j] = "clean" /\ Exists(staging[j])
    /\ \E n \in DOMAIN Contents(j) : Fill(j, Without(Contents(j), n))
    /\ UNCHANGED <<pc, staging, written, entries, outcome>>

RemoveStaging(j) ==
    /\ pc[j] = "clean"
    /\ Exists(staging[j]) => DOMAIN Contents(j) = {}
    /\ dirs' = Without(dirs, staging[j])
    /\ Goto(j, "failed")
    /\ UNCHANGED <<staging, written, entries, outcome>>

------------------------------------------------------------------------------
\* The worker dies at any point, with no chance to clean up.
Die(j) ==
    /\ pc[j] \notin Exited
    /\ Goto(j, "killed")
    /\ UNCHANGED <<staging, written, entries, dirs, outcome>>

\* Mutant of Result: the launcher does not look at the exit status.
ResultUnchecked == [done |-> {"ok"}, failed |-> {"ok"}, killed |-> {"ok"}]

\* What the exit status of a worker can say, which may still be killed on its
\* way out: 0 or a signal's, 1 or a signal's.
Result == [done |-> {"ok", "killed"}, failed |-> {"failed", "killed"}, killed |-> {"killed"}]

\* subprocess.run returns: launch_worker raises unless the exit status is 0.
Collect(j) ==
    /\ pc[j] \in Exited /\ outcome[j] = "pending"
    /\ \E result \in Result[pc[j]] : outcome' = [outcome EXCEPT ![j] = result]
    /\ UNCHANGED <<pc, staging, written, entries, dirs>>

\* The timeout of subprocess.run expires: it kills the worker, which may just
\* have exited, and raises TimeoutExpired either way.
TimeOut(j) ==
    /\ outcome[j] = "pending"
    /\ outcome' = [outcome EXCEPT ![j] = "timeout"]
    /\ Goto(j, IF pc[j] \in Exited THEN pc[j] ELSE "killed")
    /\ UNCHANGED <<staging, written, entries, dirs>>

Terminated == (\A j \in Jobs : outcome[j] # "pending") /\ UNCHANGED vars

WorkerStep(j) == \/ VerifyInput(j) \/ CheckOutput(j)
                 \/ \E s \in Stamps : MakeStaging(j, s) \/ StagingTaken(j, s)
                 \/ Execute(j) \/ OpenTemp(j) \/ CommitFile(j) \/ BuildManifest(j)
                 \/ Publish(j) \/ PublishBlocked(j)
                 \/ WorkFails(j) \/ RemoveEntry(j) \/ RemoveStaging(j)

Next == \/ \E j \in Jobs : WorkerStep(j) \/ Die(j) \/ Collect(j) \/ TimeOut(j)
        \/ Terminated

Spec == Init /\ [][Next]_vars

------------------------------------------------------------------------------
Names == FileNames \cup {Manifest} \cup Jobs

Working == {"execute", "write", "seal", "commit", "publish", "clean"}

\* Every worker has a place, a staging directory from the moment it makes one,
\* and has committed at most its files and the manifest.
TypeInvariant ==
    /\ pc \in [Jobs -> {"verify", "look", "stage"} \cup Working \cup Exited]
    /\ staging \in [Jobs -> Stamps \cup {None}]
    /\ \A j \in Jobs : pc[j] \in Working => staging[j] \in Stamps
    /\ written \in [Jobs -> 0 .. Len(Files) + 1]
    /\ DOMAIN dirs \subseteq Stamps \cup {Output}
    /\ \A p \in DOMAIN dirs : DOMAIN dirs[p] \subseteq Names
    /\ outcome \in [Jobs -> {"pending", "ok", "failed", "killed", "timeout"}]

\* The directory a run of job j leaves when nothing goes wrong.
Complete(j) == [n \in FileNames \cup {Manifest} |->
                    IF n = Manifest THEN [m \in FileNames |-> j] ELSE j]

Published(j) == Exists(Output) /\ dirs[Output] = Complete(j)

\* Whenever the output directory is there it is one worker's whole run: every
\* file, no temporary, and a manifest that verifies, whoever else was writing,
\* failing or being killed meanwhile.
PublishedComplete ==
    Exists(Output) => \E j \in Jobs : dirs[Output] = Complete(j)

\* "Reruns cannot overwrite an existing directory": once there, the output
\* directory never changes.
PublishedForever ==
    [][Exists(Output) => Exists(Output)' /\ dirs'[Output] = dirs[Output]]_vars

\* launch_worker returns only if its own worker's output is the one that is
\* there, and a worker that exits with status 1 has published nothing.
OutcomeTruthful ==
    \A j \in Jobs : /\ outcome[j] = "ok" => Published(j)
                    /\ outcome[j] = "failed" => ~Published(j)

\* "Any exception removes staging": a staging directory belongs to a worker that
\* is still at work on it or was killed.
StagingOwned ==
    \A s \in Stamps : Exists(s) =>
        \E j \in Jobs : staging[j] = s /\ pc[j] \in Working \cup {"killed"}

------------------------------------------------------------------------------
\* The launch whose output is there.
Publisher == IF Exists(Output) THEN CHOOSE j \in Jobs : Published(j) ELSE None

Atomic == INSTANCE AtomicOutput WITH published <- Publisher

\* However launches interleave, fail and are killed, they do no more than
\* AtomicOutput allows.
ImplementsAtomicOutput == Atomic!Spec
==============================================================================
