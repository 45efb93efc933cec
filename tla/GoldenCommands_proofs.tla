------------------------- MODULE GoldenCommands_proofs -------------------------
(***************************************************************************)
(* For any directory of cases, any selection of cases and any findings:    *)
(* the verdict of tec golden run is truthful, and the directory of a       *)
(* comparison is whole and appears as AtomicOutput says.                   *)
(*                                                                         *)
(* The invariant of the run says what the results so far stand for; that   *)
(* of the comparison what the staging directory holds at each of its       *)
(* steps, whatever the worker of the current case does.                    *)
(***************************************************************************)
EXTENDS GoldenCommands, TLAPS

CaseOK(c) ==
    /\ c.replay \notin {Refused, Uncaught} => IsList(c.replay.fills)
    /\ c.expected # Null /\ c.expected.fills \notin {None, Malformed} => IsList(c.expected.fills)

FilesOK == files # None =>
    /\ Len(files) \in Nat /\ DOMAIN files = 1 .. Len(files)
    /\ \A n \in DOMAIN files : CaseOK(files[n])

\* No case so far has raised, and its result says whether it matched.
ResultsOK ==
    /\ results \in Seq(BOOLEAN)
    /\ files = None => results = <<>>
    /\ files # None =>
           /\ Len(results) <= Len(files)
           /\ \A n \in 1 .. Len(results) :
                  ~Cases!Raises(files[n]) /\ (results[n] <=> Cases!Ok(files[n]))

RunInv == FilesOK /\ ResultsOK /\ VerdictTruthful

\* A case that raises does not do what it declares; any other is ok exactly
\* when it does.
LEMMA Judged ==
    ASSUME NEW c, CaseOK(c)
    PROVE  /\ Cases!Raises(c) => ~Cases!Sound(c)
           /\ ~Cases!Raises(c) => (Cases!Ok(c) <=> Cases!Sound(c))
<1>1. CASE c.file # "object"
    BY <1>1 DEF Cases!Raises, Cases!Ok, Cases!Sound
<1>2. CASE c.file = "object" /\ (c.expect_error \/ c.replay \in {Refused, Uncaught})
    BY <1>2, CasesAssumption
       DEF Cases!Raises, Cases!Unreadable, Cases!Ok, Cases!Sound, Cases!Replayed
<1>3. CASE c.file = "object" /\ ~c.expect_error /\ c.replay \notin {Refused, Uncaught}
    <2> DEFINE want == c.expected.fills
               actual == c.replay.fills
    <2>1. CASE c.expected = Null \/ want = Malformed
        BY <1>3, <2>1, CasesAssumption DEF Cases!Raises, Cases!Unreadable, Cases!Sound, Cases!Replayed
    <2>2. CASE c.expected # Null /\ want = None
        BY <1>3, <2>2, CasesAssumption
           DEF Cases!Raises, Cases!Unreadable, Cases!Ok, Cases!Matches, Cases!Sound, Cases!Replayed
    <2>3. CASE c.expected # Null /\ want \notin {None, Malformed}
        <3>1. want = actual <=>
                  Len(want) = Len(actual) /\ \A i \in DOMAIN actual : want[i] = actual[i]
            <4>1. /\ want = [i \in 1 .. Len(want) |-> want[i]]
                  /\ actual = [i \in 1 .. Len(actual) |-> actual[i]]
                BY <1>3, <2>3 DEF CaseOK, IsList
            <4>2. DOMAIN want = 1 .. Len(want) /\ DOMAIN actual = 1 .. Len(actual)
                BY <4>1
            <4> HIDE DEF want, actual
            <4>3. ASSUME Len(want) = Len(actual), \A i \in DOMAIN actual : want[i] = actual[i]
                  PROVE  want = actual
                BY <4>1, <4>2, <4>3
            <4>4. QED
                BY <4>3
        <3>2. Cases!Ok(c) <=> Cases!Matches(c)
            BY <1>3, <2>3 DEF Cases!Ok, Cases!Replayed
        <3>3. ~Cases!Raises(c)
            BY <1>3, <2>3 DEF Cases!Raises, Cases!Unreadable, Cases!Replayed
        <3>4. Cases!Matches(c) <=> Cases!Sound(c)
            BY <1>3, <2>3, <3>1 DEF Cases!Matches, Cases!FillsMatch, Cases!Sound
        <3>5. QED
            BY <3>2, <3>3, <3>4
    <2>4. QED
        BY <2>1, <2>2, <2>3
<1>4. QED
    BY <1>1, <1>2, <1>3

LEMMA RunInit ==
    ASSUME Init
    PROVE  RunInv
<1>1. results = <<>> /\ exit = None
    BY DEF Init, Cases!Init
<1>2. FilesOK
    <2>1. CASE files = None
        BY <2>1 DEF FilesOK
    <2>2. ASSUME NEW d \in Directories, files = d PROVE FilesOK
        BY <2>2, CasesAssumption DEF FilesOK, CaseOK, IsList
    <2>3. ASSUME NEW d \in Directories, NEW n \in DOMAIN d, files = << d[n] >> PROVE FilesOK
        BY <2>3, CasesAssumption DEF FilesOK, CaseOK
    <2>4. QED
        BY <2>1, <2>2, <2>3 DEF Init, Cases!Init
<1>3. ResultsOK
    <2>1. results \in Seq(BOOLEAN) /\ Len(results) = 0
        BY <1>1
    <2>2. QED
        BY <1>1, <1>2, <2>1 DEF ResultsOK, FilesOK
<1>4. QED
    BY <1>1, <1>2, <1>3 DEF RunInv, VerdictTruthful, Cases!VerdictTruthful

\* One more file, or the end of the command.
LEMMA RunStep ==
    ASSUME RunInv, Cases!Next
    PROVE  RunInv'
<1>1. CASE Cases!RunCase
    <2> DEFINE k == Len(results) + 1
               c == files[k]
    <2>1. /\ files # None /\ files' = files /\ exit = None /\ Len(results) < Len(files)
          /\ IF Cases!Raises(c)
             THEN exit' = 1 /\ results' = results
             ELSE results' = Append(results, Cases!Ok(c)) /\ exit' = exit
        BY <1>1 DEF Cases!RunCase
    <2>2. k \in DOMAIN files /\ CaseOK(c) /\ Len(results) \in Nat /\ Len(files) \in Nat
        BY <2>1 DEF RunInv, FilesOK, ResultsOK
    <2>3. FilesOK'
        BY <2>1 DEF RunInv, FilesOK
    <2>4. CASE Cases!Raises(c)
        <3>1. ResultsOK'
            BY <2>1, <2>4 DEF RunInv, ResultsOK
        <3>2. ~Cases!Sound(files[k])
            BY <2>2, <2>4, Judged
        <3>3. VerdictTruthful'
            BY <2>1, <2>2, <2>4, <3>2 DEF VerdictTruthful, Cases!VerdictTruthful
        <3>4. QED
            BY <2>3, <3>1, <3>3 DEF RunInv
    <2>5. CASE ~Cases!Raises(c)
        <3>1. Cases!Ok(c) \in BOOLEAN
            BY DEF Cases!Ok
        <3>2. ResultsOK'
            <4> HIDE DEF c
            <4>1. /\ results' \in Seq(BOOLEAN) /\ Len(results') = k
                  /\ \A n \in 1 .. Len(results) : results'[n] = results[n]
                  /\ results'[k] = Cases!Ok(c)
                BY <2>1, <2>5, <3>1 DEF RunInv, ResultsOK
            <4>2. \A n \in 1 .. k : n \in 1 .. Len(results) \/ n = k
                BY <2>2
            <4>3. QED
                BY <2>1, <2>2, <2>5, <4>1, <4>2 DEF RunInv, ResultsOK, c
        <3>3. VerdictTruthful'
            BY <2>1, <2>5 DEF VerdictTruthful, Cases!VerdictTruthful
        <3>4. QED
            BY <2>3, <3>2, <3>3 DEF RunInv
    <2>6. QED
        BY <2>4, <2>5
<1>2. CASE Cases!Report
    <2>1. /\ UNCHANGED <<files, results>>
          /\ files # None => Len(results) = Len(files)
          /\ exit' = IF ~Cases!NoCases /\ \A n \in DOMAIN results : results[n] THEN 0 ELSE 1
        BY <1>2 DEF Cases!Report
    <2>2. FilesOK' /\ ResultsOK'
        BY <2>1 DEF RunInv, FilesOK, ResultsOK
    <2>3. ASSUME files # None
          PROVE  \A n \in DOMAIN files : n \in DOMAIN results /\ (results[n] <=> Cases!Sound(files[n]))
        <3>1. DOMAIN results = 1 .. Len(results)
            BY DEF RunInv, ResultsOK
        <3>2. QED
            BY <2>1, <2>3, <3>1, Judged DEF RunInv, FilesOK, ResultsOK
    <2>4. ASSUME files # None PROVE DOMAIN results = DOMAIN files
        BY <2>1, <2>4 DEF RunInv, FilesOK, ResultsOK
    <2>5. exit' = 0 <=> files \notin {None, <<>>} /\ \A n \in DOMAIN files : Cases!Sound(files[n])
        BY <2>1, <2>3, <2>4 DEF Cases!NoCases
    <2>6. VerdictTruthful'
        BY <2>1, <2>5 DEF VerdictTruthful, Cases!VerdictTruthful
    <2>7. QED
        BY <2>2, <2>6 DEF RunInv
<1>3. QED
    BY <1>1, <1>2 DEF Cases!Next

\* The exit status is 0 exactly when there is a case to run and each does what
\* it declares, for any directory of any number of cases (cli/main.py:424-460).
THEOREM VerdictIsTruthful == Spec => []VerdictTruthful
<1>1. ASSUME RunInv, UNCHANGED run PROVE RunInv'
    BY <1>1 DEF run, RunInv, FilesOK, ResultsOK, VerdictTruthful, Cases!VerdictTruthful
<1>2. RunInv /\ [Next]_vars => RunInv'
    BY <1>1, RunStep DEF Next, vars
<1>3. RunInv => VerdictTruthful
    BY DEF RunInv
<1>4. QED
    BY RunInit, <1>2, <1>3, PTL DEF Spec

------------------------------------------------------------------------------
(* The comparison.                                                         *)

Done == { Selected[n] : n \in 1 .. Len(summaries) }

\* The staging directory holds what was read from the outputs so far.
Reported ==
    /\ staging = [m \in DOMAIN staging |-> staging[m]]
    /\ \A n \in 1 .. Len(summaries) :
           /\ summaries[n] = [case |-> Selected[n], finding |-> staging[Selected[n]]]
           /\ staging[Selected[n]] \in Findings

\* While a case's worker runs, its output is to come, or there already.
AwaitedOK ==
    /\ Len(summaries) < Len(Selected)
    /\ worker \in {"running", "published", "succeeded", "failed"}
    /\ worker = "running" =>
           DOMAIN staging \in {Done, Done \cup {Partial}}
    /\ worker \in {"published", "succeeded"} =>
           DOMAIN staging = Done \cup {Comparison!Case} /\ staging[Comparison!Case] \in Findings

\* What the staging directory holds at each step of the command.
StagingOK ==
    /\ pc \in {"prepare", "wait", "seal", "publish"} => Reported
    /\ pc = "prepare" => DOMAIN staging = Done
    /\ pc = "wait" => AwaitedOK
    /\ pc \in {"seal", "publish"} =>
           /\ Len(summaries) = Len(Selected)
           /\ staging[Summary] = summaries
    /\ pc = "seal" => DOMAIN staging = Done \cup {Summary}
    /\ pc = "publish" => /\ DOMAIN staging = Done \cup {Summary, Manifest}
                         /\ staging[Manifest] = Done \cup {Summary}

\* What is there of the command otherwise, and what its status stands for.
CommandOK ==
    /\ pc \in {"look", "prepare", "wait", "seal", "publish", "return", "ended"}
    /\ status \in {None, "ok", "failed", "killed"}
    /\ status = None <=> pc # "ended"
    /\ pc \notin {"wait", "ended"} => worker = None
    /\ pc = "look" => summaries = <<>>
    /\ pc \in {"look", "return"} => staging = None
    /\ pc \in {"look", "seal", "publish", "return"} => ~temp
    /\ status \in {"ok", "failed"} => staging = None /\ ~temp /\ worker = None
    /\ pc \in {"look", "prepare", "wait", "seal", "publish"} => ~Comparison!Published
    /\ pc = "return" => Comparison!Published
    /\ status = "ok" => Comparison!Published
    /\ status = "failed" => ~Comparison!Published

SummariesOK == /\ summaries \in Seq([case : Comparison!Cases, finding : Findings])
               /\ Len(summaries) <= Len(Selected)

Whole(d) == \E f \in [Comparison!Cases -> Findings] : d = Compared(f)

ComparisonInv ==
    /\ SummariesOK /\ CommandOK /\ StagingOK
    /\ Comparison!Published => Whole(output)

\* Cases are listed once, and none is named like another file.
LEMMA SelectedFacts ==
    /\ Len(Selected) \in Nat /\ DOMAIN Selected = 1 .. Len(Selected)
    /\ \A n \in 1 .. Len(Selected) :
           /\ Selected[n] \in Comparison!Cases
           /\ Selected[n] \notin {Summary, Manifest, Partial}
           /\ \A i \in 1 .. Len(Selected) : Selected[i] = Selected[n] => i = n
    /\ Comparison!Cases = { Selected[n] : n \in 1 .. Len(Selected) }
<1>1. Len(Selected) \in Nat /\ DOMAIN Selected = 1 .. Len(Selected)
    BY SelectedAssumption
<1>2. Comparison!Cases = { Selected[n] : n \in 1 .. Len(Selected) }
    BY <1>1 DEF Comparison!Cases
<1>3. QED
    BY <1>1, <1>2, SelectedAssumption

\* A complete staging directory is what is promised of the output.
LEMMA StagingWhole ==
    ASSUME SummariesOK, StagingOK, pc = "publish"
    PROVE  Whole(staging)
<1> DEFINE f == [c \in Comparison!Cases |-> staging[c]]
           found == [n \in DOMAIN Selected |-> [case |-> Selected[n], finding |-> f[Selected[n]]]]
<1>1. /\ staging = [m \in DOMAIN staging |-> staging[m]]
      /\ DOMAIN staging = Comparison!Cases \cup {Summary, Manifest}
      /\ staging[Summary] = summaries
      /\ staging[Manifest] = Comparison!Cases \cup {Summary}
    BY SelectedFacts DEF StagingOK, Reported, Done
<1>2. \A n \in DOMAIN Selected : f[Selected[n]] = staging[Selected[n]]
    BY SelectedFacts
<1>3. f \in [Comparison!Cases -> Findings]
    BY SelectedFacts DEF StagingOK, Reported
<1>4. summaries = found
    <2>1. DOMAIN summaries = DOMAIN Selected /\ summaries = [n \in DOMAIN summaries |-> summaries[n]]
        BY SelectedFacts DEF SummariesOK, StagingOK
    <2>2. \A n \in DOMAIN Selected : summaries[n] = found[n]
        BY <1>2, SelectedFacts DEF StagingOK, Reported
    <2> HIDE DEF found
    <2>3. found = [n \in DOMAIN Selected |-> found[n]]
        BY DEF found
    <2>4. QED
        BY <2>1, <2>2, <2>3
<1>5. staging = Compared(f)
    <2>1. Compared(f) = [m \in Comparison!Cases \cup {Summary, Manifest} |->
                             IF m = Summary THEN found
                             ELSE IF m = Manifest THEN Comparison!Cases \cup {Summary}
                             ELSE f[m]]
        BY DEF Compared
    <2>2. ASSUME NEW m \in Comparison!Cases \cup {Summary, Manifest}
          PROVE  staging[m] = IF m = Summary THEN found
                              ELSE IF m = Manifest THEN Comparison!Cases \cup {Summary}
                              ELSE f[m]
        BY <1>1, <1>4, SelectedAssumption
    <2> HIDE DEF found, f
    <2>3. QED
        BY <1>1, <2>1, <2>2
<1>6. QED
    BY <1>3, <1>5 DEF Whole

\* What is whole is an output of this command, and has all that is promised.
LEMMA WholeFacts ==
    ASSUME NEW d, Whole(d)
    PROVE  /\ d \notin {None, Other}
           /\ DOMAIN d = Comparison!Cases \cup {Summary, Manifest}
           /\ d[Manifest] = DOMAIN d \ {Manifest}
           /\ d[Summary] = [n \in DOMAIN Selected |->
                                [case |-> Selected[n], finding |-> d[Selected[n]]]]
<1>1. PICK f \in [Comparison!Cases -> Findings] : d = Compared(f)
    BY DEF Whole
<1>2. d \notin {None, Other}
    BY <1>1, OutputAssumption
<1>3. /\ DOMAIN d = Comparison!Cases \cup {Summary, Manifest}
      /\ d[Summary] = [n \in DOMAIN Selected |-> [case |-> Selected[n], finding |-> f[Selected[n]]]]
      /\ d[Manifest] = Comparison!Cases \cup {Summary}
      /\ \A c \in Comparison!Cases : d[c] = f[c]
    BY <1>1, SelectedAssumption DEF Compared
<1>4. \A n \in DOMAIN Selected : Selected[n] \in Comparison!Cases
    BY DEF Comparison!Cases
<1>5. QED
    BY <1>2, <1>3, <1>4, SelectedAssumption

\* What is abandoned leaves nothing.
LEMMA AbandonKeeps ==
    ASSUME ComparisonInv, Comparison!Abandon, pc \in {"prepare", "wait", "seal", "publish"}
    PROVE  ComparisonInv'
<1>1. /\ temp' = FALSE /\ staging' = None /\ worker' = None
      /\ pc' = "ended" /\ status' = "failed" /\ UNCHANGED <<summaries, output>>
    BY DEF Comparison!Abandon
<1>2. SummariesOK' /\ StagingOK'
    BY <1>1 DEF ComparisonInv, SummariesOK, StagingOK
<1>3. CommandOK' /\ (Comparison!Published' => Whole(output'))
    BY <1>1, OutputAssumption DEF ComparisonInv, CommandOK, Comparison!Published
<1>4. QED
    BY <1>1, <1>2, <1>3 DEF ComparisonInv

\* The worker changes the staging directory only while it is waited for, or
\* once the command was killed.
LEMMA WorkerKeeps ==
    ASSUME ComparisonInv,
           Comparison!WorkerStages \/ Comparison!WorkerPublishes \/ Comparison!WorkerEnds
    PROVE  ComparisonInv'
<1>1. UNCHANGED <<pc, summaries, temp, output, status>> /\ worker # None
    BY OutputAssumption
       DEF Comparison!WorkerStages, Comparison!WorkerPublishes, Comparison!WorkerEnds
<1>2. pc \in {"wait", "ended"} /\ status \notin {"ok", "failed"}
    BY <1>1 DEF ComparisonInv, CommandOK
<1>3. SummariesOK' /\ (Comparison!Published' => Whole(output'))
    BY <1>1 DEF ComparisonInv, SummariesOK, Comparison!Published
<1>4. CommandOK'
    BY <1>1, <1>2 DEF ComparisonInv, CommandOK, Comparison!Published
<1>5. StagingOK'
    <2>1. CASE pc = "ended"
        BY <1>1, <2>1 DEF StagingOK
    <2>2. CASE pc = "wait"
        <3> USE DEF Comparison!With, Comparison!Without
        <3>1. /\ Reported /\ AwaitedOK /\ Len(summaries) \in Nat /\ Done' = Done
              /\ Comparison!Case' = Comparison!Case
            BY <1>1, <2>2 DEF ComparisonInv, StagingOK, SummariesOK, Done, Comparison!Case
        <3>2. /\ Comparison!Case \notin Done \cup {Partial}
              /\ \A n \in 1 .. Len(summaries) : Selected[n] \in Done /\ Selected[n] # Partial
            BY <3>1, SelectedFacts DEF AwaitedOK, Done, Comparison!Case
        <3>3. Partial \notin Done
            BY <3>2 DEF Done
        <3>4. CASE Comparison!WorkerStages
            <4>1. /\ worker = "running" /\ worker' = worker /\ Partial \notin DOMAIN staging
                  /\ staging' = [m \in DOMAIN staging \cup {Partial} |->
                                     IF m = Partial THEN None ELSE staging[m]]
                BY <3>4 DEF Comparison!WorkerStages
            <4>2. Reported' /\ DOMAIN staging' = Done \cup {Partial}
                BY <1>1, <3>1, <3>2, <4>1 DEF Reported, AwaitedOK
            <4>3. QED
                BY <1>1, <2>2, <3>1, <4>1, <4>2 DEF StagingOK, AwaitedOK
        <3>5. CASE Comparison!WorkerPublishes
            <4>1. PICK f \in Findings :
                      staging' = [m \in (DOMAIN staging \ {Partial}) \cup {Comparison!Case} |->
                                      IF m = Comparison!Case THEN f ELSE staging[m]]
                BY <3>2, <3>5 DEF Comparison!WorkerPublishes
            <4>2. worker = "running" /\ worker' = "published"
                BY <3>5 DEF Comparison!WorkerPublishes
            <4>3. DOMAIN staging \ {Partial} = Done
                BY <3>1, <3>3, <4>2 DEF AwaitedOK
            <4>4. Reported' /\ DOMAIN staging' = Done \cup {Comparison!Case}
                  /\ staging'[Comparison!Case] \in Findings
                BY <1>1, <3>1, <3>2, <4>1, <4>3 DEF Reported
            <4>5. QED
                BY <1>1, <2>2, <3>1, <4>2, <4>4 DEF StagingOK, AwaitedOK
        <3>6. CASE Comparison!WorkerEnds
            <4>1. CASE worker = "published" /\ worker' = "succeeded" /\ staging' = staging
                BY <1>1, <2>2, <3>1, <4>1 DEF StagingOK, AwaitedOK, Reported
            <4>2. CASE /\ worker = "running" /\ worker' = "failed"
                       /\ staging' \in {staging, [m \in DOMAIN staging \ {Partial} |-> staging[m]]}
                <5>1. \A n \in 1 .. Len(summaries) : Selected[n] \in DOMAIN staging \ {Partial}
                    BY <3>1, <3>2, <4>2 DEF AwaitedOK
                <5>2. Reported'
                    BY <1>1, <3>1, <4>2, <5>1 DEF Reported
                <5>3. QED
                    BY <1>1, <2>2, <3>1, <4>2, <5>2 DEF StagingOK, AwaitedOK
            <4>3. QED
                BY <3>6, <4>1, <4>2 DEF Comparison!WorkerEnds
        <3>7. QED
            BY <3>4, <3>5, <3>6
    <2>3. QED
        BY <1>2, <2>1, <2>2
<1>6. QED
    BY <1>3, <1>4, <1>5 DEF ComparisonInv

\* Every step of the comparison preserves the invariant.
LEMMA ComparisonStep ==
    ASSUME ComparisonInv, Comparison!Next
    PROVE  ComparisonInv'
<1> USE DEF Comparison!With
<1>1. CASE Comparison!Decline \/ Comparison!OtherPublishes \/ Comparison!Die \/ Comparison!Return
    <2>1. UNCHANGED <<worker, summaries, staging, temp>>
        BY <1>1 DEF Comparison!Decline, Comparison!OtherPublishes, Comparison!Die, Comparison!Return
    <2>2. SummariesOK' /\ (Comparison!Published' => Whole(output'))
        BY <1>1, <2>1 DEF ComparisonInv, SummariesOK, Comparison!Published,
           Comparison!Decline, Comparison!OtherPublishes, Comparison!Die, Comparison!Return
    <2>3. CommandOK'
        BY <1>1, <2>1, OutputAssumption DEF ComparisonInv, CommandOK, Comparison!Published,
           Comparison!Decline, Comparison!OtherPublishes, Comparison!Die, Comparison!Return
    <2>4. pc' = "ended" \/ pc' = pc
        BY <1>1 DEF Comparison!Decline, Comparison!OtherPublishes, Comparison!Die, Comparison!Return
    <2>5. StagingOK'
        BY <2>1, <2>4 DEF ComparisonInv, StagingOK, Reported, AwaitedOK, Done, Comparison!Case
    <2>6. QED
        BY <2>2, <2>3, <2>5 DEF ComparisonInv
<1>2. CASE Comparison!MakeStaging
    <2>1. /\ pc = "look" /\ output = None /\ staging' = <<>> /\ pc' = "prepare"
          /\ UNCHANGED <<worker, summaries, output, status>> /\ summaries = <<>>
        BY <1>2 DEF Comparison!MakeStaging, ComparisonInv, CommandOK
    <2>2. Len(summaries) = 0 /\ Done = {}
        BY <2>1 DEF Done
    <2>3. SummariesOK' /\ CommandOK'
        BY <2>1, OutputAssumption DEF ComparisonInv, SummariesOK, CommandOK, Comparison!Published
    <2>4. Reported' /\ DOMAIN staging' = {} /\ Done' = {}
        BY <2>1, <2>2 DEF Reported, Done
    <2>5. StagingOK'
        BY <2>1, <2>4 DEF StagingOK
    <2>6. QED
        BY <2>1, <2>3, <2>5 DEF ComparisonInv, Comparison!Published
<1>3. CASE Comparison!Launch
    <2>1. /\ pc = "prepare" /\ Len(summaries) < Len(Selected)
          /\ worker' = "running" /\ pc' = "wait"
          /\ UNCHANGED <<summaries, staging, temp, output, status>>
        BY <1>3 DEF Comparison!Launch
    <2>2. SummariesOK' /\ CommandOK'
        BY <2>1, OutputAssumption DEF ComparisonInv, SummariesOK, CommandOK, Comparison!Published
    <2>3. StagingOK'
        BY <2>1 DEF ComparisonInv, StagingOK, Reported, AwaitedOK, Done
    <2>4. QED
        BY <2>1, <2>2, <2>3 DEF ComparisonInv, Comparison!Published
<1>4. CASE Comparison!Summarise
    <2> DEFINE k == Len(summaries) + 1
               entry == [case |-> Comparison!Case, finding |-> staging[Comparison!Case]]
    <2>1. /\ pc = "wait" /\ worker = "succeeded" /\ summaries' = Append(summaries, entry)
          /\ worker' = None /\ pc' = "prepare"
          /\ UNCHANGED <<staging, temp, output, status>>
        BY <1>4 DEF Comparison!Summarise
    <2>2. /\ Reported /\ k \in 1 .. Len(Selected) /\ Comparison!Case = Selected[k]
          /\ DOMAIN staging = Done \cup {Selected[k]} /\ staging[Selected[k]] \in Findings
        BY <2>1, SelectedFacts
           DEF ComparisonInv, StagingOK, AwaitedOK, SummariesOK, Comparison!Case
    <2>3. entry \in [case : Comparison!Cases, finding : Findings]
        BY <2>2, SelectedFacts
    <2>4. /\ summaries' \in Seq([case : Comparison!Cases, finding : Findings])
          /\ Len(summaries') = k /\ summaries'[k] = entry
          /\ \A n \in 1 .. Len(summaries) : summaries'[n] = summaries[n]
        <3> HIDE DEF entry
        <3>1. QED
            BY <2>1, <2>3 DEF ComparisonInv, SummariesOK
    <2>5. \A n \in 1 .. k : n \in 1 .. Len(summaries) \/ n = k
        BY DEF ComparisonInv, SummariesOK
    <2>6. SummariesOK' /\ CommandOK'
        BY <2>1, <2>2, <2>4, SelectedFacts
           DEF ComparisonInv, SummariesOK, CommandOK, Comparison!Published
    <2>7. Reported'
        BY <2>1, <2>2, <2>4, <2>5 DEF Reported
    <2>8. DOMAIN staging' = Done'
        <3>1. Done' = Done \cup {Selected[k]}
            BY <2>4, <2>5 DEF Done, ComparisonInv, SummariesOK
        <3>2. QED
            BY <2>1, <2>2, <3>1
    <2>9. QED
        BY <2>1, <2>6, <2>7, <2>8 DEF ComparisonInv, StagingOK, Comparison!Published
<1>5. CASE Comparison!WriteSummary
    <2>1. /\ pc = "prepare" /\ Len(summaries) = Len(Selected) /\ pc' = "seal" /\ temp' = FALSE
          /\ staging' = [m \in DOMAIN staging \cup {Summary} |->
                             IF m = Summary THEN summaries ELSE staging[m]]
          /\ UNCHANGED <<worker, summaries, output, status>>
        BY <1>5 DEF Comparison!WriteSummary
    <2>2. SummariesOK' /\ CommandOK'
        BY <2>1, OutputAssumption DEF ComparisonInv, SummariesOK, CommandOK, Comparison!Published
    <2>3. \A n \in 1 .. Len(summaries) : Selected[n] \in DOMAIN staging \ {Summary}
        BY <2>1, SelectedFacts DEF ComparisonInv, StagingOK, Done
    <2>4. Reported' /\ staging'[Summary] = summaries' /\ DOMAIN staging' = Done' \cup {Summary}
        BY <2>1, <2>3 DEF ComparisonInv, StagingOK, Reported, Done
    <2>5. StagingOK'
        BY <2>1, <2>4 DEF StagingOK
    <2>6. QED
        BY <2>1, <2>2, <2>5 DEF ComparisonInv, Comparison!Published
<1>6. CASE Comparison!WriteManifest
    <2>1. /\ pc = "seal" /\ pc' = "publish"
          /\ staging' = [m \in DOMAIN staging \cup {Manifest} |->
                             IF m = Manifest THEN DOMAIN staging ELSE staging[m]]
          /\ UNCHANGED <<worker, summaries, temp, output, status>>
        BY <1>6 DEF Comparison!WriteManifest, Comparison!Declared
    <2>2. SummariesOK' /\ CommandOK'
        BY <2>1, OutputAssumption DEF ComparisonInv, SummariesOK, CommandOK, Comparison!Published
    <2>3. /\ DOMAIN staging = Done \cup {Summary} /\ Reported
          /\ staging[Summary] = summaries /\ Len(summaries) = Len(Selected)
        BY <2>1 DEF ComparisonInv, StagingOK
    <2>4. \A n \in 1 .. Len(summaries) : Selected[n] \in DOMAIN staging \ {Manifest}
        BY <2>3, SelectedFacts DEF Done
    <2>5. Reported' /\ staging'[Summary] = summaries'
        BY <2>1, <2>3, <2>4, SelectedAssumption DEF Reported
    <2>6. DOMAIN staging' = Done' \cup {Summary, Manifest} /\ staging'[Manifest] = Done' \cup {Summary}
        BY <2>1, <2>3 DEF Done
    <2>7. StagingOK'
        BY <2>1, <2>3, <2>5, <2>6 DEF StagingOK
    <2>8. QED
        BY <2>1, <2>2, <2>7 DEF ComparisonInv, Comparison!Published
<1>7. CASE Comparison!Publish
    <2>1. /\ pc = "publish" /\ pc' = "return" /\ output' = staging /\ staging' = None
          /\ UNCHANGED <<worker, summaries, temp, status>>
        BY <1>7 DEF Comparison!Publish
    <2>2. Whole(output') /\ output' \notin {None, Other}
        BY <2>1, StagingWhole, WholeFacts DEF ComparisonInv
    <2>3. SummariesOK' /\ CommandOK'
        BY <2>1, <2>2 DEF ComparisonInv, SummariesOK, CommandOK, Comparison!Published
    <2>4. StagingOK'
        BY <2>1 DEF StagingOK
    <2>5. QED
        BY <2>2, <2>3, <2>4 DEF ComparisonInv
<1>8. CASE Comparison!Fail \/ Comparison!WorkerFailed \/ Comparison!TimeOut
    BY <1>8, AbandonKeeps DEF Comparison!Fail, Comparison!WorkerFailed, Comparison!TimeOut
<1>9. QED
    BY <1>1, <1>2, <1>3, <1>4, <1>5, <1>6, <1>7, <1>8, WorkerKeeps
       DEF Comparison!Next, Comparison!Step

LEMMA ComparisonInvariant == Spec => []ComparisonInv
<1>1. Init => ComparisonInv
    <2>1. SUFFICES ASSUME Comparison!Init PROVE ComparisonInv
        BY DEF Init
    <2>2. summaries \in Seq([case : Comparison!Cases, finding : Findings]) /\ Len(summaries) = 0
        BY <2>1 DEF Comparison!Init
    <2>3. SummariesOK
        BY <2>2, SelectedFacts DEF SummariesOK
    <2>4. CommandOK /\ StagingOK /\ ~Comparison!Published
        BY <2>1, OutputAssumption DEF Comparison!Init, CommandOK, StagingOK, Comparison!Published
    <2>5. QED
        BY <2>3, <2>4 DEF ComparisonInv
<1>2. ASSUME ComparisonInv, UNCHANGED comparison PROVE ComparisonInv'
    BY <1>2 DEF comparison, ComparisonInv, SummariesOK, CommandOK, StagingOK, Reported, AwaitedOK,
                Done, Comparison!Case, Comparison!Published
<1>3. ComparisonInv /\ [Next]_vars => ComparisonInv'
    BY <1>2, ComparisonStep DEF Next, vars
<1>4. QED
    BY <1>1, <1>3, PTL DEF Spec

\* A published comparison is whole, and nothing is left of any other, for any
\* selection of cases and any behaviour of their workers (golden.py:93-149).
THEOREM ComparisonIsWhole == Spec => []ComparisonWhole
<1>1. ComparisonInv => ComparisonWhole
    BY WholeFacts DEF ComparisonInv, CommandOK, ComparisonWhole, Comparison!ComparisonWhole
<1>2. QED
    BY <1>1, ComparisonInvariant, PTL

\* Every step of the comparison is one of AtomicOutput, or changes nothing of
\* what it sees.
LEMMA ComparisonMaps ==
    ASSUME ComparisonInv, ComparisonInv', Comparison!Next
    PROVE  [Comparison!Directory!Next]_(Comparison!Directory!vars)
<1> USE DEF Comparison!Directory!vars, Comparison!Published
<1>1. ASSUME UNCHANGED <<output, status>>
      PROVE  UNCHANGED Comparison!Directory!vars
    BY <1>1
<1>2. ASSUME UNCHANGED output, status = None, status' \in {"ok", "failed", "killed"}
      PROVE  Comparison!Directory!Next
    <2>1. /\ status' = "ok" => Comparison!Published
          /\ status' = "failed" => ~Comparison!Published
        BY <1>2 DEF ComparisonInv, CommandOK
    <2>2. Comparison!Directory!Return("comparison", status')
        BY <1>2, <2>1, OutputAssumption DEF Comparison!Directory!Return
    <2>3. QED
        BY <1>2, <2>2 DEF Comparison!Directory!Next, Comparison!Directory!Outcomes
<1>3. CASE Comparison!Publish
    <2>1. output = None /\ status = None /\ status' = None /\ Comparison!Published'
        BY <1>3 DEF Comparison!Publish, ComparisonInv, CommandOK
    <2>2. Comparison!Directory!Publish("comparison")
        BY <2>1, OutputAssumption DEF Comparison!Directory!Publish
    <2>3. QED
        BY <2>2 DEF Comparison!Directory!Next
<1>4. CASE Comparison!OtherPublishes
    <2>1. output = None /\ output' = Other /\ UNCHANGED status
        BY <1>4 DEF Comparison!OtherPublishes
    <2>2. Comparison!Directory!Publish("other")
        BY <2>1, OutputAssumption DEF Comparison!Directory!Publish
    <2>3. QED
        BY <2>2 DEF Comparison!Directory!Next
<1>5. CASE \/ Comparison!Decline \/ Comparison!Return \/ Comparison!Die
           \/ Comparison!Fail \/ Comparison!WorkerFailed \/ Comparison!TimeOut
    BY <1>2, <1>5 DEF ComparisonInv, CommandOK, Comparison!Decline, Comparison!Return,
           Comparison!Die, Comparison!Fail, Comparison!WorkerFailed, Comparison!TimeOut,
           Comparison!Abandon
<1>6. CASE \/ Comparison!MakeStaging \/ Comparison!Launch \/ Comparison!Summarise
           \/ Comparison!WriteSummary \/ Comparison!WriteManifest
           \/ Comparison!WorkerStages \/ Comparison!WorkerPublishes \/ Comparison!WorkerEnds
    BY <1>1, <1>6 DEF Comparison!MakeStaging, Comparison!Launch, Comparison!Summarise,
           Comparison!WriteSummary, Comparison!WriteManifest,
           Comparison!WorkerStages, Comparison!WorkerPublishes, Comparison!WorkerEnds
<1>7. QED
    BY <1>3, <1>4, <1>5, <1>6 DEF Comparison!Next, Comparison!Step

\* The comparison's directory appears once, all at once and for good, and the
\* command's exit status tells the truth about it: it implements AtomicOutput
\* (golden.py:89-149).
THEOREM ComparisonIsAtomic == Spec => ComparisonAtomic
<1>1. Init => Comparison!Directory!Init
    <2>1. Init => Comparison!Init
        BY DEF Init
    <2>2. Comparison!Init => Comparison!Directory!Init
        BY DEF Comparison!Init, Comparison!Directory!Init
    <2>3. QED
        BY <2>1, <2>2
<1>2. ASSUME UNCHANGED comparison PROVE UNCHANGED Comparison!Directory!vars
    BY <1>2 DEF comparison, Comparison!Directory!vars, Comparison!Published
<1>3. ComparisonInv /\ ComparisonInv' /\ [Next]_vars =>
          [Comparison!Directory!Next]_(Comparison!Directory!vars)
    BY <1>2, ComparisonMaps DEF Next, vars
<1>4. QED
    BY <1>1, <1>3, ComparisonInvariant, PTL
       DEF Spec, ComparisonAtomic, Comparison!ComparisonAtomic, Comparison!Directory!Spec
==============================================================================
