-------------------------- MODULE StagedPublish_proofs --------------------------
(***************************************************************************)
(* For any number of launches, staging names and files, launching workers  *)
(* implements AtomicOutput, and every property the runs check holds.       *)
(*                                                                         *)
(* The invariant says what each working worker's staging directory holds   *)
(* at each of its steps, and that no two of them work in the same one.     *)
(***************************************************************************)
EXTENDS StagedPublish, TLAPS

Committed(n) == {Files[k] : k \in 1 .. n}

PartialRun(j, n) == [m \in Committed(n) |-> j]

Declared(j) == [m \in FileNames |-> j]

\* What worker j has in its staging directory.
StageOK(j) ==
    /\ pc[j] \in {"verify", "look", "stage", "execute"} => written[j] = 0
    /\ pc[j] \in Working => staging[j] \in Stamps /\ Exists(staging[j])
    /\ pc[j] = "execute" => Contents(j) = PartialRun(j, 0)
    /\ pc[j] = "write" => /\ written[j] <= Len(Files)
                          /\ Contents(j) = PartialRun(j, written[j])
    /\ pc[j] = "seal" => /\ written[j] = Len(Files)
                         /\ Contents(j) = PartialRun(j, written[j])
                         /\ entries[j] = Declared(j)
    /\ pc[j] = "commit" => /\ written[j] <= Len(Files)
                           /\ Contents(j) = With(PartialRun(j, written[j]), j, j)
                           /\ written[j] = Len(Files) => entries[j] = Declared(j)
    /\ pc[j] = "publish" => Contents(j) = Complete(j)

Exclusive == \A i, j \in Jobs :
    i # j /\ pc[i] \in Working /\ pc[j] \in Working => staging[i] # staging[j]

OutputOK == /\ \A j \in Jobs : pc[j] = "done" => Published(j)
            /\ Exists(Output) => \E j \in Jobs : pc[j] = "done"

OutcomeOK == \A j \in Jobs : outcome[j] # "pending" =>
    /\ pc[j] \in Exited
    /\ outcome[j] = "ok" => pc[j] = "done"
    /\ outcome[j] = "failed" => pc[j] = "failed"

Typed == /\ pc \in [Jobs -> {"verify", "look", "stage"} \cup Working \cup Exited]
         /\ staging \in [Jobs -> Stamps \cup {None}]
         /\ written \in [Jobs -> 0 .. Len(Files) + 1]
         /\ entries = [j \in Jobs |-> entries[j]]
         /\ outcome \in [Jobs -> {"pending", "ok", "failed", "killed", "timeout"}]
         /\ DOMAIN dirs \subseteq Stamps \cup {Output}
         /\ \A p \in DOMAIN dirs : DOMAIN dirs[p] \subseteq Names

Inv == /\ Typed
       /\ \A j \in Jobs : StageOK(j)
       /\ Exclusive
       /\ OutputOK
       /\ OutcomeOK
       /\ StagingOwned

------------------------------------------------------------------------------
\* The files are named like no temporary and unlike the manifest.
LEMMA NameFacts ==
    /\ Len(Files) \in Nat \ {0}
    /\ FileNames = Committed(Len(Files)) /\ FileNames # {}
    /\ \A n \in Nat : n <= Len(Files) => Committed(n) \subseteq FileNames
    /\ \A n \in Nat : n < Len(Files) =>
            /\ Committed(n + 1) = Committed(n) \cup {Files[n + 1]}
            /\ Files[n + 1] \in FileNames
    /\ Manifest \notin FileNames \cup Jobs /\ FileNames \cap Jobs = {}
<1>1. Len(Files) \in Nat \ {0} /\ DOMAIN Files = 1 .. Len(Files)
    BY NameAssumption
<1>2. FileNames = Committed(Len(Files)) /\ FileNames # {}
    BY <1>1 DEF FileNames, Committed
<1>3. ASSUME NEW n \in Nat, n < Len(Files)
      PROVE  /\ Committed(n + 1) = Committed(n) \cup {Files[n + 1]}
             /\ Files[n + 1] \in FileNames
    <2>1. 1 .. n + 1 = (1 .. n) \cup {n + 1}
        OBVIOUS
    <2>2. n + 1 \in DOMAIN Files
        BY <1>1, <1>3
    <2>3. QED
        BY <2>1, <2>2 DEF Committed, FileNames
<1>4. ASSUME NEW n \in Nat, n <= Len(Files)
      PROVE  Committed(n) \subseteq FileNames
    BY <1>1, <1>4 DEF Committed, FileNames
<1>5. QED
    BY <1>1, <1>2, <1>3, <1>4, NameAssumption

\* Committing the next file extends the run by that file.
LEMMA CommitExtends ==
    ASSUME NEW j \in Jobs, NEW n \in Nat, n < Len(Files)
    PROVE  With(Without(With(PartialRun(j, n), j, j), j), Files[n + 1], j)
                = PartialRun(j, n + 1)
BY NameFacts DEF With, Without, PartialRun

\* Committing the manifest completes it.
LEMMA CommitCompletes ==
    ASSUME NEW j \in Jobs
    PROVE  With(Without(With(PartialRun(j, Len(Files)), j, j), j), Manifest, Declared(j))
                = Complete(j)
BY NameFacts DEF With, Without, PartialRun, Declared, Complete

\* A manifest built once every file is committed declares them all.
LEMMA ManifestDeclares ==
    ASSUME NEW j \in Jobs
    PROVE  Without(PartialRun(j, Len(Files)), Manifest) = Declared(j)
BY NameFacts DEF Without, PartialRun, Declared

\* Two workers never leave the same run.
LEMMA CompleteDiffers ==
    ASSUME NEW i \in Jobs, NEW j \in Jobs, Complete(i) = Complete(j)
    PROVE  i = j
<1>1. PICK m \in FileNames : m # Manifest
    BY NameFacts
<1>2. Complete(i)[m] = i /\ Complete(j)[m] = j
    BY <1>1 DEF Complete
<1>3. QED
    BY <1>2

------------------------------------------------------------------------------
\* A step of worker j, or its death, that changes at most what its own staging
\* directory holds.
Within(j) ==
    /\ \A i \in Jobs \ {j} : /\ pc'[i] = pc[i]
                             /\ written'[i] = written[i]
                             /\ entries'[i] = entries[i]
    /\ staging' = staging /\ outcome' = outcome
    /\ DOMAIN dirs' = DOMAIN dirs
    /\ \A p \in DOMAIN dirs : dirs'[p] # dirs[p] => pc[j] \in Working /\ p = staging[j]
    /\ pc[j] \notin Exited /\ pc'[j] # "done"
    /\ pc[j] \in Working => pc'[j] \in Working \cup {"killed"}
    /\ pc'[j] \in Working => pc[j] \in Working
    /\ StageOK(j)'
    /\ Typed'

\* What another worker has is its own.
LEMMA Frame ==
    ASSUME NEW i \in Jobs, StageOK(i),
           pc'[i] = pc[i], staging'[i] = staging[i],
           written'[i] = written[i], entries'[i] = entries[i],
           pc[i] \in Working => Exists(staging[i])' /\ dirs'[staging[i]] = dirs[staging[i]]
    PROVE  StageOK(i)'
BY DEF StageOK, Working, Exists, Contents

LEMMA WithinKeeps ==
    ASSUME Inv, NEW j \in Jobs, Within(j)
    PROVE  Inv'
<1> USE DEF Within
<1>1. \A i \in Jobs : StageOK(i)'
    <2>1. ASSUME NEW i \in Jobs, i # j
          PROVE  StageOK(i)'
        <3>1. pc[i] \in Working =>
                Exists(staging[i])' /\ dirs'[staging[i]] = dirs[staging[i]]
            BY <2>1 DEF Inv, StageOK, Exclusive, Exists
        <3>2. QED
            BY <2>1, <3>1, Frame DEF Inv
    <2>2. QED
        BY <2>1
<1>2. Exclusive'
    BY DEF Inv, Exclusive
<1>3. OutputOK'
    <2>1. Output \in DOMAIN dirs => dirs'[Output] = dirs[Output]
        BY NameAssumption DEF Inv, StageOK
    <2>2. \A i \in Jobs : (pc[i] = "done") <=> (pc'[i] = "done")
        BY DEF Exited
    <2>3. QED
        BY <2>1, <2>2 DEF Inv, OutputOK, Published, Exists
<1>4. OutcomeOK'
    BY DEF Inv, OutcomeOK, Exited
<1>5. StagingOwned'
    <2>1. ASSUME NEW s \in Stamps, Exists(s)'
          PROVE  \E i \in Jobs : staging'[i] = s /\ pc'[i] \in Working \cup {"killed"}
        <3>1. PICK i \in Jobs : staging[i] = s /\ pc[i] \in Working \cup {"killed"}
            BY <2>1 DEF Inv, StagingOwned, Exists
        <3>2. QED
            BY <3>1 DEF Exited
    <2>2. QED
        BY <2>1 DEF StagingOwned
<1>6. QED
    BY <1>1, <1>2, <1>3, <1>4, <1>5 DEF Inv

\* Filling a working worker's staging directory leaves every other one alone.
LEMMA FillFacts ==
    ASSUME Inv, NEW j \in Jobs, pc[j] \in Working, NEW c, Fill(j, c),
           DOMAIN c \subseteq Names
    PROVE  /\ DOMAIN dirs' = DOMAIN dirs
           /\ dirs'[staging[j]] = c
           /\ \A p \in DOMAIN dirs : dirs'[p] # dirs[p] => p = staging[j]
           /\ \A p \in DOMAIN dirs' : DOMAIN dirs'[p] \subseteq Names
<1>1. staging[j] \in DOMAIN dirs
    BY DEF Inv, StageOK, Exists
<1>2. QED
    BY <1>1 DEF Fill, With, Inv, Typed

LEMMA QuietSteps ==
    ASSUME Inv, NEW j \in Jobs,
           \/ VerifyInput(j) \/ CheckOutput(j) \/ Execute(j) \/ PublishBlocked(j)
           \/ Die(j) \/ BuildManifest(j) \/ \E s \in Stamps : StagingTaken(j, s)
    PROVE  Within(j)
<1> USE DEF Exited, Working
<1>1. dirs' = dirs /\ staging' = staging /\ outcome' = outcome /\ written' = written
    BY DEF VerifyInput, CheckOutput, Execute, PublishBlocked, Die, BuildManifest,
           StagingTaken
<1>2. Typed /\ StageOK(j)
    BY DEF Inv
<1>3. CASE BuildManifest(j)
    <2>1. Without(Contents(j), Manifest) = Declared(j)
        BY <1>2, <1>3, ManifestDeclares DEF StageOK, BuildManifest
    <2>2. pc' = [pc EXCEPT ![j] = "seal"] /\ entries' = [entries EXCEPT ![j] = Declared(j)]
        BY <1>3, <2>1 DEF BuildManifest, Goto
    <2>3. Typed'
        BY <1>1, <1>2, <2>2 DEF Typed
    <2>4. StageOK(j)'
        BY <1>1, <1>2, <1>3, <2>2 DEF StageOK, Typed, BuildManifest, Exists, Contents
    <2>5. QED
        BY <1>1, <1>2, <1>3, <2>2, <2>3, <2>4 DEF Within, Typed, BuildManifest
<1>4. CASE ~BuildManifest(j)
    <2>1. entries' = entries
        BY <1>4 DEF VerifyInput, CheckOutput, Execute, PublishBlocked, Die, StagingTaken
    <2>2. PICK to : Goto(j, to) /\
              \/ pc[j] = "verify" /\ to \in {"look", "failed"}
              \/ pc[j] = "look" /\ to \in {"failed", "stage"}
              \/ pc[j] = "stage" /\ to = "failed"
              \/ pc[j] = "execute" /\ to = "write"
              \/ pc[j] = "publish" /\ to = "clean"
              \/ pc[j] \notin Exited /\ to = "killed"
        BY <1>4 DEF VerifyInput, CheckOutput, Execute, PublishBlocked, Die, StagingTaken
    <2>3. pc' = [pc EXCEPT ![j] = to]
        BY <2>2 DEF Goto
    <2>4. Typed'
        BY <1>1, <1>2, <2>1, <2>2, <2>3 DEF Typed
    <2>5. StageOK(j)'
        BY <1>1, <1>2, <2>1, <2>2, <2>3, NameFacts DEF StageOK, Typed, Exists, Contents
    <2>6. QED
        BY <1>1, <1>2, <2>1, <2>2, <2>3, <2>4, <2>5 DEF Within, Typed
<1>5. QED
    BY <1>3, <1>4

LEMMA FillSteps ==
    ASSUME Inv, NEW j \in Jobs,
           OpenTemp(j) \/ CommitFile(j) \/ WorkFails(j) \/ RemoveEntry(j)
    PROVE  Within(j)
<1> USE DEF Exited, Working
<1>1. staging' = staging /\ outcome' = outcome /\ entries' = entries
    BY DEF OpenTemp, CommitFile, WorkFails, RemoveEntry
<1>2. Typed /\ StageOK(j)
    BY DEF Inv
<1>3. pc[j] \in Working
    BY DEF OpenTemp, CommitFile, WorkFails, RemoveEntry
<1>4. Exists(staging[j]) /\ staging[j] \in Stamps /\ DOMAIN Contents(j) \subseteq Names
    BY <1>2, <1>3 DEF StageOK, Typed, Exists, Contents
<1>5. CASE OpenTemp(j)
    <2>1. Fill(j, With(Contents(j), j, j)) /\ written' = written
          /\ pc' = [pc EXCEPT ![j] = "commit"]
        BY <1>4, <1>5 DEF OpenTemp, Goto
    <2>2. DOMAIN With(Contents(j), j, j) \subseteq Names
        BY <1>4 DEF With, Names
    <2>3. /\ DOMAIN dirs' = DOMAIN dirs
          /\ dirs'[staging[j]] = With(Contents(j), j, j)
          /\ \A p \in DOMAIN dirs : dirs'[p] # dirs[p] => p = staging[j]
          /\ \A p \in DOMAIN dirs' : DOMAIN dirs'[p] \subseteq Names
        BY <1>3, <2>1, <2>2, FillFacts
    <2>4. Typed'
        BY <1>1, <1>2, <2>1, <2>3 DEF Typed
    <2>5. StageOK(j)'
        BY <1>1, <1>2, <1>4, <1>5, <2>1, <2>3, NameFacts
        DEF StageOK, Typed, Exists, Contents, OpenTemp
    <2>6. QED
        BY <1>1, <1>2, <1>3, <2>1, <2>3, <2>4, <2>5 DEF Within, Typed
<1>6. CASE CommitFile(j)
    <2> DEFINE c == With(Without(Contents(j), j), Target(j), Payload(j))
               to == IF written[j] < Len(Files) THEN "write" ELSE "publish"
    <2>1. Fill(j, c) /\ written' = [written EXCEPT ![j] = @ + 1]
          /\ pc' = [pc EXCEPT ![j] = to] /\ pc[j] = "commit"
        BY <1>6 DEF CommitFile, Goto
    <2>2. Target(j) \in Names
        BY NameFacts, <1>2 DEF Target, Names, Typed
    <2>3. DOMAIN c \subseteq Names
        BY <1>4, <2>2 DEF With, Without, Names
    <2>4. /\ DOMAIN dirs' = DOMAIN dirs
          /\ dirs'[staging[j]] = c
          /\ \A p \in DOMAIN dirs : dirs'[p] # dirs[p] => p = staging[j]
          /\ \A p \in DOMAIN dirs' : DOMAIN dirs'[p] \subseteq Names
        BY <1>3, <2>1, <2>3, FillFacts
    <2>5. written[j] \in Nat /\ written[j] <= Len(Files)
          /\ Contents(j) = With(PartialRun(j, written[j]), j, j)
          /\ (written[j] = Len(Files) => entries[j] = Declared(j))
        BY <1>2, <2>1 DEF StageOK, Typed
    <2>6. Typed'
        BY <1>1, <1>2, <2>1, <2>4, <2>5, NameFacts DEF Typed
    <2>7. c = IF written[j] < Len(Files) THEN PartialRun(j, written[j] + 1) ELSE Complete(j)
        <3>1. CASE written[j] < Len(Files)
            BY <2>5, <3>1, CommitExtends DEF Target, Payload
        <3>2. CASE written[j] = Len(Files)
            BY <2>5, <3>2, CommitCompletes, NameFacts DEF Target, Payload
        <3>3. QED
            BY <2>5, <3>1, <3>2, NameFacts
    <2>8. StageOK(j)'
        <3> HIDE DEF c
        <3>1. /\ Contents(j)' = c /\ Exists(staging[j])' /\ staging'[j] = staging[j]
              /\ written'[j] = written[j] + 1 /\ pc'[j] = to
            BY <1>1, <1>2, <1>4, <2>1, <2>4 DEF Typed, Exists, Contents
        <3>2. CASE written[j] < Len(Files)
            BY <1>4, <2>5, <2>7, <3>1, <3>2, NameFacts DEF StageOK
        <3>3. CASE ~(written[j] < Len(Files))
            BY <1>4, <2>5, <2>7, <3>1, <3>3, NameFacts DEF StageOK
        <3>4. QED
            BY <3>2, <3>3
    <2>9. QED
        BY <1>1, <1>2, <1>3, <2>1, <2>4, <2>6, <2>8 DEF Within, Typed
<1>7. CASE WorkFails(j)
    <2>1. Fill(j, Without(Contents(j), j)) /\ written' = written
          /\ pc' = [pc EXCEPT ![j] = "clean"]
        BY <1>4, <1>7 DEF WorkFails, Goto
    <2>2. DOMAIN Without(Contents(j), j) \subseteq Names
        BY <1>4 DEF Without
    <2>3. /\ DOMAIN dirs' = DOMAIN dirs
          /\ \A p \in DOMAIN dirs : dirs'[p] # dirs[p] => p = staging[j]
          /\ \A p \in DOMAIN dirs' : DOMAIN dirs'[p] \subseteq Names
        BY <1>3, <2>1, <2>2, FillFacts
    <2>4. Typed'
        BY <1>1, <1>2, <2>1, <2>3 DEF Typed
    <2>5. StageOK(j)'
        BY <1>1, <1>2, <1>4, <2>1, <2>3 DEF StageOK, Typed, Exists
    <2>6. QED
        BY <1>1, <1>2, <1>3, <2>1, <2>3, <2>4, <2>5 DEF Within, Typed
<1>8. CASE RemoveEntry(j)
    <2>1. PICK n : Fill(j, Without(Contents(j), n))
        BY <1>8 DEF RemoveEntry
    <2>2. written' = written /\ pc' = pc /\ pc[j] = "clean"
        BY <1>8 DEF RemoveEntry
    <2>3. DOMAIN Without(Contents(j), n) \subseteq Names
        BY <1>4 DEF Without
    <2>4. /\ DOMAIN dirs' = DOMAIN dirs
          /\ \A p \in DOMAIN dirs : dirs'[p] # dirs[p] => p = staging[j]
          /\ \A p \in DOMAIN dirs' : DOMAIN dirs'[p] \subseteq Names
        BY <1>3, <2>1, <2>3, FillFacts
    <2>5. Typed'
        BY <1>1, <1>2, <2>2, <2>4 DEF Typed
    <2>6. StageOK(j)'
        BY <1>1, <1>2, <1>4, <2>2, <2>4 DEF StageOK, Typed, Exists
    <2>7. QED
        BY <1>1, <1>2, <1>3, <2>2, <2>4, <2>5, <2>6 DEF Within, Typed
<1>9. QED
    BY <1>5, <1>6, <1>7, <1>8

------------------------------------------------------------------------------
\* The other steps of a worker: a staging directory appears, goes, or becomes
\* the output.
LEMMA MakeStagingKeeps ==
    ASSUME Inv, NEW j \in Jobs, NEW s \in Stamps, MakeStaging(j, s)
    PROVE  Inv'
<1> USE DEF Exited, Working
<1>1. /\ pc[j] = "stage" /\ pc' = [pc EXCEPT ![j] = "execute"]
      /\ staging' = [staging EXCEPT ![j] = s] /\ s \notin DOMAIN dirs
      /\ written' = written /\ entries' = entries /\ outcome' = outcome
    BY DEF MakeStaging, Goto, Exists
<1>2. /\ DOMAIN dirs' = DOMAIN dirs \cup {s} /\ dirs'[s] = <<>>
      /\ \A p \in DOMAIN dirs : dirs'[p] = dirs[p]
    BY <1>1 DEF MakeStaging, With
<1>3. s # Output
    BY NameAssumption
<1>4. Typed'
    BY <1>1, <1>2 DEF Inv, Typed
<1>5. \A i \in Jobs : StageOK(i)'
    <2>1. ASSUME NEW i \in Jobs, i # j
          PROVE  StageOK(i)'
        <3>1. /\ pc'[i] = pc[i] /\ staging'[i] = staging[i]
              /\ written'[i] = written[i] /\ entries'[i] = entries[i]
            BY <1>1, <2>1 DEF Inv, Typed
        <3>2. pc[i] \in Working =>
                Exists(staging[i])' /\ dirs'[staging[i]] = dirs[staging[i]]
            BY <1>2, <3>1 DEF Inv, StageOK, Exists
        <3>3. QED
            BY <3>1, <3>2, Frame DEF Inv
    <2>2. StageOK(j)'
        <3>1. PartialRun(j, 0) = <<>>
            BY DEF PartialRun, Committed
        <3>2. pc'[j] = "execute" /\ staging'[j] = s /\ written'[j] = 0
            BY <1>1 DEF Inv, Typed, StageOK
        <3>3. QED
            BY <1>2, <3>1, <3>2 DEF StageOK, Exists, Contents
    <2>3. QED
        BY <2>1, <2>2
<1>6. Exclusive'
    BY <1>1 DEF Inv, Typed, Exclusive, StageOK, Exists
<1>7. OutputOK'
    BY <1>1, <1>2, <1>3 DEF Inv, Typed, OutputOK, Published, Exists
<1>8. OutcomeOK'
    BY <1>1 DEF Inv, Typed, OutcomeOK
<1>9. StagingOwned'
    <2>1. ASSUME NEW t \in Stamps, Exists(t)'
          PROVE  \E i \in Jobs : staging'[i] = t /\ pc'[i] \in Working \cup {"killed"}
        <3>1. CASE t = s
            BY <1>1, <3>1 DEF Inv, Typed
        <3>2. CASE t # s
            <4>1. PICK i \in Jobs : staging[i] = t /\ pc[i] \in Working \cup {"killed"}
                BY <1>2, <2>1, <3>2 DEF Inv, StagingOwned, Exists
            <4>2. i # j
                BY <1>1, <4>1
            <4>3. QED
                BY <1>1, <4>1, <4>2 DEF Inv, Typed
        <3>3. QED
            BY <3>1, <3>2
    <2>2. QED
        BY <2>1 DEF StagingOwned
<1>10. QED
    BY <1>4, <1>5, <1>6, <1>7, <1>8, <1>9 DEF Inv

LEMMA RemoveStagingKeeps ==
    ASSUME Inv, NEW j \in Jobs, RemoveStaging(j)
    PROVE  /\ Inv'
           /\ Exists(Output)' = Exists(Output)
           /\ Exists(Output) => dirs'[Output] = dirs[Output]
<1> USE DEF Exited, Working
<1>1. /\ pc[j] = "clean" /\ pc' = [pc EXCEPT ![j] = "failed"]
      /\ staging' = staging /\ written' = written /\ entries' = entries
      /\ outcome' = outcome /\ staging[j] \in Stamps /\ Exists(staging[j])
    BY DEF RemoveStaging, Goto, Inv, StageOK
<1>2. /\ DOMAIN dirs' = DOMAIN dirs \ {staging[j]}
      /\ \A p \in DOMAIN dirs' : dirs'[p] = dirs[p]
    BY DEF RemoveStaging, Without
<1>3. staging[j] # Output
    BY <1>1, NameAssumption
<1>4. Typed'
    BY <1>1, <1>2 DEF Inv, Typed
<1>5. \A i \in Jobs : StageOK(i)'
    <2>1. ASSUME NEW i \in Jobs, i # j
          PROVE  StageOK(i)'
        <3>1. /\ pc'[i] = pc[i] /\ staging'[i] = staging[i]
              /\ written'[i] = written[i] /\ entries'[i] = entries[i]
            BY <1>1, <2>1 DEF Inv, Typed
        <3>2. pc[i] \in Working =>
                Exists(staging[i])' /\ dirs'[staging[i]] = dirs[staging[i]]
            BY <1>1, <1>2, <2>1, <3>1 DEF Inv, StageOK, Exclusive, Exists
        <3>3. QED
            BY <3>1, <3>2, Frame DEF Inv
    <2>2. StageOK(j)'
        BY <1>1 DEF Inv, Typed, StageOK
    <2>3. QED
        BY <2>1, <2>2
<1>6. Exclusive'
    BY <1>1 DEF Inv, Typed, Exclusive
<1>7. /\ Exists(Output)' = Exists(Output)
      /\ Exists(Output) => dirs'[Output] = dirs[Output]
    BY <1>2, <1>3 DEF Exists
<1>8. OutputOK'
    BY <1>1, <1>7 DEF Inv, Typed, OutputOK, Published
<1>9. OutcomeOK'
    BY <1>1 DEF Inv, Typed, OutcomeOK
<1>10. StagingOwned'
    BY <1>1, <1>2 DEF Inv, Typed, StagingOwned, Exists
<1>11. QED
    BY <1>4, <1>5, <1>6, <1>7, <1>8, <1>9, <1>10 DEF Inv

LEMMA PublishKeeps ==
    ASSUME Inv, NEW j \in Jobs, Publish(j)
    PROVE  Inv' /\ ~Exists(Output) /\ Published(j)' /\ outcome[j] = "pending"
<1> USE DEF Exited, Working
<1>1. /\ pc[j] = "publish" /\ pc' = [pc EXCEPT ![j] = "done"]
      /\ staging' = staging /\ written' = written /\ entries' = entries
      /\ outcome' = outcome /\ staging[j] \in Stamps /\ Exists(staging[j])
      /\ ~Exists(Output) /\ Contents(j) = Complete(j)
    BY DEF Publish, Goto, Inv, StageOK
<1>2. /\ DOMAIN dirs' = (DOMAIN dirs \ {staging[j]}) \cup {Output}
      /\ dirs'[Output] = Contents(j)
      /\ \A p \in DOMAIN dirs : p # staging[j] => p \in DOMAIN dirs' /\ dirs'[p] = dirs[p]
    BY <1>1 DEF Publish, With, Without, Exists
<1>3. staging[j] # Output
    BY <1>1, NameAssumption
<1>4. Typed'
    BY <1>1, <1>2 DEF Inv, Typed, Contents, Exists
<1>5. \A i \in Jobs : StageOK(i)'
    <2>1. ASSUME NEW i \in Jobs, i # j
          PROVE  StageOK(i)'
        <3>1. /\ pc'[i] = pc[i] /\ staging'[i] = staging[i]
              /\ written'[i] = written[i] /\ entries'[i] = entries[i]
            BY <1>1, <2>1 DEF Inv, Typed
        <3>2. pc[i] \in Working =>
                Exists(staging[i])' /\ dirs'[staging[i]] = dirs[staging[i]]
            BY <1>1, <1>2, <2>1, <3>1 DEF Inv, StageOK, Exclusive, Exists
        <3>3. QED
            BY <3>1, <3>2, Frame DEF Inv
    <2>2. StageOK(j)'
        BY <1>1 DEF Inv, Typed, StageOK
    <2>3. QED
        BY <2>1, <2>2
<1>6. Exclusive'
    BY <1>1 DEF Inv, Typed, Exclusive
<1>7. Published(j)' /\ OutputOK'
    <2>1. \A i \in Jobs : pc[i] # "done"
        BY <1>1 DEF Inv, OutputOK, Published
    <2>2. Published(j)'
        BY <1>1, <1>2 DEF Published, Exists
    <2>3. QED
        BY <1>1, <2>1, <2>2 DEF Inv, Typed, OutputOK
<1>8. OutcomeOK' /\ outcome[j] = "pending"
    BY <1>1 DEF Inv, Typed, OutcomeOK
<1>9. StagingOwned'
    BY <1>1, <1>2, <1>3, NameAssumption DEF Inv, Typed, StagingOwned, Exists
<1>10. QED
    BY <1>1, <1>4, <1>5, <1>6, <1>7, <1>8, <1>9 DEF Inv

\* A launcher's step changes no directory.
LEMMA ReturnKeeps ==
    ASSUME Inv, NEW j \in Jobs, Collect(j) \/ TimeOut(j)
    PROVE  /\ Inv' /\ dirs' = dirs /\ outcome[j] = "pending"
           /\ \E result \in {"ok", "failed", "killed", "timeout"} :
                /\ outcome' = [outcome EXCEPT ![j] = result]
                /\ result = "ok" => pc[j] = "done"
                /\ result = "failed" => pc[j] = "failed"
<1> USE DEF Exited, Working
<1>1. /\ dirs' = dirs /\ staging' = staging /\ written' = written /\ entries' = entries
      /\ outcome[j] = "pending"
    BY DEF Collect, TimeOut
<1>2. PICK to : /\ pc' = [pc EXCEPT ![j] = to]
                /\ to = IF pc[j] \in Exited THEN pc[j] ELSE "killed"
    BY DEF Collect, TimeOut, Goto, Inv, Typed
<1>3. PICK result \in {"ok", "failed", "killed", "timeout"} :
        /\ outcome' = [outcome EXCEPT ![j] = result]
        /\ result = "ok" => pc[j] = "done"
        /\ result = "failed" => pc[j] = "failed"
    BY DEF Collect, TimeOut, Result
<1>4. Typed'
    BY <1>1, <1>2, <1>3 DEF Inv, Typed
<1>5. \A i \in Jobs : StageOK(i)'
    BY <1>1, <1>2, <1>3 DEF Inv, Typed, StageOK, Exists, Contents
<1>6. Exclusive'
    BY <1>1, <1>2 DEF Inv, Typed, Exclusive
<1>7. OutputOK'
    <2>1. \A i \in Jobs : (pc[i] = "done") <=> (pc'[i] = "done")
        BY <1>2 DEF Inv, Typed
    <2>2. QED
        BY <1>1, <2>1 DEF Inv, OutputOK, Published, Exists
<1>8. OutcomeOK'
    BY <1>1, <1>2, <1>3 DEF Inv, Typed, OutcomeOK
<1>9. StagingOwned'
    BY <1>1, <1>2 DEF Inv, Typed, StagingOwned, Exists
<1>10. QED
    BY <1>1, <1>3, <1>4, <1>5, <1>6, <1>7, <1>8, <1>9 DEF Inv

------------------------------------------------------------------------------
LEMMA InitInv == Init => Inv
<1> SUFFICES ASSUME Init
             PROVE  Inv
    OBVIOUS
<1> USE DEF Init, Exited, Working
<1>1. Typed
    BY NameFacts DEF Typed
<1>2. (\A j \in Jobs : StageOK(j)) /\ Exclusive
    BY DEF StageOK, Exclusive
<1>3. OutputOK /\ OutcomeOK /\ StagingOwned
    BY DEF OutputOK, Exists, OutcomeOK, StagingOwned
<1>4. QED
    BY <1>1, <1>2, <1>3 DEF Inv

\* Every step is one of five kinds.
LEMMA StepKinds ==
    ASSUME Inv, [Next]_vars
    PROVE  \/ UNCHANGED vars
           \/ \E j \in Jobs : \/ Within(j)
                              \/ \E s \in Stamps : MakeStaging(j, s)
                              \/ RemoveStaging(j)
                              \/ Publish(j)
                              \/ Collect(j) \/ TimeOut(j)
BY QuietSteps, FillSteps DEF Next, WorkerStep, Terminated

LEMMA UnchangedKeeps ==
    ASSUME Inv, UNCHANGED vars
    PROVE  Inv'
<1> USE DEF vars
<1>1. Typed' /\ Exclusive' /\ OutcomeOK'
    BY DEF Inv, Typed, Exclusive, OutcomeOK
<1>2. \A j \in Jobs : StageOK(j)'
    BY DEF Inv, StageOK, Exists, Contents
<1>3. OutputOK' /\ StagingOwned'
    BY DEF Inv, OutputOK, StagingOwned, Published, Exists
<1>4. QED
    BY <1>1, <1>2, <1>3 DEF Inv

LEMMA StepInv == Inv /\ [Next]_vars => Inv'
BY StepKinds, WithinKeeps, MakeStagingKeeps, RemoveStagingKeeps, PublishKeeps,
   ReturnKeeps, UnchangedKeeps

\* For every number of launches: workers, launchers and directories stay within
\* their types.
THEOREM TypeCorrect == Spec => []TypeInvariant
<1>1. Inv => TypeInvariant
    BY DEF Inv, Typed, StageOK, TypeInvariant
<1>2. QED
    BY <1>1, InitInv, StepInv, PTL DEF Spec

\* Whatever else the other launches are doing, an output directory that is
\* there holds one worker's whole run: this is what writing to a staging
\* directory, binding it in a manifest and renaming it are for.
THEOREM PublicationComplete == Spec => []PublishedComplete
<1>1. Inv => PublishedComplete
    BY DEF Inv, OutputOK, Published, PublishedComplete
<1>2. QED
    BY <1>1, InitInv, StepInv, PTL DEF Spec

\* Only a killed worker leaves a staging directory behind.
THEOREM StagingAlwaysOwned == Spec => []StagingOwned
<1>1. Inv => StagingOwned
    BY DEF Inv
<1>2. QED
    BY <1>1, InitInv, StepInv, PTL DEF Spec

\* A launch that returns has its own run published; one whose worker exits with
\* status 1 does not.
THEOREM OutcomesTruthful == Spec => []OutcomeTruthful
<1>1. ASSUME Inv, NEW j \in Jobs
      PROVE  /\ outcome[j] = "ok" => Published(j)
             /\ outcome[j] = "failed" => ~Published(j)
    <2>1. ASSUME outcome[j] = "ok"
          PROVE  Published(j)
        BY <1>1, <2>1 DEF Inv, OutcomeOK, OutputOK
    <2>2. ASSUME outcome[j] = "failed", Published(j)
          PROVE  FALSE
        <3>1. PICK i \in Jobs : pc[i] = "done" /\ Published(i)
            BY <1>1, <2>2 DEF Inv, OutputOK, Published
        <3>2. i = j
            BY <2>2, <3>1, CompleteDiffers DEF Published
        <3>3. QED
            BY <1>1, <2>2, <3>1, <3>2 DEF Inv, OutcomeOK
    <2>3. QED
        BY <2>1, <2>2
<1>2. Inv => OutcomeTruthful
    BY <1>1 DEF OutcomeTruthful
<1>3. QED
    BY <1>2, InitInv, StepInv, PTL DEF Spec

------------------------------------------------------------------------------
\* Only publishing changes the output directory.
OutputSame == /\ Exists(Output)' = Exists(Output)
              /\ Exists(Output) => dirs'[Output] = dirs[Output]

LEMMA OutputKept ==
    ASSUME Inv, NEW j \in Jobs,
           \/ Within(j) \/ RemoveStaging(j) \/ Collect(j) \/ TimeOut(j)
           \/ \E s \in Stamps : MakeStaging(j, s)
    PROVE  OutputSame
<1>1. CASE Within(j)
    <2>1. pc[j] \in Working => staging[j] # Output
        BY NameAssumption DEF Inv, StageOK
    <2>2. QED
        BY <1>1, <2>1 DEF Within, Exists, OutputSame
<1>2. CASE \E s \in Stamps : MakeStaging(j, s)
    BY <1>2, NameAssumption DEF MakeStaging, With, Exists, OutputSame
<1>3. CASE Collect(j) \/ TimeOut(j)
    BY <1>3 DEF Collect, TimeOut, Exists, OutputSame
<1>4. CASE RemoveStaging(j)
    BY <1>4, RemoveStagingKeeps DEF OutputSame
<1>5. QED
    BY <1>1, <1>2, <1>3, <1>4

\* "Reruns cannot overwrite an existing directory", nor can anything else.
THEOREM PublicationForever == Spec => PublishedForever
<1>1. Inv /\ [Next]_vars =>
        [Exists(Output) => Exists(Output)' /\ dirs'[Output] = dirs[Output]]_vars
    BY StepKinds, OutputKept, PublishKeeps DEF OutputSame
<1>2. QED
    BY <1>1, InitInv, StepInv, PTL DEF Spec, PublishedForever

\* The launch whose run is there is the one that published it.
LEMMA PublisherFacts ==
    /\ ~Exists(Output) => Publisher = None
    /\ \A j \in Jobs : Published(j) => Publisher = j
<1>1. ASSUME NEW j \in Jobs, Published(j)
      PROVE  Publisher = j
    <2>1. \A i \in Jobs : Published(i) => i = j
        BY <1>1, CompleteDiffers DEF Published
    <2>2. QED
        BY <1>1, <2>1 DEF Publisher, Published
<1>2. QED
    BY <1>1 DEF Publisher

\* A step that leaves the output directory alone leaves its publisher alone.
LEMMA PublisherKept ==
    ASSUME Inv, OutputSame
    PROVE  Publisher' = Publisher
<1>1. CASE ~Exists(Output)
    BY <1>1 DEF Publisher, OutputSame
<1>2. CASE Exists(Output)
    <2>1. PICK j \in Jobs : Published(j)
        BY <1>2 DEF Inv, OutputOK
    <2>2. Published(j)' /\ \A i \in Jobs : Published(i)' => i = j
        BY <1>2, <2>1, CompleteDiffers DEF Published, OutputSame
    <2>3. Publisher' = j
        BY <2>2 DEF Publisher, Published
    <2>4. QED
        BY <2>1, <2>3, PublisherFacts
<1>3. QED
    BY <1>1, <1>2

\* The detailed specification implements the abstract one.
THEOREM Implements == Spec => ImplementsAtomicOutput
<1>1. Init => Atomic!Init
    BY DEF Init, Atomic!Init, Publisher, Exists
<1>2. ASSUME Inv, [Next]_vars
      PROVE  [Atomic!Next]_(Atomic!vars)
    <2>1. ASSUME NEW j \in Jobs, Publish(j)
          PROVE  Atomic!Publish(j)
        <3>1. ~Exists(Output) /\ Published(j)' /\ outcome[j] = "pending"
            BY <1>2, <2>1, PublishKeeps
        <3>2. \A i \in Jobs : Published(i)' => i = j
            BY <3>1, CompleteDiffers DEF Published
        <3>3. Publisher' = j
            BY <3>1, <3>2 DEF Publisher, Published
        <3>4. Publisher = None
            BY <3>1, PublisherFacts
        <3>5. outcome' = outcome
            BY <2>1 DEF Publish
        <3>6. QED
            BY <3>1, <3>3, <3>4, <3>5 DEF Atomic!Publish
    <2>2. ASSUME NEW j \in Jobs, Collect(j) \/ TimeOut(j)
          PROVE  \E result \in Atomic!Outcomes : Atomic!Return(j, result)
        <3>1. PICK result \in {"ok", "failed", "killed", "timeout"} :
                /\ outcome' = [outcome EXCEPT ![j] = result]
                /\ result = "ok" => pc[j] = "done"
                /\ result = "failed" => pc[j] = "failed"
            BY <1>2, <2>2, ReturnKeeps
        <3>2. Publisher' = Publisher
            BY <1>2, <2>2, OutputKept, PublisherKept
        <3>3. result = "ok" => Publisher = j
            BY <1>2, <3>1, PublisherFacts DEF Inv, OutputOK
        <3>4. result = "failed" => Publisher # j
            <4>1. SUFFICES ASSUME result = "failed", Publisher = j
                           PROVE  FALSE
                OBVIOUS
            <4>2. Exists(Output)
                BY <4>1, PublisherFacts, NameAssumption
            <4>3. PICK i \in Jobs : pc[i] = "done" /\ Published(i)
                BY <1>2, <4>2 DEF Inv, OutputOK
            <4>4. i = j
                BY <4>1, <4>3, PublisherFacts
            <4>5. QED
                BY <3>1, <4>1, <4>3, <4>4
        <3>5. outcome[j] = "pending"
            BY <2>2 DEF Collect, TimeOut
        <3>6. QED
            BY <3>1, <3>2, <3>3, <3>4, <3>5 DEF Atomic!Return, Atomic!Outcomes
    <2>3. CASE UNCHANGED vars
        BY <1>2, <2>3, PublisherKept DEF vars, Exists, OutputSame, Atomic!vars
    <2>4. ASSUME NEW j \in Jobs,
                 Within(j) \/ RemoveStaging(j) \/ \E s \in Stamps : MakeStaging(j, s)
          PROVE  UNCHANGED Atomic!vars
        <3>1. outcome' = outcome
            BY <2>4 DEF Within, RemoveStaging, MakeStaging
        <3>2. Publisher' = Publisher
            BY <1>2, <2>4, OutputKept, PublisherKept
        <3>3. QED
            BY <3>1, <3>2 DEF Atomic!vars
    <2>5. QED
        BY <1>2, <2>1, <2>2, <2>3, <2>4, StepKinds DEF Atomic!Next
<1>3. QED
    BY <1>1, <1>2, InitInv, StepInv, PTL DEF Spec, ImplementsAtomicOutput, Atomic!Spec


==============================================================================
