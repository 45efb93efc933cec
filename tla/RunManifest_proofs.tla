-------------------------- MODULE RunManifest_proofs --------------------------
(***************************************************************************)
(* For any directory, any number of changes to it and any manifest: what a *)
(* worker reads is what was declared for the path it asked for, unless the *)
(* path changed after it had been resolved to be hashed; the receipt       *)
(* accounts for what was wrong, and blames nothing that was right, all the *)
(* time; and a directory nobody touched verifies against the manifest      *)
(* built for it.                                                           *)
(*                                                                         *)
(* The first invariant, ReadInv, follows one path: while it is being hashed,   *)
(* the place it resolved to is where it leads (Resolving); once it was     *)
(* hashed and matched, it leads to what was declared (Hashed), both as     *)
(* long as it is not late; a declared link is never among the files to be  *)
(* hashed (Links); a clean receipt leaves no declared path unhashed        *)
(* (Issued).                                                               *)
(*                                                                         *)
(* The second, Evidence, keeps for all the code knows of a path a moment,  *)
(* since the manifest was loaded, at which the path looked so.             *)
(*                                                                         *)
(* The third, Untouched, says what is known while nothing was changed: the *)
(* manifest is faithful, and so is everything derived from it.             *)
(***************************************************************************)
EXTENDS RunManifest, WellFoundedInduction, FiniteSetTheorems, SequenceTheorems, TLAPS

------------------------------------------------------------------------------
(* Manifests: the digests they declare are contents.                       *)

LessThan == {ss \in Nat \X Nat : ss[1] < ss[2]}

\* Numbers have a least one.
LEMMA LeastIndex ==
    ASSUME NEW T \in SUBSET Nat, T # {}
    PROVE  \E m \in T : \A k \in T : m <= k
<1>1. IsWellFoundedOn(LessThan, Nat)
    BY NatLessThanWellFounded, Zenon DEF OpToRel, LessThan
<1>2. PICK m \in T : \A k \in T : <<k, m>> \notin LessThan
    BY <1>1, WFMin, Zenon
<1>3. \A k \in Nat : k < m => <<k, m>> \in LessThan
    BY DEF LessThan
<1>4. ASSUME NEW k \in T PROVE m <= k
    <2>1. m \in Nat /\ k \in Nat
        OBVIOUS
    <2>2. ~(k < m)
        BY <1>2, <1>3, <2>1, Zenon
    <2>3. QED
        BY <2>1, <2>2
<1>5. QED
    BY <1>4

\* What is declared of a path is the digest of one of its entries.
LEMMA DeclaredEntry ==
    ASSUME NEW entries \in Seq(Entry), NEW p \in PathsOf(entries)
    PROVE  \E i \in DOMAIN entries :
               entries[i].path = p /\ Declared(entries)[p] = entries[i].digest
<1> DEFINE T == { i \in DOMAIN entries : entries[i].path = p }
<1>1. DOMAIN entries = 1 .. Len(entries) /\ \A i \in DOMAIN entries : entries[i] \in Entry
    BY LenProperties
<1>2. T \in SUBSET Nat /\ T # {}
    BY <1>1 DEF PathsOf
<1>3. PICK m \in T : \A k \in T : m <= k
    BY <1>2, LeastIndex
<1>4. \E i \in DOMAIN entries : entries[i].path = p
          /\ \A j \in DOMAIN entries : entries[j].path = p => i <= j
    BY <1>3
<1> DEFINE first == CHOOSE i \in DOMAIN entries : entries[i].path = p
                        /\ \A j \in DOMAIN entries : entries[j].path = p => i <= j
<1>5. first \in DOMAIN entries /\ entries[first].path = p
    BY <1>4
<1>6. Declared(entries)[p] = entries[first].digest
    BY DEF Declared
<1>7. QED
    BY <1>5, <1>6

\* What is declared of a path in a manifest is a content.
LEMMA DeclaredContents ==
    ASSUME NEW entries \in Seq(Entry), NEW p \in PathsOf(entries)
    PROVE  p \in Paths /\ Declared(entries)[p] \in Contents
<1>1. PICK i \in DOMAIN entries :
          entries[i].path = p /\ Declared(entries)[p] = entries[i].digest
    BY DeclaredEntry
<1>2. entries[i] \in Entry
    BY LenProperties
<1>3. QED
    BY <1>1, <1>2 DEF Entry

\* SetToSeq lists the members of a finite set, each once.
LEMMA SequenceListsSet ==
    ASSUME NEW S, IsFiniteSet(S)
    PROVE  /\ Cardinality(S) \in Nat /\ SetToSeq(S) \in [1 .. Cardinality(S) -> S]
           /\ \A x \in S : \E i \in 1 .. Cardinality(S) : SetToSeq(S)[i] = x
           /\ \A i, j \in 1 .. Cardinality(S) : SetToSeq(S)[i] = SetToSeq(S)[j] => i = j
<1>1. Cardinality(S) \in Nat /\ ExistsBijection(1 .. Cardinality(S), S)
    BY FS_CardinalityType
<1>2. \E f \in [1 .. Cardinality(S) -> S] : IsInjective(f)
    BY <1>1 DEF ExistsBijection, Bijection, Injection
<1>3. SetToSeq(S) \in [1 .. Cardinality(S) -> S] /\ IsInjective(SetToSeq(S))
    BY <1>2 DEF SetToSeq
<1>4. SetToSeq(S) \in Injection(1 .. Cardinality(S), S)
    BY <1>3 DEF Injection
<1>5. Cardinality(1 .. Cardinality(S)) = Cardinality(S)
    BY <1>1, FS_Interval
<1>6. SetToSeq(S) \in Surjection(1 .. Cardinality(S), S)
    BY <1>4, <1>5, FS_Injection
<1>7. QED
    BY <1>1, <1>3, <1>6 DEF Surjection, IsInjective

\* A function on 1 .. n is a sequence.
LEMMA FunctionIsSeq ==
    ASSUME NEW S, NEW n \in Nat, NEW f \in [1 .. n -> S]
    PROVE  f \in Seq(S)
OBVIOUS

\* Where files, links and entries range; a link leads to a real folder; and
\* load_manifest admits portable paths only.
Typed == /\ disk \in [Places -> Nodes]
         /\ link \in [Folders -> Folders \cup {Outside}] /\ link[Root] = Root
         /\ \A f \in Folders : link[f] # Outside => link[link[f]] = link[f]
         /\ listed.safe \subseteq Paths /\ built \in Seq(Entry)
         /\ manifest # None => manifest.entries \in Seq(Entry)
         /\ loaded # None => /\ loaded.entries \in Seq(Entry)
                             /\ \A p \in PathsOf(loaded.entries) : IsPortable(p)

\* A path looks like a file, a link or nothing.
LEMMA LooksTyped ==
    ASSUME Typed, NEW p \in Paths
    PROVE  Look(p).node \in Nodes
<1>1. p[1] \in Folders /\ p[2] \in Names
    BY DEF Paths
<1>2. Place(p) \in Places
    BY <1>1 DEF Typed, Place, Places
<1>3. QED
    BY <1>2 DEF Typed, Look

\* What an open finds is a content, or nothing.
LEMMA OpenedTyped ==
    ASSUME Typed, NEW p \in Paths
    PROVE  Opened(p) \subseteq Contents \cup {Absent}
BY LooksTyped DEF Opened, Nodes

\* A path that resolves leads to a path whose open finds what the path leads to.
LEMMA OpenedPlace ==
    ASSUME Typed, NEW p \in Paths, Resolves(p)
    PROVE  /\ Place(p) \in Paths
           /\ Opened(Place(p)) = {Look(p).node}
<1>1. p[1] \in Folders /\ p[2] \in Names /\ link[p[1]] \in Folders
    BY DEF Typed, Resolves, Paths
<1>2. Place(p) \in Paths
    BY <1>1 DEF Place, Paths
<1>3. Place(Place(p)) = Place(p)
    BY <1>1, FoldersAssumption DEF Typed, Place
<1>4. Look(Place(p)).node = Look(p).node
    BY <1>3 DEF Look
<1>5. Look(p).node # Link
    BY DEF Resolves
<1>6. QED
    BY <1>2, <1>4, <1>5 DEF Opened

\* os.walk lists paths.
LEMMA ListTyped ==
    ASSUME Typed, NEW f \in Folders, List(f)
    PROVE  listed'.safe \subseteq Paths
BY DEF Typed, List, ListFolder, Paths

\* The file build_manifest opens next is one of those it listed.
LEMMA NextListed ==
    ASSUME Typed, Unbuilt
    PROVE  /\ Len(built) + 1 \in 1 .. Cardinality(listed.safe)
           /\ SetToSeq(listed.safe)[Len(built) + 1] \in listed.safe
<1>1. IsFiniteSet(Paths)
    BY FiniteAssumption, FS_Product DEF Paths
<1>2. IsFiniteSet(listed.safe)
    BY <1>1, FS_Subset DEF Typed
<1>3. /\ Cardinality(listed.safe) \in Nat
      /\ SetToSeq(listed.safe) \in [1 .. Cardinality(listed.safe) -> listed.safe]
    BY <1>2, SequenceListsSet
<1>4. Len(built) \in Nat
    BY LenProperties DEF Typed
<1>5. Len(built) + 1 \in 1 .. Cardinality(listed.safe)
    BY <1>3, <1>4 DEF Unbuilt
<1>6. QED
    BY <1>3, <1>5

\* When the building ends, nothing is left of it.
LEMMA EndTyped ==
    ASSUME EndBuild
    PROVE  built' \in Seq(Entry) /\ listed'.safe \subseteq Paths
<1>1. built' = <<>> /\ listed'.safe = {}
    BY DEF EndBuild, Unlisted
<1>2. QED
    BY <1>1, EmptySeq

\* Digesting one file adds an entry.
LEMMA DigestTyped ==
    ASSUME Typed, DigestFile
    PROVE  built' \in Seq(Entry) /\ listed'.safe \subseteq Paths
<1> DEFINE p == SetToSeq(listed.safe)[Len(built) + 1]
<1>1. p \in Paths
    BY NextListed DEF DigestFile, Typed
<1>2. PICK node \in Opened(p) :
          IF IsPortable(p) /\ node # Absent
          THEN built' = Append(built, [path |-> p, digest |-> node]) /\ UNCHANGED <<pc, listed>>
          ELSE EndBuild
    BY DEF DigestFile
<1>3. CASE IsPortable(p) /\ node # Absent
    <2>1. node \in Contents
        BY <1>1, <1>3, OpenedTyped
    <2>2. [path |-> p, digest |-> node] \in Entry
        BY <1>1, <2>1 DEF Entry
    <2>3. built' = Append(built, [path |-> p, digest |-> node]) /\ listed' = listed
        BY <1>2, <1>3
    <2>4. QED
        BY <2>2, <2>3, AppendProperties DEF Typed
<1>4. CASE ~(IsPortable(p) /\ node # Absent)
    BY <1>2, <1>4, EndTyped
<1>5. QED
    BY <1>3, <1>4

\* An edited manifest still holds entries.
LEMMA EditedTyped ==
    ASSUME NEW old \in Seq(Entry), NEW entries \in EditedEntries(old)
    PROVE  entries \in Seq(Entry)
<1>0. /\ Len(old) \in Nat /\ DOMAIN old = 1 .. Len(old)
      /\ \A i \in 1 .. Len(old) : old[i] \in Entry
    BY LenProperties
<1>1. ASSUME NEW i \in DOMAIN old PROVE RemoveAt(old, i) \in Seq(Entry)
    <2>1. i \in Int /\ Len(old) \in Int /\ i <= Len(old) /\ 1 <= i
        BY <1>0
    <2>2. SubSeq(old, 1, i - 1) \in Seq(Entry)
        <3>1. \A k \in 1 .. i - 1 : old[k] \in Entry
            BY <1>0, <2>1
        <3>2. 1 \in Int /\ i - 1 \in Int
            BY <2>1
        <3>3. QED
            BY <3>1, <3>2, SubSeqProperties
    <2>3. SubSeq(old, i + 1, Len(old)) \in Seq(Entry)
        <3>1. \A k \in i + 1 .. Len(old) : old[k] \in Entry
            BY <1>0, <2>1
        <3>2. i + 1 \in Int
            BY <2>1
        <3>3. QED
            BY <2>1, <3>1, <3>2, SubSeqProperties
    <2>4. QED
        BY <2>2, <2>3, ConcatProperties DEF RemoveAt
<1>2. ASSUME NEW e \in Entry PROVE <<e>> \o old \in Seq(Entry)
    <2>1. <<e>> \in Seq(Entry)
        OBVIOUS
    <2>2. QED
        BY <2>1, ConcatProperties
<1>3. ASSUME NEW i \in DOMAIN old, NEW c \in Contents
      PROVE  Redigested(old, i, c) \in Seq(Entry)
    <2>1. [path |-> old[i].path, digest |-> c] \in Entry
        BY <1>0 DEF Entry
    <2>2. QED
        BY <1>0, <2>1, ExceptSeq DEF Redigested, ReplaceAt
<1>4. Dropped(old) \subseteq Seq(Entry)
    BY <1>1 DEF Dropped
<1>5. Prefixed(old) \subseteq Seq(Entry)
    BY <1>2 DEF Prefixed
<1>6. Altered(old) \subseteq Seq(Entry)
    BY <1>3 DEF Altered
<1>7. QED
    BY <1>4, <1>5, <1>6 DEF EditedEntries

\* Every step keeps the directory and the manifests typed.
LEMMA StepTyped ==
    ASSUME Typed, [Next]_vars
    PROVE  Typed'
<1>. DEFINE Same == UNCHANGED <<listed, built>>
<1>1. CASE EditFile
    <2>1. disk' \in [Places -> Nodes] /\ UNCHANGED <<link, manifest, loaded>> /\ Same
        BY <1>1 DEF Typed, EditFile, Edited, session, walking
    <2>2. QED
        BY <2>1 DEF Typed, IsPortable
<1>2. CASE RelinkFolder
    <2>1. UNCHANGED <<disk, manifest, loaded>> /\ Same
        BY <1>2 DEF RelinkFolder, Edited, session, walking
    <2>2. PICK f \in Folders \ {Root}, g \in Folders \cup {Outside} :
              /\ g \in RealFolders \cup {f, Outside}
              /\ \A h \in Folders \ {f} : link[h] # f
              /\ link' = [link EXCEPT ![f] = g]
        BY <1>2 DEF RelinkFolder
    <2>3. link' \in [Folders -> Folders \cup {Outside}] /\ link'[Root] = Root
        BY <2>2, FoldersAssumption DEF Typed
    <2>4. ASSUME NEW h \in Folders, link'[h] # Outside PROVE link'[link'[h]] = link'[h]
        <3>1. CASE h = f
            BY <2>2, <2>4, <3>1 DEF Typed, RealFolders
        <3>2. CASE h # f
            BY <2>2, <2>4, <3>2 DEF Typed
        <3>3. QED
            BY <3>1, <3>2
    <2>5. QED
        BY <2>1, <2>3, <2>4 DEF Typed, IsPortable
<1>3. CASE EditManifest
    <2>1. UNCHANGED <<disk, link, loaded>> /\ Same /\ manifest'.entries \in Seq(Entry)
        BY <1>3, EditedTyped DEF Typed, EditManifest, Edited, session, walking
    <2>2. QED
        BY <2>1 DEF Typed, IsPortable
<1>4. CASE LoseManifest
    BY <1>4 DEF Typed, LoseManifest, Edited, session, walking, IsPortable
<1>5. CASE Load
    BY <1>5 DEF Typed, Load, dir, walking, Loadable, IsPortable
<1>6. CASE WriteManifest
    <2>1. manifest'.entries \in Seq(Entry)
        BY <1>6 DEF WriteManifest, Typed
    <2>2. built' \in Seq(Entry) /\ listed'.safe \subseteq Paths
        BY <1>6, EndTyped DEF WriteManifest
    <2>3. QED
        BY <1>6, <2>1, <2>2 DEF WriteManifest, Typed, IsPortable
<1>7. ASSUME UNCHANGED <<dir, loaded>>, built' \in Seq(Entry), listed'.safe \subseteq Paths
      PROVE  Typed'
    BY <1>7 DEF Typed, dir, IsPortable
<1>8. CASE DigestFile
    BY <1>7, <1>8, DigestTyped DEF DigestFile
<1>9. CASE StartDigests
    <2>1. built' \in Seq(Entry) /\ listed'.safe \subseteq Paths
        BY <1>9, EndTyped, EmptySeq DEF StartDigests, Typed
    <2>2. QED
        BY <1>7, <1>9, <2>1 DEF StartDigests
<1>10. CASE Walk
    <2>1. PICK f \in Folders : List(f)
        BY <1>10, FoldersAssumption DEF Walk, ListRoot, Descend
    <2>2. listed'.safe \subseteq Paths
        BY <2>1, ListTyped
    <2>3. QED
        BY <1>7, <1>10, <2>2 DEF Walk, ListRoot, Descend, Typed
<1>11. CASE UNCHANGED <<dir, loaded>> /\ Same
    BY <1>7, <1>11 DEF Typed
<1>12. QED
    BY <1>1, <1>2, <1>3, <1>4, <1>5, <1>6, <1>8, <1>9, <1>10, <1>11
       DEF Next, Build, Verify, Edit, StartBuild, StartHashing, ResolveFile, HashFile, IssueReceipt,
           Admit, Refuse, Read, vars, session, walking

------------------------------------------------------------------------------
(* What is read was declared.                                              *)

Entries == PathsOf(loaded.entries)

\* The path that was resolved and is about to be opened.
InFlight(p) == resolved # None /\ resolved.path = p

\* The declared paths that were resolved, and hashed unless one is in flight, and
\* did not fail so far.
Passed(p) == /\ p \in Entries \cap listed.safe
             /\ p \notin todo \cup changed \cup late

Good(p) == Resolves(p) /\ Look(p).node = Declared(loaded.entries)[p]

Verifying == {"hash", "admit", "read", "done"}

Hashed == pc \in Verifying =>
    \A p \in Paths : pc # "done" /\ Passed(p) /\ ~InFlight(p) => Good(p)

\* As long as it is not late, the path in flight still leads where it resolved to.
Resolving == resolved # None =>
    /\ pc = "hash"
    /\ \E p \in Paths : /\ resolved.path = p /\ p \notin todo
                        /\ p \notin late => Resolves(p) /\ resolved.place = Place(p)

Links == pc \in Verifying => Entries \cap listed.symlinks \subseteq changed

Issued == pc = "admit" =>
    /\ todo = {}
    /\ receipt.changed = changed
    /\ receipt.missing = Entries \ (listed.safe \cup listed.symlinks)

\* The path asked for was declared and hashed, and led where it leads.
Asked == pc = "read" =>
    \E p \in Paths : /\ asked.path = p /\ p \in Entries
                     /\ p \notin late => Passed(p) /\ asked.place = Place(p)

\* The manifest was loaded by then.
Loaded == pc \in {"hash", "admit", "read"} => loaded # None

ReadInv == Hashed /\ Resolving /\ Links /\ Issued /\ Asked /\ Loaded /\ ReadAsDeclared

\* What changes behind the code's back leaves what the code knows, and every
\* path that was resolved to be hashed and is not late then looks the same.
LEMMA EditKeeps ==
    ASSUME Edit
    PROVE  /\ UNCHANGED session
           /\ loaded # None => late \subseteq late'
           /\ loaded # None => \A p \in Paths : p \notin todo /\ p \notin late' =>
                  Look(p)' = Look(p) /\ Place(p)' = Place(p)
           /\ loaded = None => UNCHANGED late
<1>1. UNCHANGED session
    BY DEF Edit, EditFile, RelinkFolder, EditManifest, LoseManifest, Edited
<1>2. IF loaded = None
      THEN UNCHANGED late
      ELSE late' = late \cup { p \in Paths \ todo : Look(p)' # Look(p) }
    BY DEF Edit, EditFile, RelinkFolder, EditManifest, LoseManifest, Edited, history
<1>3. ASSUME NEW p, Look(p)' = Look(p) PROVE Place(p)' = Place(p)
    BY <1>3 DEF Look, Place
<1>4. QED
    BY <1>1, <1>2, <1>3

\* Whether a path is good depends on its look only.
LEMMA GoodLooks ==
    ASSUME NEW p, Look(p)' = Look(p), loaded' = loaded
    PROVE  (Good(p)' <=> Good(p)) /\ (Resolves(p)' <=> Resolves(p))
BY DEF Good, Resolves, Look, IsPortable

\* Changes preserve the invariant.
LEMMA EditRead ==
    ASSUME ReadInv, Edit, pc \notin {"done", "refused"}
    PROVE  ReadInv'
<1>1. UNCHANGED <<pc, loaded, listed, todo, resolved, changed, receipt, asked, consumed, Entries>>
    BY EditKeeps DEF session, walking, checking, reading, Entries
<1>2. CASE loaded = None
    <2>1. pc \notin Verifying /\ pc # "hash"
        BY <1>2 DEF ReadInv, Loaded, Verifying
    <2>2. QED
        BY <1>1, <2>1 DEF ReadInv, Hashed, Resolving, Links, Issued, Asked, Loaded, ReadAsDeclared,
                          Verifying
<1>3. CASE loaded # None
    <2>1. \A p \in Paths : p \notin todo /\ p \notin late' =>
              p \notin late /\ Look(p)' = Look(p) /\ Place(p)' = Place(p)
        BY <1>3, EditKeeps
    <2>2. \A p \in Paths : p \notin todo /\ p \notin late' =>
              (Good(p)' <=> Good(p)) /\ (Resolves(p)' <=> Resolves(p))
        BY <1>1, <2>1, GoodLooks
    <2>3. \A p \in Paths : Passed(p)' => Passed(p)
        BY <1>1, <2>1 DEF Passed
    <2>4. Hashed'
        <3>1. SUFFICES ASSUME pc \in Verifying, NEW p \in Paths, pc # "done", Passed(p)', ~InFlight(p)
                       PROVE  Good(p)'
            BY <1>1 DEF Hashed, InFlight
        <3>2. Good(p)
            BY <2>3, <3>1 DEF ReadInv, Hashed
        <3>3. p \notin todo /\ p \notin late'
            BY <1>1, <3>1 DEF Passed
        <3>4. QED
            BY <2>2, <3>2, <3>3
    <2>5. Resolving'
        <3>1. SUFFICES ASSUME resolved # None PROVE Resolving'
            BY <1>1 DEF Resolving
        <3>2. PICK p \in Paths : /\ resolved.path = p /\ p \notin todo
                                 /\ p \notin late => Resolves(p) /\ resolved.place = Place(p)
            BY <3>1 DEF ReadInv, Resolving
        <3>3. p \notin late' => Resolves(p)' /\ resolved.place = Place(p)'
            BY <2>1, <2>2, <3>2
        <3>4. pc = "hash"
            BY <3>1 DEF ReadInv, Resolving
        <3>5. QED
            BY <1>1, <3>2, <3>3, <3>4 DEF Resolving
    <2>6. Asked'
        <3>1. SUFFICES ASSUME pc = "read" PROVE Asked'
            BY <1>1 DEF Asked
        <3>2. PICK p \in Paths : /\ asked.path = p /\ p \in Entries
                                 /\ p \notin late => Passed(p) /\ asked.place = Place(p)
            BY <3>1 DEF ReadInv, Asked
        <3>3. ASSUME p \notin late' PROVE Passed(p)' /\ asked.place = Place(p)'
            <4>1. Passed(p) /\ asked.place = Place(p)
                BY <1>3, <3>2, <3>3, EditKeeps
            <4>2. p \notin todo
                BY <4>1 DEF Passed
            <4>3. QED
                BY <1>1, <2>1, <3>3, <4>1, <4>2 DEF Passed
        <3>4. QED
            BY <1>1, <3>2, <3>3 DEF Asked
    <2>7. Links' /\ Issued' /\ Loaded' /\ ReadAsDeclared'
        BY <1>1 DEF ReadInv, Links, Issued, Loaded, ReadAsDeclared
    <2>8. QED
        BY <2>4, <2>5, <2>6, <2>7 DEF ReadInv
<1>4. QED
    BY <1>2, <1>3

\* As long as nothing changes, no path leads elsewhere.
LEMMA SameLooks ==
    ASSUME UNCHANGED <<disk, link, loaded>>
    PROVE  \A p : /\ Look(p)' = Look(p) /\ Place(p)' = Place(p)
                  /\ (Good(p)' <=> Good(p)) /\ (Resolves(p)' <=> Resolves(p))
BY DEF Good, Resolves, Look, Place, IsPortable

\* Every step preserves the invariant.
LEMMA StepRead ==
    ASSUME Typed, ReadInv, [Next]_vars
    PROVE  ReadInv'
<1>1. CASE Build \/ Walk
    <2>1. /\ pc \notin Verifying \cup {"read"} /\ pc' \notin Verifying \cup {"read"}
          /\ UNCHANGED <<resolved, asked>>
        BY <1>1 DEF Build, Walk, StartBuild, StartDigests, DigestFile, Unbuilt, WriteManifest,
                    EndBuild, ListRoot, Descend, Verifying, checking, reading
    <2>2. QED
        BY <2>1 DEF ReadInv, Hashed, Resolving, Links, Issued, Asked, Loaded, ReadAsDeclared, Verifying
<1>2. CASE pc \notin {"done", "refused"} /\ Edit
    BY <1>2, EditRead
<1>3. CASE Load
    BY <1>3 DEF ReadInv, Hashed, Resolving, Links, Issued, Asked, Loaded, ReadAsDeclared, Verifying,
                Load, checking
<1>4. CASE StartHashing
    <2>1. /\ pc = "descend" /\ pc' = "hash" /\ loaded # None
          /\ todo' = Entries \cap listed.safe /\ changed' = Entries \cap listed.symlinks
          /\ UNCHANGED <<loaded, listed, resolved, Entries>>
        BY <1>4 DEF StartHashing, walking, Entries
    <2>2. \A p : ~Passed(p)'
        BY <2>1 DEF Passed
    <2>3. resolved' = None
        BY <2>1 DEF ReadInv, Resolving
    <2>4. QED
        BY <2>1, <2>2, <2>3 DEF ReadInv, Hashed, Resolving, Links, Issued, Asked, Loaded, ReadAsDeclared
<1>5. ASSUME NEW q \in Paths, ResolveFile(q) PROVE ReadInv'
    <2>1. /\ pc = "hash" /\ q \in todo /\ resolved = None /\ todo' = todo \ {q}
          /\ UNCHANGED <<disk, link, pc, loaded, listed, late, Entries>>
          /\ IF Resolves(q) THEN resolved' = Resolution(q) /\ changed' = changed
             ELSE changed' = changed \cup {q} /\ resolved' = resolved
        BY <1>5 DEF ResolveFile, dir, walking, history, Entries
    <2>2. Hashed'
        <3>1. SUFFICES ASSUME NEW p \in Paths, Passed(p)', ~InFlight(p)'
                       PROVE  Good(p)'
            BY <2>1 DEF Hashed
        <3>2. p # q
            <4>1. CASE Resolves(q)
                <5>1. resolved' = [path |-> q, place |-> Place(q)]
                    BY <2>1, <4>1 DEF Resolution
                <5>2. resolved' # None
                    <6>1. resolved' \in [path : Paths, place : Paths]
                        BY <4>1, <5>1, OpenedPlace
                    <6>2. QED
                        BY <6>1, NoneAssumption
                <5>3. QED
                    BY <3>1, <5>1, <5>2 DEF InFlight
            <4>2. CASE ~Resolves(q)
                BY <2>1, <3>1, <4>2 DEF Passed
            <4>3. QED
                BY <4>1, <4>2
        <3>3. Passed(p)
            BY <2>1, <3>1, <3>2 DEF Passed
        <3>4. Good(p)
            BY <2>1, <3>3 DEF ReadInv, Hashed, Verifying, InFlight
        <3>5. QED
            BY <2>1, <3>4, SameLooks
    <2>3. Resolving'
        <3>1. resolved' # None => resolved' = [path |-> q, place |-> Place(q)] /\ Resolves(q)
            BY <2>1 DEF Resolution
        <3>2. Place(q)' = Place(q) /\ (Resolves(q)' <=> Resolves(q))
            BY <2>1, SameLooks
        <3>3. QED
            BY <2>1, <3>1, <3>2 DEF Resolving
    <2>4. Links'
        BY <2>1 DEF ReadInv, Links, Verifying
    <2>5. QED
        BY <2>1, <2>2, <2>3, <2>4 DEF ReadInv, Issued, Asked, Loaded, ReadAsDeclared
<1>6. CASE HashFile
    <2>1. /\ pc = "hash" /\ resolved # None /\ resolved' = None
          /\ UNCHANGED <<disk, link, pc, loaded, listed, todo, late, Entries>>
        BY <1>6 DEF HashFile, dir, walking, history, Entries
    <2>2. PICK node \in Opened(resolved.place) :
              changed' = IF Matches(resolved.path, node) THEN changed ELSE changed \cup {resolved.path}
        BY <1>6 DEF HashFile
    <2>3. Hashed'
        <3>1. SUFFICES ASSUME NEW p \in Paths, Passed(p)'
                       PROVE  Good(p)
            BY <2>1, SameLooks DEF Hashed
        <3>2. Passed(p)
            BY <2>1, <2>2, <3>1 DEF Passed
        <3>3. CASE ~InFlight(p)
            BY <2>1, <3>2, <3>3 DEF ReadInv, Hashed, Verifying
        <3>4. CASE InFlight(p)
            <4>1. p = resolved.path /\ p \notin late /\ Matches(p, node)
                BY <2>1, <2>2, <3>1, <3>4 DEF Passed, InFlight
            <4>2. Resolves(p) /\ resolved.place = Place(p)
                <5>1. PICK q \in Paths : /\ resolved.path = q /\ q \notin todo
                                         /\ q \notin late => Resolves(q) /\ resolved.place = Place(q)
                    BY <2>1 DEF ReadInv, Resolving
                <5>2. QED
                    BY <4>1, <5>1
            <4>3. node = Look(p).node
                BY <2>2, <4>2, OpenedPlace
            <4>4. QED
                BY <4>1, <4>2, <4>3 DEF Good, Matches
        <3>5. QED
            BY <3>3, <3>4
    <2>4. Links'
        BY <2>1, <2>2 DEF ReadInv, Links, Verifying
    <2>5. QED
        BY <2>1, <2>3, <2>4 DEF ReadInv, Resolving, Issued, Asked, Loaded, ReadAsDeclared
<1>7. CASE IssueReceipt
    <2>1. /\ pc = "hash" /\ todo = {} /\ resolved = None
          /\ UNCHANGED <<disk, link, loaded, listed, todo, resolved, changed, late, Entries>>
        BY <1>7 DEF IssueReceipt, dir, walking, history, Entries
    <2>2. pc' \in {"admit", "raised"} /\ (pc' = "admit" => receipt' = Findings)
        BY <1>7 DEF IssueReceipt
    <2>3. \A p \in Paths : (Good(p)' <=> Good(p)) /\ (Passed(p)' <=> Passed(p))
        BY <2>1, SameLooks DEF Passed
    <2>4. Hashed' /\ Links'
        BY <2>1, <2>2, <2>3 DEF ReadInv, Hashed, Links, Verifying, InFlight
    <2>5. Issued'
        BY <2>1, <2>2 DEF Issued, Findings, Entries
    <2>6. QED
        BY <2>1, <2>2, <2>4, <2>5 DEF ReadInv, Resolving, Asked, Loaded, ReadAsDeclared
<1>8. ASSUME NEW q \in Paths, Admit(q) PROVE ReadInv'
    <2>1. /\ pc = "admit" /\ pc' = "read"
          /\ UNCHANGED <<disk, link, loaded, listed, todo, resolved, changed, late, Entries>>
          /\ asked' = [path |-> q, place |-> Place(q)]
          /\ Admissible(q)
        BY <1>8 DEF Admit, Resolution, dir, walking, checking, history, Entries
    <2>2. \A p \in Paths : /\ Good(p)' <=> Good(p)
                           /\ Passed(p)' <=> Passed(p)
                           /\ Place(p)' = Place(p)
        BY <2>1, SameLooks DEF Passed
    <2>3. Hashed' /\ Links'
        BY <2>1, <2>2 DEF ReadInv, Hashed, Links, Verifying, InFlight
    <2>4. q \in Entries /\ q \in listed.safe /\ q \notin todo \cup changed
        BY <2>1 DEF ReadInv, Links, Issued, Admissible, ok, Entries, Verifying
    <2>5. Asked'
        BY <2>1, <2>2, <2>4 DEF Asked, Passed
    <2>6. QED
        BY <2>1, <2>3, <2>5 DEF ReadInv, Resolving, Issued, Loaded, ReadAsDeclared
<1>9. CASE Refuse
    BY <1>9 DEF ReadInv, Hashed, Resolving, Links, Issued, Asked, Loaded, ReadAsDeclared, Verifying,
                Refuse, checking
<1>10. CASE Read
    <2>1. /\ pc = "read" /\ UNCHANGED <<loaded, listed, resolved, changed, asked, late, Entries>>
        BY <1>10 DEF Read, walking, checking, history, Entries
    <2>2. PICK node \in Opened(asked.place) :
              IF node = Absent THEN pc' = "refused" /\ UNCHANGED consumed
              ELSE pc' = "done" /\ consumed' = node
        BY <1>10 DEF Read
    <2>3. resolved = None
        BY <2>1 DEF ReadInv, Resolving
    <2>4. PICK p \in Paths : /\ asked.path = p /\ p \in Entries
                             /\ p \notin late => Passed(p) /\ asked.place = Place(p)
        BY <2>1 DEF ReadInv, Asked
    <2>5. ReadAsDeclared'
        <3>1. SUFFICES ASSUME p \notin late, pc' = "done"
                       PROVE  consumed' = Declared(loaded.entries)[p]
            BY <2>1, <2>4 DEF ReadAsDeclared, Entries
        <3>2. Good(p) /\ asked.place = Place(p)
            BY <2>1, <2>3, <2>4, <3>1 DEF ReadInv, Hashed, Verifying, InFlight
        <3>3. Opened(asked.place) = {Look(p).node}
            BY <3>2, OpenedPlace DEF Good
        <3>4. QED
            BY <2>2, <3>1, <3>2, <3>3 DEF Good
    <2>6. QED
        BY <2>1, <2>2, <2>3, <2>5
           DEF ReadInv, Hashed, Resolving, Links, Issued, Asked, Loaded, Verifying
<1>11. CASE UNCHANGED vars
    <2>1. UNCHANGED <<disk, link, pc, loaded, listed, todo, resolved, changed, receipt, asked,
                      consumed, late, Entries>>
        BY <1>11 DEF vars, dir, session, walking, checking, reading, history, Entries
    <2>2. \A p : /\ Place(p)' = Place(p) /\ (Good(p)' <=> Good(p))
                 /\ (Resolves(p)' <=> Resolves(p)) /\ (Passed(p)' <=> Passed(p))
        BY <2>1, SameLooks DEF Passed
    <2>3. Hashed' /\ Links' /\ Issued' /\ Loaded' /\ ReadAsDeclared'
        BY <2>1, <2>2 DEF ReadInv, Hashed, Links, Issued, Loaded, ReadAsDeclared, InFlight
    <2>4. Resolving' /\ Asked'
        BY <2>1, <2>2 DEF ReadInv, Resolving, Asked, Passed, Resolves, Place, Look, IsPortable
    <2>5. QED
        BY <2>3, <2>4 DEF ReadInv
<1>12. QED
    BY <1>1, <1>2, <1>3, <1>4, <1>5, <1>6, <1>7, <1>8, <1>9, <1>10, <1>11 DEF Next, Verify

\* The directory and the manifests start typed.
LEMMA InitTyped == Init => Typed
<1>1. <<>> \in Seq(Entry)
    BY EmptySeq
<1>2. QED
    BY <1>1, LayoutsAssumption, FoldersAssumption DEF Init, Typed, Unlisted

\* What the worker reads is what the manifest declared for the path it asked
\* for, unless the path changed after it had been resolved to be hashed, for any
\* directory and any changes (validate_immutable_input, then the worker's open).
THEOREM DeclaredIsRead == Spec => []ReadAsDeclared
<1>1. Init => Typed /\ ReadInv
    BY InitTyped DEF Init, ReadInv, Hashed, Resolving, Links, Issued, Asked, Loaded, ReadAsDeclared,
                     Verifying
<1>2. Typed /\ ReadInv /\ [Next]_vars => (Typed /\ ReadInv)'
    BY StepTyped, StepRead
<1>3. ReadInv => ReadAsDeclared
    BY DEF ReadInv
<1>4. QED
    BY <1>1, <1>2, <1>3, PTL DEF Spec

------------------------------------------------------------------------------
(* What the code knows of a path was so at some moment.                    *)

Hashing == pc = "hash" \/ receipt # None

\* Where the building or the verification is.
Progress ==
    /\ pc \in {"idle", "digest"} => loaded = None
    /\ loaded = None => receipt = None /\ changed = {}
    /\ pc \in {"idle", "walk"} => listed.safe = {} /\ listed.symlinks = {} /\ changed = {}
    /\ pc = "hash" => loaded # None /\ walk = {} /\ receipt = None /\ todo \subseteq Entries
    /\ resolved # None => pc = "hash" /\ resolved.path \in Entries \ todo
    /\ receipt # None =>
           /\ pc \in {"admit", "read", "done", "refused"}
           /\ walk = {} /\ todo = {}
           /\ receipt.missing = Entries \ (listed.safe \cup listed.symlinks)
           /\ receipt.changed = changed
           /\ receipt.extra = (listed.safe \cup listed.symlinks) \ Entries
    /\ Hashing => Entries \cap listed.symlinks \subseteq changed

\* The history holds how every path looks at this moment.
SeesNow == loaded # None => \A p \in Paths : Look(p) \in seen[p]

\* A listed file held something, a listed link was one.
SafeSeen == loaded # None =>
    \A p \in Paths \cap listed.safe : \E v \in seen[p] : v.node \in Contents

LinkSeen == loaded # None =>
    \A p \in Paths \cap listed.symlinks : \E v \in seen[p] : v.node = Link

\* A path that was passed by was not there, or its folder was a link.
AbsentSeen ==
    loaded # None /\ pc # "walk" =>
        \A p \in Paths : p[1] \notin walk /\ p \notin listed.safe \cup listed.symlinks =>
            \E v \in seen[p] : v.via # p[1] \/ v.node = Absent

\* The path in flight led to its place, inside the directory, and was no link.
ResolvedSeen ==
    resolved # None =>
        \E p \in Paths : \E v \in seen[p] :
            /\ resolved.path = p /\ resolved.place = <<v.via, p[2]>>
            /\ v.via \in Folders /\ v.node # Link

\* What path p led to, inside the directory, may have been opened to content c.
HeldBy(p, c) ==
    \E v \in seen[p] : /\ v.via \in Folders /\ v.node # Link
                       /\ \E w \in seen[<<v.via, p[2]>>] : w.node \in {c, Link}

\* A file that passed may have been opened to its declared content.
MatchSeen ==
    Hashing => \A p \in Paths : p \in Entries \cap listed.safe /\ p \notin todo \cup changed
                                    /\ ~InFlight(p) =>
        HeldBy(p, Declared(loaded.entries)[p])

\* A file that failed looked otherwise than it was declared.
MismatchSeen ==
    \A p \in Paths \cap changed : \E v \in seen[p] :
        v.via # p[1] \/ v.node # Declared(loaded.entries)[p]

Evidence == SafeSeen /\ LinkSeen /\ AbsentSeen /\ ResolvedSeen /\ MatchSeen /\ MismatchSeen

\* What may have been found still may have, when more is seen.
LEMMA HeldKept ==
    ASSUME \A p \in Paths : seen[p] \subseteq seen'[p],
           NEW p \in Paths, NEW c, HeldBy(p, c)
    PROVE  HeldBy(p, c)'
<1>1. PICK v \in seen[p] : /\ v.via \in Folders /\ v.node # Link
                           /\ \E w \in seen[<<v.via, p[2]>>] : w.node \in {c, Link}
    BY DEF HeldBy
<1>2. <<v.via, p[2]>> \in Paths
    BY <1>1 DEF Paths
<1>3. seen[<<v.via, p[2]>>] \subseteq seen'[<<v.via, p[2]>>] /\ v \in seen'[p]
    BY <1>2
<1>4. QED
    BY <1>1, <1>3 DEF HeldBy

\* Evidence is not lost while more is seen and nothing else is found out.
LEMMA EvidenceKept ==
    ASSUME Evidence, \A p \in Paths : seen[p] \subseteq seen'[p],
           UNCHANGED <<loaded, walk, listed, todo, resolved, changed>>,
           pc = "walk" => pc' = "walk", Hashing' => Hashing
    PROVE  Evidence'
<1>1. Entries' = Entries /\ \A p : InFlight(p)' <=> InFlight(p)
    BY DEF Entries, InFlight
<1>2. SafeSeen' /\ LinkSeen'
    BY DEF Evidence, SafeSeen, LinkSeen
<1>3. AbsentSeen'
    BY DEF Evidence, AbsentSeen
<1>4. ResolvedSeen'
    <2>1. SUFFICES ASSUME resolved # None PROVE ResolvedSeen'
        BY DEF ResolvedSeen
    <2>2. PICK p \in Paths : \E v \in seen[p] :
              /\ resolved.path = p /\ resolved.place = <<v.via, p[2]>>
              /\ v.via \in Folders /\ v.node # Link
        BY <2>1 DEF Evidence, ResolvedSeen
    <2>3. QED
        BY <2>2 DEF ResolvedSeen
<1>5. MatchSeen'
    <2>1. SUFFICES ASSUME Hashing, NEW p \in Paths, p \in Entries \cap listed.safe,
                          p \notin todo \cup changed, ~InFlight(p)
                   PROVE  HeldBy(p, Declared(loaded.entries)[p])'
        BY <1>1 DEF MatchSeen
    <2>2. HeldBy(p, Declared(loaded.entries)[p])
        BY <2>1 DEF Evidence, MatchSeen
    <2>3. QED
        BY <2>2, HeldKept DEF HeldBy
<1>6. MismatchSeen'
    BY DEF Evidence, MismatchSeen
<1>7. QED
    BY <1>2, <1>3, <1>4, <1>5, <1>6 DEF Evidence

\* Listing folder f notes how each of its files looks.
LEMMA ListSees ==
    ASSUME Typed, SeesNow, loaded # None, NEW f \in Folders, List(f),
           SafeSeen, LinkSeen, UNCHANGED seen
    PROVE  /\ SafeSeen' /\ LinkSeen'
           /\ listed.safe \subseteq listed'.safe /\ listed.symlinks \subseteq listed'.symlinks
           /\ \A p \in Paths : p[1] = f /\ p \notin listed'.safe \cup listed'.symlinks =>
                  Look(p).node = Absent
<1>1. /\ listed'.safe = listed.safe \cup ListFolder(f, Contents)
      /\ listed'.symlinks = listed.symlinks \cup ListFolder(f, {Link})
    BY DEF List
<1>2. \A p \in Paths : /\ p \in ListFolder(f, Contents) => Look(p).node \in Contents
                       /\ p \in ListFolder(f, {Link}) => Look(p).node = Link
    BY DEF ListFolder
<1>3. SafeSeen'
    BY <1>1, <1>2 DEF SafeSeen, SeesNow
<1>4. LinkSeen'
    BY <1>1, <1>2 DEF LinkSeen, SeesNow
<1>5. ASSUME NEW p \in Paths, p[1] = f, p \notin listed'.safe \cup listed'.symlinks
      PROVE  Look(p).node = Absent
    <2>1. p \in {f} \X Names
        BY <1>5 DEF Paths
    <2>2. Look(p).node \notin Contents /\ Look(p).node # Link
        BY <1>1, <1>5, <2>1 DEF ListFolder
    <2>3. QED
        BY <2>2, LooksTyped DEF Nodes
<1>6. QED
    BY <1>1, <1>3, <1>4, <1>5

\* A file that does not resolve looks different from what was declared.
LEMMA UnresolvedSees ==
    ASSUME Typed, SeesNow, loaded # None, NEW p \in Paths, p \in Entries, ~Resolves(p)
    PROVE  \E v \in seen[p] : v.via # p[1] \/ v.node # Declared(loaded.entries)[p]
<1>1. Look(p) \in seen[p]
    BY DEF SeesNow
<1>2. IsPortable(p) /\ Declared(loaded.entries)[p] \in Contents
    BY DeclaredContents DEF Typed, Entries
<1>3. p[1] # Outside
    BY FoldersAssumption DEF Paths
<1>4. Look(p).via # p[1] \/ Look(p).node # Declared(loaded.entries)[p]
    BY <1>2, <1>3, NodesAssumption DEF Resolves, Look
<1>5. QED
    BY <1>1, <1>4

\* A file that does resolve led to its place, and was no link.
LEMMA ResolvesSees ==
    ASSUME Typed, SeesNow, loaded # None, NEW p \in Paths, Resolves(p)
    PROVE  \E v \in seen[p] : /\ Place(p) = <<v.via, p[2]>>
                              /\ v.via \in Folders /\ v.node # Link
<1>1. Look(p) \in seen[p]
    BY DEF SeesNow
<1>2. link[p[1]] \in Folders
    BY DEF Typed, Resolves, Paths
<1>3. QED
    BY <1>1, <1>2 DEF Resolves, Look, Place

\* What the open of the path in flight finds was there to be found; when it is not
\* what was declared, the path looked otherwise at some moment.
LEMMA HashSees ==
    ASSUME Typed, SeesNow, loaded # None, NEW p \in Paths, p \in Entries,
           NEW v \in seen[p], resolved.place = <<v.via, p[2]>>, v.via \in Folders, v.node # Link,
           NEW node \in Opened(resolved.place)
    PROVE  IF Matches(p, node)
           THEN HeldBy(p, Declared(loaded.entries)[p])
           ELSE \E u \in seen[p] : u.via # p[1] \/ u.node # Declared(loaded.entries)[p]
<1>1. Declared(loaded.entries)[p] \in Contents
    BY DeclaredContents DEF Typed, Entries
<1>2. resolved.place \in Paths
    BY DEF Paths
<1>3. Look(resolved.place) \in seen[resolved.place]
    BY <1>2 DEF SeesNow
<1>4. Look(resolved.place).node = Link \/ node = Look(resolved.place).node
    BY DEF Opened
<1>5. CASE Matches(p, node)
    BY <1>3, <1>4, <1>5 DEF Matches, HeldBy
<1>6. CASE ~Matches(p, node)
    <2>1. SUFFICES ASSUME \A u \in seen[p] : u.via = p[1] /\ u.node = Declared(loaded.entries)[p]
                   PROVE  FALSE
        BY <1>6
    <2>2. p = <<p[1], p[2]>>
        BY DEF Paths
    <2>3. resolved.place = p
        BY <2>1, <2>2
    <2>4. Look(p).node = Declared(loaded.entries)[p]
        BY <1>3, <2>1, <2>3
    <2>5. node = Declared(loaded.entries)[p]
        BY <1>1, <1>4, <2>3, <2>4, NodesAssumption
    <2>6. QED
        BY <1>6, <2>5 DEF Matches
<1>7. QED
    BY <1>5, <1>6

\* The invariant of the receipt.
AccountInv == Typed /\ Progress /\ SeesNow /\ Evidence

\* Changes add to what was seen and leave what the code knows.
LEMMA EditAccount ==
    ASSUME AccountInv, Edit
    PROVE  Progress' /\ SeesNow' /\ Evidence'
<1>1. /\ UNCHANGED <<pc, loaded, walk, listed, todo, resolved, changed, receipt>>
      /\ IF loaded = None THEN UNCHANGED seen
         ELSE seen' = [p \in Paths |-> seen[p] \cup {Look(p)'}]
    BY DEF Edit, EditFile, RelinkFolder, EditManifest, LoseManifest, Edited, session, walking,
           checking, history
<1>2. \A p \in Paths : seen[p] \subseteq seen'[p] /\ (loaded # None => Look(p)' \in seen'[p])
    BY <1>1
<1>3. Progress'
    BY <1>1 DEF AccountInv, Progress, Entries, Hashing
<1>4. SeesNow'
    BY <1>1, <1>2 DEF SeesNow
<1>5. Evidence'
    BY <1>1, <1>2, EvidenceKept DEF AccountInv, Hashing
<1>6. QED
    BY <1>3, <1>4, <1>5

\* Every step preserves it.
LEMMA StepAccount ==
    ASSUME AccountInv, [Next]_vars
    PROVE  AccountInv'
<1>1. Typed'
    BY StepTyped DEF AccountInv
<1>2. CASE Edit
    BY <1>1, <1>2, EditAccount DEF AccountInv
<1>3. ASSUME UNCHANGED <<disk, link, loaded, seen>>
      PROVE  SeesNow'
    BY <1>3 DEF AccountInv, SeesNow, Look, Place
<1>4. ASSUME UNCHANGED <<disk, link, loaded, seen>>, loaded = None, pc' # "hash",
             UNCHANGED <<todo, resolved, changed, receipt>>,
             pc' \in {"idle", "walk"} => listed'.safe = {} /\ listed'.symlinks = {}
      PROVE  AccountInv'
    <2>1. receipt = None /\ changed = {} /\ pc # "hash" /\ resolved = None
        BY <1>4 DEF AccountInv, Progress
    <2>2. Progress'
        BY <1>4, <2>1 DEF Progress, Hashing
    <2>3. Evidence'
        BY <1>4, <2>1 DEF Evidence, SafeSeen, LinkSeen, AbsentSeen, ResolvedSeen, MatchSeen,
                          MismatchSeen, Hashing
    <2>4. QED
        BY <1>1, <1>3, <1>4, <2>2, <2>3 DEF AccountInv
<1>5. CASE Load
    <2>1. /\ pc' = "walk" /\ seen' = [p \in Paths |-> {Look(p)}]
          /\ UNCHANGED <<disk, link, walk, listed, todo, resolved, changed, receipt>>
          /\ pc = "idle" /\ loaded' = manifest /\ manifest # None
        BY <1>5 DEF Load, Loadable, dir, walking, checking
    <2>2. Progress'
        BY <2>1 DEF AccountInv, Progress, Hashing
    <2>3. SeesNow'
        BY <2>1 DEF SeesNow, Look, Place
    <2>4. resolved' = None /\ receipt' = None
        BY <2>1 DEF AccountInv, Progress
    <2>5. Evidence'
        BY <2>1, <2>2, <2>4
           DEF Progress, Evidence, SafeSeen, LinkSeen, AbsentSeen, ResolvedSeen, MatchSeen,
               MismatchSeen, Hashing
    <2>6. QED
        BY <1>1, <2>2, <2>3, <2>5 DEF AccountInv
<1>6. CASE ListRoot /\ loaded # None
    <2>1. /\ pc = "walk" /\ pc' = "descend" /\ List(Root) /\ walk' = RealFolders \ {Root}
          /\ UNCHANGED <<disk, link, loaded, todo, resolved, changed, receipt, seen>>
        BY <1>6 DEF ListRoot, dir, checking, history
    <2>2. loaded # None /\ resolved = None
        BY <1>6, <2>1 DEF AccountInv, Progress
    <2>3. Progress'
        BY <2>1, <2>2 DEF AccountInv, Progress, Hashing
    <2>4. SafeSeen' /\ LinkSeen'
        BY <2>1, <2>2, FoldersAssumption, ListSees DEF AccountInv, Evidence
    <2>5. AbsentSeen'
        <3>1. SUFFICES ASSUME NEW p \in Paths, p[1] \notin walk',
                              p \notin listed'.safe \cup listed'.symlinks
                       PROVE  Look(p).via # p[1] \/ Look(p).node = Absent
            BY <2>1, <2>2 DEF AccountInv, SeesNow, AbsentSeen
        <3>2. p[1] = Root => Look(p).node = Absent
            BY <2>1, <2>2, <3>1, FoldersAssumption, ListSees DEF AccountInv, Evidence
        <3>3. p[1] # Root => Look(p).via # p[1]
            BY <2>1, <3>1 DEF RealFolders, Look, Paths
        <3>4. QED
            BY <3>2, <3>3
    <2>6. ResolvedSeen' /\ MatchSeen' /\ MismatchSeen'
        BY <2>1, <2>2 DEF AccountInv, Progress, ResolvedSeen, MatchSeen, MismatchSeen, Hashing
    <2>7. QED
        BY <1>1, <1>3, <2>1, <2>3, <2>4, <2>5, <2>6 DEF AccountInv, Evidence
<1>7. ASSUME NEW f \in Folders, Descend(f), loaded # None PROVE AccountInv'
    <2>1. /\ pc = "descend" /\ pc' = "descend" /\ List(f) /\ walk' = walk \ {f}
          /\ UNCHANGED <<disk, link, loaded, todo, resolved, changed, receipt, seen>>
        BY <1>7 DEF Descend, dir, checking, history
    <2>2. receipt = None /\ resolved = None /\ ~Hashing'
        BY <2>1 DEF AccountInv, Progress, Hashing
    <2>3. Progress'
        BY <1>7, <2>1, <2>2 DEF AccountInv, Progress
    <2>4. loaded # None
        BY <1>7
    <2>5. SafeSeen' /\ LinkSeen'
        BY <2>1, <2>4, ListSees DEF AccountInv, Evidence
    <2>6. AbsentSeen'
        <3>1. SUFFICES ASSUME NEW p \in Paths, p[1] \notin walk',
                              p \notin listed'.safe \cup listed'.symlinks
                       PROVE  \E v \in seen[p] : v.via # p[1] \/ v.node = Absent
            BY <2>1 DEF AbsentSeen
        <3>2. p[1] = f => Look(p).node = Absent /\ Look(p) \in seen[p]
            BY <2>1, <2>4, <3>1, ListSees DEF AccountInv, Evidence, SeesNow
        <3>3. p[1] # f => p[1] \notin walk /\ p \notin listed.safe \cup listed.symlinks
            BY <2>1, <2>4, <3>1, ListSees DEF AccountInv, Evidence
        <3>4. QED
            BY <2>1, <2>4, <3>2, <3>3 DEF AccountInv, Evidence, AbsentSeen
    <2>7. ResolvedSeen' /\ MatchSeen' /\ MismatchSeen'
        BY <2>1, <2>2 DEF AccountInv, Evidence, ResolvedSeen, MatchSeen, MismatchSeen
    <2>8. QED
        BY <1>1, <1>3, <2>1, <2>3, <2>5, <2>6, <2>7 DEF AccountInv, Evidence
<1>8. CASE StartHashing
    <2>1. /\ pc = "descend" /\ pc' = "hash" /\ walk = {}
          /\ todo' = Entries \cap listed.safe /\ changed' = Entries \cap listed.symlinks
          /\ UNCHANGED <<disk, link, loaded, walk, listed, resolved, receipt, seen, Entries>>
        BY <1>8 DEF StartHashing, dir, walking, Entries
    <2>2. loaded # None /\ receipt = None /\ resolved = None
        BY <1>8, <2>1 DEF StartHashing, AccountInv, Progress
    <2>3. Progress'
        BY <2>1, <2>2 DEF Progress, Hashing
    <2>4. SafeSeen' /\ LinkSeen' /\ AbsentSeen' /\ ResolvedSeen'
        BY <2>1, <2>2 DEF AccountInv, Evidence, SafeSeen, LinkSeen, AbsentSeen, ResolvedSeen
    <2>5. MatchSeen'
        BY <2>1 DEF MatchSeen
    <2>6. MismatchSeen'
        <3>1. \A p \in Entries : Declared(loaded.entries)[p] # Link
            BY <2>2, DeclaredContents, NodesAssumption DEF AccountInv, Typed, Entries
        <3>2. QED
            BY <2>1, <2>2, <3>1 DEF AccountInv, Evidence, LinkSeen, MismatchSeen
    <2>7. QED
        BY <1>1, <1>3, <2>1, <2>3, <2>4, <2>5, <2>6 DEF AccountInv, Evidence
<1>9. ASSUME NEW q \in Paths, ResolveFile(q) PROVE AccountInv'
    <2>1. /\ pc = "hash" /\ pc' = "hash" /\ q \in todo /\ todo' = todo \ {q} /\ resolved = None
          /\ IF Resolves(q) THEN resolved' = Resolution(q) /\ changed' = changed
             ELSE changed' = changed \cup {q} /\ resolved' = resolved
          /\ UNCHANGED <<disk, link, loaded, walk, listed, receipt, seen, Entries>>
        BY <1>9 DEF ResolveFile, dir, walking, history, Entries
    <2>2. q \in Entries /\ loaded # None
        BY <2>1 DEF AccountInv, Progress
    <2>3. SafeSeen' /\ LinkSeen' /\ AbsentSeen'
        BY <2>1 DEF AccountInv, Evidence, SafeSeen, LinkSeen, AbsentSeen
    <2>4. \A p \in Paths : \A c : HeldBy(p, c) => HeldBy(p, c)'
        BY <2>1 DEF HeldBy
    <2>5. \A p \in Paths : p # q /\ p \in Entries \cap listed.safe /\ p \notin (todo \cup changed)' =>
              HeldBy(p, Declared(loaded.entries)[p])'
        <3>1. \A p \in Paths : p # q /\ p \in Entries \cap listed.safe /\ p \notin (todo \cup changed)' =>
                  HeldBy(p, Declared(loaded.entries)[p])
            BY <2>1 DEF AccountInv, Evidence, MatchSeen, Hashing, InFlight
        <3>2. QED
            BY <2>1, <3>1 DEF HeldBy
    <2>6. CASE Resolves(q)
        <3>1. resolved' = [path |-> q, place |-> Place(q)] /\ changed' = changed
            BY <2>1, <2>6 DEF Resolution
        <3>2. resolved' # None
            <4>1. resolved' \in [path : Paths, place : Paths]
                BY <2>6, <3>1, OpenedPlace DEF AccountInv
            <4>2. QED
                BY <4>1, NoneAssumption
        <3>3. Progress'
            BY <2>1, <2>2, <3>1 DEF AccountInv, Progress, Hashing
        <3>4. ResolvedSeen'
            <4>1. PICK v \in seen[q] : /\ Place(q) = <<v.via, q[2]>>
                                       /\ v.via \in Folders /\ v.node # Link
                BY <2>2, <2>6, ResolvesSees DEF AccountInv
            <4>2. QED
                BY <2>1, <3>1, <4>1 DEF ResolvedSeen
        <3>5. InFlight(q)'
            BY <3>1, <3>2 DEF InFlight
        <3>6. MatchSeen'
            BY <2>1, <2>5, <3>5 DEF MatchSeen
        <3>7. MismatchSeen'
            BY <2>1, <3>1 DEF AccountInv, Evidence, MismatchSeen
        <3>8. QED
            BY <1>1, <1>3, <2>1, <2>3, <3>3, <3>4, <3>6, <3>7 DEF AccountInv, Evidence
    <2>7. CASE ~Resolves(q)
        <3>1. resolved' = None /\ changed' = changed \cup {q}
            BY <2>1, <2>7
        <3>2. \E v \in seen[q] : v.via # q[1] \/ v.node # Declared(loaded.entries)[q]
            BY <2>2, <2>7, UnresolvedSees DEF AccountInv
        <3>3. Progress'
            BY <2>1, <2>2, <3>1 DEF AccountInv, Progress, Hashing
        <3>4. ResolvedSeen'
            BY <3>1 DEF ResolvedSeen
        <3>5. MatchSeen'
            BY <2>1, <2>5, <3>1 DEF MatchSeen
        <3>6. MismatchSeen'
            BY <2>1, <3>1, <3>2 DEF AccountInv, Evidence, MismatchSeen
        <3>7. QED
            BY <1>1, <1>3, <2>1, <2>3, <3>3, <3>4, <3>5, <3>6 DEF AccountInv, Evidence
    <2>8. QED
        BY <2>6, <2>7
<1>10. CASE HashFile
    <2>1. /\ pc = "hash" /\ pc' = "hash" /\ resolved # None /\ resolved' = None
          /\ UNCHANGED <<disk, link, loaded, walk, listed, todo, receipt, seen, Entries>>
        BY <1>10 DEF HashFile, dir, walking, history, Entries
    <2>0. PICK q \in Paths : \E v \in seen[q] :
              /\ resolved.path = q /\ resolved.place = <<v.via, q[2]>>
              /\ v.via \in Folders /\ v.node # Link
        BY <2>1 DEF AccountInv, Evidence, ResolvedSeen
    <2>2. PICK v \in seen[q] : /\ resolved.path = q /\ resolved.place = <<v.via, q[2]>>
                               /\ v.via \in Folders /\ v.node # Link
        BY <2>0
    <2>3. PICK node \in Opened(resolved.place) :
              changed' = IF Matches(q, node) THEN changed ELSE changed \cup {q}
        BY <1>10, <2>2 DEF HashFile
    <2>4. q \in Entries /\ loaded # None
        BY <2>1, <2>2 DEF AccountInv, Progress
    <2>5. IF Matches(q, node)
          THEN HeldBy(q, Declared(loaded.entries)[q])
          ELSE \E u \in seen[q] : u.via # q[1] \/ u.node # Declared(loaded.entries)[q]
        BY <2>2, <2>4, HashSees DEF AccountInv
    <2>6. Progress'
        BY <2>1, <2>3 DEF AccountInv, Progress, Hashing
    <2>7. SafeSeen' /\ LinkSeen' /\ AbsentSeen' /\ ResolvedSeen'
        BY <2>1 DEF AccountInv, Evidence, SafeSeen, LinkSeen, AbsentSeen, ResolvedSeen
    <2>8. MatchSeen'
        <3>1. SUFFICES ASSUME NEW p \in Paths, p \in Entries \cap listed.safe,
                              p \notin todo \cup changed'
                       PROVE  HeldBy(p, Declared(loaded.entries)[p])
            BY <2>1 DEF MatchSeen, HeldBy
        <3>2. CASE p = q
            BY <2>3, <2>5, <3>1, <3>2
        <3>3. CASE p # q
            BY <2>1, <2>2, <2>3, <3>1, <3>3 DEF AccountInv, Evidence, MatchSeen, Hashing, InFlight
        <3>4. QED
            BY <3>2, <3>3
    <2>9. MismatchSeen'
        BY <2>1, <2>3, <2>5 DEF AccountInv, Evidence, MismatchSeen
    <2>10. QED
        BY <1>1, <1>3, <2>1, <2>6, <2>7, <2>8, <2>9 DEF AccountInv, Evidence
<1>11. CASE IssueReceipt
    <2>1. /\ pc = "hash" /\ todo = {} /\ resolved = None
          /\ \/ receipt' = Findings /\ pc' = "admit"
             \/ pc' = "raised" /\ receipt' = receipt
          /\ UNCHANGED <<disk, link, loaded, walk, listed, todo, resolved, changed, seen, Entries>>
        BY <1>11 DEF IssueReceipt, dir, walking, history, Entries
    <2>2. /\ Findings.missing = Entries \ (listed.safe \cup listed.symlinks)
          /\ Findings.changed = changed
          /\ Findings.extra = (listed.safe \cup listed.symlinks) \ Entries
        BY DEF Findings, Entries
    <2>3. Progress'
        BY <2>1, <2>2 DEF AccountInv, Progress, Hashing
    <2>4. Evidence'
        BY <2>1, EvidenceKept DEF AccountInv, Hashing
    <2>5. QED
        BY <1>1, <1>3, <2>1, <2>3, <2>4 DEF AccountInv
<1>12. ASSUME /\ pc \in {"idle", "admit", "read", "raised"}
              /\ pc' \in {"read", "done", "refused"}
              /\ UNCHANGED <<disk, link, loaded, walk, listed, todo, resolved, changed, receipt, seen>>
       PROVE  AccountInv'
    <2>1. Progress'
        BY <1>12 DEF AccountInv, Progress, Entries, Hashing
    <2>2. Evidence'
        BY <1>12, EvidenceKept DEF AccountInv, Hashing
    <2>3. QED
        BY <1>1, <1>3, <1>12, <2>1, <2>2 DEF AccountInv
<1>13. CASE Refuse \/ Read \/ \E q \in Paths : Admit(q)
    BY <1>12, <1>13 DEF Refuse, Read, Admit, dir, walking, checking, history
<1>14. CASE Build
    <2>1. EndBuild => pc' = "idle" /\ listed'.safe = {} /\ listed'.symlinks = {}
        BY DEF EndBuild, Unlisted
    <2>2. CASE StartBuild
        BY <1>4, <2>2 DEF StartBuild, dir, walking, checking, history, AccountInv, Progress
    <2>3. CASE StartDigests
        <3>1. EndBuild \/ pc' = "digest"
            BY <2>3 DEF StartDigests
        <3>2. QED
            BY <1>4, <2>1, <2>3, <3>1 DEF StartDigests, dir, checking, history
    <2>4. CASE DigestFile
        <3>1. EndBuild \/ pc' = pc
            BY <2>4 DEF DigestFile
        <3>2. pc = "digest" /\ loaded = None
            BY <2>4 DEF DigestFile, Unbuilt, AccountInv, Progress
        <3>3. QED
            BY <1>4, <2>1, <2>4, <3>1, <3>2 DEF DigestFile, dir, checking, history
    <2>5. CASE WriteManifest
        <3>1. loaded = None
            BY <2>5 DEF WriteManifest, AccountInv, Progress
        <3>2. QED
            BY <1>4, <2>1, <2>5, <3>1 DEF WriteManifest, checking, history
    <2>6. QED
        BY <1>14, <2>2, <2>3, <2>4, <2>5 DEF Build
<1>15. CASE Walk /\ loaded = None
    <2>1. /\ pc' = "descend"
          /\ UNCHANGED <<disk, link, loaded, seen, todo, resolved, changed, receipt>>
        BY <1>15 DEF Walk, ListRoot, Descend, dir, checking, history
    <2>2. QED
        BY <1>4, <1>15, <2>1
<1>16. CASE UNCHANGED vars
    <2>1. UNCHANGED <<disk, link, pc, loaded, walk, listed, todo, resolved, changed, receipt, seen>>
        BY <1>16 DEF vars, dir, session, walking, checking, history
    <2>2. Progress'
        BY <2>1 DEF AccountInv, Progress, Entries, Hashing
    <2>3. Evidence'
        BY <2>1, EvidenceKept DEF AccountInv, Hashing
    <2>4. QED
        BY <1>1, <1>3, <2>1, <2>2, <2>3 DEF AccountInv
<1>17. QED
    BY <1>2, <1>5, <1>6, <1>7, <1>8, <1>9, <1>10, <1>11, <1>13, <1>14, <1>15, <1>16
       DEF Next, Verify, Walk

\* The directory, the code and the history start that way.
LEMMA ReceiptInit == Init => AccountInv
<1>1. SUFFICES ASSUME Init PROVE AccountInv
    OBVIOUS
<1>2. Progress /\ SeesNow /\ Evidence
    BY <1>1 DEF Init, Unlisted, Progress, Hashing, SeesNow, Evidence, SafeSeen, LinkSeen, AbsentSeen,
                ResolvedSeen, MatchSeen, MismatchSeen
<1>3. QED
    BY <1>1, <1>2, InitTyped DEF AccountInv

\* What may have been found by an open inside the directory is what it may hold.
LEMMA HeldHolds ==
    ASSUME NEW p, NEW c, HeldBy(p, c)
    PROVE  MayHold(p, c)
BY FoldersAssumption DEF HeldBy, MayHold

\* The receipt reports what was wrong all the time it was made, and does not
\* report what was right all the time, for any directory, any manifest and any
\* number of changes in between (manifest.py:116-167).
THEOREM ReceiptsAccount == Spec => []ReceiptAccounts
<1>1. Init => AccountInv
    BY ReceiptInit
<1>2. AccountInv => ReceiptAccounts
    <2>1. SUFFICES ASSUME AccountInv, receipt # None, NEW p \in Paths
                   PROVE  LET declared == Declared(loaded.entries)
                              reported == receipt.missing \cup receipt.changed
                          IN IF p \in DOMAIN declared
                             THEN /\ ~MayHold(p, declared[p]) => p \in reported
                                  /\ seen[p] = {[via |-> p[1], node |-> declared[p]]}
                                        => p \notin reported
                             ELSE /\ (\A v \in seen[p] : v.via = p[1] /\ v.node # Absent)
                                        => p \in receipt.extra
                                  /\ (\A v \in seen[p] : v.node = Absent) => p \notin receipt.extra
        BY DEF ReceiptAccounts
    <2>2. /\ DOMAIN Declared(loaded.entries) = Entries
          /\ loaded # None /\ pc # "walk" /\ Hashing /\ walk = {} /\ todo = {} /\ resolved = None
          /\ receipt.missing = Entries \ (listed.safe \cup listed.symlinks)
          /\ receipt.changed = changed
          /\ receipt.extra = (listed.safe \cup listed.symlinks) \ Entries
          /\ Entries \cap listed.symlinks \subseteq changed
        BY <2>1 DEF AccountInv, Progress, Hashing, Declared, Entries
    <2>3. p \notin listed.safe \cup listed.symlinks =>
              \E v \in seen[p] : v.via # p[1] \/ v.node = Absent
        BY <2>1, <2>2 DEF AccountInv, Evidence, AbsentSeen
    <2>4. p \in listed.safe \cup listed.symlinks => \E v \in seen[p] : v.node # Absent
        BY <2>1, <2>2, NodesAssumption DEF AccountInv, Evidence, SafeSeen, LinkSeen
    <2>5. CASE p \in Entries
        <3>1. Declared(loaded.entries)[p] # Absent
            BY <2>1, <2>2, <2>5, DeclaredContents, NodesAssumption DEF AccountInv, Typed, Entries
        <3>2. p \in changed => \E v \in seen[p] : v.via # p[1] \/ v.node # Declared(loaded.entries)[p]
            BY <2>1 DEF AccountInv, Evidence, MismatchSeen
        <3>3. p \notin changed /\ p \in listed.safe => MayHold(p, Declared(loaded.entries)[p])
            BY <2>1, <2>2, <2>5, HeldHolds DEF AccountInv, Evidence, MatchSeen, InFlight
        <3>4. ~MayHold(p, Declared(loaded.entries)[p]) => p \in receipt.missing \cup receipt.changed
            BY <2>2, <2>5, <3>3
        <3>5. seen[p] = {[via |-> p[1], node |-> Declared(loaded.entries)[p]]}
                  => p \notin receipt.missing \cup receipt.changed
            BY <2>2, <2>3, <3>1, <3>2
        <3>6. QED
            BY <2>2, <2>5, <3>4, <3>5
    <2>6. CASE p \notin Entries
        BY <2>2, <2>3, <2>4, <2>6
    <2>7. QED
        BY <2>5, <2>6
<1>3. QED
    BY <1>1, <1>2, StepAccount, PTL DEF Spec

------------------------------------------------------------------------------
(* A directory and the manifest that was built for it.                     *)

\* What the directory holds.
Files == { p \in Paths : Look(p).node \in Contents }

\* No file is a symbolic link.
Unlinked == \A p \in Paths : Look(p).node # Link

\* Manifest m declares every file once, with what it holds.
Faithful(m) ==
    /\ m.root_hash = m.entries
    /\ PathsOf(m.entries) = Files /\ DuplicatePaths(m.entries) = {}
    /\ \A p \in Files : IsPortable(p) /\ Declared(m.entries)[p] = Look(p).node

\* Receipt r reports nothing but names that differ in case only.
Clean(r) ==
    /\ r.missing \cup r.extra \cup r.changed \cup r.duplicate_paths = {}
    /\ r.case_collisions = CaseCollisions(Files)
    /\ ~r.root_hash_mismatch

\* The files that are symbolic links.
LinkFiles == { p \in Paths : Look(p).node = Link }

\* Entries es declare the first files, in order, each with what it holds.
Digested(es) ==
    /\ Len(es) <= Cardinality(Files)
    /\ \A i \in 1 .. Len(es) : LET p == SetToSeq(Files)[i]
                             IN es[i] = [path |-> p, digest |-> Look(p).node] /\ IsPortable(p)

\* As long as nothing was changed, what is built declares the files, the manifest
\* is the one that was built, it is the one that was loaded, and what is listed,
\* hashed and reported agrees.
Untouched ==
    edits = 0 =>
        /\ \A f \in Folders : link[f] = f
        /\ manifest # None => Faithful(manifest) /\ Unlinked
        /\ loaded # None => manifest # None /\ loaded = manifest
        /\ pc = "descend" => /\ listed.symlinks = { p \in LinkFiles : p[1] \notin walk }
                             /\ listed.safe = { p \in Files : p[1] \notin walk }
        /\ pc = "digest" => Unlinked /\ listed.safe = Files /\ Digested(built)
        /\ pc = "hash" => /\ listed.symlinks = {} /\ listed.safe = Files /\ changed = {}
                          /\ resolved # None => resolved.place = resolved.path
        /\ receipt # None => Clean(receipt)

\* In a directory without linked folders, the listings of the folders are its files.
LEMMA AllFiles ==
    /\ SafeFiles(Folders) = Files
    /\ \A f \in Folders : /\ ListFolder(f, Contents) = { p \in Files : p[1] = f }
                          /\ ListFolder(f, {Link}) = { p \in LinkFiles : p[1] = f }
    /\ Unlinked <=> LinkFiles = {}
<1>1. \A f \in Folders : /\ ListFolder(f, Contents) = { p \in Files : p[1] = f }
                         /\ ListFolder(f, {Link}) = { p \in LinkFiles : p[1] = f }
    BY DEF ListFolder, Files, LinkFiles, Paths
<1>2. SafeFiles(Folders) = Files
    BY DEF SafeFiles, ListFolder, Files, Paths
<1>3. Unlinked <=> LinkFiles = {}
    BY DEF Unlinked, LinkFiles
<1>4. QED
    BY <1>1, <1>2, <1>3

\* The files are finitely many, so that they can be listed in order.
LEMMA FilesListed ==
    /\ Cardinality(Files) \in Nat /\ SetToSeq(Files) \in [1 .. Cardinality(Files) -> Files]
    /\ \A x \in Files : \E i \in 1 .. Cardinality(Files) : SetToSeq(Files)[i] = x
    /\ \A i, j \in 1 .. Cardinality(Files) : SetToSeq(Files)[i] = SetToSeq(Files)[j] => i = j
<1>1. IsFiniteSet(Paths)
    BY FiniteAssumption, FS_Product DEF Paths
<1>2. IsFiniteSet(Files)
    BY <1>1, FS_Subset DEF Files
<1>3. QED
    BY <1>2, SequenceListsSet

\* A manifest that declares the first files, as many as there are, is faithful.
LEMMA DigestedFaithful ==
    ASSUME NEW es \in Seq(Entry), Digested(es), Len(es) = Cardinality(Files)
    PROVE  Faithful([entries |-> es, root_hash |-> es])
<1> DEFINE s == SetToSeq(Files)
           n == Cardinality(Files)
<1>1. /\ n \in Nat /\ s \in [1 .. n -> Files]
      /\ \A x \in Files : \E i \in 1 .. n : s[i] = x
      /\ \A i, j \in 1 .. n : s[i] = s[j] => i = j
    BY FilesListed
<1>2. DOMAIN es = 1 .. n /\ \A i \in 1 .. n : es[i] = [path |-> s[i], digest |-> Look(s[i]).node]
                                              /\ IsPortable(s[i])
    BY DEF Digested
<1>. HIDE DEF s, n
<1>3. \A i \in 1 .. n : es[i].path = s[i] /\ es[i].digest = Look(s[i]).node /\ IsPortable(s[i])
    <2>1. ASSUME NEW i \in 1 .. n
          PROVE  es[i].path = s[i] /\ es[i].digest = Look(s[i]).node /\ IsPortable(s[i])
        <3>1. es[i] = [path |-> s[i], digest |-> Look(s[i]).node] /\ IsPortable(s[i])
            BY <1>2
        <3>2. QED
            BY <3>1
    <2>2. QED
        BY <2>1
<1>4. PathsOf(es) = Files
    BY <1>1, <1>2, <1>3 DEF PathsOf
<1>5. DuplicatePaths(es) = {}
    BY <1>1, <1>2, <1>3 DEF DuplicatePaths
<1>6. ASSUME NEW p \in Files PROVE IsPortable(p) /\ Declared(es)[p] = Look(p).node
    <2>1. PICK i \in DOMAIN es : es[i].path = p /\ Declared(es)[p] = es[i].digest
        BY <1>4, DeclaredEntry
    <2>2. i \in 1 .. n
        BY <1>2, <2>1
    <2>3. s[i] = p
        BY <1>3, <2>1, <2>2
    <2>4. QED
        BY <1>3, <2>1, <2>2, <2>3
<1>7. QED
    BY <1>4, <1>5, <1>6 DEF Faithful

\* What the directory holds depends on the looks of its paths only.
LEMMA SameFiles ==
    ASSUME UNCHANGED <<disk, link>>
    PROVE  /\ \A p : Look(p)' = Look(p)
           /\ Files' = Files /\ LinkFiles' = LinkFiles /\ (Unlinked' <=> Unlinked)
           /\ \A m : UNCHANGED m => (Faithful(m)' <=> Faithful(m))
           /\ \A es : UNCHANGED es => (Digested(es)' <=> Digested(es))
<1>1. \A p : Look(p)' = Look(p)
    BY DEF Look, Place
<1>2. Files' = Files /\ LinkFiles' = LinkFiles /\ (Unlinked' <=> Unlinked)
    BY <1>1 DEF Files, LinkFiles, Unlinked
<1>3. QED
    BY <1>1, <1>2 DEF Faithful, Digested, IsPortable

\* Nothing about the files or the manifests is found out or changed.
LEMMA UntouchedKept ==
    ASSUME Untouched, UNCHANGED <<disk, link, manifest, edits, loaded>>,
           pc' = "descend" => pc = "descend" /\ UNCHANGED <<listed, walk>>,
           pc' = "digest" => pc = "digest" /\ UNCHANGED <<listed, built>>,
           pc' = "hash" => pc = "hash" /\ UNCHANGED <<listed, resolved, changed>>,
           receipt' # None => UNCHANGED receipt
    PROVE  Untouched'
<1>1. /\ Files' = Files /\ LinkFiles' = LinkFiles /\ (Unlinked' <=> Unlinked)
      /\ (Faithful(manifest)' <=> Faithful(manifest))
      /\ UNCHANGED built => (Digested(built)' <=> Digested(built))
    BY SameFiles
<1>2. receipt' # None /\ Clean(receipt) => Clean(receipt)'
    BY <1>1 DEF Clean
<1>3. QED
    BY <1>1, <1>2 DEF Untouched

\* A step that leaves the directory, the manifests and the receipt alone.
Fixed == UNCHANGED <<disk, link, manifest, edits, loaded, receipt>>

\* Folder f is listed after the folders of W.
LEMMA ListUntouched ==
    ASSUME Untouched, edits = 0, Fixed, pc' = "descend", NEW f \in Folders, List(f), NEW W,
           listed.safe = { p \in Files : p[1] \in W },
           listed.symlinks = { p \in LinkFiles : p[1] \in W },
           \A g \in Folders : g \notin walk' <=> g \in W \cup {f}
    PROVE  Untouched'
<1>1. \A p \in Paths : p[1] \in Folders
    BY DEF Paths
<1>2. /\ listed'.safe = listed.safe \cup { p \in Files : p[1] = f }
      /\ listed'.symlinks = listed.symlinks \cup { p \in LinkFiles : p[1] = f }
    BY AllFiles DEF List
<1>3. /\ listed'.safe = { p \in Files : p[1] \notin walk' }
      /\ listed'.symlinks = { p \in LinkFiles : p[1] \notin walk' }
    BY <1>1, <1>2 DEF Files, LinkFiles
<1>4. /\ Files' = Files /\ LinkFiles' = LinkFiles /\ (Unlinked' <=> Unlinked)
      /\ (Faithful(manifest)' <=> Faithful(manifest))
    BY SameFiles DEF Fixed
<1>5. Clean(receipt) => Clean(receipt)'
    BY <1>4 DEF Clean, Fixed
<1>6. QED
    BY <1>3, <1>4, <1>5 DEF Untouched, Fixed

\* The entry of the next file is what that file holds.
LEMMA DigestNext ==
    ASSUME Typed, Unlinked, listed.safe = Files, Digested(built), DigestFile
    PROVE  EndBuild \/ (UNCHANGED <<pc, listed>> /\ Digested(built'))
<1> DEFINE p == SetToSeq(Files)[Len(built) + 1]
<1>1. PICK node \in Opened(p) :
          IF IsPortable(p) /\ node # Absent
          THEN built' = Append(built, [path |-> p, digest |-> node]) /\ UNCHANGED <<pc, listed>>
          ELSE EndBuild
    BY DEF DigestFile
<1>2. Len(built) + 1 \in 1 .. Cardinality(Files) /\ p \in Files
    BY NextListed DEF DigestFile
<1>3. node = Look(p).node
    BY <1>2, NodesAssumption DEF Opened, Files
<1>4. SUFFICES ASSUME IsPortable(p), UNCHANGED <<pc, listed>>,
                      built' = Append(built, [path |-> p, digest |-> node])
               PROVE  Digested(built')
    BY <1>1
<1>5. /\ Len(built') = Len(built) + 1 /\ Len(built) \in Nat
      /\ \A i \in 1 .. Len(built) : built'[i] = built[i]
      /\ built'[Len(built) + 1] = [path |-> p, digest |-> Look(p).node]
    <2>1. [path |-> p, digest |-> node] \in Entry
        BY <1>2, <1>3 DEF Files, Entry
    <2>2. QED
        BY <1>3, <1>4, <2>1, AppendProperties, LenProperties DEF Typed
<1>6. Cardinality(Files) \in Nat
    BY FilesListed
<1>7. Len(built') <= Cardinality(Files)
    BY <1>2, <1>5, <1>6
<1>8. ASSUME NEW i \in 1 .. Len(built')
      PROVE  /\ built'[i] = [path |-> SetToSeq(Files)[i], digest |-> Look(SetToSeq(Files)[i]).node]
             /\ IsPortable(SetToSeq(Files)[i])
    <2>1. CASE i = Len(built) + 1
        BY <1>4, <1>5, <2>1
    <2>2. CASE i # Len(built) + 1
        <3>1. i \in 1 .. Len(built)
            BY <1>5, <1>8, <2>2
        <3>2. QED
            BY <1>5, <3>1 DEF Digested
    <2>3. QED
        BY <2>1, <2>2
<1>9. QED
    BY <1>7, <1>8 DEF Digested

\* Without changes, what is listed, digested, hashed and reported is what is there.
LEMMA StepUntouched ==
    ASSUME AccountInv, edits \in Nat, Untouched, [Next]_vars
    PROVE  edits' \in Nat /\ Untouched'
<1>1. CASE Edit
    <2>1. edits' = edits + 1
        BY <1>1 DEF Edit, EditFile, RelinkFolder, EditManifest, LoseManifest, Edited
    <2>2. QED
        BY <2>1 DEF Untouched
<1>2. CASE edits' = edits /\ edits # 0
    BY <1>2 DEF Untouched
<1>3. CASE edits = 0 /\ StartBuild
    BY <1>3, UntouchedKept DEF StartBuild, dir, checking
<1>4. CASE edits = 0 /\ StartDigests
    <2>1. /\ pc = "descend" /\ walk = {} /\ Fixed
          /\ IF listed.symlinks = {} THEN pc' = "digest" /\ built' = <<>> /\ UNCHANGED listed
             ELSE pc' = "idle"
        BY <1>4 DEF StartDigests, EndBuild, dir, checking, Fixed
    <2>2. CASE listed.symlinks # {}
        BY <2>1, <2>2, UntouchedKept DEF Fixed
    <2>3. CASE listed.symlinks = {}
        <3>1. Unlinked /\ listed.safe = Files
            BY <1>4, <2>1, <2>3, AllFiles DEF Untouched
        <3>2. Len(built') = 0 /\ Cardinality(Files) \in Nat
            BY <2>1, <2>3, EmptySeq, FilesListed
        <3>3. Digested(built')
            BY <3>2 DEF Digested
        <3>4. /\ Files' = Files /\ (Unlinked' <=> Unlinked)
              /\ (Faithful(manifest)' <=> Faithful(manifest))
              /\ (Digested(built)' <=> Digested(built'))
            BY <2>1, SameFiles DEF Fixed, Digested, Files, IsPortable
        <3>5. Clean(receipt) => Clean(receipt)'
            BY <2>1, <3>4 DEF Clean, Fixed
        <3>6. QED
            BY <1>4, <2>1, <2>3, <3>1, <3>3, <3>4, <3>5 DEF Untouched, Fixed
    <2>4. QED
        BY <2>2, <2>3
<1>5. CASE edits = 0 /\ DigestFile
    <2>1. pc = "digest" /\ Fixed
        BY <1>5 DEF DigestFile, Unbuilt, dir, checking, Fixed
    <2>2. Unlinked /\ listed.safe = Files /\ Digested(built)
        BY <1>5, <2>1 DEF Untouched
    <2>3. CASE EndBuild
        BY <2>1, <2>3, UntouchedKept DEF EndBuild, Fixed
    <2>4. CASE UNCHANGED <<pc, listed>> /\ Digested(built')
        <3>1. /\ Files' = Files /\ (Unlinked' <=> Unlinked)
              /\ (Faithful(manifest)' <=> Faithful(manifest))
              /\ (Digested(built)' <=> Digested(built'))
            BY <2>1, SameFiles DEF Fixed, Digested, Files, IsPortable
        <3>2. Clean(receipt) => Clean(receipt)'
            BY <2>1, <3>1 DEF Clean, Fixed
        <3>3. QED
            BY <1>5, <2>1, <2>2, <2>4, <3>1, <3>2 DEF Untouched, Fixed
    <2>5. QED
        BY <1>5, <2>2, <2>3, <2>4, DigestNext DEF AccountInv
<1>6. CASE edits = 0 /\ WriteManifest
    <2>1. /\ pc = "digest" /\ ~Unbuilt /\ EndBuild
          /\ manifest' = [entries |-> built, root_hash |-> built]
          /\ UNCHANGED <<disk, link, edits, loaded, receipt>>
        BY <1>6 DEF WriteManifest, checking
    <2>2. Unlinked /\ listed.safe = Files /\ Digested(built) /\ built \in Seq(Entry)
        BY <1>6, <2>1 DEF Untouched, AccountInv, Typed
    <2>3. Len(built) = Cardinality(Files)
        <3>1. Len(built) \in Nat /\ Cardinality(Files) \in Nat
            BY <2>2, FilesListed, LenProperties
        <3>2. QED
            BY <2>1, <2>2, <3>1 DEF Unbuilt, Digested
    <2>4. Faithful(manifest')
        BY <2>1, <2>2, <2>3, DigestedFaithful
    <2>5. /\ Files' = Files /\ (Unlinked' <=> Unlinked)
          /\ (Faithful(manifest)' <=> Faithful(manifest'))
        BY <2>1, SameFiles DEF Faithful, Files, IsPortable
    <2>6. loaded' = None /\ receipt' = None /\ pc' = "idle"
        BY <2>1 DEF EndBuild, AccountInv, Progress
    <2>7. QED
        BY <1>6, <2>1, <2>2, <2>4, <2>5, <2>6 DEF Untouched
<1>7. CASE edits = 0 /\ Load
    <2>1. /\ pc' = "walk" /\ loaded' = manifest /\ manifest # None
          /\ UNCHANGED <<disk, link, manifest, edits, receipt>>
        BY <1>7 DEF Load, Loadable, dir, checking
    <2>2. receipt' = None
        BY <1>7, <2>1 DEF AccountInv, Progress, Load
    <2>3. (Unlinked' <=> Unlinked) /\ (Faithful(manifest)' <=> Faithful(manifest))
        BY <2>1, SameFiles
    <2>4. QED
        BY <1>7, <2>1, <2>2, <2>3 DEF Untouched
<1>8. CASE edits = 0 /\ ListRoot
    <2>1. /\ pc = "walk" /\ pc' = "descend" /\ List(Root) /\ walk' = RealFolders \ {Root} /\ Fixed
        BY <1>8 DEF ListRoot, dir, checking, Fixed
    <2>2. listed.safe = {} /\ listed.symlinks = {}
        BY <2>1 DEF AccountInv, Progress
    <2>3. walk' = Folders \ {Root}
        BY <1>8, <2>1 DEF Untouched, RealFolders
    <2>4. /\ listed.safe = { p \in Files : p[1] \in {} }
          /\ listed.symlinks = { p \in LinkFiles : p[1] \in {} }
        BY <2>2
    <2>5. \A g \in Folders : g \notin walk' <=> g \in {} \cup {Root}
        BY <2>3
    <2>6. QED
        BY <1>8, <2>1, <2>4, <2>5, ListUntouched, FoldersAssumption DEF Fixed
<1>9. ASSUME edits = 0, NEW f \in Folders, Descend(f) PROVE Untouched'
    <2>1. /\ pc = "descend" /\ pc' = "descend" /\ List(f) /\ walk' = walk \ {f} /\ Fixed
        BY <1>9 DEF Descend, dir, checking, Fixed
    <2>. DEFINE W == Folders \ walk
    <2>2. \A p \in Paths : p[1] \in W <=> p[1] \notin walk
        BY DEF Paths
    <2>3. /\ listed.safe = { p \in Files : p[1] \in W }
          /\ listed.symlinks = { p \in LinkFiles : p[1] \in W }
        BY <1>9, <2>1, <2>2 DEF Untouched, Files, LinkFiles
    <2>4. \A g \in Folders : g \notin walk' <=> g \in W \cup {f}
        BY <2>1
    <2>. HIDE DEF W
    <2>5. QED
        BY <1>9, <2>1, <2>3, <2>4, ListUntouched
<1>10. ASSUME edits = 0, pc' = "hash", loaded # None, Fixed,
              listed'.symlinks = {}, listed'.safe = Files, changed' = {},
              resolved' # None => resolved'.place = resolved'.path
       PROVE  Untouched'
    <2>1. /\ Files' = Files /\ LinkFiles' = LinkFiles /\ (Unlinked' <=> Unlinked)
          /\ (Faithful(manifest)' <=> Faithful(manifest))
        BY <1>10, SameFiles DEF Fixed
    <2>2. Clean(receipt) => Clean(receipt)'
        BY <1>10, <2>1 DEF Clean, Fixed
    <2>3. QED
        BY <1>10, <2>1, <2>2 DEF Untouched, Fixed
<1>11. CASE edits = 0 /\ StartHashing
    <2>1. /\ pc = "descend" /\ walk = {} /\ pc' = "hash" /\ loaded # None
          /\ changed' = PathsOf(loaded.entries) \cap listed.symlinks
          /\ Fixed /\ UNCHANGED <<listed, resolved>>
        BY <1>11 DEF StartHashing, dir, walking, Fixed
    <2>2. Unlinked /\ resolved = None
        BY <1>11, <2>1 DEF Untouched, AccountInv, Progress
    <2>3. listed.symlinks = {} /\ listed.safe = Files
        BY <1>11, <2>1, <2>2, AllFiles DEF Untouched
    <2>4. QED
        BY <1>10, <1>11, <2>1, <2>2, <2>3 DEF Fixed
<1>12. ASSUME edits = 0, NEW q \in Paths, ResolveFile(q) PROVE Untouched'
    <2>1. /\ pc = "hash" /\ pc' = "hash" /\ q \in todo
          /\ IF Resolves(q) THEN resolved' = Resolution(q) /\ changed' = changed
             ELSE changed' = changed \cup {q} /\ resolved' = resolved
          /\ Fixed /\ UNCHANGED listed
        BY <1>12 DEF ResolveFile, dir, walking, Fixed
    <2>2. /\ loaded # None /\ q \in Entries /\ listed.symlinks = {} /\ listed.safe = Files
          /\ changed = {}
        BY <1>12, <2>1 DEF AccountInv, Progress, Untouched
    <2>3. Faithful(loaded) /\ \A f \in Folders : link[f] = f
        BY <1>12, <2>2 DEF Untouched
    <2>4. q \in Files /\ IsPortable(q)
        BY <2>2, <2>3 DEF Faithful, Entries
    <2>5. Look(q).node # Link /\ link[q[1]] # Outside
        BY <2>3, <2>4, NodesAssumption, FoldersAssumption DEF Files, Paths
    <2>6. resolved' = [path |-> q, place |-> Place(q)] /\ changed' = changed
        BY <2>1, <2>4, <2>5 DEF Resolves, Resolution
    <2>7. Place(q) = q
        BY <2>3 DEF Place, Paths
    <2>8. QED
        BY <1>10, <1>12, <2>1, <2>2, <2>6, <2>7
<1>13. CASE edits = 0 /\ HashFile
    <2>1. /\ pc = "hash" /\ pc' = "hash" /\ resolved # None /\ resolved' = None
          /\ Fixed /\ UNCHANGED listed
        BY <1>13 DEF HashFile, dir, walking, Fixed
    <2>2. /\ loaded # None /\ resolved.path \in Entries /\ resolved.place = resolved.path
          /\ listed.symlinks = {} /\ listed.safe = Files /\ changed = {}
        BY <1>13, <2>1 DEF AccountInv, Progress, Untouched
    <2>3. Faithful(loaded)
        BY <1>13, <2>2 DEF Untouched
    <2>4. PICK q \in Files : q = resolved.path
        BY <2>2, <2>3 DEF Faithful, Entries
    <2>5. Declared(loaded.entries)[q] = Look(q).node /\ Look(q).node # Link
        BY <2>3, NodesAssumption DEF Faithful, Files
    <2>6. PICK node \in Opened(q) :
              changed' = IF Matches(q, node) THEN changed ELSE changed \cup {q}
        BY <1>13, <2>2, <2>4 DEF HashFile
    <2>7. Matches(q, node)
        BY <2>5, <2>6 DEF Opened, Matches
    <2>8. QED
        BY <1>10, <1>13, <2>1, <2>2, <2>4, <2>6, <2>7 DEF Fixed
<1>14. CASE edits = 0 /\ IssueReceipt
    <2>1. /\ pc = "hash" /\ UNCHANGED <<disk, link, manifest, edits, loaded>>
          /\ pc' \in {"admit", "raised"}
          /\ receipt' = Findings \/ receipt' = receipt
        BY <1>14 DEF IssueReceipt, dir
    <2>2. /\ loaded # None /\ listed.symlinks = {} /\ listed.safe = Files /\ changed = {}
        BY <1>14, <2>1 DEF AccountInv, Progress, Untouched
    <2>3. Faithful(loaded)
        BY <1>14, <2>2 DEF Untouched
    <2>4. Clean(Findings)
        BY <2>2, <2>3 DEF Clean, Findings, Faithful
    <2>5. receipt' # None => Clean(receipt')
        BY <1>14, <2>1, <2>4 DEF Untouched
    <2>6. /\ Files' = Files /\ (Unlinked' <=> Unlinked)
          /\ (Faithful(manifest)' <=> Faithful(manifest))
        BY <2>1, SameFiles
    <2>7. receipt' # None => Clean(receipt)'
        BY <2>5, <2>6 DEF Clean
    <2>8. QED
        BY <1>14, <2>1, <2>6, <2>7 DEF Untouched
<1>15. CASE Refuse \/ Read \/ \E q \in Paths : Admit(q)
    <2>1. /\ UNCHANGED <<disk, link, manifest, edits, loaded, receipt>>
          /\ pc' \in {"read", "done", "refused"}
        BY <1>15 DEF Refuse, Read, Admit, dir, checking
    <2>2. QED
        BY <2>1, UntouchedKept
<1>16. CASE UNCHANGED vars
    BY <1>16, UntouchedKept DEF vars, dir, session, walking, checking
<1>17. edits' = edits \/ Edit
    BY DEF Next, Build, Walk, Verify, StartBuild, StartDigests, DigestFile, WriteManifest, Load,
           ListRoot, Descend, StartHashing, ResolveFile, HashFile, IssueReceipt, Admit, Refuse, Read,
           vars, dir
<1>18. CASE edits' = edits /\ edits = 0
    BY <1>1, <1>3, <1>4, <1>5, <1>6, <1>7, <1>8, <1>9, <1>11, <1>12, <1>13, <1>14, <1>15, <1>16, <1>18
       DEF Next, Build, Walk, Verify
<1>19. QED
    BY <1>1, <1>2, <1>17, <1>18

\* The invariant of a directory and the manifest built for it.
BuiltInv == AccountInv /\ edits \in Nat /\ Untouched

\* A directory nobody touched verifies against the manifest build_manifest wrote
\* for it, unless the paths of two of its files differ in case only, in the folder
\* or in the name, for any directory.
THEOREM BuiltManifestVerifies == Spec => []BuiltVerifies
<1>1. Init => BuiltInv
    BY ReceiptInit DEF Init, Unlisted, BuiltInv, Untouched
<1>2. BuiltInv /\ [Next]_vars => BuiltInv'
    BY StepAccount, StepUntouched DEF BuiltInv
<1>3. BuiltInv => BuiltVerifies
    <2>1. SUFFICES ASSUME Untouched, receipt # None, edits = 0
                   PROVE  ok(receipt) <=> \A p, q \in SafeFiles(RealFolders) :
                              Lower[p[1]] = Lower[q[1]] /\ Lower[p[2]] = Lower[q[2]] => p = q
        BY DEF BuiltInv, BuiltVerifies
    <2>2. RealFolders = Folders /\ Clean(receipt)
        BY <2>1 DEF Untouched, RealFolders
    <2>3. SafeFiles(RealFolders) = Files
        BY <2>2, AllFiles
    <2>4. ok(receipt) <=> CaseCollisions(Files) = {}
        BY <2>2 DEF Clean, ok
    <2>5. QED
        BY <2>3, <2>4 DEF CaseCollisions, SameIgnoringCase
<1>4. QED
    BY <1>1, <1>2, <1>3, PTL DEF Spec

==============================================================================
