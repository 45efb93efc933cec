----------------------------- MODULE RunManifest -----------------------------
(***************************************************************************)
(* A run directory, its manifest and the check of one against the other    *)
(* (integrity/manifest.py, receipt.py, paths.py and the two adapters'      *)
(* validate_immutable_input).  build_manifest lists the files below the    *)
(* directory and declares them one by one with their digests;              *)
(* verify_manifest lists what is there now, resolves and hashes the        *)
(* declared files one by one and reports every discrepancy in a receipt;   *)
(* validate_immutable_input resolves and admits one declared file when the *)
(* receipt is clean, and the worker opens it afterwards.                   *)
(*                                                                         *)
(* Nothing locks the directory: files, folders and the manifest may change *)
(* between any two of these steps, and between the resolution of a path    *)
(* and the open of the name it resolved to, which follows whatever link    *)
(* was put there in between.  A path is a folder and a name; a folder may  *)
(* be replaced by a symbolic link to another one, inside the directory or  *)
(* outside it (a link leads to a real folder: no chain of links is         *)
(* modelled).  A digest (with the byte size) stands for the content, and a *)
(* root hash for the entries it was computed from.                         *)
(***************************************************************************)
EXTENDS Sequences, FiniteSets, SequencesExt

CONSTANTS
    Folders,        \* the folders of the directory, Root among them
    Root,
    Outside,        \* a folder elsewhere that a link may lead to
    Names,          \* the file names
    Portable,       \* those a portable relative path may hold
    Lower,          \* Lower[n]: the folder or the name in lower case
    Contents,       \* what a file may hold
    Absent, Link,   \* no file; a file that is a symbolic link
    Layouts,        \* the directories the behaviours start from
    MaxEdits,       \* bound on the changes made behind the code's back
    MaxEntries,     \* bound on the entries an edited manifest has
    None

Paths == Folders \X Names
Places == (Folders \cup {Outside}) \X Names
Nodes == Contents \cup {Absent, Link}

ASSUME FoldersAssumption == Root \in Folders /\ Outside \notin Folders
ASSUME FiniteAssumption == IsFiniteSet(Folders) /\ IsFiniteSet(Names)
ASSUME NodesAssumption == Absent # Link /\ Absent \notin Contents /\ Link \notin Contents
ASSUME LayoutsAssumption == Layouts \subseteq [Places -> Nodes]
ASSUME NoneAssumption == None \notin [path : Paths, place : Paths]

VARIABLES
    disk,       \* [Places -> Nodes]
    link,       \* where each folder really leads: to itself, or it is a link
    manifest,   \* manifest.json: None, or its entries and root hash
    pc,         \* how far build_manifest, validate_immutable_input or the read is
    loaded,     \* the manifest as it was loaded; None while one is built
    walk,       \* folders os.walk still descends to
    listed,     \* files found: [safe, symlinks]
    built,      \* the entries build_manifest has so far
    todo,       \* declared files still to be hashed
    resolved,   \* the declared file being hashed: its path, and where that led
    changed,    \* those that did not match
    receipt,
    asked,      \* the path asked for, and where it led
    consumed,   \* what the worker read
    edits,      \* changes so far
    seen,       \* history: how each path looked since the manifest was loaded
    late        \* history: the paths that changed after they were resolved

dir == <<disk, link, manifest, edits>>
walking == <<walk, listed>>
checking == <<todo, resolved, changed, receipt>>
reading == <<asked, consumed>>
history == <<seen, late>>
session == <<pc, loaded, walking, built, checking, reading>>
vars == <<dir, session, history>>

-----------------------------------------------------------------------------
(* What a path leads to.                                                   *)

Place(p) == <<link[p[1]], p[2]>>
IsPortable(p) == p[2] \in Portable
Look(p) == [via |-> link[p[1]], node |-> disk[Place(p)]]

\* The paths os.walk finds in folder f that are such nodes.
ListFolder(f, nodes) == { p \in {f} \X Names : Look(p).node \in nodes }

\* resolve_contained: a portable path, no link itself, below the root.
Resolves(p) == /\ IsPortable(p)
               /\ Look(p).node # Link
               /\ link[p[1]] # Outside

\* What resolve_contained returns: the path's place, which is a path again.
Resolution(p) == [path |-> p, place |-> Place(p)]

\* What an open of path p by its name may find: a symbolic link leads anywhere.
Opened(p) == IF Look(p).node = Link THEN Contents \cup {Absent} ELSE {Look(p).node}

SafeFiles(fs) == UNION { ListFolder(f, Contents) : f \in fs }
Symlinks(fs) == UNION { ListFolder(f, {Link}) : f \in fs }
RealFolders == { f \in Folders : link[f] = f }

-----------------------------------------------------------------------------
(* The manifest.                                                           *)

Entry == [path : Paths, digest : Contents]

PathsOf(entries) == { entries[i].path : i \in DOMAIN entries }

\* declared.setdefault: the first entry of a path is the one that counts.
Declared(entries) ==
    [p \in PathsOf(entries) |->
        LET i == CHOOSE i \in DOMAIN entries :
                     /\ entries[i].path = p
                     /\ \A j \in DOMAIN entries : entries[j].path = p => i <= j
        IN entries[i].digest]

DuplicatePaths(entries) ==
    { entries[i].path : i \in { i \in DOMAIN entries :
        \E j \in DOMAIN entries : j # i /\ entries[j].path = entries[i].path } }

\* Mutant of SameIgnoringCase: the folders are compared as they are.
SameNameInFolder(p, q) == p[1] = q[1] /\ Lower[p[2]] = Lower[q[2]]

SameIgnoringCase(p, q) == Lower[p[1]] = Lower[q[1]] /\ Lower[p[2]] = Lower[q[2]]
CaseCollisions(paths) == { p \in paths : \E q \in paths : p # q /\ SameIgnoringCase(p, q) }

-----------------------------------------------------------------------------
(* Changes behind the code's back.                                         *)

\* What any of these changes leaves behind: a path that looks otherwise after
\* it was resolved to be hashed is late.
Edited ==
    /\ edits < MaxEdits
    /\ edits' = edits + 1
    /\ IF loaded = None
       THEN UNCHANGED history
       ELSE /\ seen' = [p \in Paths |-> seen[p] \cup {Look(p)'}]
            /\ late' = late \cup { p \in Paths \ todo : Look(p)' # Look(p) }
    /\ UNCHANGED session

EditFile ==
    /\ \E q \in Places, node \in Nodes :
           node # disk[q] /\ disk' = [disk EXCEPT ![q] = node]
    /\ UNCHANGED <<link, manifest>>
    /\ Edited

\* A folder becomes a link to a real one, or a real folder again.
RelinkFolder ==
    /\ \E f \in Folders \ {Root}, g \in Folders \cup {Outside} :
           /\ g # link[f]
           /\ g \in RealFolders \cup {f, Outside}
           /\ \A h \in Folders \ {f} : link[h] # f
           /\ link' = [link EXCEPT ![f] = g]
    /\ UNCHANGED <<disk, manifest>>
    /\ Edited

\* An entry is dropped, put in front or altered; the root hash is adjusted or not.
Dropped(entries) == { RemoveAt(entries, i) : i \in DOMAIN entries }
Prefixed(entries) == { <<e>> \o entries : e \in Entry }
Redigested(entries, i, c) == ReplaceAt(entries, i, [path |-> entries[i].path, digest |-> c])
Altered(entries) == { Redigested(entries, i, c) : i \in DOMAIN entries, c \in Contents }
EditedEntries(entries) == Dropped(entries) \cup Prefixed(entries) \cup Altered(entries)

EditManifest ==
    /\ manifest # None
    /\ \E entries \in EditedEntries(manifest.entries), adjusted \in BOOLEAN :
           /\ Len(entries) <= MaxEntries
           /\ manifest' = [entries |-> entries,
                           root_hash |-> IF adjusted THEN entries ELSE manifest.root_hash]
    /\ UNCHANGED <<disk, link>>
    /\ Edited

LoseManifest ==
    /\ manifest # None
    /\ manifest' = None
    /\ UNCHANGED <<disk, link>>
    /\ Edited

-----------------------------------------------------------------------------
(* _walk_actual, of build_manifest and of verify_manifest.                 *)

\* os.walk lists the root, sees which folders are links, and descends to the
\* others later; by then they may have become links, which it follows.
List(f) ==
    listed' = [safe |-> listed.safe \cup ListFolder(f, Contents),
               symlinks |-> listed.symlinks \cup ListFolder(f, {Link})]

ListRoot ==
    /\ pc = "walk"
    /\ List(Root)
    /\ walk' = RealFolders \ {Root}
    /\ pc' = "descend"
    /\ UNCHANGED <<dir, loaded, built, checking, reading, history>>

Descend(f) ==
    /\ pc = "descend" /\ f \in walk
    /\ List(f)
    /\ walk' = walk \ {f}
    /\ UNCHANGED <<dir, pc, loaded, built, checking, reading, history>>

Unlisted == [safe |-> {}, symlinks |-> {}]

-----------------------------------------------------------------------------
(* build_manifest and write_manifest.                                      *)

StartBuild ==
    /\ pc = "idle" /\ manifest = None
    /\ pc' = "walk"
    /\ UNCHANGED <<dir, loaded, walking, built, checking, reading, history>>

\* Back to where no manifest is being built.
EndBuild == pc' = "idle" /\ listed' = Unlisted /\ built' = <<>>

\* It raises on a file that was a symbolic link when it was listed.
StartDigests ==
    /\ pc = "descend" /\ walk = {} /\ loaded = None
    /\ IF listed.symlinks = {}
       THEN pc' = "digest" /\ built' = <<>> /\ UNCHANGED listed
       ELSE EndBuild
    /\ UNCHANGED <<dir, loaded, walk, checking, reading, history>>

Unbuilt == pc = "digest" /\ Len(built) < Cardinality(listed.safe)

\* The next file in order is opened by its name; it raises when there is none, or
\* when the entry's schema refuses the path.
DigestFile ==
    /\ Unbuilt
    /\ LET p == SetToSeq(listed.safe)[Len(built) + 1] IN
       \E node \in Opened(p) :
           IF IsPortable(p) /\ node # Absent
           THEN built' = Append(built, [path |-> p, digest |-> node]) /\ UNCHANGED <<pc, listed>>
           ELSE EndBuild
    /\ UNCHANGED <<dir, loaded, walk, checking, reading, history>>

WriteManifest ==
    /\ pc = "digest" /\ ~Unbuilt
    /\ manifest' = [entries |-> built, root_hash |-> built]
    /\ EndBuild
    /\ UNCHANGED <<disk, link, edits, loaded, walk, checking, reading, history>>

-----------------------------------------------------------------------------
(* verify_manifest, within validate_immutable_input.                       *)

\* load_manifest: the file is there and its entries' paths are portable.
Loadable == manifest # None /\ \A p \in PathsOf(manifest.entries) : IsPortable(p)

Load ==
    /\ pc = "idle" /\ Loadable
    /\ pc' = "walk"
    /\ loaded' = manifest
    /\ seen' = [p \in Paths |-> {Look(p)}]
    /\ UNCHANGED <<dir, walking, built, checking, reading, late>>

StartHashing ==
    /\ pc = "descend" /\ walk = {} /\ loaded # None
    /\ todo' = PathsOf(loaded.entries) \cap listed.safe
    /\ changed' = PathsOf(loaded.entries) \cap listed.symlinks
    /\ late' = {}
    /\ pc' = "hash"
    /\ UNCHANGED <<dir, loaded, walking, built, resolved, receipt, reading, seen>>

\* The next declared file: one that no longer resolves counts as changed.
ResolveFile(p) ==
    /\ pc = "hash" /\ p \in todo /\ resolved = None
    /\ todo' = todo \ {p}
    /\ IF Resolves(p)
       THEN resolved' = Resolution(p) /\ UNCHANGED changed
       ELSE changed' = changed \cup {p} /\ UNCHANGED resolved
    /\ UNCHANGED <<dir, pc, loaded, walking, built, receipt, reading, history>>

\* Mutant of Matches: a file that cannot be opened is skipped.
MatchesIfOpened(p, node) == node \in {Declared(loaded.entries)[p], Absent}

Matches(p, node) == node = Declared(loaded.entries)[p]

\* What the path resolved to is opened by its name: what is not there counts as
\* changed too.
HashFile ==
    /\ pc = "hash" /\ resolved # None
    /\ \E node \in Opened(resolved.place) :
           changed' = IF Matches(resolved.path, node) THEN changed ELSE changed \cup {resolved.path}
    /\ resolved' = None
    /\ UNCHANGED <<dir, pc, loaded, walking, built, todo, receipt, reading, history>>

Findings ==
    LET actual == listed.safe \cup listed.symlinks
        declared == PathsOf(loaded.entries)
    IN [missing |-> declared \ actual,
        extra |-> actual \ declared,
        changed |-> changed,
        duplicate_paths |-> DuplicatePaths(loaded.entries),
        case_collisions |-> CaseCollisions(declared),
        root_hash_mismatch |-> loaded.root_hash # loaded.entries]

\* build_receipt: its schema refuses a path that is not portable.
IssueReceipt ==
    /\ pc = "hash" /\ todo = {} /\ resolved = None
    /\ IF \A p \in Findings.extra : IsPortable(p)
       THEN receipt' = Findings /\ pc' = "admit"
       ELSE pc' = "raised" /\ UNCHANGED receipt
    /\ UNCHANGED <<dir, loaded, walking, built, todo, resolved, changed, reading, history>>

ok(r) == /\ r.missing \cup r.extra \cup r.changed = {}
         /\ r.duplicate_paths \cup r.case_collisions = {}
         /\ ~r.root_hash_mismatch

-----------------------------------------------------------------------------
(* The rest of validate_immutable_input, and the read of what it returned. *)

\* Mutant of Admissible: the receipt is not looked at.
AdmissibleDeclared(p) == /\ p \in PathsOf(loaded.entries)
                         /\ Resolves(p)
                         /\ Look(p).node \in Contents

Admissible(p) == /\ ok(receipt)
                 /\ p \in PathsOf(loaded.entries)
                 /\ Resolves(p)
                 /\ Look(p).node \in Contents

\* The path asked for is any; it was not looked at before.
Admit(p) ==
    /\ pc = "admit" /\ Admissible(p)
    /\ asked' = Resolution(p)
    /\ pc' = "read"
    /\ UNCHANGED <<dir, loaded, walking, built, checking, consumed, history>>

\* Whatever is raised on the way leaves as an input error.
Refuse ==
    /\ \/ pc = "idle" /\ ~Loadable
       \/ pc = "raised"
       \/ pc = "admit" /\ \E p \in Paths : ~Admissible(p)
    /\ pc' = "refused"
    /\ UNCHANGED <<dir, loaded, walking, built, checking, reading, history>>

\* The worker opens the returned path by its name.
Read ==
    /\ pc = "read"
    /\ \E node \in Opened(asked.place) :
           IF node = Absent
           THEN pc' = "refused" /\ UNCHANGED consumed
           ELSE pc' = "done" /\ consumed' = node
    /\ UNCHANGED <<dir, loaded, walking, built, checking, asked, history>>

-----------------------------------------------------------------------------
Init ==
    /\ disk \in Layouts
    /\ link = [f \in Folders |-> f]
    /\ manifest = None /\ loaded = None /\ resolved = None
    /\ receipt = None /\ asked = None /\ consumed = None
    /\ pc = "idle"
    /\ walk = {} /\ todo = {} /\ changed = {} /\ late = {}
    /\ listed = Unlisted /\ built = <<>>
    /\ edits = 0
    /\ seen = [p \in Paths |-> {}]

Walk == ListRoot \/ \E f \in Folders : Descend(f)
Build == StartBuild \/ StartDigests \/ DigestFile \/ WriteManifest
Verify == \/ Load \/ StartHashing
          \/ (\E p \in Paths : ResolveFile(p)) \/ HashFile \/ IssueReceipt
          \/ (\E p \in Paths : Admit(p)) \/ Refuse \/ Read
Edit == EditFile \/ RelinkFolder \/ EditManifest \/ LoseManifest

Next == Build \/ Walk \/ Verify \/ (pc \notin {"done", "refused"} /\ Edit)

Spec == Init /\ [][Next]_vars

-----------------------------------------------------------------------------
(* Properties.                                                             *)

\* Whether an open of path p, after it was resolved, may have found content c: at
\* some moment it led inside the directory and was no link, and at some moment
\* what it then led to held c, or was a link itself.  Where no link was ever put,
\* this is whether p ever held c.
MayHold(p, c) ==
    \E v \in seen[p] : /\ v.via # Outside /\ v.node # Link
                       /\ \E w \in seen[<<v.via, p[2]>>] : w.node \in {c, Link}

\* verify_manifest reports what was wrong all the time it ran and does not
\* report what was right all the time, however the directory changed in
\* between: a declared path that at no time could be opened to its declared
\* content is missing or changed, one that always led to it is neither; a file
\* that was always there and is not declared is extra, one that never was is not
\* (manifest.py:116-167).
ReceiptAccounts ==
    receipt # None =>
        LET declared == Declared(loaded.entries)
            reported == receipt.missing \cup receipt.changed
        IN \A p \in Paths :
            IF p \in DOMAIN declared
            THEN /\ ~MayHold(p, declared[p]) => p \in reported
                 /\ seen[p] = {[via |-> p[1], node |-> declared[p]]} => p \notin reported
            ELSE /\ (\A v \in seen[p] : v.via = p[1] /\ v.node # Absent) => p \in receipt.extra
                 /\ (\A v \in seen[p] : v.node = Absent) => p \notin receipt.extra

\* A directory nobody touched verifies against the manifest build_manifest
\* wrote for it, unless the paths of two of its files differ in case only, in the
\* folder or in the name (manifest.py:82-113).
BuiltVerifies ==
    receipt # None /\ edits = 0 =>
        (ok(receipt) <=> \A p, q \in SafeFiles(RealFolders) :
                             Lower[p[1]] = Lower[q[1]] /\ Lower[p[2]] = Lower[q[2]] => p = q)

\* What the worker reads is what the manifest declared for the path it asked
\* for; it can only be something else when the path changed after verify_manifest
\* had resolved it to hash it (validate_immutable_input, then the worker's open).
ReadAsDeclared ==
    pc = "done" /\ asked.path \notin late =>
        /\ asked.path \in PathsOf(loaded.entries)
        /\ consumed = Declared(loaded.entries)[asked.path]

\* "never raises for a tampered/corrupted state" (manifest.py:120).
NeverRaises == pc # "raised"

==============================================================================
