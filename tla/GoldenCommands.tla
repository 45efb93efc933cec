---------------------------- MODULE GoldenCommands ----------------------------
(***************************************************************************)
(* The two commands of cli/main.py on golden cases, as one program: the    *)
(* user starts one of them.                                                *)
(***************************************************************************)
EXTENDS Integers, Sequences

CONSTANTS Directories, Refused, Uncaught, Null, Malformed,
          Selected, Findings, Summary, Manifest, Partial, Other, None

VARIABLES command, files, results, raised, exit,
          pc, worker, summaries, staging, temp, output, status

Cases == INSTANCE GoldenCases WITH status <- exit
Comparison == INSTANCE GoldenComparison

\* Cases are different and no file is named like another.
ASSUME SelectedAssumption ==
    /\ Selected \in Seq(Comparison!Cases)
    /\ \A i, j \in DOMAIN Selected : Selected[i] = Selected[j] => i = j
    /\ Summary # Manifest
    /\ {Summary, Manifest, Partial} \cap Comparison!Cases = {}

\* What a directory holds in which the cases came to these findings.
Compared(f) ==
    LET found == [n \in DOMAIN Selected |-> [case |-> Selected[n], finding |-> f[Selected[n]]]]
    IN [m \in Comparison!Cases \cup {Summary, Manifest} |->
            IF m = Summary THEN found
            ELSE IF m = Manifest THEN Comparison!Cases \cup {Summary}
            ELSE f[m]]

\* What the others leave is none of it, and a sentinel is nothing else.
ASSUME OutputAssumption ==
    /\ None # Other
    /\ \A f \in [Comparison!Cases -> Findings] : Compared(f) \notin {None, Other}
    /\ None \notin {"running", "published", "succeeded", "failed", "ok", "killed",
                    "comparison", "other"}

\* Fills are a list where they are one, and errors, sentinels and results differ.
IsList(s) == s = [i \in 1 .. Len(s) |-> s[i]] /\ Len(s) \in Nat

ASSUME CasesAssumption ==
    /\ Refused # Uncaught /\ Malformed # None
    /\ \A d \in Directories :
        /\ d # None /\ IsList(d)
        /\ \A n \in DOMAIN d :
            /\ d[n].replay \notin {Refused, Uncaught} => IsList(d[n].replay.fills)
            /\ d[n].expected # Null /\ d[n].expected.fills \notin {None, Malformed} =>
                    IsList(d[n].expected.fills)

run == <<files, results, raised, exit>>
comparison == <<pc, worker, summaries, staging, temp, output, status>>
vars == <<command, run, comparison>>

Init ==
    \/ /\ command = "golden run" /\ Cases!Init
       /\ Comparison!Init
    \/ /\ command = "compare-golden" /\ Comparison!Init
       /\ files = None /\ results = <<>> /\ raised = FALSE /\ exit = None

Next ==
    \/ command = "golden run" /\ Cases!Next /\ UNCHANGED <<command, comparison>>
    \/ command = "compare-golden" /\ Comparison!Next /\ UNCHANGED <<command, run>>

Spec == Init /\ [][Next]_vars

\* Each command is a process that runs by itself.
FairSpec ==
    Spec /\ WF_vars(command = "compare-golden" /\ Comparison!Step /\ UNCHANGED <<command, run>>)

\* The exit status of tec golden run is 0 exactly when there is a case to run
\* and each does what it declares (cli/main.py:424-460).
VerdictTruthful == Cases!VerdictTruthful

\* "Never raises: parse errors, oracle errors and fixture mismatches are all
\* reported in the result" (golden/cases.py:118-120).
NeverRaises == Cases!NeverRaises

\* A published comparison is whole, and nothing is left of any other
\* (golden.py:93-149).
ComparisonWhole == Comparison!ComparisonWhole

\* The comparison's directory appears once, all at once and for good, and the
\* command's exit status tells the truth about it (golden.py:89-149).
ComparisonAtomic == Comparison!ComparisonAtomic

\* The comparison ends, whatever its workers do (runner.py:44).
ComparisonEnds == command = "compare-golden" => Comparison!ComparisonEnds
==============================================================================
