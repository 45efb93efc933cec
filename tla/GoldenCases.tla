------------------------------ MODULE GoldenCases ------------------------------
(***************************************************************************)
(* tec golden run (cli/main.py) and the runner of golden cases             *)
(* (golden/cases.py).  A case file is read, replayed by the golden oracle  *)
(* and judged by what it declares; "all" runs every file of the directory  *)
(* in the order of the file names.                                         *)
(*                                                                         *)
(* A case is what the runner can tell of its file: whether it holds a JSON *)
(* object, whether it declares an error, what its replay comes to (a       *)
(* result, an error of the kinds the runner catches, or another one) and   *)
(* what it expects.  What the oracle makes of a case is the business of    *)
(* GoldenOracle; a replay here is given with the case, since run_oracle    *)
(* depends on nothing else.                                                *)
(***************************************************************************)
EXTENDS Integers, Sequences

CONSTANTS
    Directories,  \* the *.json files a directory may hold, in the order of their names
    Refused,      \* a replay that ends in an error the runner catches
    Uncaught,     \* one that ends in an error it does not catch
    Null,         \* an "expected" section that is JSON's null
    Malformed,    \* expected fills that cannot be read
    None

VARIABLES
    files,    \* the files the command selected, or None: no such case
    results,  \* the results so far, in the order of the files
    raised,   \* whether run_case_file has raised
    status    \* the exit status of the command, None while it runs

vars == <<files, results, raised, status>>

Replayed(c) == c.replay \notin {Refused, Uncaught}

------------------------------------------------------------------------------
(* Judging a case: run_case_file.                                          *)

\* Reading what a case expects may raise: an "expected" that is null, a fill
\* without one of its five fields or with a price that is no number.
Unreadable(c) == /\ Replayed(c) /\ ~c.expect_error
                 /\ c.expected # Null => c.expected.fills = Malformed

\* Errors outside of the try statement, or of a kind it does not name.
Raises(c) == \/ c.file \in {"unreadable", "not_an_object"}
             \/ c.file = "object" /\ (c.replay = Uncaught \/ Unreadable(c))

\* Mutant of FillsMatch: pair by pair, as far as both lists go.
FillsMatchZipped(want, actual) ==
    \A i \in DOMAIN want \cap DOMAIN actual : want[i] = actual[i]

FillsMatch(want, actual) == want = actual

\* _evaluate_expected finds no mismatch; what is not declared is not compared.
Matches(c) ==
    /\ c.expected.final_ledger_hash # None =>
            c.expected.final_ledger_hash = c.replay.final_ledger
    /\ c.expected.fills # None => FillsMatch(c.expected.fills, c.replay.fills)

\* The ok of the result of a case that does not raise.
Ok(c) == /\ c.file = "object"
         /\ IF c.expect_error THEN c.replay = Refused
                              ELSE Replayed(c) /\ Matches(c)

------------------------------------------------------------------------------
(* The command.                                                            *)

Init == /\ results = <<>> /\ raised = FALSE /\ status = None
        /\ \E d \in Directories :
               \/ files = d                               \* "all"
               \/ \E n \in DOMAIN d : files = << d[n] >>  \* one case by its id
               \/ files = None                            \* an id that is no file

\* The next file; what it raises ends the command with a traceback, and the
\* results before it are never shown.
RunCase ==
    /\ status = None /\ files # None /\ Len(results) < Len(files)
    /\ LET c == files[Len(results) + 1] IN
       IF Raises(c)
       THEN raised' = TRUE /\ status' = 1 /\ UNCHANGED results
       ELSE results' = Append(results, Ok(c)) /\ UNCHANGED <<raised, status>>
    /\ UNCHANGED files

\* Nothing to run is a failure.
NoCases == files = None \/ files = <<>>

Report ==
    /\ status = None
    /\ files # None => Len(results) = Len(files)
    /\ status' = IF ~NoCases /\ \A n \in DOMAIN results : results[n] THEN 0 ELSE 1
    /\ UNCHANGED <<files, results, raised>>

Next == RunCase \/ Report

------------------------------------------------------------------------------
(* Properties.                                                             *)

\* What a case declares is what happens: an error the oracle or a validator
\* reports, or else a result with every fill and the ledger it expects.
Sound(c) ==
    /\ c.file = "object"
    /\ IF c.expect_error
       THEN c.replay = Refused
       ELSE /\ c.replay \notin {Refused, Uncaught}
            /\ c.expected # Null
            /\ c.expected.final_ledger_hash \in {None, c.replay.final_ledger}
            /\ \/ c.expected.fills = None
               \/ /\ c.expected.fills # Malformed
                  /\ Len(c.expected.fills) = Len(c.replay.fills)
                  /\ \A i \in DOMAIN c.replay.fills : c.expected.fills[i] = c.replay.fills[i]

\* The exit status tells the truth about all of the cases together: it is 0
\* exactly when there is a case to run and each does what it declares, however
\* many there are, whatever their order and whichever of them raises
\* (cli/main.py:424-460).
VerdictTruthful ==
    status # None =>
        (status = 0 <=> files \notin {None, <<>>} /\ \A n \in DOMAIN files : Sound(files[n]))

\* "Never raises: parse errors, oracle errors and fixture mismatches are all
\* reported in the result" (golden/cases.py:118-120).
NeverRaises == ~raised
==============================================================================
