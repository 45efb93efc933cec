------------------------------- MODULE MCGolden -------------------------------
(***************************************************************************)
(* Directories of at most two cases, which replay to two fills, to one or  *)
(* to none and expect as much, more, less or something else; a comparison  *)
(* of the two cases that the code selects.                                 *)
(***************************************************************************)
EXTENDS GoldenCommands

CONSTANTS Buy, Sell, Flat, Long, Market, Limit, Agree, Differ

Results == { [fills |-> <<Buy, Sell>>, final_ledger |-> Flat],
             [fills |-> <<Buy>>, final_ledger |-> Long] }

Expectations == [fills: {None, Malformed, <<>>, <<Buy>>, <<Buy, Sell>>, <<Sell>>},
                 final_ledger_hash: {None, Flat, Long}]

CaseFiles ==
    [file: {"object"}, expect_error: BOOLEAN, replay: Results \cup {Refused, Uncaught},
     expected: Expectations \cup {Null}]
    \cup { [file |-> f, expect_error |-> FALSE, replay |-> Refused, expected |-> Null]
           : f \in {"malformed", "unreadable", "not_an_object"} }

SmallDirectories == UNION { [1 .. n -> CaseFiles] : n \in 0 .. 2 }

\* A directory with one case, which replays well and expects a fill that cannot
\* be read.
MisfitCase ==
    [file |-> "object", expect_error |-> FALSE,
     replay |-> [fills |-> <<Buy, Sell>>, final_ledger |-> Flat],
     expected |-> [fills |-> Malformed, final_ledger_hash |-> None]]

MisfitDirectories == { <<MisfitCase>> }

SelectedCases == <<Market, Limit>>
==============================================================================
