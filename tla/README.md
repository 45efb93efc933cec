# A formal model of trading-engine-conformance

TLA+ specifications of `src/trading_engine_conformance`, model-checked with TLC
and, where noted, proved with TLAPS. `PROJECT.json` ties every definition to the
lines it models (`map`), every property to a run and to a plausible bug that
breaks it (`mutants`), and lists the hazards the properties are aimed at.

Paths below are relative to `src/src/trading_engine_conformance/`.

## 1. Inventory: the system and its parts

The package replays one tape of market events and order intents through several
engines and compares what they make of it. The reference engine is a hand-written
*golden oracle*; NautilusTrader and VectorBT are run through adapters, each in a
child process that writes an immutable, manifest-bound output directory.

| Component | State it keeps | Operations | Interacts with |
|---|---|---|---|
| Order-status machine (`schema/orders.py`) | the transition table | `validate_transition` | every transition the oracle emits |
| Oracle: matching loop (`golden/oracle.py`) | a runtime per order (status, residual, stop latch, first event consumed), the event's remaining liquidity, streams of transitions and fills | `_accept_orders`, `_expire_gtd_orders`, `_process_event`, `_match_runtime`, `fill_order` | books every fill in the ledger, within the same call |
| Oracle: ledger (`_Ledger`) | cash, signed position, weighted average price, realized PnL, last price, snapshots | `execute_fill`, `_apply_position_delta`, `_append_ledger_snapshot` | called by the matching loop and the final liquidation |
| Oracle: replay (`run_oracle`) | the two above | the event loop, `_apply_final_liquidation` | golden cases, Nautilus comparison |
| Stream ordering, `RunArtifact` (`ordering.py`, `schema/envelope.py`) | none | `canonical_order`, `assert_monotonic` | sorts the oracle's input, checks a run's streams |
| Golden cases (`golden/cases.py`, `tec golden run`) | a case and its expectations, the results so far | `run_case_file`, `run_all_cases`, the command's exit status | oracle |
| Workers and launchers (`adapters/*/worker.py`, `runner.py`, `isolation.py`) | a staging directory, the output directory, the child process | input verification, execution, file-by-file writing, manifest, rename, cleanup; launch with timeout | each other through the file system only |
| Atomic writes, manifests, receipts (`integrity/`) | files, `manifest.json`, a receipt under construction | `atomic_write_bytes`, `build_manifest`, `verify_manifest`, `build_receipt`, `validate_immutable_input` | workers, isolation |
| Nautilus session (`adapters/nautilus/worker._execute`, `compare.py`) | what the engine was fed and has reported | event order check, engine run, oracle run, field-by-field differences and their class | translators, oracle, engine |
| Nautilus translators (`translators.py`), DBN decoding (`dbn.py`) | none | each kind of record to the engine's object and back, and what is refused | session, decoder |
| Golden comparison (`adapters/nautilus/golden.py`) | a temporary and a staging directory, a worker per case | `compare_golden_cases` | launcher, manifests, the output directory |
| VectorBT screening (`adapters/vectorbt/ledger.py`, `metrics.py`, `models.py`, `worker._screen_trials`) | one trial per declared variant | screening, ranks, ledger verification, recomputed metrics | worker |
| Canonical JSON, hashing, field schemas, capability reports, the rest of the CLI | none | formatting, validation of single fields, I/O | everything |

Hard behaviours, and what correct means for each:

* *Matching loop*: three nested loops update one order at four places. Finite
  liquidity is shared in sequence order; IOC/FOK orders have one chance; GTD
  expiry comes before matching and residual cancellation after it; stop latches
  outlive an event, unless its liquidity ran out first; equal timestamps decide
  about lookahead. Correct: liquidity is conserved and left to nobody who wants
  it, priority is kept, fills are causal, single-shot orders never survive their
  event, and status, residual, transition log and fill stream tell one story.
* *Ledger*: partial closes, flips, a rounding division. Correct: books balance
  until something rounds, the average stays within the prices paid, and a fill or
  snapshot is refused for its price or for a rate, never for what came before.
* *Replay*: two components updated by one call, a fill that is refused after it
  was booked, a final liquidation at a stale price. Correct: the position is
  what the orders executed.
* *Workers*: several processes, one output name, a kill or an exception between
  any two steps, a timeout that races the end of the worker. Correct: the output
  appears once, complete and for good, and launchers tell the truth.
* *Screening*: any trial of a family may fail in any of four ways, an engine call
  for all of them may fail, and trials tie. Correct: every trial is in the ledger
  once and for its own reason, the ranking is a function of the results, and the
  numbers follow from signals, prices and costs.
* *Manifests*: nothing locks a run directory, so files, folders and the manifest
  change between listing, hashing, admitting and reading. Correct: the receipt
  accounts for what was wrong throughout and blames nothing that was right, and
  what is read is what was declared unless it changed after it was resolved to be
  hashed.
* *Session, translators, decoder*: two engines order one request separately;
  refusals come late in a stream; values are rounded to precisions that the
  engine's object may not share. Correct: the engine is given the request and
  nothing else, a record changes on the way there and back only where the engine
  has no place for a field, no difference is lost.
* *Golden cases, comparison*: errors become results, unless they are of a kind
  nobody named; a comparison of minutes asks first whether its output is new.
  Correct: the exit status is 0 exactly when every case is sound, and the
  comparison appears once, whole and with all of its cases, or not at all.

`PROJECT.json` lists each hazard at its line.

## 2. The modules

| Module | What it is |
|---|---|
| `OrderStatus` | the statuses and `_ALLOWED_TRANSITIONS` |
| `OrderLifecycle` | abstract: what becomes of one order (accept, trade, give up) |
| `OrderMatching` | the matching loop, one action per iteration of each of its loops |
| `OracleLedger` | `_Ledger`, with Decimal arithmetic that rounds half to even |
| `GoldenOracle` | `run_oracle`: both composed with `INSTANCE`, and the liquidation |
| `AtomicOutput` | abstract: an output directory that appears at once |
| `StagedPublish` | workers, launchers and the file system between them |
| `TrialReplay` | `build_execution_plan` and `recompute_metrics`, one action per event |
| `Screening` | `_screen_trials`, `build_ledger` and `verify_ledger`, around that replay |
| `RunManifest` | a run directory that changes while its manifest is built, loaded and verified and one of its files admitted and read |
| `NautilusTranslators` | every pair of translators: refusal, way there, way back |
| `NautilusAdapter` | a worker's session with the engine and the oracle, a decoding, a conversion, over the translators |
| `GoldenCases` | `tec golden run` over the files of a directory |
| `GoldenComparison` | `compare_golden_cases`, its workers and a rival for its output; refines `AtomicOutput` |
| `GoldenCommands` | the two golden commands as one program |
| `MCMatching`, `MCLedger`, `MCOracle`, `MCPublish`, `MCScreening`, `MCManifest`, `MCNautilus`, `MCGolden` | small instances for TLC |
| `OrderMatching_proofs`, `OracleLedger_proofs`, `GoldenOracle_proofs`, `StagedPublish_proofs`, `RunManifest_proofs`, `Screening_proofs`, `NautilusAdapter_proofs`, `GoldenCommands_proofs` | theorems (section 4) |

### OrderMatching

`run_oracle` receives two lists and replays both in canonical order. A behaviour
first chooses the intents one by one (`AcceptOrder`, which is also
`_accept_orders`' iteration), then the events one by one (`ReceiveEvent`, the
`for` loop), so that the behaviours are the runs over *all* lists of at most
`MaxOrders` and `MaxEvents` elements, in any time order. For each event the
phases `expire`, `match` and `cancel` are the three loops, `cursor` their index:

| Code | Actions |
|---|---|
| `_expire_gtd_orders` | `ExpireOrder`, `KeepOrder`, `StartMatching` |
| matching loop of `_process_event` | `SkipOrder` (the `continue`s), `PassOver` (no liquidity left), `MissOrder` (`_match_runtime` returns 0), `FillOrder`, `RejectFill` (the `Fill` schema raises), `RejectSnapshot` (the ledger snapshot's does), `StartCanceling` |
| residual loop | `CancelResidual`, `LeaveResting`, `EndEvent` |
| return, or the liquidation or the snapshot of a run without fills raises | `Finish` |

Fees and snapshots are the ledger's, so here any fill may be refused;
`GoldenOracle` says which one is. `MoveTo` is `emit_transition` with its validation; a refused transition leads to
phase `raised`, as an exception does. A trade is treated as a bar whose open,
high and low are its price, on which the code's two marketability functions
coincide. Quantities and prices are integers: this part of the code only adds,
subtracts and compares them. Reads through `intents[cursor]` and through the
runtime are kept apart as in the code, which matters when two intents share an id.

### OracleLedger and GoldenOracle

Prices and quantities are whole numbers, amounts are whole numbers of ulps.
Every operation that may round in the code's Decimal context goes through
`Rounded`, so that rounding is a behaviour and not an assumption. The context has
28 digits in the code and four in the runs, where TLC can exhaust them.

`OracleConfig` is a plain dataclass that checks nothing, so `Configs` has cash and
rates of any sign and a liquidation timestamp of any; what they lead to is a
refusal by the validators of `Fill` (`ValidFill`) or of the snapshot
(`ValidSnapshot`). `execute_fill` has updated cash and position by then:
`RefuseFill` and `RefuseSnapshot` book the trade and `refused` keeps its signed
quantity. In `GoldenOracle` a fill is one step of both components;
`RejectedFill` and `RejectedSnapshot` leave the order as it was, `Liquidate` and
`RefusedLiquidation` are `_apply_final_liquidation`, and `ReturnOpen` the return
without it, which is where the snapshot of a run without fills may be refused.
Entries of `OracleConfig` that are no finite decimals or whole numbers, and
timestamps beyond `UtcNanos`' upper bound of 2^63 - 1, are outside the model.

### StagedPublish

One action per effect of `run_worker` on the file system. A directory is a
function from entry names to contents; contents are the launch that wrote them,
and a manifest is the function it declares. The loop over the files is
`OpenTemp` / `CommitFile` per file (temporary and rename of
`atomic_write_bytes`); the manifest is written in the same way. `WorkFails` is an
exception at any of these steps, `RemoveEntry` / `RemoveStaging` the
`shutil.rmtree` it leads to, entry by entry; `Die` is a kill at any point,
including the middle of the cleanup. `Collect` and `TimeOut` are the two ways
`launch_worker`'s `subprocess.run` ends. The two adapters' workers consist of the
same statements and differ in the names and number of files and in the timeout,
which the model abstracts.

Assumptions about the environment, which the code relies on too: `rename(2)`
does not replace a directory that has entries; names of temporaries are random
and do not collide; a worker can remove what it created; no one else writes to
these directories; no power loss (the code syncs files, not directories).

### TrialReplay and Screening

`TrialReplay` is the loop of `recompute_metrics`: `Start` or `RefusePlan` is
`build_execution_plan`, then `Enter`, `Exit` and `Hold` execute an event, whose
end is `MarkToMarket`, `Refuse` is each of its exceptions and `Finish` its end.
Amounts are integers in units small enough for every product to be exact, as the
Decimal operations are within 28 digits; the drawdown, a quotient, is kept as a
ratio. `equities` records history for a property. An exit's fixed fee may exceed
its proceeds and nothing refuses it, so the equity may fall below nothing, where
the same fall is a larger share of a lower peak: `FallsFrom` says from which
equities the loop measures then. `Screening` extends it with the
two loops of `_screen_trials`: `BeginPreflight`, `Replay` and `EndPreflight` per
variant, `RunEngine` once, `Judge` per variant; `BuildLedger` and `VerifyLedger`
are the calls that follow. `sorted` is stable and is modelled by the indices of
what it sorts: `Best` and `Lowest` order two of them by their keys, then by their
places. What the engine returns for each trial is arbitrary,
reduced to how the parity check sees it. The second `recompute_metrics` of a
variant is not replayed: it has the arguments of the first. The baseline return,
which depends on the dataset alone, and digests of records that nobody alters are
left out; total return and turnover are their numerators, all over the same
initial cash.

### RunManifest

A path is a folder and a name; `link` says where a folder really leads, so that
replacing a folder by a symbolic link, inside or out of the directory, is one
assignment (a link leads to a real folder; chains of links are not modelled).
Contents stand for digests, the list of entries for the root hash computed from
it, `Lower` for the lower case of a folder or a name.

| Code | Actions |
|---|---|
| `_walk_actual`, for the one and the other | `ListRoot`, `Descend` (one folder of `os.walk`) |
| `build_manifest`, `write_manifest` | `StartBuild`, `StartDigests` (it raises on listed links), `DigestFile` (the open of one file), `WriteManifest` |
| `load_manifest`, `verify_manifest` | `Load`, `StartHashing`, `ResolveFile` (`resolve_contained` of one declared file), `HashFile` (the open of the name it returned), `IssueReceipt` (`build_receipt` and the schema that may refuse it) |
| `validate_immutable_input` and the worker's own open | `Admit`, `Refuse`, `Read` |

Edits (`EditFile`, `RelinkFolder`, `EditManifest`, `LoseManifest`) come between any
two of them, so also between the resolution of a path and the open of the name it
resolved to, which follows a link that was put there in between (`Opened`; a file
that became a link holds anything). A directory whose manifest is being built is
edited as one that is verified. The read of a file's content, once opened, is one
step. `seen` and `late` are history: how a path has looked since the manifest was
loaded, and whether it changed after it was resolved to be hashed.

`build_manifest` follows no symbolic link and `verify_manifest` reports linked
files, but a folder that is a link and was not declared is neither extra nor
changed: the walk does not enter it and does not mention it. The model has this;
no document of the repository says otherwise.

### NautilusTranslators, NautilusAdapter

Decimals are integers in units of `10^-Digits`, tenths in the runs, so that
refusing a value that does not fit a precision happens. An instrument has its two
precisions. `to_nautilus_instrument` hands the price precision to the engine's
contract and not the size precision, which is then the contract's own
(`ContractSizePrecision`, external) and is what `from_nautilus_instrument` reads
back: an instrument declared with another one comes back altered and is not
refused. `Carried` lists this with the other fields that the engine's objects have
no place for, and `TranslationExact` is about all the rest; the project's own claim
is for decimals ("Exact Decimal/string translators",
src/PHASE2_NAUTILUS_REPORT.md:40). The flags of native book deltas, which the
neutral record drops and src documents as kept in the raw output only, are outside
the model. What a record may be
before it is translated is stated by one set per kind (`TradeSchema`,
`OrderSchema`, ...), from the fields and validators of `schema/`; `JobsAssumption`
takes the jobs from them. A decoded delta has to pass `BookDelta`'s own validators
on the way back (`NativeDeltaRefused`). The engine is external: after each order or trade it may
report nothing, a fill of an order it knows, or another event. What the oracle
returns is arbitrary too (`GoldenOracle` has what it computes): the question here
is whether what both report ends up in the differences. `classify_difference`
never says "unresolved" of a field this worker compares, so the comparison's "ok"
is always true; the model has no such outcome either.

### GoldenCases, GoldenComparison, GoldenCommands

A case file is what the runner can tell of it: unreadable, malformed, not an
object, or an object with a replay and expectations. Five classes of exceptions
become a result when the replay raises them; what else raises, and what is raised
by reading the file or the expectations, leaves `run_case_file`. A case without an
"expected" section passes whatever it computes, which is the code's behaviour
(`raw.get("expected", {})`), while src/docs/accountability.md asks a golden case
for its expected fills and hash. `GoldenComparison` has one action per effect on
the file system; a worker is a process whose inside is `StagedPublish`'s, and
`TimeOut` is `subprocess.TimeoutExpired`, which no clause of the CLI names.
Another command may publish the same output in between, and the comparison may be
killed anywhere. That printing the result of a published comparison may fail
(`_emit`, cli/main.py:241-251) is left out.

## 3. The runs

| Run | Instance | Shows |
|---|---|---|
| `match` | any 3 of 6 orders of every time in force over any 3 of 4 trades, or any 3 of 6 stops, stop-limits, market and limit orders over any 3 of 5 bars (one without volume) and trades; any fill may be refused | types, residuals, fill reconciliation, conservation of liquidity, causality with expiry, single-shot and all-or-nothing resolution, exact triggering, work conservation, sequence priority, refinement of `OrderLifecycle` |
| `ledger` | up to 4 fills of 4 prices (one negative) and 3 quantities on each side, 4 configurations (a negative fee, margin rate, cash), 4 digits | books, average within range, refusals for a price or a rate only, gains of reductions |
| `oracle` | any 3 of 5 orders (one with a negative limit), any 4 of 4 trades, 6 configurations: with and without a liquidation, with one at a negative timestamp, with a negative fee, margin rate or cash | position, orders, fills and equity agree across both components, also in a replay that raises half way |
| `publish` | 3 launches, 2 staging names, a file and its manifest | completeness, permanence, truthful outcomes, ownership of staging, refinement of `AtomicOutput` |
| `screening` | families of 1 to 3 of 10 trials, in any order, over 5 events; any outcome of the engine | every trial once and for its own reason, canonical ranking, positions, costs and drawdown of a replay |
| `integrity` | 3 folders (two of them equal but for case) and one outside, 3 names (two equal but for case, one not portable), 2 contents, 2 edits anywhere, from the first step of building on | receipts account, untouched directories verify unless two paths differ in case only, what is read was declared |
| `nautilus` | requests of up to 2 of 3 orders and 3 of 5 trades, 3 reports, 2 oracle fills; records of all seven kinds; streams of up to 3 of 8 deltas | the engine follows the request, differences account, decodings are whole, translations carry all but the listed fields exactly |
| `golden` | directories of up to 2 of 155 case files; a comparison of 2 cases | the verdict is truthful; the comparison is whole, atomic (`AtomicOutput`) and ends |
| `oracle_liquidation_price` | 2 orders, 2 trades | **violation**: liquidates at the last fill's price, not the tape's |
| `integrity_raises` | `integrity` with one edit | **violation**: verification raises on a name that is not portable |
| `nautilus_tape` | the sessions of `nautilus` | **violation**: the engine's tape is not the oracle's |
| `golden_raises` | a directory of one case that replays well and expects a fill that cannot be read | **violation**: `run_case_file` raises instead of reporting it |

The four violations are disagreements between the code and its own documentation;
`findings` in `PROJECT.json` quotes both sides. Other disagreements the models
make visible, without a run of their own:

* `run_oracle` emits NEW and ACCEPTED of every order before the first event
  (oracle.py:370), so transitions are not in time order and `assert_monotonic` or
  `RunArtifact` would refuse them for orders created after an event.
* Two intents with the same `order_id` replace each other's runtime
  (oracle.py:371) and the log holds two None-to-NEW transitions.
* `oco_group_id` is never read by the matching loop: both orders of a group trade,
  though src/CHANGELOG.md:21-22 lists OCO among the oracle's lifecycles.
* The average price is a rounded division (oracle.py:282) where the docstring says
  "exact ``Decimal`` throughout"; the books balance only until something rounds.
* `run_case_file` "never raises" (cases.py:119), and does more than the one run
  shows: on a file that cannot be read or decoded, on JSON that is no object, on
  "expected": null, and on an error of the replay that is not of the five classes
  of cases.py:145.
* A killed worker leaves its staging directory (worker.py:282), though
  src/PHASE2_NAUTILUS_REPORT.md:47-48 says crash paths remove it.

*Why the bounds are enough.* Three orders are needed for an order to be starved
by one ahead of it while another behind it competes; three events for an order to
be created after one, miss or partly fill at a second and end at a third. Event
sizes lie below, at and above order quantities, prices miss, reach and gap
through levels, timestamps repeat and go backwards. The two families of `match`
are replayed apart (`OneFamily`): an order of one adds nothing to the other but
states. Four fills open, add, reduce and flip; each sign that nothing validates
has a configuration or a price of its own. In `publish` three launches
include two that share a staging name (there are two) and one that comes after
the other two; one file and the manifest make every kind of write happen. The ten
trials of `screening` gain, tie, stay open, do nothing, cannot pay, bind too late,
leave while flat, enter while long, have signals that become available between
two events, and one ends with less than nothing; three of them are enough for a failure between two completed
trials and for a tie with a third one; the five prices fall, reach a new peak and
fall twice, so that the largest fall is not the last. Two edits of `integrity`
undo each other, or change a file and its declaration, or a folder and a file in
it, or replace a folder by a link after a path in it was resolved and restore it
after the open; three entries are one more than any layout has, so that a duplicate fits.
Three trades of `nautilus` are in time order and not in sequence order, tie and
reverse; three reports exceed two oracle fills and fall short of them. Two cases
of `golden` are enough for one to hide, excuse or outvote the other, and are the
number the comparison has.

*Deadlock* is checked except where a behaviour stops at a bound or at an end:
the ledger's run stops at `MaxFills`, and the sessions, verifications and
commands of the last three pairs of runs end. The other modules have a
`Terminated` step for the ends the code has.

*Fairness.* Only the run that checks liveness assumes any. `golden` assumes weak
fairness of the comparison's own process, whose waits all end by
the launcher's timeout, and of nobody else: its workers, the rival and the
operating system may do nothing for ever. The other runs assume none; what they
check is safety.

## 4. What is proved

Every safety invariant and action property of the passing runs, and both
refinements, are theorems: they hold for every value of the constants that
satisfies the named assumptions. What TLC checks on an instance, TLAPS proves for
any number of orders, events, fills, launches, files, trials and records. The
inductive invariants were checked with TLC first.

The assumptions are what the code's validators and the naming of files guarantee:

| Assumption | What it says |
|---|---|
| `IntentAssumption`, `EventAssumption`, `BoundAssumption`, `GoldenAssumption`, `LedgerAssumption` | the fields of intents and events that the schema validates; of `OracleConfig`, which nothing validates, only that cash, rates and timestamp are numbers, of either sign; of a fill's price no more |
| `UniqueIds` (of `ImplementsLifecycle`, of the matching loop's `CausalFills`, `SingleShotResolved`, `StopTriggerExact`, `WorkConserving` and `SequencePriority`, and of `PositionReconciles`) | two intents of one run have different order ids, which the code does not check; the other theorems of the matching loop and of the replay do without (see below) |
| `DecimalContext` (of the rounding theorems) | the context's scales are all powers of ten, and so is the limit of its coefficients. TLC's instance has finitely many scales, enough for its amounts |
| `NotionalsFit(Capacity)` (of `AverageWithinRange`) | the value of `Capacity` units at any price has no more digits than the context keeps; the theorem is about the runs whose position stays within `Capacity` |
| `DatasetAssumption`, `VariantAssumption` | the models' validators of a screening: prices and sizes are positive, timestamps grow, a signal executes after it was available |
| `PrecisionAssumption`, `JobsAssumption` | precisions are natural numbers, the engine's own size precision for contracts included; records have passed their schema |
| `NameAssumption`, `FoldersAssumption`, `FiniteAssumption`, `NodesAssumption`, `LayoutsAssumption`, `SelectedAssumption`, `OutputAssumption`, `CasesAssumption` | directories are finite, names are what they are used as |
| `NoneAssumption` | the models' sentinel is no datum |

* `OrderMatching_proofs`: `TypeInvariant` and `ResidualConsistent`, by `IInv`.
  Neither is inductive alone: that a fill leaves a residual in range needs `Qty`
  at most the residual, and the status it moves to fits only if status and
  residual agreed before; and an active order has something left. The refinement
  of `OrderLifecycle` reads status and residual off the runtimes: a fill is a
  partial or complete fill, expiry and cancel give up, every other step is a
  stutter. `FillsReconcile` and `LiquidityConserved` quantify over the whole
  stream of fills; they hold whatever the order ids, by `Conserved`: every fill is
  one of a known id at an event already replayed (`Booking`), and none is booked
  while orders are accepted. `CausalFills`, `SingleShotResolved`,
  `StopTriggerExact`, `WorkConserving` and `SequencePriority` come from a larger
  invariant, `Streamed`: every intent's runtime is its own (`Filing`); the loop's
  position says which events an order was offered (`Offers`), and of those it is
  known that an active single-shot order that met one is waiting for the cancel
  loop (`Touching`) and that one that met none was eligible for none (`Waiting`),
  that no order still there is past its expiry (`Unexpired`), that a FOK has
  filled whole or not at all (`AllOrNothing`), that a stop was missed for want of
  liquidity only (`Missed`) and that whoever can still trade was left nothing
  (`Served`). Sums over the stream are folds; what one
  more fill adds to them is a lemma about sequences. A replay may raise at any
  fill: with the fill not in the stream (`RejectFill`) or in it and not in its order
  (`RejectSnapshot`), so the sums are claimed of replays that have not. That ids are
  distinct is needed: two intents of one id share a runtime, whose intent is the later's, and
  the loop visits it once for each, with the creation time and time in force of
  one and the price of the other. Such a runtime fills at an event its own intent
  is too late for, is passed over as an IOC order that had its chance when its own
  intent is a DAY order, and is accepted twice, so `CausalFills`,
  `SequencePriority` and the refinement fail (TLC finds them all with `UniqueIds`
  false and two intents of one id).
* `OracleLedger_proofs`: rounding half to even keeps signs and order, is exact
  where the coefficient fits and never crosses an exact value (the lemmas before
  `Priced`). From these, an accepted fill and snapshot are proof that the rates
  are sound, and no position, average or cash balance makes the validators refuse a
  later one at a positive price (`RefusedForCause`); a reduction realizes a gain or
  a loss according to its side (`ReductionRealizes`); and the average, four
  roundings deep, stays in the range of the prices paid (`AverageWithinRange`, by
  `Ranged`). While nothing has rounded, the books balance (`BookBalances`, by
  `ExactInv`), from the arithmetic of extending and of reducing or flipping a
  position over signed quantities. None of this assumes a sign of cash or rates.
* `GoldenOracle_proofs`: the composition. `Settled` keeps the ledger's books
  (`LiquidatedEquity`) and the order of fills (`FillStreamMonotonic`), whatever the
  order ids. `Reconciled` adds that the ledger's position is what the matching
  loop's orders executed, signed by side, until the liquidation takes it to nothing,
  and differs by exactly the refused fill once a replay has raised
  (`PositionReconciles`, a sum over intents, for which ids are distinct). The theorems
  about the components are used through instances of their proof modules; tlapm
  does not identify two instances of one module, so the first lemmas say that
  the definitions of the instances are those the composition uses.
* `StagedPublish_proofs`: `TypeInvariant`, `PublishedComplete`,
  `PublishedForever`, `OutcomeTruthful`, `StagingOwned` and the refinement of
  `AtomicOutput`, for any number of launches, files and names. The invariant
  says, for each program counter, exactly what the worker's staging directory
  holds (`StageOK`), that no two working workers share one (`Exclusive`), that
  the output is there exactly when some worker has published it (`OutputOK`), and
  what an outcome implies (`OutcomeOK`). `Within` gathers the eleven actions
  that touch nothing outside their own staging directory, so that each of them
  is only shown to be `Within`; making a staging directory, removing it and
  publishing are treated one by one. Two different launches leave different runs
  (`CompleteDiffers`), which makes the refinement mapping's `CHOOSE` unambiguous.
* `RunManifest_proofs`: `ReadAsDeclared` and `ReceiptAccounts`, for any directory,
  any manifest and any number of changes between any two steps. The first
  (`ReadInv`) follows a path: once it was hashed and matched it leads to its
  declared content as long as it is not late (`Hashed`), between resolution and
  open it led where it was resolved to or is late (`Resolving`), a resolved place is
  one a link leads to (`Links`), and a clean receipt leaves no declared path
  unhashed (`Issued`). The second (`AccountInv`) keeps, for all the code knows of a
  path (listed, a link, passed by, matched, not matched), the moments since the
  manifest was loaded at which it looked so: two of them for a match, one at which
  the path resolved and one at which the place it had resolved to held the declared
  content or was a link. `ReceiptAccounts` says no more than that (`MayHold`), and
  the code no more than `ReceiptAccounts`: a folder relinked between resolution and
  open makes verification accept what the path never led to when it was looked at.
  `BuiltVerifies` takes the second and `BuiltInv`: while nobody edits
  (`Untouched`), the manifest is faithful to the directory, so the walk finds what
  was declared and every digest matches.
* `Screening_proofs`: `CostsExplainProfit`, `DrawdownExact` and
  `PositionFollowsSignals` of a replay (`BooksInv`, `FallsInv`, `FollowInv`: cash
  and costs move together by what was traded, the peak is the highest equity of
  the history, as many signals are available as the position tells), and
  `EveryTrialOnce` and `RankingCanonical` of the ledger (`LedgerInv`: the results
  so far are the verdicts on the first variants). The last two need that a
  sorted enumeration exists and lists every result once (`SortedEnumerates`),
  that distinct ids make both orders total (`Ordered`), and that the ledger is a
  permutation of the results (`Listed`).
* `NautilusAdapter_proofs`: `EngineFollowsRequest`, `DifferencesAccount`,
  `DecodedWhole` and `TranslationExact`. `SessionInv` says what was fed so far,
  step by step, in terms of the request; `FillsInv` that the fills are the
  engine's fill reports in order; `DecodingInv` and `ConversionInv` where a file
  or a record is. Each pair of translators has a lemma of its own: from any record
  its schema admits, the way there and back leads to the record itself but for the
  fields of `Carried` (`InstrumentExact` ... `LedgerExact`).
* `GoldenCommands_proofs`: `VerdictTruthful` for any directory of any number of
  cases, from what the results so far stand for (`ResultsOK`) and the lemma that a
  case is judged ok exactly when it does what it declares (`Judged`);
  `ComparisonWhole` and the refinement of `AtomicOutput` for any selection of
  cases, from what the staging directory holds at each step of the command and of
  its worker (`StagingOK`). `WF` plays no part: these hold of `Spec`.

Induction over data is a least counterexample in these proofs: a set of numbers
that is not empty has a least element (`LeastIndex`, from the well-foundedness of
the naturals), so what holds at 0 and at the successor of whatever holds it holds
everywhere (`UpTo`). `Value`, `Rounded` and the sums are functions or folds for
that reason, none of them a RECURSIVE operator.

Proving has corrected the models. The drawdown's property used to say that no
fall from an earlier positive equity is larger than the one reported, which is
false once the equity is negative; it is now about what the loop compares.
`NativeDeltaRefused` had left out `BookDelta`'s own validators, without which a
decoded delta need not be one, what a job may hold was implicit in the instance,
and a refusal of the replay was assumed away by the signs of its configuration.

Only model-checked, as liveness is out of the prover's reach: that the comparison
ends (`ComparisonEnds`). The four violations are refutations and need no proof.

## 5. What is not modelled

* Canonical JSON, SHA-256: a digest is a model value where one is compared.
* Validation of single fields by pydantic is assumed of the inputs, but for
  portable paths and the bounds of a fill and of a snapshot, which decide something.
* `RunArtifact`, `assert_monotonic`: stateless checks of a stream they are given;
  the property `FillStreamMonotonic` states what they would ask of the fills.
* `sanitize_environment`, `deny_network` and the capability probes: they patch or
  inspect the interpreter and leave nothing behind that another step reads.
* The publication of a decoding (`dbn.py`): the statements of `run_worker`, which
  `StagedPublish` has, in the command's own process.
* The loading of VectorBT datasets, benchmark reports and the other commands of
  the CLI: I/O and formatting without state of their own.
* The third-party engines and the DBN decoder themselves.

## 6. Plan

In order of importance:

1. **Composition**: `RunManifest` over what `StagedPublish` publishes, so that what
   a worker publishes verifies in the next one, as a theorem about both.
2. **What the theorems assume**: whether `SingleShotResolved`, `StopTriggerExact`
   and `WorkConserving` hold in some form when two intents share an id; how large
   a `Capacity` the code's 28 digits allow for the declared precisions.
