# TLA+ verification of the resoto inspector, query model and event bus

This directory holds the following:

* TLA+ models of the code under `src/`.
* The TLC configurations that check the models on small instances.
* TLAPS proofs, for every value of the constants, of the safety
  properties that the passing runs of the check evaluation, the registry,
  the security sync and the event bus check, and of the refinement of the
  check evaluation.

`PROJECT.json` lists the components, the runs, the mutants, the map from
definitions to source lines, the findings, the hazards and the theorems.

## 1. The system and its parts

| Component | Source | Module(s) | Status |
|---|---|---|---|
| Check evaluation | `report/inspector_service.py` 303-359, 395-418 | `InspectorChecks`, `CheckResults` (abstract), `InspectorChecksRefinement`, `InspectorChecksProofs`, `InspectorChecksRefinementProofs` | modelled |
| Registry of benchmarks and checks, validation, check selection of `perform_checks` | `inspector_service.py` 59-63, 105-168, 245-314, 451-488 | `Registry`, `RegistryProofs` | modelled |
| Result assembly, security sync, reload | `inspector_service.py` 170-243, 361-393, 490-515 | `SecuritySync` (composes `InspectorChecks`), `SecuritySyncProofs` | partly |
| Query AST and fluent builder | `core/query/model.py` 21-36, 158-335, 385-407, 635-776 | `QueryBuilder` | partly |
| Ancestor/descendant lifting | `core/query/model.py` 409-526 | `AncestorLift` | modelled |
| Event bus | `cloudkeeper/event.py` 49-123 | `EventBus`, `ListenerTable` (abstract), `EventBusRefinement`, `EventBusProofs`, `EventBusRefinementProofs` | modelled |
| Configuration plumbing, AWS model generator | `inspector_service.py` 84-104, 430-449, 517-542; `aws_model_gen.py` | none | not modelled (section 6) |

### How the parts interact

`perform_benchmarks` runs as follows:

1. It resolves the benchmark ids through the registry. A user entry beats a
   predefined entry with the same id.
2. It flattens the benchmarks to a set of check ids.
3. `list_checks` filters that set by severity.
4. `__perform_checks` runs one asyncio task per check through
   `pipe.map(..., ordered=False, task_limit=parallel_checks)`.

Each task parses its detection into a `Query` of the query model. It
combines that query with the account filter (`Query.by(...).combine(...)`)
and streams rows from a graph cursor. `combine` fuses the filter into the
first part the detection executes, so the filter narrows the start nodes:
a detection that traverses can return rows of other accounts. A `resoto_cmd` detection goes to the
CLI instead.

The results are folded into a dict and assembled into the benchmark trees
(`__to_result`). With `sync_security_section`, they are also turned into
one list of `SecurityIssue` per node. `load_benchmarks` reads those issues
back and rebuilds the trees without running the detections.

The query layer also has `rewrite_for_ancestors_descendants`. It turns
predicates on `ancestors.<kind>.…` into merge queries before a query runs.

The event bus belongs to the older collector (`cloudkeeper`). Threads
dispatch events to listeners while other threads register and unregister
them.

## 2. Modules

Every module is one component: its state as VARIABLES, `Init`, one action
per operation, `Next` and `Spec`. An `MC_` module gives the constants
for TLC, and each `.cfg` file is one run.

### InspectorChecks: concurrent evaluation of checks

**Constants.**

* `Checks`, `Resources`, `AllAccounts`, `NoAccount`.
* `Account`: the account of each resource, or `NoAccount`.
* `Detect`: the detection kind of each check.
* `Detection`: for each check, pairs `<<s, r>>`. The first executed part
  of the detection selects `s`, and the detection then returns row `r`.
  A detection without navigation has only pairs with `r = s`.
* `Broken`: the checks whose template expansion or CLI command may fail.
* `ParallelChecks`: `task_limit`.

**Variables.**

* `contextAccounts`: `{}` stands for both `None` and `[]`, as
  `if context.accounts:` treats them alike.
* `broken`: the checks that do fail in this run.
* `pc[c]`: the phase of each task.
* `yielded[c]`: the rows given to each task.
* `cursorFailed`.
* `outcome`: running, ok or raised.

**Actions.** Each is one code step:

* `Start`: `pipe.map` starts a task below `task_limit`.
* `DetectionRaises`: `parse_query` at line 327 or `execute_cli_command` at
  line 343 raises, outside the `try`.
* `OpenCursor`, `NextRow`, `CursorExhausted`: the cursor is opened and read.
* `CursorRaises`: the exception is swallowed and the rows already appended
  are kept.
* `RunCommand`.
* `SkipManual`.
* `Collect`.

`Matching(c)` is the rows reached from a start node in the requested
accounts. That is what the account filter of lines 329-330 (fused into the
first part by `combine`) and of lines 339-341 (a search piped into the
command) does. `Result(c)` drops rows without an account, as line 416 does.

**Fairness.** Every task step is weakly fair, because the event loop runs
every ready task and a read cursor eventually answers. Cursor failures are
never forced.

### CheckResults and InspectorChecksRefinement: what the evaluation promises

`CheckResults` is the abstract specification of `__perform_checks`. Each
check either completes with its expected result or fails. Its expected
result is the rows its detection returns from start nodes in the requested
accounts, among them rows of other accounts that a traversal reaches, that
have an account. A failing check may keep part of that result, and only a resoto
search can fail. A call ends in one of two ways:

* it raises while a non-manual check is unfinished;
* it returns once all checks are done.

`InspectorChecksRefinement` maps the detailed state onto the abstract
state:

* `done` is the set of tasks in phase done.
* `res[c]` is `Result(c)` of a finished task.
* `failed` is `cursorFailed`.
* `status` is `outcome`.

Its property `AbsFairSpec` is the abstract specification with its fairness.

### Registry: predefined and user benchmarks and checks

**Variables.** `benchDb` and `checkDb` (the databases), and
`validated[u]`: the benchmark caller `u` has validated in `update_benchmark`
and not yet written. `perform[p]` is the `perform_checks` call of request
`p`: the ids of its on-demand benchmark, the severity of its context, and
the checks it performs (None until it has looked them up).

**Constants.** The predefined tables (`PredefBench`, `PredefChecks`) are
constants, because `lru_cache` loads them once.

**Operations.** The guards of the writes are `__validate_check` and
`__validate_benchmark` (line 127). `update_benchmark` is two actions
(`UpdateBenchmarkValidate`, then `UpdateBenchmarkWrite`), because an await
separates the two steps. `list_checks` and `filter_checks` are operators
over the state. `list_checks` takes the `kind`, `check_ids`, severity and
`ignore_checks` selectors.

`perform_checks` is also two actions, because it awaits
`report_config` and `__list_accounts` between its two `list_checks` calls:

* `PerformChecksSelect` selects by the selectors, the severity and the
  configured ignore list (`IgnoreChecks`). The ids of the result become
  the on-demand benchmark.
* `PerformChecksRun` looks those ids up again with the context's
  severity, against the registry as it is then.

The mutators may run in between. `FailingResourcesCheck` is the lookup of
`list_failing_resources`: the check in force, or `NotFoundError`.

### SecuritySync: sync and reload (extends InspectorChecks)

A benchmark is a tree of collections, given by `Children` and
`CollChecks`. The module composes three steps:

1. `Evaluate`: any InspectorChecks step.
2. `SyncSecuritySection`: after the evaluation returned, each node gets
   the count of each `(check, benchmark)` issue. That count is how often
   `walk_collection` appends the pair.
3. `LoadBenchmarks`: `check_results[c][a]` counts every stored issue of
   `c` on a node of account `a`, as lines 199-207 do. `LoadCount` is the
   number of appends: one per node, benchmark and occurrence of the issue
   in the node's list.

`update_security_section` lives outside `src/`. It is modelled from the
spec: it stores the list it is given.

### QueryBuilder: the fluent query builder

**Queries.** A query is a record with these fields:

* `parts`: a sequence in reverse execution order, as in the code.
* `preamble`.
* `aggregate`.

A part is a record with `term`, `tag`, `with`, `sort`, `limit` and `nav`.
Names are records `[root, path]` over a few segments, so
`variable_to_absolute` and `variable_to_relative` work on segments.

**State.** There are two queries, `left` and `right`. Each action is one
builder call on one side: `filter` (with one or two terms, reduced by
`mk_term`), `traverse`, `add_sort`, `with_limit`,
`tag`, `filter_with`, `group_by` or `merge_preamble`. There is also
`left.combine(right)`, which either returns or raises one of its
`AttributeError`s. The number of calls is bounded by `MaxCalls`.

**Meaning of a query.** `Eval` runs the parts over a small graph:

* a part keeps the nodes its term holds for;
* then it keeps the first `limit` nodes by `Rank`;
* then it walks its navigation.

A walk's `until = Max` is unbounded. This reference semantics is the
model's own. The engine that runs queries is outside `src/`, and the
properties compare builder results against it.

### AncestorLift: `rewrite_for_ancestors_descendants`

Terms are records of kind all, pred, and, or, not or merge. A predicate
name is a sequence of segments.

The model has these parts:

* `WalkTerm`: the term walk.
* `AncestorDescendantPredicates`.
* `NamePredicate`.
* `MergeQueryFor`.
* The merge of the created and the existing merge queries.

These are translated line by line, with the walk and the predicate list
as RECURSIVE operators.

The state is one term. It is built from single predicates by `&`, `|`,
`not_term` and wrapping in a `MergeTerm`, up to `MaxSize` steps.
`RewritePart` and `RewriteRaises` apply the rewrite. The meaning of a term
is the set of nodes it holds for. A merge term filters by its pre- and
post-filters.

### EventBus: `dispatch_event`, `add_event_listener`, `remove_event_listener`

**Threads.** Caller threads run one call each, from `Program`. Listener
threads are `alive` pairs `<<dispatcher, listener>>`. They return, return
after unregistering themselves (`SelfUnregister`), or hang.

**Time.** `now` is a discrete clock. It only advances while a join waits
on a live listener.

**The lock.** The RWLock is outside this repository. It is modelled by its
contract: a `with read_access` or `with write_access` body is one atomic
step.

**`_events`.** It is a `defaultdict`. Reading a missing key inserts an
empty map (`EntryOf`, and the write in `DispatchSpawn`).

**Fairness.** Caller threads are weakly fair, and so is the clock. The OS
schedules runnable threads and time passes. Listener threads are not fair,
because a listener may hang.

**What it promises (`ListenerTable`, `EventBusRefinement`).** The abstract
module `ListenerTable` has one variable, `table`. It maps each
`<<event type, listener>>` pair to the listener's settings. `Add` registers
an absent pair, `Remove` unregisters a present one, and nothing else
changes the table. `EventBusRefinement` maps `_events` to that table by
`TableOf`. `TableOf` holds the pairs for which `event_listener_registered`
is true. A dispatch either reads `_events` or re-creates an empty entry,
and both are stutters of the table. The property `ListenerTableSpec` is
`Abs!Spec`.

## 3. Runs

A passing run finishes with no error. A violation run checks one property
that the spec, a comment or the code's own care states, and TLC refutes it.

| Run | Checks | Shows |
|---|---|---|
| checks_pass | TypeOK, ResultComplete, Terminates, AbsFairSpec | four checks (two searches, one of which traverses from account a1 into a2, a command, a manual check) on two slots, with every account filter, a failing CLI command or not, and cursor failures at any row: every check whose cursor did not fail reports exactly the accounted rows its detection returns from in-scope start nodes, the call ends, and the evaluation implements CheckResults, fairness included |
| checks_abort | NoBatchAbort (violation) | one bad template aborts the batch |
| registry_pass | TypeOK, ListChecksExact, PerformedChecksAllowed | two callers racing `update_benchmark` and one `perform_checks` against updates and deletes: `list_checks` returns exactly the checks in force that match the kind, ids, severity and ignore list (a user check hides the predefined one), and `list_failing_resources` finds exactly the check in force; `perform_checks` never runs an ignored check or one below the requested severity, even when a check changes between its two lookups |
| registry_validation | StoredChecksValid (violation) | `update_check` stores a manual check without remediation |
| sync_pass | SyncTypeOK, IssuesMaterialized, RoundTrip | a benchmark with a child collection and one without, every check listed once, a detection that traverses to and from a node without account but none that crosses accounts: each node carries exactly the failing pairs, and the reload gives the evaluated counts per account |
| sync_roundtrip | RoundTrip (violation) | a check in two collections of a benchmark, and one in both requested benchmarks, are counted twice on reload |
| query_pass | TypeOK, PartsLinked, SectionRoundTrip, TraverseComposes | every three-call sequence on two queries, limits included |
| query_filter | FilterNarrows (violation) | `filter` after `with_limit` drops the limit |
| lift_pass | TypeOK, LiftPreservesLogic, LiftIdempotent | every term of up to three constructor steps over plain, ancestor, descendant, resolved and malformed predicates (a rewrite on the malformed name raises; the others must be sound) |
| lift_merges | MergesKept (violation) | a merge term inside a conjunction loses its merge queries |
| eventbus_pass | TypeOK, JoinRespectsTimeout, CallsReturn, ListenerTableSpec | a blocking dispatch racing a removal, an addition of a new listener or a second addition of a registered one (with other settings), and a self-unregistering listener, listeners that may hang: joins respect the timeouts, every call returns, and the registrations implement `ListenerTable` (a second add leaves a registration as it is) |
| eventbus_empty | NoEmptyEntry (violation) | a removal between the unlocked test and the read lock re-creates an empty entry |

Each violation run asks one question per component. Five further
statements are written down as properties, and TLC refutes them on the
instances above. They are listed with their hazards in `PROJECT.json`:

* `CursorErrorYieldsEmpty` (InspectorChecks). A cursor that fails after
  its first row leaves that row in the result.
* `DispatchWithinDeadline` (EventBus). The one-second floor on each join
  overruns the last deadline.
* `CombineSequential` (QueryBuilder). It holds without limits. With
  `with_limit`, combine applies the left limit after the right filter.
* `TraverseComposes` with `Max = 2`. Two bounded walks compose into an
  unbounded one, because an `until` capped at `Max` means unbounded.
* `MalformedNameStructured` (AncestorLift). The malformed name raises a
  raw ValueError.

Every property of a passing run has a mutant in `PROJECT.json`: a
plausible bug in a mapped definition that TLC must catch.

### Bounds, and why they are enough

* **Check evaluation: two slots, four checks, four resources.** Two slots
  and four checks give these cases:
  * a task that waits for a slot;
  * a task that finishes while another streams;
  * every kind of detection.

  Four resources give a resource outside the filter, one without an
  account, and resources that checks share. Check `c4` traverses from
  `r2` (account `a1`) to `r3` (account `a2`), so the rows a traversal
  brings from another account are part of the run.
* **Registry: two callers, two benchmark ids, three check ids.** One
  benchmark id is predefined and one is not. One check is user-only, one
  overrides a predefined check, and one is predefined only. This is enough
  for every override, the race through `update_benchmark`, and every
  branch of `__validate_check`. One `perform_checks` request (`Performers`)
  with every kind, id set and severity, and one ignored check (`c3`).
  A predefined check of low severity and a user override of high severity
  let a check change severity between the two lookups. The run has
  11,448 states and takes about 70 seconds; a second request multiplies
  that beyond a few minutes.
* **SecuritySync.** One benchmark has a child collection, so depth
  matters, and one listed check was dropped by `list_checks`.
* **QueryBuilder: three calls per behaviour.** Three calls reach these
  cases:
  * a part with both a limit and a navigation;
  * two navigations in a row;
  * every fused-combine error.

  The graph is a chain with a loop for `default` and a 3-cycle for
  `delete`, so direction matters and walks of different lengths differ.
* **AncestorLift: three constructor steps over five predicates.** Three
  steps is the smallest depth that nests a merge term in a conjunction,
  and mixes ancestor and plain predicates under `or` and `not`. The five
  predicates include a descendant path, a resolved path and a malformed
  name. It takes 350k states and about a minute.
* **EventBus: three threads, timeouts 1 and 2.** The threads are a
  dispatcher, a remover or adder, and a second remover. The adder either
  adds a new listener or adds the registered `l1` again with other
  settings, so the test of line 107 is exercised both ways. Timeouts 1 and
  2 are the smallest values that tell the one-second floor apart from the
  deadline.

`CHECK_DEADLOCK FALSE` is set where the modelled calls return and the
final states have no successor. Those are the check evaluation, the sync
after the reload, the event bus once every call has returned, and the
bounded builders. The liveness properties (`Terminates`, `CallsReturn`)
check that every behaviour gets there.

## 4. Findings

1. `checks_abort`, `inspector_service.py:327`. A detection that fails to
   parse, or a failing CLI command (line 343), raises outside the `try`
   and aborts the whole batch. Spec 4.D and 7 say it becomes an empty
   result.
2. `registry_validation`, `:466`. `__validate_check` accepts a manual check
   with no remediation, and a check with two detections. Spec 4.F does not.
3. `sync_roundtrip`, `:500`. A check listed in two collections of a
   benchmark gives a node two identical issues. The spec describes a set.
4. `sync_roundtrip`, `:207`. A check shared by two requested benchmarks is
   counted twice by `load_benchmarks`.
5. `query_filter`, `model.py:673`. `filter` rebuilds the current part and
   drops its limit, tag, sort and with clause.
6. `lift_merges`, `model.py:519`. The existing merge queries are kept only
   when the whole term is a MergeTerm. A nested one loses them.
7. `eventbus_empty`, `event.py:71`. The unlocked test and the
   `defaultdict` read re-create an empty entry under a read lock.

The refuted statements listed in section 3 record five further
divergences:

* `inspector_service.py:335`: partial results on a cursor error.
* `event.py:88`: the join floor.
* `model.py:773`: limits under combine.
* `model.py:700`: the navigation cap.
* `model.py:499`: the raw ValueError of `name_predicate`.

## 5. Proofs

Every theorem below is checked by `tlapm` to the last leaf. Each proof of
an invariant follows the same plan: an inductive invariant `IInv` with
`Init => IInv`, `IInv /\ [Next]_vars => IInv'` (one step per action) and
`IInv => Inv`, then `Spec => []Inv` by PTL. Each `IInv` was checked by TLC
as an invariant of the run of its module before it was proved.

### InspectorChecksProofs

* `TypeInvariance`: `Spec => []TypeOK`.
* `ResultCompleteInvariance`: `Spec => []ResultComplete`. ResultComplete
  only speaks of the returned result, so `Collect` needs to know what each
  task returned with. `SoundInv` says where rows come from: `RowsMatch`
  (every row given to a task is in `Matching(c)`, and a manual check gets
  none) and `StreamingIsSearch` (only a resoto search streams).
  `CompleteInv` adds to `SoundInv`:
  * `DoneExact`: a search or command task that returned without a cursor
    error holds exactly `Matching(c)` (`CursorExhausted`, `RunCommand`);
  * `OkAllDone`: the result is returned only when every task returned.

  `MatchingStable` (no step changes the requested accounts) and
  `MatchingExpected` (the accounted rows of `Matching(c)` are `Expected(c)`)
  are the lemmas the proof rests on.

### InspectorChecksRefinementProofs

`Refinement == Spec => Abs!Spec`: the safety part of the refinement.

1. `InitMapped`: the initial states map to abstract initial states.
2. `StepMapped`: every step of `Next`, taken from a `SoundInv` state, maps
   to an abstract step or a stutter. `Start`, `OpenCursor` and `NextRow`
   stutter; `CursorExhausted`, `RunCommand` and `SkipManual` are
   `Complete`; `CursorRaises` is `Fail`; `DetectionRaises` is `Raise`;
   `Collect` is `Return`. `CursorExhausted` needs `SoundInv` to make the
   result equal the abstract `Expected(c)` (lemmas `ExpectedMapped` and
   `MatchingExpected`). Both sides narrow the start nodes, not the rows.
3. The temporal combination, with `SoundInvInductive`, by PTL.

Assumptions: `ConstantsAssumption` (finite `Checks`, the types of the
maps) and `ParallelChecksAssumption` (`ParallelChecks >= 1`).

### RegistryProofs

* `TypeInvariance`: `Spec => []TypeOK`.
* `ListChecksInvariance`: `Spec => []ListChecksExact`. This one follows
  from `TypeOK` alone (lemma `ListChecksExactHolds`): `list_checks` is an
  operator over the stores. Lemmas `FilterChecksAccepted` and
  `ListChecksMatch` state what `filter_checks` and `list_checks` return.
* `PerformedChecksInvariance`: `Spec => []PerformedChecksAllowed`. The
  strengthening `SelectionNotIgnored` says the ids selected before the
  awaits of `perform_checks` hold no ignored check. The second lookup
  re-applies the severity but not the ignore list, so without that fact
  the run step could not be shown safe.

Assumptions: `RegistryAssumption`. Two of its conjuncts were added for the
proofs and hold of the code: `None` is not a set of check ids (the
callers pass a list), and the ignore list holds check ids. The database
write is `DbUpdate`, a plain function update, so the prover can expand it.

### SecuritySyncProofs

* `IssuesMaterializedInvariance`: `SyncSpec => []IssuesMaterialized`, for
  every finite graph of collections, cycles included. The strengthening
  `SyncedInv` says the sync runs after `__perform_checks` returned, when
  no evaluation step is possible (`NextRunning`), and that the security
  sections hold what lines 233-242 wrote. Lemma `OccurrencesPositive`:
  `walk_collection` appends an issue at least once exactly when a
  collection of the benchmark, at any depth, lists the check.

* `SyncTypeInvariance`: `SyncSpec => []SyncTypeOK`. Lemma `LoadCountNat`
  shows that each count is a natural number. The set it counts is a finite
  union of finite intervals, one per node and benchmark. Lemma
  `IssuesBounded` bounds each occurrence count, and the lemma rests on it.
* `RoundTripInvariance`: under the hypotheses `ListedOnce` and
  `NoCrossAccount`, `SyncSpec => []RoundTrip`. `ListedOnce` says that a
  check is listed by at most one collection under all the benchmarks'
  subtrees together. `NoCrossAccount` says that no detection returns a node
  of an account other than that of its start node (nodes without an account
  aside). The
  strengthening `LoadInv` adds three facts to `SyncedInv`:
  * while evaluating, no issue is stored;
  * before the load, `check_results` is empty;
  * after it, `check_results` is exactly `Loaded`.

  Under `ListedOnce`, a stored issue occurs at most once in a node's list
  (lemma `OccurrencesOnce`). Lemma `CountsMatch` then maps every failed
  resource `r` of a benchmark `b` to the single append `<<<<r, b>>, 1>>`.
  This map is a bijection, so the count equals the number of failures
  (`FS_Bijection`). Lemma `ReportedInScope` uses `NoCrossAccount`: a
  reported node was reached from a start node in the requested accounts,
  so it lies in them too, and the account filter of `load_benchmarks`
  (line 189) finds it again. Both hypotheses are needed:
  * run `sync_roundtrip` lists a check twice under one benchmark, and TLC
    finds `RoundTrip` violated;
  * with a detection that leads from account `a2` into `a1`, a row of `a1`
    is reported when only `a2` is requested. The reload does not find it,
    and TLC finds `RoundTrip` violated on that variant of the `sync_pass`
    instance. That variant is not one of the runs.

Assumption: `SyncAssumption`. The collections are finite, and so are the
resources (both come from lists). `Tree`'s edges are written with a single bound variable, which
the prover accepts.

### EventBusProofs

* `TypeInvariance`: `Spec => []TypeOK`. The lemmas `PutMap`, `RestrictMap`,
  `EntryOfMap` and `UnregisterType` show that the dict writes keep
  listener maps.
* `JoinRespectsTimeoutInvariance`: `Spec => []JoinRespectsTimeout`. The
  strengthening `JoinInv` says, per dispatching thread:
  * before the snapshot it waits for nobody;
  * every listener already joined has ended or had its whole timeout;
  * the join in progress lasts at least until `start_time + timeout`
    (lemma `JoinDeadline`: the one-second floor of line 88 never shortens
    a join);
  * a returned dispatch has no pending join.

### EventBusRefinementProofs

* `Refinement`: `Spec => ListenerTableSpec`. The event bus's
  registrations implement the abstract `ListenerTable` under the mapping
  `TableOf`. The proof has three steps:
  * `InitMapped`: initial states map to initial states.
  * `StepMapped`: under `TypeOK`, every step maps to a step of the table or
    to a stutter:
    * `AddListener` of an absent pair is `Add`;
    * `AddListener` of a present pair and every dispatch step are
      stutters (lemma `TablePutSame`). The empty entry that
      `DispatchSpawn` re-creates holds no pair.
    * `Remove` and a self-unregistering listener are `Remove` (lemma
      `TableUnregister`). This holds whether or not the type's entry is
      dropped.
  * The theorem then follows from `TypeInvariance` by PTL.

### What stays with TLC

* **Liveness under fairness.** This covers `Terminates`, `CallsReturn` and
  the fairness part of `AbsFairSpec`. It needs ENABLED reasoning that
  TLAPS does not do here.
* **Every property of `QueryBuilder` and `AncestorLift`.** Their meaning
  and their term walks are RECURSIVE operators. A module that reaches one
  loses the SMT backend, so no theorem is stated there.
* **`RoundTrip` without `ListedOnce` or `NoCrossAccount`.** The theorem
  needs both hypotheses; without them `RoundTrip` is false (run
  `sync_roundtrip` for the first).
* **The registry's `StoredChecksValid` and the event bus's
  `NoEmptyEntry` and `DispatchWithinDeadline`.** TLC refutes them; they are
  findings, not theorems.

## 6. Not modelled, and why

* **The AWS model generator.** It formats strings from botocore shapes. It
  has no state and no concurrency.
* **Configuration plumbing.** This is `report_config`,
  `validate_*_config`, `__init__`, `on_startup` and `*_from_file`: I/O
  around a config service and bundled JSON files. Their content is the
  constants of `Registry`.
* **Query rendering and introspection.** This is `__str__`, `from_json`,
  `predicates()` and `analytics()`. They change no state and
  have nothing a model checker adds to.
* **`filter_result(only_failed)` and issue severities in the sync.**
  `filter_result` is outside `src/`. Both change which checks are shown,
  not the counts the round trip compares.
* **The contents of rows, and the query engine.** The properties compare
  resources by identity and account. The engine is replaced by the model's
  reference semantics.
