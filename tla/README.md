# A TLA+ model of SciForge

SciForge is the substrate that a family of scientific C++/Python projects shares: shell scripts
that gate and release a project, header-only helpers for abi3 CPython extensions, a small C++ test
framework, a benchmark harness, and a runner for declarative test corpora. This directory models
the parts of it whose correctness depends on the order of events, checks them with TLC and proves
what matters most with TLAPS.

## 1. Inventory

| Part | Source | State it keeps | Operations | Modelled by |
|---|---|---|---|---|
| run-gate | `tools/run-gate.sh`, `make/quality.mk` | the lock directory and its pid file, a fingerprint, the status | take, reclaim or refuse the lock; run the steps; judge; trap | `RunGate` |
| release | `tools/release.sh`, `make/release.mk` | the working tree and index, HEAD, tags, the remote, `$committed` | guards, fetch, number, file, bump, check, add, commit, tag, push, restore | `Release`, `RemoteRegister` |
| module import | `binding/module.hpp`, `dispatch.hpp`, `class.hpp`, `error.hpp` | the method table, a keyword spec per function, a type per C++ type, the error type, the epoch: all static | `PyInit`, `def`, `raw`, `type`, `def_init`, `finish` | `ModuleImport` |
| a module in use | the same | those statics, and what a call has borrowed from them | parse by a spec, convert, call, raise, while `PyInit` may run again | `Binding` |
| wrapped instances | `binding/class.hpp`, `gil.hpp` | `wrapper<T>::held`, one pointer per instance | `__new__`, `__init__`, methods, slots, `class_wrap`, `tp_dealloc` | `WrappedInstance`, `UniqueOwner` |
| a call | `binding/dispatch.hpp`, `convert.hpp`, `error.hpp`, `class.hpp` | the arguments, the result under construction, Python's error indicator | parse, convert, call, build, catch | `CallBridge` |
| test framework | `test/framework.hpp`, `strings.hpp` | the registry, the counters, the current test and its last check, the crash handlers | register, check, report, run, crash | `TestFramework` |
| bench | `bench.hpp`, `python/sciforge/bench` | the loop's size, samples, the cases and their text | calibrate, sample, render, print, load; compare | `Bench`, but for compare.py and stats.py |
| corpus | `python/sciforge/corpus` | the manifest, the cases and their statuses | validate, run a case, classify it, count | `Corpus`, but for exhaustive.py and the adapters |
| check-pins, doxygen-check | `tools/*.sh` | none that outlives a run | match text | no |
| CI workflows, make, CMake, packaging, lint configuration | `.github`, `Makefile`, `CMakeLists.txt`, `python/sciforge-build`, `lint` | none of their own | configuration | only as `Release`'s CI |

How they interact. A developer runs `make check-*`, which launches one gate per tier through
run-gate; several terminals and agents share one tree, so gates meet at the lock and the tree moves
under them. The steps of a gate are test binaries and benchmarks: the gate reads their exit code and
a person reads their log, so `TestFramework` is about what reaches both however the process ends.
`make release` runs the release script in a clone; clones meet at the remote, and the remote's CI
reads what was pushed. A consumer's extension calls `SCIFORGE_MODULE`, whose `PyInit` fills static
tables; the calls that Python makes later read those tables, perhaps while another import rewrites
them, and wrapped instances carry C++ values that methods use while other calls come between. A
bencher prints text that a Python process loads. A corpus run calls drivers of the engine and of its
oracle, and each may raise.

What is hard, and hardly reached by the repository's tests, is listed line by line under `hazards`
in `PROJECT.json`: check-then-act on the lock, traps that restore or remove and let the script go
on, a commit that fails between `git add` and the end, a push of two refs, statics that outlive a
failed import, a default borrowed across Python code, a pointer checked before Python code runs and
written after it, references on every path out of a nested result, integers at the edges of their
types, a crash that takes a buffer with it, a hand-written emitter, rules whose order decides.

What makes each part correct, in one line:

- run-gate: one gate at a time, whose PASS judged one tree; a killed gate's lock is cleared.
- release: only a green commit is released, numbers follow one another, a published tag stays, and
  a release that did not happen leaves no trace.
- module import: an import is whole or refused, and a later one harms no module in use.
- wrapped instances: every C++ value is deleted once and never under a user; none is lost.
- a call: null if and only if an error is set, nothing leaks, and arguments arrive as they were.
- test framework: the verdict is that of the tests, every failure is in the log, a crash is named
  once and ends the process.
- bench: the text reads back as what was measured, and a loop fits its target.
- corpus: what nothing explains is a bug, whatever was declared about the file.

## 2. The modules and the code

Each `X.tla` is a specification parameterised by CONSTANTS; `MCX.tla` instantiates it for TLC and
`MCX*.cfg` gives the bounds. `XProofs.tla` extends `X` with its proofs. Operators that directly
precede an action and vary it (`MkdirUnchecked`, `StoreReplacing`, ...) are plausible wrong versions
of it: replacing the action by one must break a property, which shows that the property bites. No
specification uses them.

Two modules are abstract specifications, written without the code: `RemoteRegister`, what a remote
owes those who install from it, and `UniqueOwner`, owners that lend a thing each. `Release` and
`WrappedInstance` instantiate them under a mapping and are shown to implement them.

### RunGate: `tools/run-gate.sh`

One action per command that touches what gates share: `Mkdir` (line 33), `ReadHolder` (34), `Probe`
(35: `kill -0`), `Reclaim` (37), `Remake` (38), `Record` (46-47: the pid file, then the trap),
`Snapshot` (53), `Step` (58-68), `Judge` (73-82), `Exit` (the trap of 47). The environment may `Kill`
a gate (SIGKILL: no trap), send it INT or TERM (`Signal`: the trap removes the lock and the script
goes on), give a dead gate's pid to another process (`Reuse`), remove a lock by hand when the refusal
says so (`RemoveByHand`), and edit or commit (`Move`).

`dir` is the gate whose `mkdir` made the directory that is there now, which the file system does not
record: it lets properties speak of whose lock it is. `revoked`, `mixed`, `moved` and `signalled` are
history. The tree is a pair of contents, HEAD's and the working tree's; `Fingerprint` is what
`snapshot` can tell of it, HEAD and *whether* the working tree differs, since `git status
--porcelain` names paths and not contents.

Abstractions: `rm -rf` of the lock and a snapshot are atomic; a step reads one tree; a HEAD that
returns to the same content counts as the same; `kill -0` failing with EPERM (another user's
process), usage errors and `mkdir -p` are left out.

### Release: `tools/release.sh`

Several clones, one remote, one required workflow. `Begin` is the guards up to the CI verdict
(36-91, `JudgedBy` = `ci_state` + `only_ignored`), `Fetch` 92-103, `Number` 105-113, `File` 124-126,
`Bump` 127, `Check` 129-163, `Add` 166, `Commit` 167-168, `Tag` 169-171, `Push` 173; `Restored` and
`Stop` are `restore` and its EXIT trap. The environment: any command may fail, `Signal` (HUP, INT,
PIPE, TERM: before line 122 the shell ends, after it restores *and goes on*), `Kill`, a developer
who edits or commits in the clone meanwhile (`Meddle`), other pushes (`Change`), CI runs that end
(`CiFinish`), a pull (`Sync`) and the developer's clean-up after a release (`Return`).

The working tree is two sets of files, those that differ from the index (`edited`) and those whose
index entry differs from HEAD (`staged`), over six kinds of file: enough to tell apart the notes, a
listed file, a new file under a listed directory, and the same outside RELEASE_FILES. A commit in `log`
has the files it changed: a release commit's version is the name it is given, what it *holds* is what
filing, bump, signals and failures left to add. `Fetch` takes the other tags where one clashes, and some
where it is cut short; `Bump` may find everything written already; `TagBody` says whether a target
(RELEASE_TAG_BODY) prints the tag's annotation or it is the notes' section, which is then looked at.

Abstractions: `JudgedBy` asks what each commit since the judged one changed, the script the net diff: the
same in the model, where no commit undoes another. One month, one tag per release, no extra tags (they add a
loop, no new order);
advisories only warn; `workflow_dispatch` and a push by hand after a failed one are not modelled;
a fresh release is possible only while `runs < MaxRuns`.

`Remote` maps the remote's main to `RemoteRegister`'s history and its tags to the register's. A
push in which the branch is refused and the tag taken is a step of the register too (the tag alone);
a tag that moves, or a main that loses a commit, is not.

### ModuleImport: `SCIFORGE_MODULE`, keyword specs, the class builder

`Begin` is `PyInit` up to the block (module.hpp 103-119), then one action per statement of the
registration block: `Plain` (`def` without keywords, `raw`), `Keyword` (`def` with `arg`s:
dispatch.hpp 305-333), `Type` (the whole chain `m.type<T>().def()...def_init()` with its destructor:
class.hpp 317-511); `End` is what follows the block (module.hpp 128-138). `Claimable` and `Fill` are
`claim_kw_spec` and `add_arg`. Every allocation, CPython call and the block itself may fail
(`Fails`, bounded by `MaxFailures`). `spec`, `type`, `table`, `error` and `epoch` are the statics,
which survive from import to import; `defaults` and `lost` count the references to default objects.
`table.moves` counts reallocations: a module that imported keeps pointers into the storage of then.

A vector that throws after a claim (`FillThrown`) leaves the spec without its terminator, with or
without its default, which the block's `catch` does not undo.

Abstractions: a function has one optional keyword argument; PyInit runs again whenever the last run
is over (CPython does it after a failure, and the code provides for other interpreters); imports do
not overlap, CPython's import lock sees to that; what `PyModule_AddFunctions` adds before it fails
dies with the module.

### Binding: a module in use

`Binding` extends `ModuleImport` with calls: `Enter` (dispatch.hpp 277-292: the spec parses, an absent
argument borrows the default or raises MemoryError), `Convert` (256-269) and `Answer` (293-300, the
error type read through the getter). `Import` is a step of `PyInit`, which may come between two steps of
a call. That is what happens when the caller's own code imports the file again: the statics are the
library's, `__bool__` of an argument or a released GIL gives Python the turn, and CPython runs a second
`PyInit` of a single-phase module under another name or in another interpreter. Calls also come between two
statements of a block (the garbage collector runs Python code there). A list of names without its
terminator is undefined behaviour, the outcome `undefined`.

### WrappedInstance: `class_<T>` at run time

`New` (`PyType_GenericNew`), `BeginInit`/`FailInit`/`Store` (`class_init` 270-307, split where other
calls can come between: after the test of `held` and before the store), `Unwrap` and `Finish` (a
method, property or slot: it takes a `T&`, another argument's after its own (`UnwrapArgument`), and later
returns a plain value, a view of the data or a copy through `class_wrap`), `Dealloc` (`class_dealloc`). `Forget` drops a variable or a view. The
split is the code's: argument conversion calls `__bool__`, factories and methods may call back or
hold a `gil_release`, and on a free-threaded build the module declares that it needs no GIL
(module.hpp 79-87). `held[o]` is the pointer, `value[v]` the life of each heap value, `on[t]` the
references that a call keeps on its instances, which is all that keeps their values alive. What a call or
a view uses is a pair of an instance and the value it found there: the instance may hold another by now.

Abstractions: objects and values are allocated once; the memory order of two threads on the plain
`held` is not modelled, a store is seen at once; what a `T` whose move throws loses is in `CallBridge`.

`Owner` maps instances to `UniqueOwner`'s owners and heap values to its things: `Store` is `Give`,
`Dealloc` is `End`, the rest lends or stutters. An overlapping second `Store` is a `Give` to an owner that
has a thing already, which `UniqueOwner` allows at the price of the first.

### CallBridge: one call

`Enter` (PyArg parsing, the count of arguments, `class_unwrap`), `Convert` (one argument through its
caster; the order of conversions is any, as in C++; an absent one is its declared default, which
`default_object` stored), `Call` (the function throws or returns), `Make`
and `Close` (the casters of `vector` and `tuple`, which build containers element by element and
steal references), `Unwind` (the `Py_DECREF` of a container that an exception leaves), `Catch` (the
catch clauses of the eight entry points and of a consumer's raw function, _demo.cpp 41-96; `CppError` = `set_cpp_error`). `FromPython` gives for each
caster what it may return or throw, what error it leaves set, whether Python code raised under it and what it
loses; `FromInteger` is the integer caster with `long long` of `Wide` bits, CPython's -1 and all-ones error
returns and `PyErr_Occurred`. `WrongType` is a refusal with its `py_type_name` (convert.hpp 41-56), which runs an
object's metaclass and whose own copy of the name (line 50), for want of memory, loses the two references it
holds. `FromNumber` clears what `PyFloat_AsDouble` failed with, a raising `__float__` and an int beyond the
doubles (`Huge`) alike. `Make` has a copy or a move that throws, the latter with the instance that
`class_wrap` (class.hpp 106) has made for it.

`live` counts the references that the call owns, those that no owner is left for (`lost`) among them;
`raised` remembers that Python code has raised, whatever became of its error.

Abstractions: an argument of a Python class that overrides what a caster asks is an "object" (of `int` and `str` no
caster asks more); texts and floats are opaque; a consumer's own functions keep CPython's
convention (null exactly with an error set); `bytes_view` behaves as `str` does here.

### TestFramework: `run_all`

`Start` (framework.hpp 276-283), `Skip` and `BeginTest` (284-292), `Check` (one EXPECT: passed, or
reported by `Report`), `Return` and `Escape` (a body that returns or throws, 293-309), `Finish` (310-321).
`Fault` is a crash signal in a body or in `main`; `ReportCrash` (246-267), a sanitizer's handler and
the default action answer it. `said` is what was printed and `kept` how much of it is flushed: a crash loses
the rest, `exit` flushes it. `sins` and `suffered` are what really happened, which the properties
compare with the log and the verdict.

Abstractions: a check passes or fails, how it compares and renders is not modelled; a test has at most
`MaxChecks` checks; a failed check whose values cannot be rendered throws before it is reported and is an
`Escape`; `std::signal` may fail for `Refusable` signals; no signal comes while a handler
runs, but the one it raises.

### Bench: `bench.hpp` and the reporter

The collector: `Collect`, `Calibrate` (bench.hpp 86-95, the cast of the quotient to `int` included: where
it does not fit, `Cast` gives the two results that builds produce; the quotient of the doubles may miss a whole
one that is exact, `Quotient`), `Sample`, `Emit`, `Throw`,
`PrintRun`. The emitter is translated function by function (`json_string`, `json_number`, ...) over a text
of symbols: characters that JSON or its escapes tell apart, whole numerals, words. The reporter's side is
`json_load`, an automaton that reads such a text strictly (a piece of `PieceLen` symbols at a time, so that TLC's
evaluation never nests a whole text), `Dict` (the last of two equal keys wins) and
`_case_to_json`, which is what Python would have written of the same case: its `obj.update(extra)` is `Over`.
`Load` is `load_run`: `_case_from_json` splits a dict into the schema's attributes and the rest, and calls `list` on
whatever is under `samples`; on a number that raises, and the run is refused.

Abstractions: times are nanoseconds; a numeral is one symbol, `%.6g` is the rounding to the significant digits
that `Precision`, a power of ten, has room for; UTF-8 above 0x7f passes through unchanged. compare.py and stats.py are not modelled.

### Corpus: `schema.py` and `runner.py`

`Load` validates the manifest and every row, every field of theirs, or refuses the corpus (`Manifest.validate`,
`Case.validate`);
`RunCase` observes the engine and the authority, applies the row's override, asks the consumer's class and
classifies (runner.py 104-121); `Report` returns. `classify`, `expectation_holds` and
`is_empty_iteration_capture` are the functions of schema.py. Drivers give any value: no match, a rejected
pattern, a match with its span and groups, a list of matches, an exception. `ClassRaises` says where
`is_empty_iteration_capture` looks up what is not there: an exception's span, the groups of a stored row that leaves
them out, the ends of one written as `[]`.

Abstractions: the consumer's `divergence_of` is absent or `is_empty_iteration_capture` with a link; rows
are dictionaries already (TOML and the foreign formats are not modelled); two exceptions are alike.

## 3. What TLC checks

| Run | Instance | States | What it shows |
|---|---|---|---|
| `gate_lock` | 3 gates, 1 step, 2 upsets | 220 000 | `UnrobbedGateOwnsTheLock`, `ExclusiveUntilADeparture`, `LeftoverOnlyFromTheKilled`, `UnchangedLockIsFreeToReclaim` |
| `gate_verdict` | 2 gates, 2 steps, 2 upsets, fair | 47 000 | `PassJudgedOneTree`, `EveryGateEnds`, `KilledHoldersLockIsReclaimed` |
| `gate_race` | 3 gates, no upset | violated | `OneGateAtATime` fails with nobody killed |
| `release` | 2 clones, 4 commits, 2 releases, 1 upset | 3 800 000 | `ReleasedOnGreen`, `MainNumbersItsReleases`, `SuccessIsWhole`, `RefusalRestores`, `RemoteIsARegister` |
| `binding` | 5 blocks, 4 imports, 2 failures, 1 call at a time | 640 000 | `DefaultsBelongToSpecs`, `ImportedIsWhole`, `DoubleDefNeverImports`, `LiveTablesStay`, `ErrorsAreOwnOrLater`, `DefaultOutlivesTheCall` |
| `binding_default` | 2 imports, no failure | violated | `CallsReadLiveDefaults` fails: a second import frees a borrowed default |
| `instance` | 2 calls, 3 instances, 3 values | 300 000 | `NothingInUseIsDeleted`, `OneOwner`, `LeakNeedsAnOverlap`, `HeldIsUnique` |
| `call` | 9 entry points, a 4-bit `long long`, 6 result shapes | 120 000 | `NullIffError`, `FailureReleasesAll`, `PythonErrorStands`, `IntegersArriveWhole` |
| `test_framework` | 2 tests of 2 checks, 2 calls of `run_all`, 2 signals | 890 000 | `VerdictIsExact`, `FailuresSurvive`, `CrashIsNamed`, `CrashOfOneRunEnds` |
| `bench` | 2 cases, 1 digit, ints up to 4 | 270 000 | `RunReadsBack`, `LoopFitsTheTarget` |
| `corpus` | 2 rows, every kind of manifest, every answer | 720 000 | `CrashIsABug`, `NobodysAnswerIsABug`, `OwnRowsAreInContract` |
| `corpus_run` | 1 row | violated | `RunGoesOn` fails: a class raises on an exception |

Why the bounds are enough. The lock race takes a reader with an old pid, a holder that ends and a
third gate that takes the lock: three gates, hence `gate_lock`; liveness needs only a holder and a
refused or reclaiming gate. Two upsets let a kill be followed by a reused pid, and a tree move away
and back. In `release` two clones are the least that can cut the same version, four commits hold the
first commit, two releases and a change between them, and one upset puts a failure, signal, kill or
edit before any command; the annotation is the notes' section, for with a target's (`TagBody`) one test less
is made and nothing new happens. Two calls on three instances let two `__init__` overlap, or one of them run under a
method that uses two values and returns a third as a view or a copy. Four imports and two failures reach refused, retried, successful and repeated imports in
any order, with a call begun in any of them. Results two levels deep reach an inner container that fails
inside an outer one that has elements already; every integer from -9 to 16 surrounds the ranges of a 4-bit
type, and the integer caster depends on the width by comparisons alone, with a type as wide as
`long long` included, and every kind of argument meets every caster. Two tests let one's leftovers be taken for the other's, two checks let a crash come
after one that passed, two calls of `run_all` let the first's leave something to the second. Of bench's
texts each class of characters, keys and values occurs, alone and beside others, in one case and in two;
one digit of precision is rounded where six are. A corpus case is judged alone: a second row only lets
the first refuse or end the run.

Deadlock is not checked where a system may stop for good: gates and releases end, bounds are
reached, instances are freed, calls return. Symmetry is used for gates, clones, threads, instances
and values in runs without liveness.

Fairness. `FairSpec` of `RunGate`: weak fairness of each gate's script. A launched shell process is
scheduled, and every make step returns. Launches, kills, signals, moves, reused pids and removals by
hand owe nothing. `FairSpec` of `TestFramework`: weak fairness of `Deliver`, for a signal that was raised
is delivered and a handler that was entered runs on; the test bodies owe nothing, not even to end.

## 4. Where the code and its words disagree

Each is a run that TLC refutes; `PROJECT.json` quotes the words.

1. **Two gates at once** (`gate_race`). A gate reads a pid, the holder ends, a third gate takes the
   lock, and the first removes that live lock (run-gate.sh 34-37).
2. **A default freed under a call** (`binding_default`). A call borrows a default (dispatch.hpp 287) and
   converts it after another argument; that argument's `__bool__` imports the file again, whose
   `claim_kw_spec` releases the default (196). Reproduced with the headers: the call answers with a
   freed object's value.
3. **An exception ends the corpus run** (`corpus_run`). `is_empty_iteration_capture` looks up the span
   of what `_observe` made of an exception (schema.py 212, runner.py 116): `KeyError`.

Others were met while modelling. They have no run of their own; a property that holds says how far each
goes, by the exception it makes for it, or, of the first two, states the code's side.

- docs/corpus.md 22-24 and 32-33 set every row of foreign semantics that disagrees with the oracle aside, before
  the engine's answer is looked at. `classify` does so only if the engine gave what the oracle or the row gives
  (schema.py 182-187, whose comment says why) and calls a third answer a bug. `NobodysAnswerIsABug` is the code's
  rule: on those rows it says the opposite of the document.
- docs/corpus.md 28 calls equal results a pass and knows no crash; `classify` calls a crash of the engine a bug
  before anything else is looked at (schema.py 175-178). `CrashIsABug` is the code's rule: it says the opposite
  of the document where both drivers raised alike, and on the foreign rows above.
- "A conversion that fails inside Python keeps Python's own error" (test_demo.py 331): `caster<double>` clears the
  error of a `__float__` that raised, and a `TypeError` arrives (convert.hpp 155-163). `PythonErrorStands` says
  where else an error is replaced: nowhere but where a refused argument is named.
- A call that fails for want of memory may keep a type and its name (convert.hpp 50), and one whose result's `T` does
  not move keeps the instance made for it (class.hpp 106). `FailureReleasesAll` says that nothing else is kept.
- "The exact JSON the Python reporter ingests" (bench.hpp 5-6): a domain field called `samples` that is a number
  ends the load with `TypeError` (schema.py 57). `RunReadsBack` says that nothing else does.
- A quotient that does not fit an `int` is cast all the same (bench.hpp 94, against 83): undefined, and where it
  gives the least `int` the loop is a single call. `LoopFitsTheTarget` excepts it, from its last part only.
- The exit status of the awk and mv that file the notes is not looked at (release.sh 125-126, against 27-28). Notes
  that were not filed have no section, which is refused as an empty annotation (148-150), unless a target prints
  the annotation: then a release is cut without its section. `SuccessIsWhole` excepts that target.
- A gate passes although the tree moved, if a file that was modified already is edited again: the
  porcelain names paths (run-gate.sh 49-52, against quality.mk 9-10). `PassJudgedOneTree` holds of trees
  clean at the start.
- A failed commit leaves its changes staged: `git checkout -- .` restores from the index that `git add`
  filled (release.sh 118, 166-167, against 30-31). `RefusalRestores` excepts it.
- A failed push may have published the tag: no `--atomic` (release.sh 173). `SuccessIsWhole` speaks of
  pushes that succeed; `RemoteIsARegister` shows that the tag stays.
- Two overlapping `__init__` both succeed: `held` is tested at class.hpp 277 and stored at 298, with
  conversion and the factory between (against 267-269; reproduced with the headers).
  `LeakNeedsAnOverlap`: nothing else leaks.
- A module refused for registering a `def_init` factory with `m.def` too imports at the second attempt
  (dispatch.hpp 190, against 184-186; reproduced with the headers). `DoubleDefNeverImports` holds of two
  `m.def`.
- A second `run_all` stores `report_crash` as the handler to go on to: a crash then raises itself for
  ever (framework.hpp 280, against 240-241; reproduced). `CrashOfOneRunEnds` excepts it.
- An oracle's group that took no part, [-1, -1], counts as a zero-width span (schema.py 221, against
  203-205).
- After a second import the first module's functions raise the second's error type (module.hpp 110,
  against 4-5): `ErrorsAreOwnOrLater` says which.
- docs/binding.md 18-22 says `__init__` may be called again, the code refuses it; convert.hpp 33-34 says a
  `cast_error` never reaches `set_cpp_error`, `class_hash` (class.hpp 243-252) sends it there;
  dispatch.hpp 43-45 calls the casters pure, `caster<bool>` runs `__bool__`; a type whose chain threw half
  way is built with what it has, and a retried import keeps it; `add_arg` loses a default object when its
  vector has no memory for it (`lost`); the method table's terminator is pushed outside the `try` of
  `PyInit` (module.hpp 132).

## 5. What is proved

All for any values of the constants, under the named ASSUMEs only: a null value that is none of the
others, natural bounds, at least one step and one content; registration blocks, calls, results and the
registry of tests that are sequences of what they should be; `SIGABRT` among the crash signals. Two say what
C++ checks: a default that a module declares fits the `long long` or `unsigned long long` that its C++ type
converts to (`DefaultsAssumption` of `CallBridge`), for it is a value of that type; and two types of a block
have no factory in common (`FactoriesAssumption` of `ModuleImport`: a `static_assert`, class.hpp 429-430).
Those of `Bench` say what its inputs are: names and keys of any characters, domain values and results that
are strings or integers (`NamesAssumption`), durations or not-a-numbers (`MeasuresAssumption`), clock readings
that are natural numbers (`TimesAssumption`), at least one significant digit (`WidthAssumption`).

`RunGateProofs`:

- `TypeCorrect`: `Spec => []TypeOK`, in no run.
- `UnrobbedOwns`, `LeftoverFromKilled`. Their conjunction `LockInv` is inductive: the directory's
  maker is inside or killed, and a gate inside that was never robbed is the maker.
- `ExclusiveBeforeDepartures`: until a holder leaves or is signalled one gate runs at a time. This
  needs `ReadInv`, that a pid read from the lock is the pid of a gate that took it, and
  `NotRobbedYet`, that without departures nobody was robbed: only a gone holder's lock is removed.
- `NamesTheMaker`: the pid in a lock is its maker's or a robbed gate's (`LockNamesItsMaker`). By
  itself not inductive: `NamesInv` adds that without a directory there is no pid, and `LockInv`
  says who writes one.
- `ReclaimsAsReadRobNobody`: a gate about to reclaim a lock that still holds the pid it read takes
  it from no live gate, but for a pid that a robbed gate wrote. It follows from `ReadInv` and
  `NamesInv`, and says where the race of section 4 is: not in the test but in the time after it.
- `GatesGoForward`: every command takes a gate strictly nearer its end, nothing others do takes it
  further (`NoGateTurnsBack`, by `Left`, which `LeftIsCounted` bounds). It is the part of
  `EveryGateEnds` that is within the prover's reach.
- `PassOnOneTree`: a PASS of a gate that started clean judged one tree, unless the tree moved twice.
  `VerdictInv` ties `start`, `mixed` and `moved` together, and says how far one move can hide.

`ReleaseProofs`, for any number of clones, commits, runs and upsets:

- `TypeCorrect`. That `version` keeps its range is the claim that releases never outnumber commits, so
  `Typed` adds that every tag and version is the name of a release commit that exists, and that branches
  hold commits of the log (`BranchTypes`, `NameTypes`).
- `RefusalsRestore`: from `Tree`, which says for each `pc` what is staged and edited there. Of `restore`
  that is not enough: `git checkout -- .` takes the index's copy, so `Tree` says that nothing is staged
  before the commit, which a failed commit ends.
- `ReleasesAreGreen`: `Judged` says that between `ci_state` and the commit the branch stays green,
  although CI goes on: a run that ended does not run again, and what is judged is the branch's last run
  with only ignored changes after it (`HasMaximum` says that there is a last one).
- `ReleaseImplementsRegister`: `Spec => RemoteIsARegister`, every step a step of `RemoteRegister` or a
  stutter. A push adds a tag only where the name is free, and moves `main` only forward; the invariant
  `TagInv` adds that a clone's own tags name one commit each.
- `ReleasedIsWhole`: `Cut` follows the commit, its version and its tag from `commit` to `push`. What the commit
  holds follows from what the tree has at each `pc` (`Sound`): from the look at the annotation to the commit the
  notes are there or, by a signal, everything is undone, in which case there is nothing to commit; and whatever
  undoes one listed file of a bump undoes them all (`Intact`, `Bumped`, `IntactKept`).
- `NumbersInOrder`: the longest argument. `Numbering` says of each clone that its branch is a prefix of the
  remote's, the release commit apart (`Behind`), that it has no tag but the remote's and the one it is about
  to push (`Known`), and that the tags it counted, and then the version it chose, are those of *some* past
  of the remote's main at least as long as its own branch (`Counted`). When a push succeeds the
  branch has not moved since, and that past is the present. Two things make a version a number: `CountNames`
  is the bijection from releases on the branch to names 0, 1, ... that turns a count of tags into the next name.

`WrappedInstanceProofs`:

- `InstanceTypes`: `Spec => []TypeOK`.
- `EveryValueHasOneOwner`, `NothingDeletedInUse`: from the inductive `Ownership`. That no value in
  use is deleted is not inductive: a call holds no value, only a reference to an instance. The
  invariant adds that whoever uses a value refers to its owner *if it still has one*
  (`UsersReferToTheOwner`, `ViewsReferToTheOwner`), that referenced instances are alive, and that
  only methods use values (`OnlyMethodsUse`). The "if" is what overlapping `__init__` make necessary.
- `OnlyOverlappingInitsLeak`: while no two `__init__` overlapped, no value is lost. Strengthened by
  `LoneInitFindsNull`: an `__init__` that is alone on its instance still finds the null it checked.
- `InstancesOwnUniquely`: the instances implement `UniqueOwner`. Every step maps to a step of the
  abstract specification or stutters; the invariants above supply its guards (what `Store` gives has no
  owner, what a method lends has one).

`BindingProofs`, about `Binding`, so about imports with calls between and under them:

- `ModuleInUseIsTyped`: `BindingSpec => []BindingTypeOK`. The lemmas first sum up what `PyInit`'s many
  outcomes do to each static: a spec is left alone or claimed for a fresh default (`SpecStep`), a type is left
  alone or built where there was none (`TypeStep`), the block advances or refuses (`Moves`). The
  theorems below use nothing else of them.
- `SpecsOwnTheirDefaults`: `DefaultsInv` adds to the property that no two specs share a default and that
  a default of the current import was made by a statement before the next one (`Ages`). Without the latter a
  statement's default might exist already.
- `OnlyLaterClaimsRelease`: a default that a call borrowed is its spec's, under the claim that the call
  parsed by, or the spec has been claimed since (`Lent`). It goes no further: see `binding_default`.
- `TablesOutliveImports`: `TableInv` counts the entries that the block's statements before `at` make. An
  imported module's table has room for all of them and the terminator, so that a refill never grows it.
- `DoubleDefsAreRefused`: `DoubleInv` says that every statement left behind has claimed its spec in
  this import, and that two of one function leave an error pending, which `End` refuses.
- `ImportsAreWhole`: `WholeInv` keeps three accounts. `DoneSoFar`: while no error is pending, every statement
  left behind has claimed its spec in this import or found its type built, and a type that this
  import built is what its *first* statement declares (`Builder`). `Delivered`: what each successful import
  left is still so, except for specs that a later import claimed, which are only module functions': a
  constructor's is claimed by nobody once its type exists (`OnlyItsTypeClaims`, which takes that a
  factory is of one type). `Constructors`: a type that an import which failed has built may be another's
  constructor, but not with half a spec.
- `ErrorsNameALiveType`: the getter names the last import's type or, after a failure, none.

`CallBridgeProofs`, for any width of `long long`, parameters, arguments and results; all from the inductive
`Inv`:

- `TypeCorrect`, `ErrorsAreAnswered`, `PythonErrorsStand`: an error that Python code raised arrives as it is, unless
  the caster of an argument that is refused asked Python. `Phases` says which error may be set with which
  exception in flight: an `error_already_set` has one, a `cast_error` may have one left behind by the
  caster, but only where there is something to convert.
- `FailuresRelease`: `Owned` counts what the open containers have made, one within the other, to any depth,
  by running totals (a sum would be recursive), and what is `lost` besides; `Waiting` says that a container around another has an
  element to make yet, so that closing one finds room.
- `IntegersAreWhole`: `FromInteger` passes an integer as itself or refuses it, through either reading
  and CPython's error return of each, and a stored default is the integer that was declared.

`TestFrameworkProofs`, for any registry (one that names a test twice, too), filters and calls of `run_all`:

- `TypeCorrect`, with where the loop is (`Placed`) and what the handler's globals say (`LastCheck`).
- `VerdictIsRight`: `Judging` ties the counters and the failed flag to the tests that the loop has passed and
  to those that really failed; the verdict is judged at the loop's end, the property speaks of the return.
- `FailuresReachTheLog`: nothing but a summary waits unflushed (`Buffered`).
- `CrashNamesItsTest`: `Caught` says that there is at most one CRASH line, flushed, of the crash at hand. A
  handler may be entered twice (a sanitizer's abort), and `reported` tells the second time.

`BenchProofs`:

- `CalibratedLoopsFit`, for any width of `int` and any readings of the clock, a cast that is undefined
  and a quotient that the doubles miss by one included. `QuotientFits` is the lemma on `\div`; the invariant adds to the property the types of a call of
  `collect` only.
- `RunsReadBack`: for any names, domains, results and samples, and any number of cases of any length, what the
  reporter loads is what it would load of Python's own text, and it raises exactly where it would of that text, or
  would not if the samples were still there: where a domain field puts a number for them. The invariant, `RunInv`, is short: what is printed is the text of
  the cases, what is loaded is what that text reads as. The work is in what a text reads as.
  - *Induction.* The library's induction theorems take an operator, but its theorem that the naturals are well
    founded under `<` does not: a set of naturals that holds 0 and every successor is all of them
    (`SetInduction`). From it come the reader's states along a piece (`Follows`, `PieceIsFollowed`), that two
    runs that start alike go on alike (`RunsAgree`), that pieces in a row read as one (`PieceOfBoth`), that
    cutting a text in pieces of `PieceLen` changes nothing (`ReadAllReads`), that joined texts are read one by
    one (`FlattenIsWalked`) and that every duration has a unit (`UnitIsPositive`).
  - *Strings.* One character, escaped, is read as that character, whatever was read before (`EscapedIsRead`): what
    escapes stand for is one to one (`ShortIsInvertible`, `CodeIsInvertible`), and a quote ends a string only
    where it is not escaped. Hence names and keys of any length (`StringIsRead`).
  - *Structure.* `ReadsAs(t, v)`: wherever a value may come and whatever is open around it, `t` is read as `v` and
    leaves the rest as it was. It holds of strings (`StringReads`), of numbers up to their rounding
    (`NumberReads`, `RoundedIsNear`), and of what is joined by commas between brackets, if of each item
    (`JoinReads`, `ArrayReads`, `ObjectReads`). It says nothing of depth, so that it composes: samples in a case,
    cases in a run (`CaseReads`, `RunReads`).
  - *Keys.* A dict keeps the last of two equal keys, C++ writes the domain after the schema's fields, and
    Python updates one dict with the other: the same (`DictOfBoth`), for a domain that has a key twice, or one of
    the schema's, too. What `list` then makes of `samples` is that of the same value.

`CorpusProofs`: `CrashesAreBugs`, `NobodysAnswersAreBugs` and `OwnRowsStayInContract`, and the type invariant,
`RunIsTyped`, which is proved and in no run. The inductive `IInv` adds to it that a corpus is loaded before a
case is run (`Unreported`) and that the last status is still what the rules give for its row and answers
(`Decided`); the theorems are then about `classify`, `expectation_holds` and the loader's validation.

Only model-checked: `EveryGateEnds`, `KilledHoldersLockIsReclaimed` of `RunGate` and `CrashOfOneRunEnds` of
`TestFramework`, which are liveness under fairness, out of the prover's reach. Every other property that a
passing run checks is a theorem.

## 6. Plan

1. Done: `RunGate`, `Release`, `ModuleImport`, `WrappedInstance`, `CallBridge`; then `Binding`,
   `TestFramework`, `Bench`, `Corpus`; the abstract specifications `UniqueOwner` and `RemoteRegister`
   with their refinements; the proofs of section 5.
2. Done in another form: the exclusive lock that `RunGate` implements as long as nobody departs would say no more
   than `ExclusiveUntilADeparture` does; what the lock says of its holder and what a reclaim may take are
   `LockNamesItsMaker` and `UnchangedLockIsFreeToReclaim`.

Not modelled, and not planned:

- compare.py and stats.py: floating-point statistics (bootstrap intervals, medians, thresholds); what could
  go wrong in them is a matter of numbers that TLA+'s integers do not have.
- exhaustive.py: it enumerates patterns and inputs and compares two engines; it has no state but its loop.
- The corpus's adapters: each reads another project's file format.
- check-pins, doxygen-check: shell scripts that match text, keep nothing and run alone.
- make, CMake, packaging and workflows, lint configuration: declarations that another program interprets. What
  `Release` reads of the CI is modelled as the remote's verdict on a commit.
- gil.hpp's guards on their own: what they release is modelled where it is released, in `WrappedInstance`
  and `Binding`.

## 7. Running it

`tlc -config MCRunGateLock.cfg MCRunGate.tla` and likewise for the other configurations (`MCBinding.tla`
for `MCBindingDefault.cfg`, `MCCorpus.tla` for `MCCorpusRun.cfg`). `tlapm RunGateProofs.tla`, and likewise
`ReleaseProofs`, `WrappedInstanceProofs`, `BindingProofs`, `CallBridgeProofs`, `TestFrameworkProofs`, `BenchProofs` and
`CorpusProofs`, check the proofs; the one that takes longest, `ReleaseProofs`, takes four minutes.
