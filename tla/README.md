# A verification project for interpretthis

interpretthis is a sandboxed interpreter for a large subset of Python, written
in Rust, with Python and Node bindings. Hosts embed it to run generated
programs: they register tools, call `execute`, and may keep an interpreter, its
variables and its functions between calls or store them as bytes and resume them
elsewhere.

The interpreter walks the syntax tree with async Rust functions over one mutable
`InterpreterState`. What is hard to get right follows from that design: a flat
map of variables stands for all of Python's scopes, counters and stacks of the
state shadow the evaluator's own stack by hand, bodies of functions live in
caches beside the values, tools run as concurrent tasks under a semaphore and a
time budget, the host may drop a run at any await, and a mutex is held across
every await.

## Inventory

| Component | State it keeps | Operations | Interacts with | Hard behaviours | Correct when |
|---|---|---|---|---|---|
| Tool dispatch (`tools/`) | semaphore, tasks, `LazyProxy` cells | call a tool, spawn, acquire a permit, time out, join a proxy | evaluator (proxies are values), host handlers | concurrency, timeouts, cancellation, argument order | permits are conserved, arguments are joined first, `resolve` is idempotent, time is bounded |
| Sessions (`interpreter.rs`, bindings) | state mutex, `running` flags | `execute`, accessors, `begin_run`, dropping a run | tokio workers, the GIL or the JS thread, tool callbacks | locking across awaits, re-entrance, starvation | runs are exclusive, nobody waits for ever |
| Scopes (`functions/definitions.rs`, `dispatch.rs`) | `variables`, cells, cell owners, closures | assign, define, call, return | every evaluation | recursion, late binding, escaping closures | a read sees what Python's rule says |
| Exceptions and control flow (`exceptions.rs`, `control_flow.rs`) | active-exception stack | raise, try, with, loops, calls | every evaluation | competing outcomes, failing cleanup | blocks are left as Python leaves them |
| Limits and frames (`state.rs`, `config.rs`) | depth counters, per-frame stacks, accounted memory, output | enter/exit, charge, release, check | every evaluation, `execute` | errors midway, dropped runs, stale sizes | counters match reality, runs end |
| Definitions and resumable state (`serialize.rs`) | body caches, keys, classes | `def`, `lambda`, `class`, export, import | other processes, later versions | resume, partial failure, key reuse | every callable runs its own body; states round-trip |
| Generators (`functions/generators.rs`) | suspended frames, loop and try resume records | next, send, throw, close, yield from | scopes, exceptions | suspension inside every block | as if never suspended |
| Sets (`pyset.rs`) | slots, tombstones, fill, fallback | set methods and operators | hashing, equality | probe chains after discards, merges and resizes | a table is a mathematical set |
| Values and operators (`value.rs`, `types.rs`, `op.rs`, `operations.rs`) | numbers in several representations, containers behind locks, cached sizes | compare, hash, key, compute, render, copy | user methods, every container | edges of widths, values that contain themselves, locks held across recursion | equal values are one key, arithmetic is exact, walks end |
| Places (`names.rs`, `place.rs`, `delete.rs`, `statements.rs`, `match_stmt.rs`) | variables and the slots below them | read, write, augment, delete, unpack, match | user callbacks between a read and its write | several routines for one meaning | a write changes what the read of the same path sees, and nothing else |
| Classes (`classes.rs`, `modules/dataclasses.rs`) | registry of tables per class | class statement, construct, look up, super | every attribute access | several bases, descriptors, hooks, body scope | the nearest definition, in the order of Python |
| Calls (`params.rs`, `call.rs`) | none | gather, bind, write back | every callable | competing argument forms | every argument lands where its parameter is |
| Conversions of the bindings (`convert.rs`) | none | to and from the host | Python, JavaScript | precision, keys, depth | what crosses comes back, or is refused |
| Containers and library (`methods/`, `collections.rs`, `heapq.rs`, `bisect.rs`, `itertools.rs`, `lru_cache`) | the receiver, changed in place, and the bytes it reports; memo tables | methods of list, dict, deque and Counter; heaps, searches, iterators, cached calls | memory account, user comparisons and keys, generators | callbacks between a read and its write, an eager and a lazy form of one iterator, bytes for every path | as in Python, and the account changes by what the container does |
| Builtins, other modules, strings, parser, allowlists | values | pure or sequential evaluation | evaluator | little; a CPython corpus tests them | they agree with CPython |

`PROJECT.json` lists every component, with the reason where one is left out, and
under `hazards` the places a test would hardly reach.

## Modules

Most modules model one component; `MC<module>` instantiates it for TLC, and
`<module>Proofs` holds its theorems. The sequential parts of the interpreter
are modules of operators, put together by `Language` and `Programs`, whose behaviours
run one small program each. `PROJECT.json` maps definitions to source
lines. A definition headed "Mutant" is a plausible bug used to test a property:
with it in place of the definition after it, TLC must refute the property.
In modules without theorems the first guard of a `CASE` that holds is meant, as TLC
evaluates it; modules with theorems have guards that exclude each other.

**ToolDispatch.** One call of a tool: its proxy arguments are resolved in order
(`ResolveTake`, `ResolveJoin`, `ResolveCached`, `ResolveConsumed`), then it is
spawned (`SpawnTool`, `PollTask`, `AcquirePermit`, `StartHandler`, `TaskEnds`) or
awaited in place (`CallInline`, `InlineEnds`). `CancelRun` drops the run's future
wherever it awaits; spawned tasks go on. Time is relative, so `Tick` ages all timers and the
state stays finite. Handlers are external: they end in any way at any time.

**Session.** `execute` as the threads see it: `begin_run`, `Poll`, `Lock`,
`AwaitTool`, `Resume`, `Return`, `DropGuard`, `Cancel`; accessors lock the same
mutex (`ReadFromHost`, `ReadFromCallback`, `ReadLock`, `ReadDone`). Locking blocks the worker.
`host` is the GIL or the JavaScript thread. `api`, chosen at the start, tells the
bindings from plain Rust and says what the host does with them, and whether `execute` blocks its caller, who then
cannot drop the run and takes the GIL back before the guard goes. A plain Python callback runs inside the poll and keeps
its worker (`Awaiting`).

**Scopes.** The flat map with its checkpoints, overlays and cells, next to `ref`,
the environments Python defines. A program is any interleaving of definitions, calls,
returns and assignments; a function is given by what its body does with each name (its *role*).
`program`, chosen at the start, says which roles and kinds of functions there are
and whose functions a body may call (`CallScopes`): those its own activation made, those of activations
in progress, or any. `HomeIn` is Python's rule: the activation a name of a body belongs to.

**Unwind.** The evaluator's stack of blocks in progress. The program is not
fixed: every body may open any block or end in any way Python's syntax allows
(`break` outside a loop is refused by CPython's compiler and not considered).
Each block records what its parts came to, which the properties compare with Python's
rule; for a `with` the rule is a chain of outcomes, one per `__exit__` (`PythonWith`).

**Generators.** A generator is a frame: a yield unwinds the evaluator, and the
loops, tries, ifs and withs on the way leave records from which a resumed body
finds its way back (`run_for_suspendable`, `run_try_suspendable` and the others,
over `StepList`). The program calls `next`, `send`, `throw` and `close` in any
order, or ends (`finalize_generators`). Bodies the code cannot suspend
(`generator_suspendable`) run whole into a buffer (`eval_eager`), with evaluators of their
own for every block. `PyBody` says what Python
makes of a body without any records: it runs it from its start again, on a tape
of what its yields received. Errors are exceptions the body raises, or errors of the
evaluator (`Fault`), which `forward_to_delegate` treats apart. Sources of `for` and `yield from` are bodies that can be suspended.

**Limits.** `rust` is the evaluator's stack; beside it the counters and stacks
kept by hand, the sizes of variables and the accounted memory. `program`, chosen at the start, says what a program contains. Each call has one
parameter that shadows a variable, and is a frame from `enter_call` on: it ends where the recursion limit
refuses it (`EnterCall`), where its arguments do not bind (`BindFails`), where its parameter is one too many
(`ScopeFails`) or after its body (`BeginBody`, `ExitCall`), and each of these undoes what was pushed so far. `AugRead` and `AugWrite` are the two halves of
an augmented assignment, with its right-hand side between them. Properties count frames
and bytes as the sizes of sets (`Count`, `StateSize`), so that they can be proved. Left out: the unmetered numeric
fast path, the frames of parameterless functions (they push and pop in one place), output under `redirect_stdout`, and host variables beyond one per run.

**Persist.** Callables with keys into `function_bodies` and `lambda_bodies`,
their source texts, export, damage to the bytes, a new interpreter, and import,
whose one Rust function is one step with its four outcomes: nothing is changed
(`ImportRejected`), all of it is ("ok", or "over" when `check_memory` fails at the very
end), or it stops at a lambda (`ImportStops`). `code` numbers
definitions, so "runs its own body" is an equation. A method may be taken out of its class
(`TakeMethod`), whose next definition then writes over its body. Data is what JSON gives back, what it does
not (`Unread`), a list that holds a proxy (`Held`), or too much for the limit of memory (`Heavy`), which
`set_variable` refuses and keeps; all interpreters have one limit. The host keeps what the last export
returned. Containers of callables are lists of one. `program`, chosen at the start,
says which definitions it uses and which of their texts go wrong.

**SetTable** implements **SetAbstract**. `SetAbstract` is what a Python set
promises: a set of values of which no two are equal, changed and read by set
algebra. `SetTable` is the open-addressing table with CPython's probe sequence,
its tombstones, resizes, presized merges and the fallback to a sequence for values
without a reproducible hash; one action per set method. The refinement maps the
slots to the set of their values. An argument may be the receiver itself, another
set, a list, or a value that cannot be iterated. Hashes and equality classes are
constants; `RoomAssumption` says that no resize meets the bound on a table's size, and
`CallsAssumption` what the calls of the instance are. Loops over items are recursive functions,
so that they can be reasoned about.

**Values, Numbers, Operators, Language.** `Values` has the kinds of values with
equality, order, identity, hashes and dictionary keys; `Numbers` the arithmetic with
its promotions and ranges; `Operators` which methods of user classes an operator
calls, in which order, and what their answers lead to. Widths are constants, so
that every edge is near: an Int of 5 bits promotes as one of 64 does. `Language`
runs one comparison, sum, range, operator, protocol or sequence of dict stores.

**Items, Places, Patterns, Calls.** Subscripts, slices and unpacking; paths of
subscripts and attributes read, written, augmented and deleted, with the charge
to the memory account; match statements; argument binding, and the statements
that keep a slot while a callback of the program runs (`list_sort`,
`list_eq_method`, `method_call`, `aug_item`).

**Classes, ClassPrograms.** The class statement (bases, body, seeding and harvest,
slots, metaclass and hooks), C3 (`build_mro`), the five lookups and `super()`,
construction, dataclass fields, enum values. `ClassPrograms` has the programs and
what Python makes of them.

**Walks, WalkPrograms.** A graph of containers and the recursive walks over it:
repr in both forms, JSON in both forms, `asdict`, the outbound conversions,
equality, order, membership, deep copy, sizes. A walk carries the guards, locks
and caches of the code; meeting a lock it holds is "deadlock", and running out of the host's
stack is "overflow".

**Crossings.** Every kind of value through both bindings and back.

**Containers, Library, LibraryPrograms.** `Containers` has the method tables of
list, dict, deque and Counter: what a call leaves in the receiver, returns and
reports to the memory account. `Library` has heapq, bisect, itertools in both
forms, the eager one over a list and the generator bodies the code synthesizes
for lazy sources (a body is asked for some items, so what it consumed shows), and
`lru_cache`, whose table is read before and written after the call it caches.
`LibraryPrograms` has the programs and Python's rule for each.

**Programs** runs one program of any of these groups and compares what comes
out with Python's rule.

## Runs

All bounds are named constants. "Fails" marks a run whose property TLC must
refute, because the code does something other than a doc, comment or test says;
`PROJECT.json` quotes the line under `findings`.

| Run | Bounds | Shows |
|---|---|---|
| `tool_safety` | 3 symmetric calls, 1 permit, budget 2, 2 arguments | permits are conserved, arguments are joined first, `resolve` is idempotent, sequential handlers stay in the budget |
| `tool_live` | 2 calls, 1 permit, budget 2, dropped runs, hanging handlers | the budget alone ends every await and every task; permits come back |
| `session` | 2 interpreters, 3 runs, 1 accessor, 2 workers, 2 tool calls; both bindings, awaited or blocking, and Rust | exclusive runs, no queueing behind a binding, everyone returns |
| `scopes_lexical` | 2 names, 2 values, 2 functions, 3 calls; closures called by the activation that makes them, and functions of the module's names and their own called by anyone | flat scopes agree with Python's rule |
| `unwind_blocks` | 3 blocks, 1 handler, 2 managers, 1 iteration | try, with, loops and calls as in Python; nothing gets stuck |
| `generators` | 598 bodies of up to three nested blocks, 4 calls | a suspended body does what it would had it kept its stack, and cleans up once; a buffered one gives the same values and does the same, only earlier |
| `limits` | 1 name, 2 sizes, limits of 2, 5 operations, 1 or 2 runs | counters and stacks match the evaluator's stack at every exit of a call, assignments account exactly, every run ends |
| `persist` | 3 names (1 internal, 2 symmetric), 1 class, 3 definitions, 2 imports | caches keep bodies apart, a method follows its class, what JSON gives back round-trips even over the memory limit, bytes that are damaged or cannot be read change nothing, imports never mix states |
| `sets` | table of 4 slots with 1 linear probe, 4 colliding values of 3 classes, an instance, a list | any sequence of set operations implements `SetAbstract`; every lookup ends, and finds what is in the table |
| `language` | Ints of 5 bits, mantissas of 8, hashes modulo 31, ranges between and at both edges of the width, 18 classes | equal values hash alike, and are one key if integral or of one type; arithmetic is exact across the promotions, ranges are progressions while their sums fit, operators call the methods Python calls |
| `programs` | lists of 4, trees of 2 levels, paths of 2 steps (one of 3), 5 classes with up to 3 bases, graphs of 3 containers, conversions 3 deep, two method calls on one container, heaps of 7, iterators over 4 items, 3 cached calls | slices, places, patterns, calls, slots, C3, lookups, walks, comparisons, copies, crossings, container methods, heaps, searches, iterators and caches agree with Python |
| `class_body` | bodies of 3 statements over 2 names | fails: a name bound twice in a class body keeps its first value |

Every module states its types in `TypeOK` where it has variables; the runs check
the properties that could be wrong for a reason.

The bounds are the smallest in which the interesting cases meet. One permit and
three calls make a task run, one queue and one wait as an argument. Two
interpreters share a host; with its two workers at most one run queues for each
interpreter, so the order in which several queued runs are served is not met. Three activations make a closure outlive one frame
and be called under another. Three blocks nest a try in a with in a loop. A
limit of two is reached, caught and reached again. Four calls start a generator,
throw into it, resume the handler and close it. Two imports make keys from
two lives meet. Four slots make values collide, a tombstone
be reused and the table resize; five classes are the smallest hierarchy C3 refuses for
a reason two levels up; three containers hold a cycle and a value outside it. The
widths of `language` are the smallest in which an Int, a float and a hash each have
values they share and values they do not. The mutants show that each property can fail within its bounds.

Deadlock is checked except where the bounds themselves stop the model (Scopes,
Generators, Limits, Persist, SetTable) and where a behaviour is one program
(Language, Programs).

### Where the properties stop

Each passing run excludes, by a constant or in its property, the programs for which the code
does not do what the property says. Beyond the failing run, these are the cases met;
giving the constant the value in the last column makes TLC show each, where one
value shows several after leaving out the shapes of the others.

| Case | Source | The code says elsewhere | Shown by |
|---|---|---|---|
| A run dropped while it awaits a proxy loses the `JoinHandle`; the proxy stays in the variables and fails every later resolve. | `tools/lazy_proxy.rs:44` | "Idempotent" (`lazy_proxy.rs:37`) | `ResolveIdempotent`, `Cancellable = TRUE` |
| On an executor with one thread, a second `execute` of an interpreter blocks the thread the first one needs; with two it takes one more blocked thread, such as a Rust handler that reads a third run's interpreter. | `interpreter.rs:151` | "The mutex serialises concurrent `execute` calls" (`interpreter.rs:109`) | `CallsReturn`, Rust API, one worker, or `AwaitingInside` |
| An accessor called while a run awaits a callback that needs the accessor's thread never returns. | `interpreter.rs:284` | "lets observability tooling read variables" (`interpreter.rs:110`) | `CallsReturn`, bindings, `readsDuringRun` and `readsInTool` |
| A write through `global` does not reach the cell another function reads the name from. | `definitions.rs:783` | "a reassigned global flows to the cell" (same line) | `LexicalReads`, defs, shapes `Disjoint` |
| Two calls of a lambda that returns a lambda share one cell. | `dispatch.rs:482` | `value.rs:2303` | `LexicalReads`, lambdas, calls "any", 3 functions |
| A function that writes a nonlocal and calls itself starts the inner call from the old value. | `dispatch.rs:402` | "sees and updates the same cell" (`state.rs:312`) | `LexicalReads`, defs, calls "running" |
| A nonlocal write two levels below the owner is undone when the middle function returns. | `definitions.rs:305` | "mutations must propagate up" (`dispatch.rs:266`) | `LexicalReads`, defs, 3 functions |
| When a later item of a `with` cannot be entered, the managers already entered are not exited. | `control_flow.rs:260` | `control_flow.rs:244` | `BlocksMeetPython`, `EnterFails = {1, 2}` |
| An error of `__exit__` is dropped while a return, break or continue is on its way. | `control_flow.rs:451` | "that error REPLACES the current error" (`control_flow.rs:248`) | `BlocksMeetPython`, `ExitFails = "always"` |
| `x += (x := y)` accounts against the size `x` had before its right-hand side ran. | `statements.rs:217` | `interpreter.rs:299` | `AccountingExact`, `Drifting` without `augmented` |
| A call binds a parameter over a larger variable and releases its size; the return puts the value back uncounted. | `definitions.rs:1198` | "Maximum interpreter state size in bytes" (`config.rs:16`) | `AccountingExact`, `Drifting` without `calls` |
| Output of earlier runs stays in the accounted memory. | `state.rs:655` | "accounted state size" (`THREAT_MODEL.md:54`) | `Drifting` without `prints` |
| Of two suspended loops with one target, nested or after an exception left the first, one continues at the other's place. | `generators.rs:789`, `:933` | "each keep a distinct live frame" (`generators.rs:787`) | `SuspendedAgrees`, one target in `Bodies` |
| What was to be raised or returned is lost when a `finally` yields. | `generators.rs:1659` | "`else`/`except`/`finally` run once the body actually completes" (`generators.rs:1208`) | `SuspendedAgrees`, `final` that yields after a raise |
| `throw` and `close` during `yield from` a list take its next item; `close` then fails and what was thrown comes later. | `generators.rs:560` | "inject `exc` at the generator's suspended `yield`" (`generators.rs:496`) | `SuspendedAgrees` without `parted` |
| A generator's locals overwrite variables of its caller with the same names. | `generators.rs:597` | "restores frame locals" (`generators.rs:8`) | `SuspendedAgrees`, a delegate with its caller's target |
| A buffered generator raises at its call instead of after its values, does everything before its first value is asked for, and takes the values of a generator it iterates over for its own. | `dispatch.rs:384` | "correct for finite generators" (`generators.rs:40`) | `EagerAgrees` without its conditions, or with `ref.log = log` at every call |
| An error of the evaluator (a TypeError of an operation, not a `raise`) in a delegate that was resumed passes by the body around the `yield from`: its handlers and `finally` do not run, and the next call goes on after the `yield from`. | `generators.rs:352` | "so a try/except around the `yield from` in our body can catch it" (`generators.rs:343`) | `SuspendedAgrees` without `parted` |
| A generator that answered `close` with a yield is marked closed, without leaving its blocks. | `generators.rs:430` | "so any pending `finally` (and `with`) cleanup runs" (`generators.rs:415`) | `CleanedUp` without `parted` |
| A run dropped at an await leaves its counters and stacks raised for the next run. | `dispatch.rs:424` | "only non-empty mid-definition/mid-call" (`state.rs:236`) | `Balanced` without its condition |
| Functions inside containers, and static methods, class methods and properties, have no body after an import. | `serialize.rs:177`, `:227` | "its body AST is rebuilt on import" (`serialize.rs:53`) | `BodyIsOwn`, shapes "list" or "static" with imports |
| A state with a function under a second name, or with a method taken out of its class, exports and cannot be imported. | `serialize.rs:197` | `tests/integration/state_persistence.rs:9` | `RoundTrips`, shape "alias" or "taken" with imports |
| After `f = C.m` a class statement for `C` gives `f` the new body. | `classes.rs:649`, `:735` | "two same-named nested functions in different scopes [...] don't collide on one cache slot" (`value.rs:2152`) | `BodyIsOwn` with `fn.code` for methods |
| A state over the memory limit, which `set_variable` refuses and keeps, exports; its import replaces everything and then fails. | `serialize.rs:301` | "aborts the import with the interpreter untouched" (`serialize.rs:171`) | `NeverMixed` without its exception for "over" |
| An infinite float is exported as null, and more than 16 MB or more than 128 levels are exported too; none of them can be imported. | `value.rs:763`, `serialize.rs:59`, `:121` | `tests/integration/state_persistence.rs:9` | `RoundTrips` without its exception for `Unread` |
| A proxy inside a list makes the export fail. | `value.rs:898` | "filtered before state export" (`value.rs:897`) | `RoundTrips`, where `Writable` is its exception |
| A lambda or nested def made by a function of an earlier run carries a text cut from the wrong source. | `definitions.rs:1607` | "re-parsed to repopulate `lambda_bodies`" (`definitions.rs:1604`) | `RoundTrips` without `OwnTexts` |
| An import that fails on a lambda has already replaced variables, classes and bodies. | `serialize.rs:280` | "aborts the import with the interpreter untouched" (`serialize.rs:171`) | `NeverMixed` without its exception for `Broken` |
| A task that waited for a permit starts its timeout late and outlives the budget. | `resolver.rs:141` | "capped to the remaining budget so a hung tool cannot outlive it" (`resolver.rs:144`) | the task's timer in `StartHandler` against the run's clock |
| A module-level function reads its caller's local of the same name. | `dispatch.rs:172` | "module-level closures defer to live globals via LEGB" (same line) | `LexicalReads`, defs, shapes `AllShapes`, calls "running" |
| A function made inside another that has returned reads a module name as it was when that one ended. | `definitions.rs:788` | "module-level free names are live-global reads (handled by the LEGB overlay), not cells" (`definitions.rs:778`) | `LexicalReads`, defs, shapes `Apart`, calls "any" |
| A function made before a variable around it is first bound no longer finds it once the function around has returned. | `definitions.rs:792` | "one-cell-per-variable late binding" (`definitions.rs:777`) | `LexicalReads`, defs, shapes `NoGlobal` without "nonlocal", calls "any" |
| A function called where its variable's name has the value it had when the function was made leaves the variable's present value in the caller's. | `dispatch.rs:295` | "the snapshot would be a meaningless deep-clone-then-restore" (`dispatch.rs:286`) | `LexicalReads`, defs, shapes `NoGlobal` without "nonlocal", calls "running" |
| A lambda whose parameter has the name of a captured variable of its caller leaves the argument in that variable's cell. | `dispatch.rs:525` | "one-cell-per-variable late binding" (`definitions.rs:777`) | `CellsAreLive`, lambdas, shapes `AllShapes` |
| A clause whose type cannot be evaluated skips `finally`. | `exceptions.rs:218` | "Finally blocks ALWAYS run, even on signals." (`exceptions.rs:182`) | `FinallyAlwaysRuns`, `Handlers` with "broken" |
| After an import the next lambda takes the key of an imported one, which then runs its body. | `definitions.rs:1598` | "Generate a unique ID for this lambda" (`definitions.rs:1597`) | `BodyIsOwn`, lambdas with imports |
| `set().symmetric_difference([x, x])` of one instance holds it twice. | `methods/set.rs:37` | "deduped by the caller for instance elements" (`pyset.rs:444`) | `Probeable`, a list that repeats an instance |
| A key function that raises in `list.sort` leaves the list empty; one that rebinds the name has its list overwritten. | `call.rs:189` | "the sorted contents get written back below" (`call.rs:188`) | `SlotsSurvive` without `Quiet` |
| Equal numbers of two types that are not integral (`2.5`, `Decimal("2.5")`, `Fraction(5, 2)`) are two keys of a dict or set. | `value.rs:1764` | "so a Decimal/Fraction can key a set/dict table and share a hash with the equal int/float/rational" (`types.rs:3066`) | `KeysAgree` without `MixedPart` |
| A range whose last step passes 2^63 is walked on from -2^63 (a debug build panics); `len` of one whose span and step together pass 2^63 is wrong, and so is `in` where the span does: `list(range(0, 2**63 - 1, 2**62))` never ends. | `types.rs:2870`, `:3626`, `:2920` | "count in i128 so extreme i64 bounds cannot overflow the length computation itself" (`types.rs:2848`), "range length cannot fail" (`types.rs:3617`) | `NumbersAreExact` without `WalkFits`, `LengthFits` or the fit of the span |
| `a.b.x = v` writes the field past slots, descriptors, setters and `__setattr__`, and without a charge for memory. | `statements.rs:476` | "Attribute assignment goes through @property setter" (`statements.rs:473`) | `out.far` without `Passive` |
| `d.x += 1` and `d.x[0] = v` on a dict reach its item "x", although reading `d.x` fails. | `place.rs:293` | "'dict' object has no attribute" (`place.rs:298`) | `PlacesAreLenses` without `ByName` |
| Ordering lists that share a list, or lists that contain themselves, locks a list twice. | `types.rs:2446` | "locking it twice would deadlock" (`types.rs:2442`) | `ComparisonsMeetPython`, shared lists |
| A dict that contains itself handed to Node locks itself; so does repr of such an OrderedDict. | Node `convert.rs:234` | "cycle — emit" (`render.rs:145`) | `WalksEnd`, its excluded kinds |
| After `a = [[big]]; a[0].pop(); del a` more is released than is charged. | `value.rs:88` | "the memory limit stays sound" (`value.rs:46`) | `WalksEnd`, a write below the sized container |

Two more were met while proving, where a theorem would have said too much. The loop over a
slice's positions adds the step once more after the last one: in `s[1::2**63 - 1]` the sum
overflows (`names.rs:1426`), although "the caller loop keeps `i` inside [0, len), so the
try_from cannot fail in practice" (`names.rs:1405`). And a range that ends within a step of
2^63 overflows when it is sliced (`names.rs:1370`). `WalksFitTheWidth` and
`SlicedRangesFit` say for which lengths and steps neither happens.

Smaller differences from Python, met while modelling and kept out of the properties:

- *Values.* 0.0 and -0.0 are different keys; an integral float key from 2^63 on never equals the
  integer key; int and float compare through doubles beyond 2^53; Decimal inf and nan
  become the key 0; an IntFlag is the key of its int without being equal to it, and so are `Decimal("1")`, `1+0j` and an int enum's 1 each other's; `n is n` is
  False for big integers. `3 * (1, 2)` is a TypeError; `Fraction % float` truncates;
  `__ne__` is ignored; a subclass's reflected method does not go first; an `__iadd__` that
  answers NotImplemented is bound as the result; `in` has no identity shortcut.
- *Sets.* `update([[1]])` accepts a list as element; `IntEnum.ONE in {1}` is False.
- *Places.* `del a[True:]` takes a bool for no bound; slices are deleted of bare names only;
  IntEnum members index when read but not on the way to a write; `defaultdict` makes missing
  elements only one level deep in an assignment; Counter, deque and defaultdict do not alias; a field set on what a deeper defaultdict made up is lost.
- *Patterns.* `case True` matches 1; a class pattern on a missing attribute raises.
- *Calls.* A keyword repeated through `**` overrides silently.
- *Classes.* Overriding a name with another kind of definition is ignored, because each lookup
  walks the order for one table; `obj.static` uncalled is an AttributeError; `__setattr__` runs after
  descriptors; slots are inherited by subclasses without them; a cached property can be neither
  assigned nor deleted; a class body skips a nested binding equal to the enclosing value.
- *Walks.* repr and asdict of a dataclass that contains itself overflow the stack; `c1 in [c2]` of cyclic
  lists is False where Python raises; deepcopy shares a defaultdict's elements.
- *Library.* A lazy `islice(g, 0)` takes and gives one item; `d.update(d.items())` locks `d`
  twice; `Counter.update` that meets an unhashable item keeps the earlier counts uncharged;
  a comparison that raises inside a sift leaves one heap item twice and loses another;
  `insort` with a key compares `x` itself, and panics if the key function shrinks the list;
  `bisect` refuses `lo` beyond the end; `lru_cache(5)` ignores the 5, a negative `maxsize` is no
  bound, and `f("b", 2)` and `f(b=2)` share an entry; a cached function that calls itself with the same arguments evicts
  one entry too many (`dispatch.rs:1000`); `heappush` and `insort` report no bytes.
- *Crossings.* Through JavaScript tuples and frozensets as keys are refused, Decimal("1") and
  "1" become one key, a date returns as a datetime, -0.0 as 0. From Python NotImplemented and bytes as keys do not return.

### Fairness

- ToolDispatch: weak fairness of polling, of granting permits (tokio's semaphore
  is FIFO), of expired timers and of the clock. Nothing is assumed of handlers.
- Session: strong fairness of each run's own steps and of an accessor's lock,
  since the executor polls woken futures and parking_lot and the GIL are eventually
  fair to waiters; weak fairness of an accessor's return. Nothing is assumed of
  callers: they need not start runs or drop them.
- Limits: the evaluator keeps stepping (`WF_vars(Step)`). Nothing is assumed of
  the clock or of the host. `RunsEnd` then rests on the operation count alone.

## Proofs

`ToolDispatchProofs` proves, for any finite set of calls, any number of permits
and any budget: `TypeCorrect`, `PermitsAreConserved`, `ArgumentsAreMaterialised`,
`ResolveIsIdempotent` (without cancellation; TLC refutes it with) and
`InlineStaysWithinBudget`. The inductive invariant joins the types, the
conservation law, the fact that the semaphore's queue holds exactly the waiting
tasks, and what the control variables mean in each phase (`FlowOK`). Types alone are
not inductive: returning a permit stays in range only because permits are conserved. The
cardinality step uses the library's finite-set theorems.

`SessionProofs` proves `RunsAreExclusive` and `RunsNeverQueue` for any number of
interpreters, runs, accessors and workers. The invariant adds that readers own
the lock they will give back, and that in the bindings the flag covers the whole
run, so that an interpreter has at most one.

`LimitsProofs` proves, for any names, sizes, limits and programs: `TypeCorrect`;
`AccountIsExact`; `CountersMirrorStack` (`Balanced`); and `CallsAreLimited`, which says
what the limits are for: never more than `MaxDepth` calls in progress, nor more than that
many expressions and blocks open in one. `Balanced` speaks of the counters now. It is inductive
only with `BalancedInv`, which says of every frame on the stack what the stacks kept by
hand hold for it, because a return puts back what its call saved. Counting is by cardinality: entering
a frame adds one index to a set. A call that binds its arguments and one whose body runs are frames of different
kinds, and every exit of either is a case of `BalancedNext`. `AccountIsExact` needs that no open frame has a size to put back
(`NothingToRestore`).

`UnwindProofs` proves, for any nesting, any number of clauses, managers and iterations:
`TypeCorrect`; `FinallyRuns`, if the types in clauses can be evaluated;
`BlocksComeToPythons`, if only the first manager can fail to be entered and no `__exit__`
raises over a signal; `ActiveMirrorsHandlers`; and `SignalsAreTaken`. The excluded cases are rows of the
table above. `Recorded` says what a block's records may be at each of its parts; without it types are not
inductive. `HandledInv` ties the stack of active exceptions to the handlers below every
block, since leaving a block may pop only its own. `SignalInv` says
of every held-back signal, too, that a block further out takes it: `FinallyEnds` brings it back.

`PersistProofs` proves, for any names, classes and programs and any number of definitions,
exports and imports: `TypeCorrect`; `ImportsNeverMix`; `StatesRoundTrip` and `BodiesAreOwn`, each for
all programs that do not import and for those imports handle (`Resumable`: no alias of a
function, no method in a variable and no async function; `KeepsBodies`: no lambda, container of callables or static method, and no
text of a stub). Each exclusion is a row of the table. `TripInv` says that bytes in storage are what
the exporter held and that variables have their functions' names. `BodyInv` says that
every key in use is in its cache with its own code, that lambda keys are the numbers below
the cache's size (the next key is that size), that keys above `next_id` are free, and
that what was exported can be rebuilt.

`ScopesProofs` proves `ReadsAreLexical` and `FrameCellsAreLive` for any number of names,
values, functions, activations and levels of nesting, in programs of defs without `global` and `nonlocal`
that are of one of two kinds (`OnlyReads`): closures called by the activation that makes
them, and functions of the module's names and their own, which may recurse, call one another and be
handed down. With other names and calls the property fails, in ways the table lists. A flat map
cannot be compared with Python's environments frame by frame; `ScopeInv` therefore says that there
is a `V`, the map each frame will find again when the calls above it have returned, that
`V` agrees with Python for every frame, and that cells hold the values of `V`. That
`HomeIn`, a recursive function, exists for every chain of scopes is proved by taking a
least counterexample.

`AlgorithmProofs` proves, of Items, what `SlicesAgree` checks for lengths up to four, for every length,
bound and step: what is read is what Python selects (`SlicesReadTheSelected`), a slice of a range
is a range of the same items (`RangesSliceToRanges`), the second path reads alike (`PathsReadAlike`), what
is written and deleted is what is selected (`SplicesReplaceTheSelected`,
`DeletesTheSelected`, `StridesDeleteFromTheEnd`), and when the arithmetic stays in its width. They rest
on one lemma about quotients rounded up (`CeilFacts`). Of Calls it proves the binding half of `ArgumentsLand`
(`ArgumentsLandInTheirParameters`), for every signature whose parameters have different names
(`Signature`) and every call: `GivenPositional`, `GivenKeyword` and `GivenRest` say which
arguments mean a parameter, and `FaultsAreIllegal` that the code's six checks together refuse the calls in which
some count is wrong.

`SetTableProofs` proves `ProbeableInvariant` and `TableRefinesSet` (`Spec => IsASet`) for any
values, hashes, equality classes, arguments and calls, any table size, number of linear probes, shift
and hash width. The argument goes in layers:

- *Probing.* `ProbesReachEverySlot`: after `HashBits` starts the perturbation is zero
  and the starts follow i -> 5i + 1. In p steps that walk moves by an odd multiple of p, for every power
  of two p (`OddStrides`), so by induction on the exponent p consecutive starts meet every
  residue (`WalkCovers`). The induction is by least counterexample, over a set of numbers.
- *Lookups.* The invariant of a table is `Whole`: `Intact` with "a lookup ends there" replaced by
  `Reaches`, "no slot before it on its path is empty", which one write cannot disturb
  elsewhere. A load under three fifths leaves an empty slot, so every path ends
  (`LookupEnds`); an equal value is met before it (`Found`); a dummy keeps paths whole
  (`TakeOut`). `WholeIs` shows `Whole` and `Intact` equivalent.
- *Operations.* Each loop has a lemma about its recursive function and one about what it does to the
  elements: `Joined`, `Lessened`, `Shared` and `Toggled` are the results set algebra allows when
  equal values are not identical. What makes a bulk insert sound is that the items are distinct and
  that the table was presized for them (`InsertedWhole`, `PresizeFacts`).
- *Behaviours.* `IsBody(body)` is the inductive invariant (`BodyInvariant`); `Meant` says that a
  method's result is one its `Meaning` allows, and `MeantIsAllowed` that these are outcomes of
  `SetAbstract`.

That arguments are well-formed sets, or lists without a repeated value that has no hash where they are toggled, is
part of `CallsAssumption`; the excluded list is a row of the table above.

The proofs start from the modules' `ASSUME`s only (ranges and finiteness of the constants, disjoint
identities), which TLC evaluates in every run, and from the hypotheses named above.

Only model-checked are: liveness, since the prover has no support for fairness; the order in which `PutAt` and `RemoveEach` apply what the
theorems say about positions; of Calls the folds that gather arguments and sort, and its slots;
and Generators, Values, Numbers, Operators, Places, Patterns, Classes,
Walks, Crossings and Library with the modules built on them, whose steppers and walks
are recursive operators.

## Plan

1. *Proofs*: the folds that gather arguments and sort; a type theorem for all programs of Scopes.
2. *Stateful library parts*: the cursors of shared iterators (also in Persist),
   chain and tee, the Mersenne Twister;
   except* and exception chaining in Unwind; comprehension scopes in Scopes.
3. *Composition*: Session with ToolDispatch (a dropped run, its tasks and the
   mutex), and an abstract "one program after another" that Session implements.

## Not modelled

Text formatting, the parser, the allowlists, the builtins, the methods of str, bytes
and dates and most of the standard library are pure functions without a protocol, and the repository compares them with
CPython on a large corpus. Of the modelled components, left out are: methods, generators and
comprehensions as scopes; except* and exception chaining; generator expressions;
the cursor ids of exported iterators; of the library chain, tee, repeat, starmap, count and
cycle, heapq.merge, ChainMap and namedtuple; name mangling and generic
aliases; attributes of builtin types and modules; % formatting.
