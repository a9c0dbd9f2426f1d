# A verification development for potlib (rgpot)

TLA+ modules for the parts of this repository where several ranks, threads,
requests, libraries or calls meet, TLC runs on small instances of them, and
theorems that TLAPS checks for every instance. The reference is always the source
under `src/`; each definition that models code is tied to its lines in
`PROJECT.json` ("map").

    tlc -config calc_bind.cfg MCCalculatorGroup.tla     # any run of PROJECT.json
    tlapm PluginHostProofs.tla                          # any of the eight *Proofs modules

## 1. The system

rgpot evaluates interatomic potentials: a host program gives positions, atom
types and a box, and gets energy, forces and perhaps a stress. Around the
numerical kernels there is a layer of control, most of it in `src/CppCore/rgpot`:

| component | state | operations | talks to |
|---|---|---|---|
| **calculator group** (`CalculatorGroup.cc`) | hooks, adopters, group record, `g_bound`, `g_bound_rpc`, the MPI api table; per process, under one mutex | `bindCalculators`, `addCalculatorHook`, `addCalculatorCommAdopter`, `loadCalculatorMpi`, share and agree wrappers | engines (through callbacks), `librgpot_mpi` (dlopen) |
| **its MPI side** (`CalculatorGroupMpi.cc`) | its own group record, the calculators' communicator, whether MPI was started here | `bind`, `adopt`, `agree`, `publishError`, `share`, `finalizeAtExit` | MPI |
| **cache-aware force calls** (`Potential.hpp`, `PotentialCache.cc`) | the result cache on disk | `operator()`, `forceBatch`, `cacheKey`, serialise, deserialise | calculator group (`agree`), engines, RocksDB |
| **engine adapters** (`*Pot/`) | the engine's native objects, the molecule or session of the last call, stored parameters, species, a loaded package | constructor, `setParams`, `setPotentialConfig`, `forceImpl`, `forceBatch`, destructor, the C ABIs | engine libraries |
| **engine libraries** (`*Dlopen`, `NWChemPot.cc`, `CPMDPot.cc`, `abi/ProfileLoader.hpp`) | dlopen handles, tables of symbols, process-wide registries, pinned adopters | load, reload, probe, close | dlopen, calculator group |
| **pair list cache** (`nlist/`) | up to `kMaxSlots` immutable slots, most recently used first, under a mutex | `evaluate`, `accumulate`: lookup, capture or scan, store | classical potentials, on any number of threads |
| **MPI host and PEF session** (`CppCore/tools`) | the rank's engine; the request in progress | `collective`, `broadcast`, `calculate`, `configure`, `work`, destructor; the force host's `main` | RPC server on rank 0, engines on all ranks |
| **RPC server and bridge** (`rpc/`) | one potential, one event loop; the bridge's energy and forces buffers | `runServer`, `calculate`, `configure`, the C bridge | clients, PEF session, units |
| **plugin registry and bridge** (`plugin/`) | registered plugins and their handles, wrappers, the serial mutex | discover, load, create, force, destroy; static destruction | dlopen |
| **core handles** (`src/include/rgpot`, `rgpot-core`) | four owning C++ classes over Rust allocations; eindir's one-entry cache | construct, move, assign, calculate, evaluate, gradient, destroy | the Rust core's C ABI |
| **units** (`units.cc`) | none | parse a unit expression, convert | RPC server, engine adapters |
| **kernels** (LJ, Morse, ZBL, CuH2, XC, ...) | none, or parameters | force | pair list cache |

How they interact. A host on every MPI rank registers its engines' adopters,
binds the world into calculators, and calls forces on its calculator; a
group-collective potential consults its rank's cache, decides with the other
ranks whether the engine must run, and runs it together with them. Alternatively
a multi-rank server keeps one engine per rank and drives them from rank 0's
socket; a server of one rank owns one adapter. Adapters reach their engines
through libraries that they load, retain, pin or reload. Third-party potentials
come as plugins, called from any thread. Classical potentials need no ranks;
their threads share the pair list pool.

What is hard in it, and therefore what the models contain:

- every collective must be entered by all its ranks or none, although each rank
  sees its own cache, its own callbacks' answers, its own failures;
- two libraries each keep a copy of the group record;
- failures: a callback that refuses, a record that is truncated, a database that
  does not open, an allocation that fails on one rank, an engine that throws on
  one rank, a rank that times out on its peers, ranks that disagree about an
  owner, a server that never comes up or is killed, any call into an engine;
- an engine that keeps a session across configurations that fail half-way;
- what an adapter keeps from one call may be wrong for the next;
- code that is called after its library might have been unmapped: reloads,
  retained and pinned handles, wrappers older than the registry's destruction;
- slots that are read without the lock while other threads reorder and evict;
  plugins that are not safe to enter from two threads;
- geometry on boundaries: half a skin, half a box, exactly the list's reach, two
  cells per axis, tilted boxes.

No protocol state is persisted, so crash recovery has nothing to recover; what
outlives a process is the result cache, and its truncated records are modelled.
Messages are MPI's or a stream's: neither lost alone nor reordered.

What makes each component correct:

| component | correctness |
|---|---|
| calculator group | calculators partition the world; an engine gets the communicator once, and an accepted bind means all registered engines have it; refusal and split are final; no bind or registration hangs |
| force calls | ranks of a calculator compute the same systems of the same call; matched collectives belong together; an error never returns on one rank while its peers are inside; every failure ends the world, and only failures do |
| engine adapters | a result is of the caller's own system under the parameters of now, whatever was kept (five adapters and the default fingerprint miss this: section 6); a call fails only for a cause; after an exception the caller's buffers are whole; native objects are neither lost nor freed twice |
| engine libraries | no pointer into an unmapped library; handles balance; runtimes that cannot be unloaded stay |
| pair list cache | a result equals that of a fresh scan, whatever slot served it and whoever else ran; capture follows a sighting (it does not always: section 6); eviction is least-recently-used |
| PEF session | each request reaches every rank in order; every request is answered; success means every rank did it with the same parameters; workers are released |
| RPC server and bridge | an answer is about the client's own request, in its units; every request is answered; a failure comes with a text and leaves the forces alone |
| plugins | no call into unmapped code; serial plugins are never entered twice at once; names are unique; nothing is leaked; every call returns |
| core handles | each allocation has one owner; a gradient is of the place that was asked |
| units | a string that reads as a unit has the factor it means |

## 2. Modules and how they correspond to the code

### CalculatorGroup

One host thread per rank runs the same program of calls at its own speed.
`group`, `bound`, `boundRpc`, `hooks`, `adopters` are the globals of
`CalculatorGroup.cc`; `mgroup`, `mbound`, `comm` those of
`CalculatorGroupMpi.cc`; `api` is the loaded table. A bind is several steps,
because others can move between them: the prologue (`BindAgain`,
`BindWithoutMpi`, `BindUndivided`, `BindSplit`), the return of `MPI_Comm_split`
once every rank of the world has arrived (`SplitReturns`), and one
`CallbackReturns` per hook and adopter; a callback of `Blocking` first enters a
collective on its communicator (`EnterCallback`) and leaves it when all have
entered. `AddAdopter` before the bind only registers; after it, it calls the
engine at once; `SkipAdopter` is its early return. What callbacks answer
(`verdict`) and whether `librgpot_mpi` is found (`mpiFound`) are fixed by `Init`.

### CollectiveForce, JointCalls

From the bound world on: `work` gives each calculator its batches. A call is
`BeginCall` (lookups, flags posted), `AgreeReturns` (the joint decision),
`ServeHits` or `ServeThrows` (a truncated record throws while it is
deserialised), then for each miss `EnterEngine` ... `EngineReturns` or
`EngineFails`, the error exchange (`Publish`, `CountsClean`, `CountsDirty`,
`TextsReturn`, `WaitTimesOut`), and `EndCall`, which writes back. After the last
call a rank enters `shareFromCalculator` and then `MPI_Finalize`. `operator()` is
a batch of one. A collective is a log per rank (`agreed`, `kernels`, `counts`,
`texts`): the n-th entry of one rank meets the n-th of the others, whatever either
meant by it, which is exactly how MPI can go wrong. `aborted` is
`MPI_Abort(MPI_COMM_WORLD)`. An engine whose peers are not all there may fail to
return; the model gives it no fairness.

`JointCalls` is the promise in ten lines: calls are decided jointly, and a rank
completes a call only when every rank has entered every engine call that the
decisions asked for. `JointForce` gives the refinement mapping for one calculator,
the constant `Watched`, of two ranks or more (a calculator of one rank decides alone).

The module assumes that MPI is loaded and that the potential has a cache; without
either, a call has no joint decision and goes straight to the engine.

### EngineAdapters

One object of one engine family (`xtb`, `tblite`, `d3` for D3 and D4,
`metatomic`, `uma`, `mopac`, `nwchem`, `skala`, `cpmd`), made, reconfigured, used
and destroyed by one program. A result is the record of what the engine was
given (species, positions, box, parameters, orbitals, orientations), so a value
that an object kept from an earlier call shows in it. `Enter` is any of the entry
points (`operator()`, `forceBatch`, the C ABI, the handle) with its lookups; `misses`
and `todo` are sets of places in the batch, and a value that may be missing (what a
buffer holds, a session, a contract) is a set of at most one.
`asked` is a history variable: the species lists and parameters that the object, or with
a cache the database, was asked for. `SpeciesMixed` and `ParamsMixed` say by it whether the
host mixed what the adapter's object, or its cache, cannot tell apart.
`XtbForce` ... `DlopenForce` the adapters' force calls with a failure of any
engine call, `Return` the write-back. `CacheKey` keeps the code's combination by
exclusive or, in which equal parts cancel; other collisions of 64-bit hashes are
left out. `PartsDistinct` says of an instance that no parts cancel. `Frames` are
metatomic's averaging orientations.

### UnitExpressions

`units.cc` as operators: `Tokenize`, `ShuntingYard`, `Evaluate`, `Factor`, with
factors as exact products of powers. A string is a sequence of symbols (`Token`, and
blanks); the code's three passes over it are folds of `Scan`, `Shunt` and `Apply`.
`Meaning` is the reference, a recursive function on all sequences of tokens: the usual
reading of an expression by its last operator outside parentheses.

### CoreHandles

Variables of the four owning classes are constructed, moved, assigned and
destroyed over a heap of allocations (`held`, `heap`); `Calculate` may throw.
Threads evaluate and differentiate through eindir's fused cache: `BeginEval`,
`EndEval`, `BeginGrad`, `EndGrad`, while the program changes parameters between
computations; the callback gives forces or, as its C interface allows, an energy only.

### RpcService

One rank of the server, its clients and the potential it serves. It extends
`EngineAdapters`, `UnitExpressions` and `CoreHandles`: `host` says whether a
behaviour is of a `program` that links the adapters, of `potserv` with clients
through the bridge and peers that fill the message themselves, of clients of a
`foreign` server, of a `converter` of units, or of a program over the `core`.
`Start`, `Dies`, `Send`, `Receive`, `Compute`, `Reply`, `Configure`, `Refuse`,
`ForeignReply`. Numbers are tracked by the unit they are in; `UnitsRead` says of the
units an instance's peers name that they have a size or do not read at all. "One rank" is what a
build without MPI serves; several ranks are `MpiPefSession`.

### PluginHost

Two or more threads `Discover`, `Load`, create, force and destroy. `refs` is
dlopen's count per library, `plugins` the registry, `keeps` the wrappers that
share a library's handle, `scratch` a wrapper's conversion buffers, `mutex` the
recursive serial mutex; a create ends before the mutex if its library's units do not convert
(`Unitless`, `UnitsRefused`). A discovery walks its directories file by file
(`OpenPlugin`, `NextDirectory`), a load registers under the lock or closes what
it does not want (`Register`, `CloseUnwanted`). `DestroyRegistry` is static
destruction, after which wrappers held by globals are still destroyed.

### EngineLibraries

The handles of one engine family and who keeps them: an object's own handle
(`xtb`, `metatomic`, `mopac`), a process-wide registry (`nwchem`), a handle with
a session and one pinned for the adopter that librgpot will call (`cpmd`), a
profile that can be loaded again. Each library file is absent, lacks entry
points, is a stub, has only the one-shot interface, or is whole. Calls are steps,
but for those that end native objects before they close the library.

### PairListCache

A plane of integer coordinates, so that distances are exact and the boundary cases
are reached. A slot is a record that never changes after `Store`; `Valid`,
`Complete`, `FoldMode`, `Served` translate the validity test, the all-pairs mark,
the image modes and what a caller sees; the linked-cell scan with its half
stencil and the bounded image search of a tilted box are in it, against a
reference that looks at all images (`Farthest` bounds the rows that can hold the
nearest). `OddSkin` says of an instance that no atom moves exactly half the skin
(section 6). A call takes the mutex twice:
`LookupHit`/`LookupMiss`, then, outside it, `Read`, `Capture` or `Scan`, then
`Store` with its eviction. `since` is a history variable: per slot, which others
have been used since.

### MpiPefSession

The server of `rpc/server.cpp` built for several ranks. `SendCommand` and
`RefuseRequest` are the root's entry points, `ReceiveCommand` the worker loop;
after the command both sides run the same list of pieces: broadcasts with
their agreement on allocation, validation, the force or the configuration. Every
piece inside `MpiHost::collective` is `Agree`, then `AgreeClean`, or `TellError` on
the first rank that failed and `HearError` on the others. `CpmdSetParams` and
`NwchemSetParams` are the two engines' `setParams`, with every way they can stop
half-way. `log` is a rank's collectives, each with its payload and what was left to do
when it was entered. The third kind of program is `nwchem_mpi_force_host.cc`, whose root
alone reads the command line, and which ends in a reduction (`Maximum`, `Exit`).
Assumed, from the code: collectives inside an engine are the engine's
business (`MpiHost.hpp:56-57`); CPMD offers its session ABI; in the server nobody
binds calculators, so no adopter refuses and force errors simply throw.

### Proofs and instances

`CalculatorGroupProofs`, `CollectiveForceProofs`, `PluginHostProofs`,
`EngineLibrariesProofs`, `PairListCacheProofs`, `MpiPefSessionProofs`,
`UnitExpressionsProofs` and `RpcServiceProofs` (which also proves what `EngineAdapters`
and `CoreHandles` promise); see section 5. The `MC*` modules
only hold the instances' values and, as `ASSUME`s that TLC evaluates, those
hypotheses of theorems that an instance has to meet.

## 3. The runs

| run | instance | question and answer |
|---|---|---|
| `calc_bind` | 4 ranks, 6 host programs with sizes 0 to 3, 5 sets of answers, MPI found or not | Calculators partition the world with their roots where `shareFromCalculator` looks for them; an accepted rank's engines all have the communicator and agreed; none gets it twice; refusal and split are final; every bind and every registration returns, the latter unless a refusal private to one rank has split the calculator. Holds. |
| `calc_register_alone` | 2 ranks | A registration after the bind strands no engine. **Violated**: section 6. |
| `force_joint` | a calculator of 2 ranks with 2 systems beside one of 1 rank that may be idle; all sound caches, refusals on none, one or two ranks, owners that agree or not, one fault | Joint decisions, matched collectives, no failure returns, every abort has a cause, no ranks wait for each other, the run ends (so no rank waits alone in the engine), with an abort after any failure, `JointCalls` is implemented. Holds. |
| `force_short_record` | one calculator, caches that may hold a truncated record | No rank waits alone. **Violated**. |
| `pairs_pool` | one thread with 3 calls on 20 or 30 geometries in six boxes, or two threads with 5 calls and a pool of 2 | Every result is that of a fresh scan, on free axes, in boxes too narrow to cache, with per-call folds, stored images, cells and tilts, and under interleaving; LRU eviction. Holds. |
| `pairs_one_shot` | one thread with 2 calls on clusters of two atoms in an open box | A capture follows a sighting within half the skin. **Violated**. |
| `pef_session` | 2 ranks, 3 requests, 1 fault, both engines and the force host, three parameter sets over two libraries | Matched collectives, joint success, no ranks stuck with each other, every request answered, workers released. Holds. |
| `plugin_host` | 2 threads, 2 wrappers, 4 files, 5 calls | Code stays mapped, serial plugins alone, own results, unique names, nothing lost, the mutex's holder goes on, every call returns. Holds. |
| `engine_libraries` | 2 objects, 2 files of any of 5 kinds, 6 families, 6 calls | Pointers lead into mapped libraries, handles balance, runtimes stay. Holds. |
| `force_service` | 9 engine families with 5 calls and one fault, with a cache and without; servers of each family, 2 clients with 2 requests; unit expressions of up to 5 symbols, blanks among them; 2 threads with 5 steps on 6 variables of the core | Answers fit their systems and parameters unless the host mixed what the object or its cache cannot tell apart; failures have causes; outputs are whole; natives are held; replies are in the client's units; conversions mean what they say; requests are answered; allocations are owned; gradients match. Holds. |
| `adapter_answers` | a program, without faults | Every answer is about the species, coordinates and parameters it was asked for. **Violated**. |
| `service_force_units` | the same server | Forces come back in the caller's units. **Violated**. |

**Bounds.** Two ranks suffice for "one rank does something that its peer does not";
a rank's collectives are compared pairwise in every property. Four ranks are used
where the arithmetic of the split (with two calculators, and sizes that do not
divide) matters. `MaxFaults = 1` in the force runs: the first fault already ends in
an abort; in the adapters a fault is followed by calls that show what it left
behind. Three requests are one to set something up, one to fail, one to observe;
two clients with one each, or one with two, is what a server of one event loop
tells apart. `MaxCalls` is 5 for plugins (load, two creates, two overlapping forces
or destroys), 6 for libraries (two objects constructed, one reloaded, bound, and
both destroyed) and 5 for adapters (construct, compute, reconfigure, compute,
compute). Two threads make every overlap of two calls. The theorems of section 5
lift these bounds, and those on ranks, requests, faults, slots, systems and the length
of unit expressions, for every safety property; the bounds remain for liveness. A pool of two slots with
three families evicts; the code's `kMaxSlots` differs only in length. Five calls are
what a hit, a promotion, two stores and an eviction take.

**Fairness.** One weak-fairness condition per rank, on the disjunction of its steps:
a rank that can move eventually does, as its operating system schedules it, and a
collective completes once all have entered. In `CollectiveForce` engine failures and an
engine whose peers are missing (`Mishap`) are exempt; waiting ranks with a
message time out because `waitRequest` counts to ten seconds. In `MpiPefSession`
functions under `collective` return or throw (`MpiHost.hpp:56`); clients need not ask and
the server need not stop. In `RpcService` the event loop and its engine run on, and a
client of a process that is gone learns of it; nothing is assumed of the clients or of
the server's start. In `PluginHost` a thread inside a call proceeds (a plugin's callbacks
return); no thread need begin a call. `PairListCache`, `EngineLibraries` and `CoreHandles`
claim no liveness.

**Deadlock** is checked in `force_joint`, the two `pairs` runs and `plugin_host`. It is not where the system may stop: in `calc_bind`,
`calc_register_alone` and `force_short_record` a hang is what some properties are
about (`EveryBindReturns`, `EveryRegistrationReturns` say what may not hang);
in `pef_session`, `force_service` and `service_force_units` the server ends
(`EveryRequestAnswered`, `WorkersReleased` and `CallsAnswered` exclude every other
stop); in `adapter_answers` and `engine_libraries` the host has spent its calls.
Where processes or threads wait for each other, an invariant says more than TLC's check,
which one enabled step anywhere satisfies: `NobodyStuck` (`CollectiveForce`,
`MpiPefSession`) names the only states in which nobody can go on by itself, failures and
new requests not counted, and `HolderProceeds` (`PluginHost`) is about each waiting
thread. They are stated with the guards of the steps (`CanProceed`, `CanStep`), since
ENABLED is beyond the prover.

## 4. Hazards

`PROJECT.json` lists them at their lines, with the properties that would show each
going wrong.

## 5. What is proved

`CalculatorGroupProofs`, for **every** world size, set of callbacks, host program
and answers: `TypeOK` (the type invariants are proved, and not run besides),
`AdoptedOnce`, `AcceptedMeansAdopted`, `RefusalAndSplitAreFinal`. None of these is inductive alone. `IInv` adds
`PhaseInv` (a queue of callbacks exists only inside a bind or registration;
a communicator only from the split on), `OnceInv` (registered callbacks have no
repetitions; one still queued has not been called; one that was called is
registered) and `AcceptInv` (while the group is accepted, each registered adopter that
is not queued was called and agreed). The step proof goes action by action; the
lemmas `AppendOnce`, `TailOnce`, `ConcatOnce` say what the three list operations do
to membership and repetition.

`CalculatorsPartitionWorld` needs nothing of the callbacks. All ranks run one host program,
so the first bind in it decides: `SplitInv` says that every rank that reached
`MPI_Comm_split` brought the same size, which divides the world (`BroughtInv`), and what
communicator it got (`ColorInv`). The rest is arithmetic of quotients and remainders.

`CollectiveForceProofs`, for **every** finite set of ranks, calculators, workloads,
caches, refusals and fault bound: `TypeOK`, `JointDecision`, `FailureNeverReturns`, `AbortHasCause`. `IInv` adds `CallInv` (a rank
in a call has a batch, and something left in it while it computes), `AgreedInv` (a rank
has posted flags for exactly the calls it has begun, and keeps the union of what its
calculator posted for this one, which makes the decision equal on all ranks however
far apart they run) and `ErrorInv` (a failed rank is in the exchange and its last
post says so).

For caches in which no record is shorter than it claims (`NoShortRecord`;
`force_short_record` shows what happens otherwise) it proves
`CollectivesMatch` and that the calls implement `JointCalls`. `LogsInv` says in which order
a rank logs its engine calls and error exchanges: those of each decision by their place in
the batch, an exchange after each (`LogInv`), where the last entries leave the rank
(`LastInv`), and that it goes on only when its peers' entries are there (`MetInv`). Two
ordered lists that contain everything before their last elements are prefixes of each other,
which is `CollectivesMatch`. For the refinement, `JointInv` adds that batches are finite
(`FiniteInv`); `RoundsInv` and `DuesInv` say that the decided calls are the first ones of every
rank and that what they make due is what each rank works off. Then each step is a step of
`JointCalls` or a stutter: a decision extends `due`, `EnterEngine` is a join, `EndCall` a
completion, an abort `GoDown`. `WatchedAssumption`: the calculator has two ranks or more.

`NobodyStuck`, under the same hypothesis, is about ranks anywhere in their calls at once. Suppose
nobody can go on. Then nobody has failed (a failed rank gives up on its peers), and all are in a
decision, the engine, the exchange or the share (`HaltedWaits`). Of a calculator with a rank in
the engine or the exchange take the rank that has posted least: the others' next posts are
missing from its log (`NotPosted`), so it is in the engine itself (`LeastInEngine`), at the end
of its log (`LastEntry`), and a rank with a shorter log would be behind it and could go on
(`NobodyBehind`). So all are in decisions and the share; the rank that has posted flags least
often can leave its decision (`NobodyAgrees`), and when all are in the share, that ends
(`ShareInv`: only a rank with no calls left is there). It is the safety half of `RunEnds`.

`PluginHostProofs`, for **every** finite set of threads, any wrappers, files, names and
directories, and any number of calls: `SerialCodeAlone`, `OwnResult`,
`OnePluginPerName`, `NothingLost`, `CodeStaysMapped`. The parts of `IInv`: `MutexInv`
(a thread's step says how often it holds the serial mutex, which is what the mutex
records), `CallInv` (a thread inside a wrapper is in that wrapper's library, and alone
in it except for forces of a serial plugin), `ScratchInv` (while a force runs, the
scratch is the caller's), `RawInv` (a wrapper has one instance between its create and
its destroy), `KeepInv` (a wrapper that is not of the built-in shares a handle; while the
registry lives its library is registered; names are unique) and `RefInv` (dlopen's count
is the number of loads still deciding, and one if somebody shares the library).
Serial execution follows from `MutexInv` and `CallInv`, the mapped code from `KeepInv` and
`RefInv`, and `HolderProceeds` from `MutexInv`: the mutex's owner is at a step that
holds it, and no such step waits for it.

`EngineLibrariesProofs`, for **every** finite set of objects, any files of any kinds and
any number of calls: `HandlesBalance`, `PointersMapped`, `RuntimesStay`. `HandlesBalance`
counts owners; it is inductive with `Links` (a table and a native object lead into the
library that the object has a handle of, or, for NWChem, into one that the registry
holds). `OneMember` says what gaining or losing an element does to a cardinality, and the
lemmas on it say what each change of owners does to the balance.

The core's objects, in `RpcServiceProofs`, for **every** finite set of variables and any
places, threads and settings: `AllocationsOwned` and `GradientMatches`, under `CoreSpec`, the
specification of `CoreHandles`, and under that of `RpcService`, which takes its steps for
the host `core`. `AllocationsOwned` counts
owners; the invariant says the same without counting (`OneOwner`, `NothingDangling`), and
`FreshId` shows that there is always a number for a new allocation. For the gradients,
`CachesFused` says that a cache holds the latest evaluation and `SettingKept` that no parameter
changes under an evaluation that runs.

`PairListCacheProofs`, for **every** number of threads and slots and any sets of geometries
that meet `PoolAssumption`, two properties.

- `LeastRecentlyUsedEvicted` follows from `PoolInv`: a slot has been used since the last use
  of every slot behind it, and whatever was evicted had at least a pool's worth of slots used
  since. `FreshInv` says that the slot a thread is building is known to no other.
- `ResultIsFresh` follows from `ListInv`: every slot in the pool, and every slot that a thread
  took out of it before the others went on, is a phantom or the whole list (`Listing`) of some
  cacheable request. That such a list serves a later request is geometry, and is proved too:
  the triangle inequality for atoms moved by less than half the skin (`WasInReach`, with the
  folds of both calls), the images a list stores (`ImageKept`), the linked cells
  (`ScanFinds`, from `VisitedOnce`: the half stencil meets each pair within reach exactly once,
  on periodic axes and on free ones, also with two cells on an axis), and tilted boxes (`TiltedNearest`,
  from `BoundedSearch`: the code's bounded search finds an image that none in the whole plane is
  shorter than, by Cauchy and Schwarz on the planes of the cell). It supposes that no atom moves
  exactly half the skin (`OddSkin`): where one does it is false (section 6).

`MpiPefSessionProofs`, for **every** number of ranks, requests and failures and both kinds of
program. `CollectivesMatch` holds because what a rank enters next is a function of its last
collective and of what the ranks agreed in it: `ChainInv` says so of every place of a log,
`PlaceInv` of the place the rank is at, `RootInv` that a broadcast's payload is the root's;
so two logs cannot part (`MatchInv`). `SuccessIsJoint` needs to know how far apart ranks can be:
at most one agreement while one of them works. `JointInv`: pieces come in their order
(`OrderInv`), votes are ranks (`VoteInv`), nothing follows a stop (`StopInv`), a rank holds the
payload of its request (`PayloadInv`), the root's answer is about its request (`RequestInv`), a
session has its engine's parameters (`EngineInv`), what a rank did at its last agreement shows
in its engine (`OutcomeInv`), engines differ only while one has applied what the other has not
(`ParamsInv`), and the force host's one request (`HostInv`). `NobodyStuck` follows from both: a
rank with the shortest log has nobody to wait for (`AtBroadcast`, `AtAgree`, `AtStop`), unless it
waits for a request; then the root does too, and nobody is further (`AtWaiting`). `StoppedInv`
adds that a rank stops after the stop command only.

`RpcServiceProofs`, about the adapters under **any** entry point, batch, family and sequence of
calls, in a program or a server: `NativesHeld` (`NativesInv`), `FailureHasCause` (`CauseInv`:
where what an earlier failure left can be a cause at all), `OutputsWhole` (`BuffersInv`: while an
engine runs, the places to compute are those still as the caller left them), and
`AnswerFits`. The last rests on `ObjInv` (a fingerprint, a session and the species an object
keeps are those of its parameters and its number of atoms), `AskedInv` (the species an object
keeps, and the species and parameters of what its cache holds, are among those it was asked for)
and `FitInv` (what the call has so far, and what is in the cache, answers the system it is filed
under). So where the host asked for nothing that the object or the cache cannot tell apart, what
was kept is what was asked. Where it did, an answer may be about another system, which
`AnswersIndependent` shows: the theorem says that there is no other way. Keys combine their
parts by exclusive or; `KeysApart` shows from `KeyParts` that equal keys are of equal systems
and fingerprints, if no system's coordinates are a cell (`PartsDistinct`; section 6).
`RotationGroupsClosed` shows that the orientations Metatomic averages over are groups of 12
and 24. Of the server, `ReplyFits`: `ClientInv` ties a client's request to the message in flight,
`ServedInv` carries `FitInv` over the wire; that the coordinates and species are the client's own
is again for clients that do not mix them. It supposes that units have a size or do not read
(`UnitsRead`): sizes are integers here, and a unit such as 2^(1/2) has none. TLC evaluates
it for the units the run's peers name; that the schema's own, angstrom and eV, are read is
proved (`SchemaRead`). An empty string is excluded because it means no conversion.
`ConversionMeans` rests on `ParseMeans`.

`UnitExpressionsProofs`, for **every** expression of any length: `ParseMeans`. If an
expression has a meaning, the code's tokenizer, shunting yard and evaluation of the output
find that meaning. No induction theorem of the library can be used here, so induction goes
by least counterexample (`LeastNat`): `FoldsAre` shows in one argument that the three folds
exist and go element by element, `MeaningIs` that the recursive reference exists. Then take
a shortest part of an expression that is misread. The statement about parts (`Read`) is made
so that it carries its own context: whatever stack of operators and output there was before
a part, if those operators bind weaker than the part's (`Below`), then reading the part
leaves the stack with operators of the part's level above it (`Level`, `Ready`), and draining
these appends an output that evaluates to the part's meaning. A part is a word, an operator
between two shorter parts, or a shorter one in parentheses (`ReadsWord`, `BothSides`,
`Closing`); `CutBinds` says that the reference cuts where the code's precedences do, and
`BracketsGrow` and `DepthOfPart` keep count of the parentheses.

**What the proofs assume.** The named `ASSUME`s of the modules, which give the types of the
constants, say what is finite and that there is a rank (`WorldAssumption`, `HostAssumption`,
`PluginAssumption`, `LibraryAssumption`, `CoreAssumption`, `PoolAssumption`,
`SessionAssumption`, `AdapterAssumption`, `ServiceAssumption` and the rest): TLC
evaluates them in every run. The four hypotheses that restrict what happens stand in the
theorems themselves: `NoShortRecord`, `OddSkin`, `PartsDistinct`, `UnitsRead`. The last three are
`ASSUME`s of the `MC` modules (`NoHalfMoves`, `Separable`, `Readable`), so that
the runs meet them; `force_joint` has no short record and `force_short_record` has. `AnswerFits` and
`ReplyFits` name what they leave open in themselves (`SpeciesMixed`, `ParamsMixed`).

**Only model-checked.** Liveness (`EveryBindReturns`, `EveryRegistrationReturns`,
`RunEnds`, `EveryRequestAnswered`, `WorkersReleased`, `CallsReturn`, `CallsAnswered`), which this prover cannot do. Every other property of a
passing run has its theorem; for three of these `NobodyStuck` and `HolderProceeds` prove that
what they promise is never out of reach because processes wait for each other.

## 6. Where code and words disagree

Shown by a run:

- `CalculatorGroup.cc:141` (`calc_register_alone`): after a refusal known to one rank, a later
  registration skips the engine there while its peer enters the engine's collective and hangs.
- `PotentialCache.cc:45` (`force_short_record`): a truncated record is a hit in the joint
  decision and an exception after it; the peers wait in the engine.
- `rpc/server.cpp:133` (`service_force_units`): the factor of a force divides by the length
  where it should multiply: a peer that names nanometres gets forces 100 times too small.
- `XTBPot.cc:103` (`adapter_answers`): an adapter keeps what its first call made. `xtb` and
  `tblite` update the coordinates of a molecule whose species, and number of atoms, stay those of
  their first call; `d3`, `d4` and `metatomic` keep the species until the number of atoms changes.
  The second system of a batch may be answered with the species of the first, although
  `Potential.hpp:245-247` and `ForceStructs.hpp:46-48` say that systems share nothing.
- `PairListCache.hpp:89` (`pairs_one_shot`): a phantom that `dropPairs` makes of an all-pairs list
  keeps the mark that lets any displacement pass, so that a geometry seen for the first time is
  captured. Lines 28-31 promise that one-shot evaluations never pay for that. Fewer than two
  atoms asked through `accumulate` do the same.

Read in the code, or allowed by a property of the models, without a run of its own:

- `CalculatorGroup.cc:154` (`BindAgain`): the whole-world size 0 is normalised before it is
  stored, and compared raw later: `bindCalculators(0)` twice answers -1 the second time.
- `Potential.hpp:104`: seven adapters (xtb, tblite, d3, d4, metatomic, mopac, nwchem) keep the
  default fingerprint 0 and share cache entries between parameter sets, which lines 366-367 say
  must never happen. It violates `AnswersIndependent` too, in longer behaviours than the one
  that `adapter_answers` stops at; `AnswerFits` leaves it out by name (`ParamsMixed`).
- `PairListCache.hpp:98`: an atom that moved exactly half the skin keeps the slot valid, but the
  list was captured strictly inside cutoff + skin, and a scan reports pairs at the cutoff: a pair
  exactly at the reach can be missing. Lines 23-25 promise the content of a fresh scan while every
  atom stays within half the skin. The instances have an odd skin (`OddSkin`), so that nothing
  moves exactly half; with an even one TLC finds `ResultIsFresh` violated.
- `Potential.hpp:360-371`: equal parts of a key cancel. A system whose coordinates are the
  bytes of its cell has the key of every other such system with its types;
  `AnswerFitsHolds` supposes that there is none (`PartsDistinct`).
- `UmaPot.cc:190-220`: a package whose metadata is malformed throws once; the next call runs
  it without a contract.
- `TBLitePot.cc`, `D3Pot.cc`: a failed engine call leaves native objects behind (`NativesHeld`
  allows one per fault there).
- `potential.hpp`: an exception of an unknown type becomes `INTERNAL_ERROR` without a message,
  although `status.rs:12` says one is stored: the caller reads that of an earlier failure.
- `rpc_client.hpp:51,64` say that the constructor connects; `rpc/client.rs:35` connects lazily.
- `eindir.rs`: the gradient callback reports success without writing when the potential sets no
  forces; and a gradient after a reconfiguration is served from the evaluation before it
  (`GradientMatches` allows the latest evaluation).
- `rpc/pot_bridge.cc:154`: a reply of the wrong size is refused after the caller's energy was
  overwritten. The bridge's header promises nothing about the buffers of a call that failed;
  `ReplyFits` asks that such a reply is an error with a text and without forces.
- `CPMDPot.cc`: the error "callback changed while loading" cannot be reached.
- `units.cc`: `std::stod` accepts a number's prefix, and the shunting yard some malformed
  strings; `ConversionMeans` and `ParseMeans` speak of strings that have a meaning.

## 7. Not modelled, and what is left

Not modelled, and why:

- floating-point kernels (`LennardJones`, `Morse`, `ZBL`, `CuH2`, `XcKernel`, ...) and the
  expression potential: numerics without control state;
- Python marshalling, build files, CI and vendored code, the command line and the wire format,
  logging and message text, starting MPI;
- hash collisions in the cache key other than equal parts that cancel, and the bytes of a record;
- `validate_unit`; the third axis, `cellGridFits`, the cap of 20000 atoms and the overflow and
  conditioning checks of the neighbour lists; `computeNeighbors`; torch's determinism policy;
- `profile.rs`, which repeats `ProfileLoader`, and the Rust core's tensors and async client.

Left to prove: nothing that this prover can do. Liveness stays with TLC (section 5).
