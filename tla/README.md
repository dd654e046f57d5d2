# TLA+ specifications of lockfree-rs

The crate (`spinlock_rs`) has two busy-waiting locks, a test-and-test-and-set
`Spinlock` and an MCS queue lock `McsSpinlock`, and benchmarks that compare
them. This directory models the locks at the granularity of their atomic
operations, once with sequentially consistent memory and once with the memory
orderings of the source, and the protocols of the two benchmark harnesses. It
checks small instances with TLC, and proves the safety properties of all of them
with TLAPS, for every number of threads, locks, nodes and iterations.

Paths below are relative to the repository: `src/mcs_spinlock/mod.rs` is
written `mcs:<line>`, `src/spinlock/mod.rs` is `spin:<line>`, `benches/perf.rs`
is `perf:<line>` and `benches/fairness.rs` is `fair:<line>`.

## 1. Inventory

| Part | State | Operations | Interacts with |
|---|---|---|---|
| `McsSpinlock` (`mcs:268-605`) | `tail`, the payload | `lock`, `try_lock`, guard drop (`release`), `new`, `into_inner`, `get_mut` | the nodes of all waiting threads; the node pool of the calling thread |
| `Node` (`mcs:113-154`) | `locked`, `next`, `pool_next` | initialised by `take_node`, linked by the successor, cleared by the predecessor | written by up to three threads in its life |
| Node pool (`mcs:156-266`) | thread-local `head` of a free list, alive or destroyed | `take_node`, `return_node`, `Drop for Pool` | the allocator, which hands a freed address to any thread |
| `Spinlock` (`spin:83-330`) | `locked`, the payload | `lock`, `try_lock`, guard drop, `new`, `into_inner`, `get_mut` | all waiting threads, on one flag |
| `cache::Aligned`, `spin_hint` | none | layout, pause | both locks |
| `benches/perf.rs` | two barriers, two FIFOs | `Gate`, `PerfControl`, `contended`, `disjoint` | worker threads, the `perf` process |
| `benches/fairness.rs` | stop flag, barrier, per-thread counts, payload | `measure` | worker threads |
| `benches/common`, `benches/spinlock.rs`, `scripts/` | none that outlives a call | sweep, calibration, criterion driver, report | the command line |

What is hard in it:

* **Interleaving.** An acquisition of `McsSpinlock` is a swap, a link and a
  spin; a release is a load, a compare-exchange, possibly a wait, a store.
  Any of these of any threads interleave; the window between a swap and its
  link (`mcs:48-58`) is where a release has to wait for another thread.
* **Raw pointers whose targets die.** A thread writes through a pointer into
  another thread's node (`mcs:450`, `mcs:588`) after having read the address.
  The node is recycled, freed and its address allocated again by others.
* **Protocols of legal calls.** Guards are dropped in any order, forgotten,
  or dropped after the thread's pool is gone; a thread locks in a
  thread-local destructor; a lock is dismantled with a forgotten guard's node
  still allocated; a thread relocks what it holds.
* **Liveness.** Two unbounded loops spin on another thread's progress, and
  the weak compare-exchange of `Spinlock::lock` may fail for no reason.
* **Orderings.** What each `Acquire`, `Release` and `Relaxed` publishes: the
  protected value, the fields of a recycled node, the right to free one.
* **The harnesses.** Two barriers and a request-reply protocol with another
  process decide what the counters count (`perf:130-183`); a flag and counts,
  all `Relaxed`, decide what the fairness table says (`fair:161-204`).

What makes the parts correct: one guard per lock at a time; service in arrival
order, without barging, for `McsSpinlock`; every write to another thread's node
hits a live node whose owner waits for that write; a node is recycled or freed
only when no other thread can reach it, exactly once, and none is lost; `tail`
and `locked` tell exactly whether the lock is in use, so `try_lock` does; every
release ends; every waiter is served if guards are dropped; whoever has a guard
has every earlier critical section behind it. The harnesses are correct when
they count the whole workload and nothing else, and end. `PROJECT.json`
lists each hazard at its line with the properties that cover it.

## 2. Modules

| Module | What it is |
|---|---|
| `ExclusiveLock` | the promise both locks make: at most one holder |
| `FifoLock` | the promise of `McsSpinlock`: requests stand in line, only the oldest is granted |
| `McsSpinlock` | the queue lock and the node pool, one action per atomic operation; implements `FifoLock` and `NodeSupply` |
| `NodeSupply` | what the locks need of the node pool: a node is one thread's, until it returns it |
| `NodePool` | the free list with its pointers and its destructor; implements `NodeSupply` |
| `McsInvariant` | the inductive invariant of `McsSpinlock` |
| `Spinlock` | the test-and-test-and-set lock; implements `ExclusiveLock` |
| `ViewMemory` | memory with the release/acquire semantics of `std::sync::atomic`, and lemmas about its operations |
| `McsOrderings` | the queue lock over `ViewMemory`, in the program of two of its tests; implements `FifoLock` |
| `SpinOrderings` | the test-and-test-and-set lock over `ViewMemory`, likewise; implements `ExclusiveLock` |
| `PerfHarness` | one measured run of `benches/perf.rs`: main, workers, `perf` |
| `FairnessBench` | one window of `benches/fairness.rs`, over `ViewMemory` |
| `MC...` | instances of the module of that name for TLC |
| `...Proofs` | theorems about the module of that name, and the invariant they need unless the module or `McsInvariant` has it |
| `ExclusiveLockProofs` | theorems about `Spinlock` and `FifoLock`, both of which implement `ExclusiveLock` |

`McsSpinlock` implements `FifoLock` (TLC and TLAPS), which implements
`ExclusiveLock` (TLAPS); `Spinlock` implements `ExclusiveLock` (both). Under
the orderings `McsOrderings` implements `FifoLock` and `SpinOrderings`
`ExclusiveLock` (both).
`McsSpinlock` and `NodePool` each implement `NodeSupply` (both): the first takes
and returns nodes only as `NodeSupply` allows, the second serves whatever
`NodeSupply` allows to be asked, so the pool of `McsSpinlock` can be a set and
the list be verified by itself.

### McsSpinlock and the code

`tail`, `locked` and `next` are the fields of the same name. `pool[t]` is the
free list of thread `t` and `poolAlive[t]` whether its destructor has not
started; `heap` is the set of allocated nodes. `lk`, `nd`, `pr` and `nx` are
the locals `self`, `node`, `pred` and `next` of the call `t` is in, `pc` where
in it. `guard[t][n] = l` says that `t` owns a guard of `l` that carries `n`.
`leaked` are the nodes of forgotten guards. `queue` is a history variable: the
nodes that were swapped into `tail` and whose release has not given the lock
up yet. No action reads it to decide anything.

| Code | Actions |
|---|---|
| `lock` (`mcs:420-464`) | `LockBegin` (`take_node`), `Swap`, `Link`, `SpinEnd` |
| `try_lock` (`mcs:484-508`) | `TryLockBegin` (`take_node`), `TryCas`, `ReturnNode` |
| guard drop and `release` (`mcs:377-388`, `541-589`) | `DropBegin`, `RelLoad`, `RelCas`, `RelWait`, `Handoff`, `ReturnNode` |
| `Drop for Pool`, thread end (`mcs:167-195`) | `PoolDrop`, `ThreadExit` |
| `mem::forget` of a guard | `Forget` |
| `into_inner` or drop, then `new` | `IntoInner` |

A step that touches only the caller's own data is merged with the shared access
next to it. The one place where that needs an argument is `take_node`: it
writes `locked` and `next` of a node that nobody else can reach
(`UnreachableOnceReturned`), so the moment of the writes is not observable.
A spin loop's unsuccessful loads change nothing and are stutters.

Freed memory is blanked and its address is allocated again by whichever thread
takes a fresh node next, so a pointer that outlives its node does point into a
stranger's node in the model. `Drop for Pool` frees the list in one step; the
list is local to the thread, and nodes on it are unreachable.

The program around the lock is as free as safe Rust is: any thread calls
`lock` or `try_lock`, drops any guard it owns, in any order, or forgets it
(`Leaks`), also after `PoolDrop`, which is how a destructor of another
thread-local behaves (the test at `mcs:877` does that). `Nests` is the program's
discipline on calling `lock` while holding a guard: with all pairs, programs
deadlock as they can in reality; `try_lock` is never restricted. `IntoInner`
needs that no call or guard borrows the lock, which the borrow checker
enforces. A panic while a guard is alive drops it: `DropBegin`.

### Spinlock and the code

`locked` is the flag; `guards[t]` and `forgotten[t]` the locks whose guard `t`
owns or has forgotten. `LoadFree` is the load that ends the inner loop
(`spin:254-260`), `CasWins` and `CasLoses` the weak compare-exchange, which may
lose on a free flag (`spin:262-282`), `TryCas` the strong one (`spin:318-330`),
`Drop` the guard's store (`spin:186-194`).

### NodePool and the code

`head`, `poolNext`, `node` and `nx` are `Pool.head`, `Node.pool_next` and the
locals of `Drop for Pool`; `stage` is where a thread's `POOL` is in its life;
`held` are the nodes in the thread's guards and calls, whose use of the list is
sequential. `list` and `peak` are history variables: what the list should hold
and the most nodes the thread has held at once.

| Code | Actions |
|---|---|
| `take_node` (`mcs:201-242`) | `Recycle`, `Allocate` |
| `return_node` (`mcs:251-266`) | `Push`, `FreeOneOff` |
| `mem::forget` of a guard | `Forget` |
| `Drop for Pool` (`mcs:167-187`) | `DropBegin`, then `DropRead` and `DropFree` in turn |
| thread end, and a new thread | `ThreadExit` |

The list is touched by its own thread only, so each call is one step; the
destructor is split because between the read of a link and the free, and between
two frees, other threads allocate. In the mapping to `NodeSupply` a list counts
as freed when its destructor begins: the addresses come back one by one, and
until then nobody can ask for them.

### McsOrderings, SpinOrderings and the code

`written[x]` is the modification order of a word `x`, `view[p][x]` the oldest of
its entries that `p` may still be shown. A load takes any entry from there on, so
it may be stale; a `Release` write carries the writer's view, and an `Acquire`
load that reads it joins that view to its own; a read-modify-write takes the
newest entry and carries on what that carried. Spawning a thread and joining it
hand views over. That is the release/acquire fragment of the memory model of
C++20, which Rust adopts, and all that the two locks use. The orderings are
definitions named after the access (`SwapOrder`, `HandoffOrder`, `CasOrder`,
...), each next to the function it is in.

The words are `tail` and the value, and `next` and `locked` of a node per thread:
here no thread has two guards, so its free list serves it the same node every
time (`mcs:866-870`). The actions are those of `McsSpinlock` and `Spinlock`, with
`ReadData` and `WriteData` (`ReadFields` and `WriteField`) for the two `Deref`s.
`Begin` stores to the recycled node, `Relaxed`, as `take_node` does
(`mcs:226-242`). The program is that of the tests at `mcs:988` and
`mcs:1016`, `spin:680` and `spin:709`: main owns the lock, adds one with `get_mut`,
lends it to scoped threads of `Rounds` iterations each, joins them and consumes
it. `LinkMark` and `GrantMark` are history: plain words written together with a
node's `next` and `locked` by other threads, so that one can ask whether those
writes have happened before the node is freed.

Two things real memory may do are left out, and nothing is lost by that here.
First, a write goes to the end of the modification order, where hardware may
put it before a write that the thread does not know of. `ValueOrdered`,
`StoresInOrder` and `HolderUpToDate` say that a thread which is about to store
knows every earlier write to that word, so there is none to come before; without
one of these orderings they fail in the first state where it would matter.
Second, a load does not return a write that follows it in program order in
another thread and depends on it in turn (load buffering). Only `Relaxed` loads
could: that of `Spinlock`'s inner loop and those of failed compare-exchanges.
What a thread stores to shared words after one of these comes behind a
successful `Acquire` access of its own.

### PerfHarness and the code

| Code | Actions |
|---|---|
| `PerfControl::open` (`perf:100-111`) | `OpenBegin`, `OpenEnd`, of main and of `perf` |
| `PerfControl::send` (`perf:119-127`) | `Send`, `AwaitAck`; `PerfObeys` and `PerfAcks` at the other end |
| `Barrier::wait` | `Arrive`, and `Pass` once all have arrived |
| `Gate::arrive`, `start`, `stop` (`perf:162-190`) | `PassReady`, `PassGo`; `GateStart`; `GateStop` |
| the workers' loop (`perf:366-372`) | `BumpLocks`, `BumpUnlocks`, `WorkerEnds` |
| `contended`, `disjoint` (`perf:354-445`) | `SpawnWorker`, `AllSpawned`, `JoinAll`, `GetTotal` |

`driven` is whether the run has its two FIFOs (`perf:502-506`), `shared` the
scenario. `perf` is not in this repository. It opens each FIFO in one direction
and blocks until somebody has the other end open, in either order, which is the
behaviour the comment at `perf:88-93` guards against; it reads a command, obeys
it, and later acknowledges it.

### FairnessBench and the code

`SeesGo`, `Bump`, `ChunkEnds`, `SeesStop` and `Publish` are a worker's loop
(`fair:180-188`), `RaiseStop` the end of main's sleep, `JoinOne` the end of the
scope, `MakeRow` the reading of the totals (`fair:203-211`). The payload's
`acquisitions` is kept, its `handoffs` and `last` are not: nothing but the batch
column depends on them. Since a window has any length the counters would be
unbounded; they count modulo `Width`, which keeps sums and their equality.

### What is abstracted

In the sequentially consistent models the payload (that one guard at a time
exists is what accesses to it rest on), node addresses (model values), in
`McsSpinlock` the order inside a free list (`take_node` takes some member; the
code takes the first, so every behaviour of the code is one of the model, and
`NodePool` has the list), lengths of pauses. In the models with orderings
nesting, forgotten guards and the reuse of addresses, which the others have.
Definitions whose name ends in `_<Something>` and whose comment says "Slip" are
plausible mistakes in the code; nothing uses them except the mutation entries of
`PROJECT.json`, each of which replaces the correct definition to show that a
property notices.

## 3. Runs

| Run | Instance | Distinct states | What it shows |
|---|---|---|---|
| `mcs_contend` | 3 threads, 1 lock, 4 nodes, threads end, symmetry | 115 696 | safety and FIFO under contention |
| `mcs_nested` | 2 threads, 2 locks, 4 nodes, any nesting, forgotten guards, threads end, symmetry | 107 253 | accounting and relocking with nested, out-of-order, forgotten guards (the refinement of `FifoLock` is proved for these too) |
| `mcs_served` | 3 threads, 1 lock, 3 nodes, fair | 93 571 | `LockReturns` |
| `mcs_served_nested` | 2 threads, 2 locks in one order, 3 nodes, fair | 60 519 | `LockReturns` over two locks |
| `mcs_drop` | 2 threads, 2 locks, 3 nodes, any nesting, forgotten guards, fair | 111 730 | `DropReturns` |
| `mcs_contract` | 2 threads, 1 lock, 3 nodes | (violation) | a documented precondition the code does not keep, section 5 |
| `spinlock` | 3 threads, 2 locks, any nesting, forgotten guards, fair | 12 691 | safety of `Spinlock`, and `FreeLockIsTaken` |
| `node_pool` | 2 threads that end and are replaced, 4 nodes, fair | 127 356 | the free list and its destructor |
| `mcs_orderings` | 3 threads with 2, 2 and 1 iterations of `lock` or `try_lock` | 185 025 | the orderings of `McsSpinlock` |
| `spin_orderings` | 3 threads with 2, 2 and 1 iterations of `lock` or `try_lock` | 15 022 | the orderings of `Spinlock` |
| `perf_harness` | 3 workers, 2 acquisitions each, driven or not, both scenarios, fair | 5 266 | what `perf` counts, that nobody deadlocks and that the run ends |
| `fairness_bench` | 3 workers, chunks of 2, counters modulo 5, fair | 65 318 | the totals agree, and the window ends |

The properties:

* `MutualExclusion`: no two nodes hold a lock; no node is in two guards.
* `NoDanglingWrite`: when a thread is about to write to another's node, the
  node is allocated and its owner waits for that write (the SAFETY comments at
  `mcs:441` and `mcs:586`).
* `UnreachableOnceReturned`: a node that is being returned, is on a free list
  or was freed cannot be reached by another thread (`mcs:530-540`).
* `NodesAccountedFor`: each allocated node is in one place, others in none.
* `NobodyStranded`: while a thread spins on a lock, the lock is in a guard or a
  thread in its queue has a step to take (`mcs:48-58`, `570-575`); it is the part
  of `LockReturns` and `DropReturns` that needs no fairness.
* `TailNullIffNotBusy`, `FlagSetIffHeld`: the lock word tells the truth.
* `TryLockIsHonest`: `try_lock` fails exactly when the lock is in use at its
  compare-exchange (`mcs:468-470`, `487-489`).
* `RelockNeverReturns`: a thread that relocks what it holds stays out
  (`mcs:282`, `spin:242`).
* `ListIsLinked`: from `head` (or the destructor's `node`) the links lead
  through exactly the nodes pushed and not popped, in order, and end.
* `OnePlace`: no node is twice in a list, in two lists, or in a list and in use;
  all are allocated. `UnlinkedWhileHeld`: a node in use has no `pool_next`
  (`mcs:135-138`).
* `NeverGrows`: "acquisitions reuse nodes instead of allocating" (`mcs:866-870`): a
  thread never has more nodes than it has held at one time.
* `ImplementsFifoLock`, `ImplementsExclusiveLock`, `ImplementsNodeSupply`:
  refinement.
* `IInv`: the inductive invariant of the proofs. Its first part is `TypeOK`:
  types, and a thread's locals are set exactly while their code runs.
* `LockReturns`, `DropReturns`, `FreeLockIsTaken`, `PoolDropEnds`: liveness.

Of the models with orderings:

* `ValueOrdered`, `HolderUpToDate`: whoever dereferences a guard, and main once
  the threads are joined, knows every earlier write to the value (`mcs:428-432`,
  `581-584`, `spin:188-191`): no data race on it, and no stale read.
* `NeverTorn`: a new holder cannot be shown a half-finished critical section
  (`spin:683-687`).
* `NothingLost`: whatever main may be shown at the end counts every guard handed
  out (`mcs:1011`, `mcs:1036-1038`, `spin:736`).
* `StoresInOrder`: "any node reachable from `tail` is fully initialised"
  (`mcs:434-437`): neither the link nor the handoff can be overtaken and undone by
  an earlier reset of that node, nor a reset by an earlier link or handoff.
* `FreedInOrder`: when a thread's end frees its node, others' writes to it have
  happened before (`mcs:386-388`).
* `ImplementsFifoLock`, `ImplementsExclusiveLock`: also with stale loads and
  spurious failures.

Every one of the nine orderings of `McsSpinlock` that are not `Relaxed` is
needed; each was weakened in turn:

| Weakened | Violated |
|---|---|
| swap, to `Release` | `ValueOrdered`, `StoresInOrder`, `NothingLost` |
| swap, to `Acquire` | `StoresInOrder` |
| link, to `Relaxed` | `StoresInOrder`, `FreedInOrder` |
| spin load, to `Relaxed` | `ValueOrdered`, `StoresInOrder`, `FreedInOrder`, `NothingLost` |
| `try_lock`, to `Release` | `ValueOrdered`, `NothingLost` |
| `try_lock`, to `Acquire` | `StoresInOrder` |
| loads of `next`, to `Relaxed` | `StoresInOrder`, `FreedInOrder` |
| emptying compare-exchange, to `Relaxed` | `ValueOrdered`, `NothingLost` |
| handoff, to `Relaxed` | `ValueOrdered`, `StoresInOrder`, `FreedInOrder`, `NothingLost` |

`ImplementsFifoLock` survives all of these: who gets the lock, and in which order,
rests on the atomicity of the swap and the compare-exchanges and not on the
orderings; its mutant splits `try_lock`'s compare-exchange into a load and a
store. `TryLockIsHonest` is not stated here: a failed compare-exchange is a
`Relaxed` load, and what it is shown may be the tail of a moment ago.

Of the harnesses:

* `WorkIsCounted`: in a driven run the counters are armed as long as any worker is
  past the gate, and as long as the clock runs (`perf:115-118`, `130-148`).
* `OnlyWorkIsCounted`: they are armed at no time before all have arrived, nor
  when main takes the lock at the end.
* `NoDeadlock`: main, `perf` and the workers are never all waiting, whichever way
  `perf` opens its ends (`perf:88-93`). Each may wait for an open whose other end
  nobody has, at a barrier, for a line, for a lock or for a join; this is the
  part of `RunEnds` that needs no fairness.
* `RunEnds`: the run ends.
* `CountsAgree`: main is shown the published counts, and they add up to the
  payload's count (`fair:203-208`).
* `WindowEnds`: every worker sees the flag, and the row is made.

**Bounds.** The sequentially consistent models are finite by themselves: nothing
counts, so no guard caps a counter.
`Nodes` is the heap. Three threads on one lock give every shape of queue that
matters: a holder, a waiter that is linked and one that is not, and two unlinked
ones at once. Four nodes give each of these threads one and leave one on
a free list or freed, so that an address changes hands while others are queued;
with two locks and two threads, each thread can hold one and wait on the other.
Forgotten guards are in `mcs_nested` and `mcs_drop` only. `NoDanglingWrite`, and the
refinement of `FifoLock` with several locks, are checked without forgotten guards and
with one lock, and proved with any number of either.
When all nodes are in use the next `take_node` is disabled, which stands for a
program that does not allocate just then: it removes behaviours, never adds
one. In `node_pool` four nodes make lists long enough to tell front, middle and end
apart while the other thread holds or keeps one. The liveness runs of the queue
lock have three nodes, threads that do not end, and no
symmetry (TLC's symmetry reduction is not sound for them). The proofs have no
bound at all.

In `mcs_orderings` two threads have two iterations, so that a node is recycled
after a link and a handoff to it and after neither, while the third thread makes
a queue of three. `Rounds` is the only bound there and in `spin_orderings`. In
`perf_harness`, two acquisitions let a fast worker be done before a slow one has
started. In `fairness_bench` nothing bounds the window; 2 is the least chunk that
can be cut short, and 5 exceeds what two chunks count and is not a multiple
of the chunk, so that a lost or doubled chunk shows in the sum.

`CHECK_DEADLOCK FALSE` stands in the configurations where programs may deadlock
by their own choice (`mcs_nested`, `mcs_drop`, `spinlock`): lock order
inversions, relocking and forgotten guards stop them for good, as they do in
reality; and in `perf_harness` and `fairness_bench`, where the program ends
(that it does not stop before is `NoDeadlock` and `RunEnds`, and `WindowEnds`). In the other runs
deadlock is checked; the models with orderings mark the end of the program with
`Over`, so that a thread left spinning, as a lost link or handoff would leave
it, shows.

**Fairness.** `FairSpec` has weak fairness of `Step(t)`: a thread inside a call
never parks (`mcs:418-419`, `spin:241-242`), so it is always runnable and a
preemptive scheduler runs it. The spin loops need no more than that, since a
flag or link that has been written stays written until the spinner has seen it.
`LiveSpec` adds that the program drops each guard it gets: strong fairness of
`DropGuardOf(t, l)`, strong because a thread that owns a guard may go through
calls on other locks in between. `DropReturns` does not use that: a release
ends whatever programs do. For `Spinlock`, `FairSpec` adds that of all the
compare-exchanges tried on a free lock one succeeds in the end. That is the
progress that LL/SC hardware gives. It is deliberately not fairness per thread:
the module's documentation says that a thread "can lose repeatedly". For
`NodePool`, `FairSpec` has weak fairness of the destructor's steps: a thread that
ends runs its destructors, and their loop waits for nobody. `PerfHarness` and
`FairnessBench` have weak fairness of each thread and of `perf`: the scheduler runs
them, and the sleep ends. Neither assumes a fair lock: in both, whoever is passed
over gets the lock when the others are done. `FairnessBench` adds strong fairness
of `SeesStop(w)`: a store becomes visible to other threads in finite time, which
the language asks of atomics whatever their ordering, so a worker that goes on
loading the flag is shown it raised some time.

## 4. Proofs

### The locks and the pool

`McsSpinlock` is proved from `IInv`, for arbitrary (also infinite) sets of
threads, locks and nodes, from the assumptions named in the module: `Null` is
neither a node nor a lock, and `Nests`, `Leaks` and `Exits` have their types.

The safety properties are not inductive: nothing in `MutualExclusion` prevents
a state in which a waiter's flag is down while another thread holds the lock.
`IInv` says why it does not happen, in four parts.

* `Ownership`: a node is owned by one thread's guard or call, or is on one free
  list, or is leaked, or is free. Without it an address could enter the queue
  twice.
* `QueueMembers`: every queued node is there for the thread that owns it, or is
  the leaked head; whoever has a guard or is releasing is at the head; a waiter
  is at the head exactly when its flag is down.
* `QueueLinks`: `tail` is the last of the queue; `next` of each is the one
  behind, or null while that one is between its swap and its link. A releaser
  whose compare-exchange failed has somebody behind it.
* `Accounts`: every allocated node is owned, pooled or leaked; a leaked node
  links to something only while it heads a queue.

`McsSpinlockProofs` proves types and `Ownership` per action, then that each
action keeps `QueueMembers` and `QueueLinks` (the lemmas ahead say what `Append`
and `Tail` do to a queue, and that a step which touches no queued node disturbs
nothing). It then puts the
steps together (`McsQueueInvariant`) and derives the properties: type
correctness, mutual exclusion, no dangling write, unreachability, accounting, that
nobody is stranded, honest `try_lock`, relock, and the refinement of `FifoLock` (`McsIsFifoLock`),
where each step is classified as entering, queueing, being granted, releasing,
or invisible. `ExclusiveLockProofs` adds that `FifoLock` implements `ExclusiveLock`.
It does the same for `Spinlock`, whose invariant is `TypeOK`,
`FlagSetIffHeld` and that at most one thread holds.

`NodePoolProofs` proves that the invariant of the free list (`ListIsLinked`,
`UnlinkedWhileHeld`, `OnePlace`, types, and that a thread holds finitely many
nodes) is inductive. `LinkedPop` and `LinkedPush` say what taking the first node
off and putting one in front do to pointers and history; `OthersSound` says once
that a step which writes to a node of no other thread leaves the others' lists
alone. `NeverGrows` follows from it by counting, and `NodePoolIsNodeSupply` maps
each step to one of `NodeSupply` or, inside the destructor, to none.
`McsIsNodeSupply`, in `McsSpinlockProofs`, is the other half.

### The orderings

`McsOrderings` and `SpinOrderings` are proved for any set of threads and any
number of iterations of each. The only assumptions are that main is not one of the
threads and, of the queue lock, that `Null` is not. All of it rests on the lemmas
of `ViewMemory`, one per operation of the memory: what a load, a store, a
read-modify-write, a spawn and a join do to the modification orders and to what each
process knows (`ReadLearns`, `WriteAppends`, `ExchangeAppends`, `SpawnHandsOver`,
`JoinHandsOver`). A process *knows* a word when its view is at the newest entry
(`InOrder`), and an entry *carries* a word when an acquirer of it knows that word
afterwards.

That a holder knows the value is not inductive, since it says nothing of what the
next holder will know. The invariants say where each piece of knowledge is in
between.

* In `SpinOrderings` there is one place. While the lock is free, the newest entry of
  the flag carries every word that a thread does not know already (`LockCarries`:
  the second part is for threads that have been the last to hold). The flag tells
  whether somebody holds (`FlagTells`), and the value and `taken` differ by what the
  holder has yet to write (`Values`).
* In `McsOrderings` there are two chains in opposite directions. The value goes down
  the queue: from the releaser to the next in the handoff's entry of `LockedOf`, and
  from a queue that empties to whoever starts the next in `TailOf` (`DataKnown`). A
  node's words go up and down. Its reset is carried by the `TailOf` entry of its
  swap to whoever links behind it, and by that link, in the `NextOf` of the node
  ahead, to whoever will hand the lock to it (`OthersKnown`). The link and the
  handoff come back to the owner of the node in its own `NextOf` and `LockedOf`
  (`OwnKnown`), so that it knows them before it resets the node or frees it.
  `NextShown` and `LockedShown` say what stale entries the owner may still be shown:
  only nulls and raised flags of the present life of the node, so a spin that ends
  has seen the handoff and a link that is seen is the true one. `QueueMembers`,
  `TailIsLast` and `NextIsBehind` are the queue of `McsInvariant` in this memory.

There is a lemma per step, `QuietStep` for all that touch nobody else's words, and
`Frame` states once what a write to some words leaves of the knowledge of the others.
From the invariants follow, per lock, the ordering properties, that no increment is
lost, and the refinement.

### The harnesses

`PerfHarnessProofs` is for any number of workers and acquisitions, both scenarios and
either order of opens. Its invariant has `Conversation`, by which there is never more
than one command or acknowledgement under way and where main is tells whether the
counters are armed, and `GateHolds`, by which a worker past the second barrier means
that main has arrived there, hence has had its acknowledgement. Neither `ends` nor
`opening` occurs in it: what is counted does not depend on how the FIFOs are opened.

Whether anybody gets that far does, and `NoDeadlock` (`NobodyDeadlocks`) is where.
`Opened` says that main, which opens both ends of a FIFO at once, has both or neither
and keeps them: it never waits for an open, and once it has made its two, `perf` does
not either. `GatePassed` says who is where once a barrier is full. With all of them
waiting, then, main is not opening, so neither is `perf`, and `perf` has no command:
main waits for no acknowledgement (`Conversation`). So it is at a barrier or a join,
and so is every worker, or has ended; nobody is inside a lock, so nobody waits for
one. Then everybody has arrived at the barrier main waits at, or everybody has ended,
and main does not wait.

`FairnessBenchProofs` is for any finite set of workers, any chunk and any width.
`CountsAgree` is about the end, when all are joined; `IInv` says what holds on the
way. A worker's *share* is its `n` and what it has done of the chunk it is in, and at
every step the shares add up to the payload's total modulo the width (`Accounted`):
one increment adds one to both (`ShareGrows`), the end of a chunk moves the chunk from
one part of the share to the other, wrapping around or not (`ShareWraps`), and a worker
that sees the flag has no part of a chunk. `Published` ties the word that a worker
stores with `Relaxed` to its `n`, `OwnCount` says that nobody else writes that word,
and `Known` that main has it behind it once it has joined the worker. So at the end
each of the words main reads is a share, and they add up.

The sum is the community modules' fold over a function, whose definition chooses a
recursive function on the subsets of the set. That it exists, is unique, and can start
with any member (`SomeWay`, `OneWay`, `SumFrom`) is an induction over finite sets,
which is made without a theorem that has an operator for a parameter: the set of the
subsets at which the claim fails, if not empty, has a least member (`LeastSet`, from
the library's well-founded strict inclusion), which cannot be. The rest is arithmetic
of `%` (`ModuloOfSum`). `WorkersAssumption`, that the set of workers is finite, is
needed for the sum to mean anything; the code spawns them in a loop.

### Only model-checked

* Liveness (`LockReturns`, `DropReturns`, `FreeLockIsTaken`, `PoolDropEnds`,
  `RunEnds`, `WindowEnds`): fairness is out of the proof system's reach. What of them
  needs no fairness is proved, `NobodyStranded` and `NoDeadlock`.

Every other property of a run that passes is proved for all values of the constants.
The inductive invariants of `McsOrderings`, `SpinOrderings` and both harnesses were
also checked by TLC on the instances of section 3 before they were proved.

## 5. Findings

`mcs_contract`: the contract of `return_node` (`mcs:248-250`) and the argument
in `Drop for Pool` (`mcs:171-172`) say that a node reaches the free list only
after `release` has returned for it. `try_lock` returns a node that was never
queued (`mcs:505`). Nothing goes wrong, since that node was never published and
`UnreachableOnceReturned` holds; the documented precondition is too narrow.

## 6. Not modelled

* `cache::Aligned` and `CACHE_LINE_ALIGN`: layout; it bears on speed only, and the
  crate's tests check it on each target.
* `spin_hint`: a pause. It stands between two loads of a spin loop, which are
  stutters.
* `From`, `Default`: they are `new`.
* The criterion driver `benches/spinlock.rs`, `spin_work`, `pause_nanos`: timing.
* `thread_counts` of `benches/common/mod.rs`: three lines without state. Reading it
  shows one thing: on a machine with one processor the sweep is `[1]`, since no
  power of two is kept and the maximum is pushed, while its comment says that it
  starts at two because one thread contends with nobody.
* The failures of the harness itself. `PerfControl::open` returns an error and its
  caller panics (`perf:503`); `PerfControl::send` panics if it cannot write, flush or
  read (`perf:119-127`). In `Gate::start` such a panic would unwind inside the scope,
  which waits for its workers, while they are at `go`, which main will not reach:
  the process would hang. The model has neither, because main has both ends of both
  FIFOs open for as long as it runs, so that it is never shown a broken pipe or an
  end of file. That leaves an error of the machine, and a `perf` that dies with a
  command unanswered, for which main would wait for good: `PerfHarness` has a `perf`
  that lives, and `RunEnds` assumes that it is scheduled.
* The scripts: process and text handling. `perf.sh` creates the FIFOs that
  `PerfHarness` has.

One remark on a comment: `perf:144-146` says that the counters are armed when every
worker is parked on `go`. What the code ensures, and `PerfHarness` has, is that
every worker has arrived at `ready`: it may be still on its way from one barrier to
the other, and be counted doing that. `OnlyWorkIsCounted` says so.

## 7. Running

    tlc -workers 2 -config McsContend.cfg MCMcsSpinlock
    tlapm McsSpinlockProofs.tla

TLC takes up to a minute per run; the eight modules with proofs take about eight
minutes together, the longest two and a half.
