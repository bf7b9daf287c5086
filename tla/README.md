# A verification of zuspec-be-sw

zuspec-be-sw translates zuspec models to C and runs them.  The translated code is made of
coroutines ("tasks") that a small C runtime schedules in simulated time; channels, resources,
parallel blocks and a bridge to a SystemVerilog host are built on that scheduler.  Half of the
repository is that runtime, the other half the passes and generators that make the C.  This directory
holds TLA+ models of both, the TLC configurations that check them on small instances and
TLAPS proofs of what matters most.  Paths below are relative to `src/src/zuspec/be/sw/`.

Run `tlc -config X.cfg M` for a configuration (the table in section 4 names its module) and
`tlapm M.tla` for a proof module.

## 1. Inventory: what the system consists of

| component | state | operations | hard behaviour |
|---|---|---|---|
| **Timebase** (`share/rt/zsp_timebase.c`) | ready queue (linked through `thread->next`), event heap, `current_time`, `event_seq`, `active`, `running`; per thread flags, frame stack | thread create/init/free, schedule, wait, yield, call, return, run, advance, run_until, stop | tasks call back into the scheduler that runs them; `thread->next` is shared with all wait lists; a fast path moves the time outside the main loop; a thread may finish while it is being created |
| **Event heap** (same file, `heap_*`) | array, count, capacity | push, pop, sift up, sift down | ties at one time, growth, boundary indices |
| **Stack blocks** (same file) | block list of each thread, two free lists | alloc_frame, alloca, return, block alloc/free | reuse of blocks by other threads, sizes beyond a block |
| **Channel** (`share/rt/zsp_channel.c`) | ring buffer, two wait lists | try_put, try_get, put task, get task, notify | wakeups without hand-over, retry, competition between waiters and callers that do not wait |
| **Scenario tasks** (`scenario/timebase_emit.py`, `share/rt/zsp_par_block.c`) | per task: frame index, parallel block, parent | par, join, invoke, wait, import | join counting while branches are still being created; failures inside a branch |
| **Bridge** (`scenario/cbridge/zsp_bridge.c`) | 64 request slots, FIFO of posted requests | spawn, run, next_request, complete, post_import | two schedulers (host and timebase) in turn, late and repeated completions, full table |
| **crt primitives** (`crt/zdc_*.py`) | queue with waiter arrays, select, completion, spawn handle | put, get, select, set, await, join | resumption without a new test, fixed arrays, stale registrations |
| **RTL passes** (`passes/rtl/`) | emitted object: registers, next values, wires; process: resume point, wake time | read and write sets, order of combinational functions, split into current and next values; `eval_comb`, `clock_edge`, `apply_reset`, pokes; `sim_run` | evaluation order, two-phase update, two copies of a register, three descriptions of one struct, a fast and a slow simulation loop |
| **Async lowering** (`passes/async_lower.py`, `async_analyzer.py`, `wait_point_analysis.py`, `elaborate.py`, `devirtualize.py`, `activity_lower.py`, `mem_reg_lower.py`, ...) | the data model, annotated | split at awaits, classification by a fixed point, latency bounds, elaboration, direct calls, scheduler nodes, access nodes | locals that live across a cut, recursion, nested awaits, several connections of one port |
| **Async code generators** (`dm_async_generator.py`, `sync_generator.py`, `passes/c_emit.py`) | C text | a task per method: a switch over continuations with its frame | state lost or repeated at a resumption |
| **C text** (`c_generator.py`, `stmt_generator.py`, `class_codegen.py`, `passes/type_lower.py`, `passes/c_emit.py`) | C text | statements, calls, binds, classes with virtual methods, component structures, files | Python and C semantics that differ; names defined once and before their use, across files |
| **Resources** (`zsp_mutex.c`, `zsp_indexed_pool.c`, `zsp_fifo.c`) | units in use, bit mask, ring | acquire, release, push, pop | release in another order than acquisition |
| **Memory, containers** (`zsp_memory.c`, `zsp_map.c`, `zsp_list.c`) | flat or paged storage; arrays with growth | read, write, insert, push_back | 32 bit sizes; counts that are not kept |
| **Tooling** (`compiler.py`, `runner.py`, `co_obj_factory.py`, ...) | files, libraries | compile, load, print | none that a model of states would show |

How they interact: generated tasks are C functions `task(tb, thread, idx, args)` that the
scheduler calls through `thread->leaf->func`.  A task suspends by *returning* its frame with a
flag set (`BLOCKED`: something else will wake me; otherwise: run me again) after it has put its
thread where a wakeup will find it: in the event heap (`zsp_timebase_wait`), on the wait list of a
channel, in a request slot of the bridge, or as the parent of a parallel block.  A wakeup is
`zsp_timebase_schedule`.  Everything runs on one C stack: there are no OS threads, and the
interleavings are those of activations.  What makes it hard is re-entrance: while the scheduler
runs a task, that task creates threads (whose code runs at once, nested), wakes others or itself,
and stops the loop.

What makes each part correct:

* timebase: a thread is in exactly one place (executing, ready list, heap, one wait list,
  finished); no ready thread is lost or doubled; FIFO among ready threads; delays end in time
  order, and in call order at one time; time does not go back and passes only when nobody is ready;
* heap: `events[0]` is the first pending event, and nothing is lost in growth;
* channel: items come out once, in order; at most `capacity` inside; no lost wakeup; lists disjoint;
* scenario: the parent of a parallel block goes on once, after all branches, and does go on;
* bridge: each request is answered once to the thread that posted it; "done" means done;
* crt: the same as for the channel, plus one wakeup per registration;
* generated code: run from the same state, it makes the same calls with the same arguments at the
  same times as the Python body it was printed for, and it compiles; what two passes say of one
  thing (a suspension, a connection, a layout, a width) agrees;
* RTL: an emitted component is the synchronous circuit that its processes describe, however its
  functions are called; a behavioural process does its statements at the edges its waits name.

## 2. Modules

| module | what it is |
|---|---|
| *runtime* | |
| `TimebaseOps` | the operations of `zsp_timebase.c` as operators on a record of the fields of `zsp_timebase_t` and, per thread, of `zsp_thread_t`.  The ready queue is the real linked list (`next`, `ready_head`, `ready_tail`); the heap is the *set* of its entries |
| `ZspTimebase` | the state machine: a main program and tasks that call into the timebase while it runs them |
| `Scheduler`, `ZspTimebaseRefinement` | abstract: what the timebase promises.  Ready threads are a sequence, waits a set whose members are numbered as they begin; and the mapping to it, with the instances for TLC |
| `EventHeap`, `EventSet` | the array behind the heap, one action per turn of a sift loop; abstract: a set from which the first element is taken |
| `StackBlocks` | the blocks in which frames and allocations lie, and the two free lists |
| `ZspChannel`, `BoundedFifo` | a channel and its blocking tasks, on top of `ZspTimebase`; abstract: what a channel promises |
| `ZspScenario` | the tasks that `timebase_emit.py` emits, on top of `ZspTimebase` |
| `ZspBridge` | the same tasks with imports, under `zsp_bridge.c` and the testbench of `sv_shim.py` |
| `ZdcRuntime`, `ZdcRefinement` | the coroutine primitives of `crt/`; and the mapping of its queues to `BoundedFifo`, with the programs for TLC |
| *generators and passes* | |
| `DmProgram` | the yardstick: method bodies, what Python makes of them, and what C makes of a text |
| `StmtGenerator`, `SyncMethodGenerator` | `stmt_generator.py`, `sync_generator.py`: statements and expressions as text |
| `AsyncAnalyzer`, `AsyncLower`, `DmAsyncMethodGenerator` | which methods suspend; the two generators that cut a body into continuations |
| `WaitLatency` | `wait_point_analysis.py`, `frame_eliminate.py`, `bulk_sync.py` |
| `Elaborate` | `elaborate.py`, `devirtualize.py` |
| `CallDispatch` | `stmt_generator.py`, the calls: which C function, on which object |
| `ActivityLower`, `AccessLower` | `activity_lower.py` and its C; `mem_reg_lower.py`, `resource_lower.py` |
| `TypeLower`, `ComponentStruct`, `CUnits` | `type_lower.py`; the struct, init and ABI of a component; header and source file as a C compiler reads them (`passes/c_emit.py`) |
| `ClassModel`, `CGenerator` | `class_codegen.py`; `c_generator.py` |
| *register transfer level* | |
| `RtlComponent`, `SyncCircuit` | the C functions of a clocked component; abstract: the circuit |
| `RtlProcess` | a behavioural process: the lines of `co_run`, and `sim_run` |
| `RtlLayout`, `RtlBits` | the C struct against the ctypes mirror; accesses to fields and bits |
| `MC...` | instances for TLC |
| `..._proofs` | the TLAPS proofs |

### 2.1 `ZspTimebase` and the code

`exec` is the part of the C stack made of task functions, innermost last.  It has more than one
element only when a task creates a thread: `thread_init_va` calls the new thread's function at
once.  `pc` says where the main program is: in its own code, in the inner loop of
`zsp_timebase_run_until`, or in the loop of `zsp_timebase_advance` called from either place.

| action | code |
|---|---|
| `RunUntil`, `Run`, `UntilAdvance`, `AdvanceMove`, `AdvanceReturn`, `UntilReturn` | `zsp_timebase_run_until` 470-499, `zsp_timebase_run` 408-450, `zsp_timebase_advance` 452-468: one step per activation, per event that is moved, per exit of a loop |
| `MainAdvance` | `zsp_timebase_advance` called by the program, with its documented precondition that nothing is ready |
| `ThreadCreate`, `ThreadFree` | `zsp_timebase_thread_create`/`_init` with `thread_init_va` up to the call of the function; `zsp_timebase_thread_free` of a finished thread |
| `TaskYield`, `TaskWait`, `TaskWaitInline`, `TaskBlock` | the calls with which a task suspends or, on the fast path, does not.  Each that suspends includes the return to the scheduler and all it does then (`FinishRun`, `FinishInit`) |
| `TaskCall`, `TaskReturnToCaller`, `TaskReturn` | `zsp_timebase_alloc_frame` by a subtask; `zsp_timebase_return`, which runs the caller in the same activation or ends it |
| `TaskStop` | `zsp_timebase_stop` |
| `Wake` | a primitive takes a thread off its wait list and calls `zsp_timebase_schedule` |

`parked` stands for the wait lists of all primitives and is the one variable without a field in
the code; `ZspChannel` replaces it by real lists and checks that both agree.  `AutoFree` threads
have `exit_f = zsp_timebase_thread_free`.

Contracts the model takes from the callers: a thread is woken by one who has taken it off a wait
list, so it is not scheduled twice; a thread is freed after it finished; the program does not call
`zsp_timebase_advance` with ready threads.

Abstracted: the contents of frames (only their number), the return value, units of time (delays are
in ticks), the `setjmp` around a step (`zsp_timebase.c:419`), to which nothing in the runtime jumps.

### 2.2 `ZspChannel` and the code

`ch` holds the fields of `zsp_channel_t`.  `PutTask`/`GetTask` are state 0 of the two tasks,
`...Resumed` state 1.  Both put or get as `zsp_channel_try_...` does, or put the thread at
the end of a wait list and leave.  A put or get is followed by its notify loop: `notify` names the loop that runs,
`zsp_channel_notify_get_waiters` and `..._put_waiters` are one turn of it, and while it runs every other
action waits, since nothing else runs on the C stack then.  Behind the loop `ChannelTaskReturns` returns the frame, and the caller
continues in the same activation or not as `zsp_timebase_return` decides.  Wait lists go through `tb.next`, the field of the ready
queue; `LastOf` is where the loop that looks for the end of a list stops.  `TryPut`
and `TryGet` are the calls of code that does not wait, `TryReturns` the end of their loop.  `op` is the frame of the channel task,
`rval` the value `zsp_channel_get_task` returned.

For `BoundedFifo` the queue is the counted part of the ring (`Contents`), and a task has its answer as soon as it has put or got,
before it wakes others and returns (`Requests`).

### 2.3 `EventHeap` and the code

`heap_push` and `heap_pop` are an action each up to their loop; `SiftUpSwap`/`SiftDownSwap` are one turn
and `...Done` the exit.  The initial array is arbitrary (the code
allocates it without clearing it), a growth copies the counted part.

### 2.4 `ZspScenario` and the code

The input of the emitter is a program: for each action the sequence of its suspending constructs (wait,
traversal, parallel block).  `Programs` is a set of them, and the initial state takes one.  One step is
one case of the emitted switch up to its `break` or fall-through; in a parallel block one step creates one
branch, whose first case runs nested before the parent goes on.  `frames` holds the `locals_t` and `idx`
of each frame, leaf last; `loc` is the case that the executing function is in.

| action | code |
|---|---|
| `StartRoot`, `StartRun`, `MainReturns` | `_emit_main` 321-352, one iteration |
| `ResumeThread`, `ResumeNothing`, `PassTime` | `zsp_timebase_run`, `zsp_timebase_advance`, `zsp_timebase_run_until`, as in `ZspTimebase` |
| `TaskWaits`, `TaskInvokes` | `_emit_suspend` 267-282 with `zsp_timebase_wait`, `zsp_timebase_call` |
| `TaskSpawnsBranch`, `TaskAwaitsBranches` | `_emit_par` 297-318 with `zsp_par_block_init`, `zsp_timebase_thread_create` |
| `TaskEnds`, `TaskEndsDangling` | the final case 257-266: `zsp_par_block_done_one`, `zsp_par_block_join`, `zsp_timebase_schedule`, `zsp_timebase_return` |
| `TaskFails` | 238-241: the randomization failed |

A parallel block lives in a frame.  When that frame is popped the references of branches that still run
become `Dangling`: what such a branch reads of the counters is arbitrary, the parent it may wake is
not, for that pointer is in its own frame.  That its increment may change memory another frame uses by then is not
modelled.  Imports are left to `ZspBridge`; plain code between the constructs does not suspend and is not
represented.  `ProgramsAssumption` and `RootsAssumption` say what a program is: sequences of these constructs whose traversals and
branches are actions of the program, and exported actions among them.

### 2.5 `ZspBridge` and the code

It extends `ZspScenario`: a program with imports is emitted for the bridge and started by `run_action` of
the testbench, any other one by the emitted main.  `req`, `pending` are the table and the FIFO of
`zsp_bridge_t`, `rid` is `__rid` of the frame that waits, `tasks` the processes the testbench has forked.
`zsp_scenario_post_import` and `zsp_scenario_import_done` are the coroutine's side (slot, FIFO, block;
slot released at the next case); `zsp_bridge_spawn`, `BridgeRun` (one turn of `zsp_bridge_run`),
`zsp_bridge_next_request`, `RunAction`, `dispatch_task`, `ImportReturns` with `zsp_bridge_complete`, and `Progress`
the host's.  Processes of the testbench give up control only where they block, as simulators run them: a `->progress` that
is triggered before `run_action` waits for it would otherwise be lost.

### 2.6 `StackBlocks` and the code

An address is a block and an offset; `base` is the place of the next allocation.  `kept` is what a thread has allocated, oldest first, and
`frames` the positions of its frames in it.  `zsp_timebase_alloc_frame`,
`zsp_timebase_alloca`, `zsp_timebase_return` and `zsp_timebase_thread_free` are the actions, called in any order.  The last two
leave a `call`, and the loop that gives back blocks until it finds the one of the frame is `GiveBack`, one turn, and `RollBack`, its end.
`zsp_timebase_stack_block_alloc` takes the head of the free list of the size or makes a block; lists are sequences whose head is last.  That a frame
fits into a block is an assumption (`SizesAssumption`): the code does not test it.

### 2.7 `ZdcRuntime` and the code

One action per macro or function of `crt/zdc_queue.py`, `zdc_completion.py`, `zdc_spawn.py`, `zdc_select.py`, each
with the way that suspends and the one that goes on; `co[c].resumed` means that the coroutine goes on behind its label,
where the test is not made again.  `program` says what each coroutine does.  The type of coroutines and their scheduler are not in
the repository; `Dispatch`, which resumes any scheduled coroutine, is modelled from their use.  A suspension is a
`return`, so `_spawn_wrapper` marks a spawned coroutine done when it suspends for the first time, and the model does so too: the
properties are checked for joins of coroutines that do not suspend.

### 2.8 Generators and passes

These modules have no state of their own.  `MCCodegen` has one variable, the input of a pass, taken from small palettes, and
its invariants state for every input that the result is right.

For the generators of bodies, `DmProgram` says what a body does in Python (`Exec` over a memory, with a log of the calls, their
arguments, their times and the result; loops take at most `Fuel` turns in all) and what a C text does: automatic variables hold
garbage until they are set and are lost at a `return`, the frame is kept, a `switch` starts at a case.  Each generator is a
function from bodies to texts, with the functions of the source as operators: `_gen_dm_range_for`, `_split_at_awaits`,
`_emit_continuation`, and so on.  The property is that both logs are the same.

A text with an endless loop is also run with a host that asks for a halt in its first or second call (`test_rvcore_integration.py:646-649`
does this from a callable).  The method in Python does not halt; the calls the text makes must be the first ones of the same text when nobody asks, those up
to the request among them, and the loop must end (`StopsWhenAsked`).  This is checked for the methods of a component and for `{name}_run`.

No generator is right for every body, and the places where it is not are known: each module therefore has a predicate `...Reliable`,
whose conjuncts are those places, one per line (an or-pattern of `match` that is always true, a `for` over a range with a negative
step, an await inside an expression).  The property holds for all other inputs.  What these conjuncts leave out is listed in section 6.

The other passes are compared with one another or with what they abstract:

* the classification of methods (`AsyncAnalyzer`) with reachability of an await; latency bounds (`WaitLatency`) with
  the delays of all executions; methods without a frame with those that wait;
* connections (`Elaborate`) with the binds of the design; direct calls with calls through the bound structure; calls (`CallDispatch`)
  with the object the path names; a virtual call (`ClassModel`) with the most derived override; binds and rings of `CGenerator` with
  what each object asks for, and with a FIFO;
* the C function of an activity with the order of its source, constraints with the traversal they were written for;
* access nodes, struct, ABI and ctypes layout with one another: widths, offsets, owners;
* each file (`CUnits`), the order of types (`TypeLower`) and of classes, the locals of a method: every name is declared before its use and defined once;
* bits (`RtlBits`): the value of a C expression with that of the Python one, for an `int` of 4 bits and fields of 3, 4 and 8.

### 2.9 `RtlComponent`, `RtlProcess` and the code

`comp` is a component: wires, `@comb` processes, `@sync` processes.  `rtl_nxt_fields` is the result of `next_state_split.py`,
the order of the combinational functions that of `comb_order.py`.  Python pokes fields and calls `eval_comb`, `clock_edge`
and `apply_reset` in any order; `m` is the memory of the C struct with `_regs` and `_nxt` apart.  It implements
`SyncCircuit`, where an edge computes the wires from the state and then takes over, at once, what every process wrote
from the state before.

`RtlProcess` has `_co_pc` (`pc`), `_co_tick` (`tick`) and `_co_wake` (`wake`); `sim_run(n)` primes the coroutine at the first call and then steps
from cycle to cycle (`Cycle`), or, in a component whose waits are all for its counter and that has no clocked processes, jumps from wake to wake (`CounterJump`).
Inside `co_run` (`at` is its next line) each line of the text is a step: a statement or a label, the `goto` at the end of a loop, and
a wait, which stores the time and the case and returns.  Cases and labels are found as C finds them, by the numbers `_emit_co_stmts` gives them.  `log` is
what was executed and when; it is compared with the process as it is written (`Follows`, `IsOver`), however a run is divided into calls.
`Reliable` says which processes run as written: no label twice, a wait in the loop, no wait for zero cycles or for a value the counter does not take.

## 3. Plan

Done: all modules of section 2.  What is left, in this order:

1. Proofs for parallel blocks with join NONE, whose branches outlive the frame they refer to.
2. `SoleUsers` of `ZdcRuntime_proofs` with the selects that find an item at once.
3. The conversion of times to ticks (`zsp_timebase_to_ticks`) and the sizes of `zsp_memory.c` with their widths.
4. The loosely timed mode (`ZSP_WAIT_PS`): what a task may observe within one quantum.
5. `pipeline_lower.py`, when what it prints has the members it names.

## 4. Runs

| configuration | module | checks | bounds |
|---|---|---|---|
| `timebase_queues` | `ZspTimebaseRefinement` | `TypeOK`, `ReadyListIsRunnable`, `BlockedIsAccounted`, `ActiveIsPending` | 3 threads, all calls, one thread that frees itself |
| `timebase_fair` | `ZspTimebaseRefinement` | `ImplementsScheduler`; `ReadyRuns`, `DelayEnds` (liveness) | 3 threads, no stop; yields for ever, waits, blocks |
| `timebase_memory` | `MCTimebaseMemory` | `HeapOrder`, `RootIsFirst`, `ImplementsEventSet`; `LiveMemoryIsExclusive` | 5 events with ties, capacity 1 growing to 8; 2 threads, 4 blocks, 2 frames and an allocation each |
| `channel_fifo` | `ZspChannel` | `ListsAreDisjoint`, `NoLostWakeup`, `ImplementsFifo` | 3 threads, capacity 2, 2 items, delays, try calls, tasks that end |
| `channel_woken` | `ZspChannel` | `WaitersAreWoken`, `SoleGetterIsServed` (liveness) | 2 putters and a getter, capacity 1 |
| `scenario_par` | `MCZspBridge` | `BranchesAreJoined`, `BlockedHasWaker`, `WaitsAreNotCutShort`, `ScenarioCompletes`, `RequestsMatchCoroutines`, `ActionReturnsWhenDone`, `ActionReturns` (liveness) | all programs below, two roots, 7 threads, 3 request slots |
| `zdc_single` | `ZdcRefinement` | `ResumedFindsWhatItAwaited`, `ScheduledIffReady`, `ImplementsFifo`, `CompletionKeepsResult`, `WaitEnds` (liveness) | some 1100 programs of 3 coroutines, 2 queues of depth 2, a completion, a handle |
| `codegen` | `MCCodegen` | `AsyncTextFollowsSource`, `MethodTextFollowsSource`, `SuspensionsAreFound`, `CallsFollowConnections`, `ActivitiesKeepOrder`, `LayoutsAndAccessesAgree`, `FilesCompile`, `BitsFollowSource` | all inputs from the palettes, some 200000; bodies of up to 3 statements behind two assignments |
| `rtl_component` | `MCRtlComponent` | `ShadowsAgree`, `ImplementsCircuit` | a wire, two `@comb`, up to two `@sync` processes; values 0 and 1 |
| `rtl_process` | `RtlProcess` | `RunsOnTime`, `SleepsUntilAnEdge` | loops of up to two lines behind up to one, loops in loops; 6 cycles in calls of up to 3, also of none |
| `scenario_instant_branch`, `zdc_shared` | | one property each, violated: section 6 | |

Bounds of the timebase: `MaxTime` and `MaxSeq` bound the waits (two or three delays each, so that two delays can end
at one time and one can begin at the time another ends), `MaxDepth` the frames of a thread (a caller and
a subtask are enough: `zsp_timebase_return` looks at the leaf and its caller only).  Three threads
let one be head, one tail and one execute or be added in the ready queue, and give the channel two waiters
and one who wakes them.  `SeqModulus` is larger than the number of delays.  Five events in an array of eight give two
levels of children and the case of one child.  The frame sizes are such that two frames fill a block but for its last byte, where
the test `base + n >= limit` decides, and one fills a block; two threads and four blocks are enough for a block to come to another
thread by each free list.

Deadlock is checked in every run but two: in `zdc_single` and `zdc_shared` the coroutines come to their end (or wait for one that
never comes, as programs may).

The programs of the scenario runs: action `r` has up to two constructs (waits, traversals of `x`, parallel
blocks over `x` and `y`), `x` up to two of its own (with a nested parallel block), `y` and `z` wait
zero to two times with delays that tie, and the randomization of `z` may fail; a block with join NONE is
only the last statement of `r` (section 6 says why).  Programs that need more than seven
threads are left out.  That gives some five thousand scenarios, with parallel blocks in sequence and
nested, branches that end at one time or in any order, a parent reached by traversal and one that is a branch itself.
Every branch suspends before it ends: what happens otherwise is the subject of `scenario_instant_branch`.  The end time
is larger than the sum of all delays, as the 10^9 ns of the emitted main is meant to be.  The programs with imports have the same
shape with imports for waits: the bridge never advances the time.  At most three coroutines of them are stopped at an
import together, so that three slots are all taken, and none too few.

The palettes of `codegen` (comments in `MCCodegen.tla`) have each construct that the pass treats in a way of its own, and pairs of
them where they interact: assignments before and reads behind every cut, loops and branches around it, fields of one name
in two components, two binds of one port, classes that override at each level.

The bounds of `rtl_process`: a clock period of 5 with waits of 7 and 4, so that a time is rounded over an edge and within one; calls of one to three
cycles, so that a wait spans two calls, ends with one, or two waits lie in one.  A counter modulo 4 and one modulo 3 wrap within the 6 cycles.

Mutants: each property of a passing run is tried against a changed definition (operators marked "Mutant" in the modules,
listed in `PROJECT.json`) that a plausible slip in the code would produce, and fails there.

### Fairness

`FairSpec` of the timebase: weak fairness of `Scheduler` (the loops of `zsp_timebase_run_until` are C loops that
do not pause) and strong fairness, per thread, of the steps with which an activation ends.  The
second is what cooperative scheduling asks of tasks: the code relies on it and cannot
enforce it.  Nothing is assumed about the order in which threads get the processor: that is
what `ReadyRuns` shows.  `ChannelFairSpec` adds that tasks go on putting and getting.

`BridgeFairSpec`: weak fairness of the whole, that is, of one C program and of a testbench whose import tasks end.  No choice
between them is fair: `ActionReturns` holds whichever process goes first.

`FairSpec` of `ZdcRuntime`: a coroutine runs until it returns (weak fairness of `Next`), and a scheduled coroutine is resumed
at some time (strong fairness of `Dispatch(c)`).  The second is an assumption about the scheduler, which is not in the repository.

A getter of a channel is *not* promised an item when there are others: a woken getter must try again, and
a getter that is ready at that moment comes first.  That is why `SoleGetterIsServed` speaks of a
getter without competitors, and `WaitersAreWoken` of being woken.  `DelayEnds` excepts behaviours in which other tasks
yield to each other for ever: they keep the time still, as in any discrete-event simulator.

## 5. Proofs

**`ZspTimebase_proofs`**, for any finite set of threads and any set of calls, assuming only the named assumptions
of the modules (`ThreadAssumption`, `SeqAssumption`, `CallsAssumption`, `TimeAssumption`, `AutoFreeAssumption`):
`TypeCorrect`, `ReadyListIsRunnableHolds`, `BlockedIsAccountedHolds`, `ActiveIsPendingHolds`, all from

    InvHolds == Spec => []Inv

The three properties are not inductive.  Whether a thread is runnable depends on its flags, on
whether it has frames and on the C stack, and one step changes several of these and the list.  `Inv`
therefore joins them and adds what they rely on:

* no thread occurs twice in `exec`, and each thread there exists, has a frame and is not blocked
  (so the thread that executes is on no list, and a suspension is what makes it blocked);
* the ready list has exactly the runnable threads (`HasList`);
* for *every* thread, `Accounted`: it waits and has one event or one wait list, or it does not wait
  and has neither (so the removal of one event makes exactly one thread runnable);
* the events are finite, and `active` is the sum of both cardinalities.

The main part is `Consistent(s, C, P, X)`, over the *values* of timebase, created, parked and executing
threads and not over the variables, so that the lemma of an operator (`ready_queue_add`,
`ready_queue_pop`, `zsp_timebase_schedule`, ...) can be used in the middle of an action: `TaskWait` for
instance goes through three such values.  One lemma per action combines them, and `NextInv`
has one step per action.  That `FirstEvent` is an event at all needs the well-foundedness of the
naturals (`NatMinimum`).

**`ZspTimebaseRefinement_proofs`**, on these, for any threads, delays, end times and frames: the timebase implements `Scheduler`,

    TimebaseImplementsScheduler == ASSUME NeverStops, SeqsSuffice PROVE Spec => ImplementsScheduler

The mapping names two things that no variable holds: the sequence that the links of the ready list make (`ReadyQueue`), and the due events in
the order of their numbers (`BySeq`).  Both are chosen, so the proof shows first that there is exactly one of each: two lists from one
`ready_head` cannot part (`ListedPrefix`), and the smallest set of events that could not be put in turn would have a first event without which it can
be (`InTurnExists`).  Then each operator is described by what it does to that sequence: it appends a thread (`Appends`), takes the head
(`RunTakesHead`), or touches a thread that is not on it (`Touches`); and a task's step moves one thread from one place to another
(`OnePlace`).  What makes it more than bookkeeping is `zsp_timebase_advance`: the specification makes all due threads ready at once, the
code one per turn of a loop, so that inside the loop the ready sequence is the list followed by the due events, and a turn moves the boundary between them
(`MoveStep`).  That this is the order in which the code goes on needs `OrderInv`: nothing executes inside the loop, no event there is in the past, and the
sequence numbers of the events are distinct and below `event_seq`.

Both hypotheses are needed.  `SeqsSuffice` says that the delays of a behaviour are fewer than `SeqModulus`; after the wrap a new delay comes before
an older one of the same time.  `NeverStops` leaves out `zsp_timebase_stop`: the thread that calls it goes on, and `run_until`, which it stops,
moves the time to its end while threads are ready (section 6).  TLC finds the counterexample when the instance of `timebase_fair` has `"stop"` among its calls.

**`TimebaseMemory_proofs`**, on the event heap, for any set of events and any capacity: `TypeCorrect`; `HeapOrderInvariant`, by an invariant that allows one index, the
one being sifted, to be out of order in one direction and keeps its parent in order with
its children; and `RootFirst`, which follows from the order at each index by well-founded induction
over the indices.  On these rests `HeapImplementsSet`: every step of the array, swaps and growth included, is a step
of `EventSet` or leaves the set of the counted elements alone.

On the blocks, for any threads, any sizes that fit a block and without regard to the bounds of the runs: `LiveMemoryIsExclusiveHolds`, from
`BlocksInvHolds`.  The property says that two regions share no byte; a return makes it false later if it gives back a block too many, and to see
that it does not one has to know the order.  `BlocksInv` therefore adds that what a thread keeps is *stacked* in its blocks, older below newer
(`KeptIsStacked`), that a thread without frames keeps nothing and its frames follow each other in `kept` (`FramesAreKept`), so that what remains
behind a return is older than its frame, and that the loop, wherever it stands, still has the block of its frame below it and
everything kept below that frame (`LeavesKept`).

**`ZspChannel_proofs`**, on `ZspTimebase_proofs`, for any threads, putters, getters, items and any capacity, assuming `ChannelAssumption` and those of the
timebase: `ListsAreDisjointHolds`, `NoLostWakeupHolds` and the refinement

    ChannelImplementsFifo == ChannelSpec => ImplementsFifo

all from `ChannelInvHolds == ChannelSpec => []ChannelInv`.  `ChannelInv` joins to `Inv` of the timebase

* `Ring`: the indices lie in the ring, `tail` is `count` slots behind `head`, and the slots between hold items;
* `TasksOK`: the types of the tasks' frames, and the values that `notify` has;
* `WaitersAreListed`: the parked threads whose task gets, and those whose task puts, are what the two lists lead through,
  each once (`WaitList`), and no thread is parked for another reason;
* `NoLostWakeup` itself, which is inductive once the lists are known.

Since all lists go through one field, each step has to leave two of them alone while it changes the third.  The argument is the same everywhere
(`Relinks`, `KeepsLinks`): a step writes `next` only of threads that are on no wait list or of the one it takes off or appends, and parked threads are
apart from ready ones since `Inv` accounts for each of them.  With `notify` the wakeup loop is an induction over steps, not over
the list: a turn shortens the list and keeps everything else.

For the refinement `PutAppends` and `GetTakesHead` show what the arithmetic of the ring does to `Contents`; an action that puts is `Enqueue`, one that gets
`Dequeue`, together with the answer in `Requests`; one that waits raises a request or leaves it; every turn of a loop, every
return and every step of the timebase is a stutter.

**`ZspScenario_proofs`**, on `ZspTimebase_proofs`, for any programs, any number of threads and any delays, assuming `ProgramsAssumption` and
`RootsAssumption` besides what the timebase assumes: `BranchesAreJoinedHolds`, `BlockedHasWakerHolds`, `WaitsAreNotCutShortHolds`, all from

    ScenarioInvHolds == ScenarioSpec => []ScenarioInv

each in every behaviour whose program is `BranchesSuspend`, that is, its parallel blocks have branches and join them all, and a branch has a construct and no
randomization that may fail.  None of these conditions is there for the proof's sake: a branch that ends while it is created, or that fails,
breaks what the emitted code relies on (`scenario_instant_branch`, section 6), and with join NONE a branch may count in a block that is gone.
What a branch *calls*, and the actions outside parallel blocks, may fail.

`ScenarioInv` says that there is a set `H` of threads, those that wait for a branch or an import and so have nothing in the heap, such that

* the invariant of the timebase holds with `H` for the parked threads (`Consistent`);
* each frame below the leaf stands behind a traversal; the leaf is at a case if its thread is on the C stack, and behind a parallel block or an
  import if the thread is in `H` (`ThreadOK`);
* the counters of the blocks that a frame has passed are complete, those to come are zero; at the block where a thread waits, its counter and
  the threads that refer to the block and have not ended make up the number of branches, and while it creates branches,
  those created are exactly those that live (`Counted`, `KidsOK`);
* a thread is in `H` at a block only while branches of it live, and a thread that is neither in `H` nor creating them has none: so none of its frames
  is popped under a reference;
* branches are created after their parents (`Ranked`).

The hard step is the end of a branch: it raises the counter in a frame of *another* thread, pops its own frame, and schedules the parent exactly
when it was the last.  That the parent is then in `H`, and not waiting for a delay which this would cut short, and that nobody schedules it twice,
is what the counters are for.  The converse hazard is a branch that is created while its parent is still in the loop that creates them: the parent executes, is
not in `H`, and the branch suspends before it counts.

With `Ranked`, a thread that waits for a branch cannot, over any number of blocks, wait for itself.  Hence

    QuiescenceIsCompletion == ScenarioSpec => [](BranchesSuspend(program) /\ Idle /\ NothingPending =>
                                                    \A t \in created : tb.leaf[t] = 0)

the tasks do not deadlock; and `ScenarioCompletesHolds`, which the runs check without `NothingPending`, for there the end time is larger than all delays: for
any program and end time main may well return with delays in the heap.

**`ZspBridge_proofs`**, on `ZspScenario_proofs`, for any programs, threads, delays and any number of request slots, assuming `MaxReqAssumption` besides what
the tasks assume: `RequestsMatchCoroutinesHolds`, `ActionReturnsWhenDoneHolds` and, with imports and a testbench in place of main, the three properties of
the tasks once more (`BridgedTasksHold`), all from

    BridgeInvHolds == BridgeSpec => []BridgeInv

for programs that are `BranchesSuspend`.  What makes the bridge hard is that four places speak of one import: the coroutine's frame (`rid`), the slot, the FIFO,
and the process the testbench has forked.  `BridgeInv` says of *one* set `H` that `ScenarioInv` holds with it and that

* a slot is in use exactly when a coroutine at an import names it, each its own, and the slot has that coroutine and what it asked for
  (`SlotsHeld`);
* the request of a coroutine that is in `H` is in the FIFO, once, or with a process, and not both; that of one that was woken, but has not run since, is in
  neither (`RequestsPlaced`);
* when the testbench is idle all coroutines have ended, and main starts a program only if it has no imports.

`H` has to be the same: the answer to a request schedules the thread in the slot, and that this thread is still blocked, at this import, and without a delay
is what `ScenarioInv` knows of `H`.  The steps of the tasks are not proved again: the lemmas of `ZspScenario_proofs` also say what a step leaves alone in all other
coroutines (`LeavesOthers`), so that only posting, waking and releasing are new.  That nothing is left when `run_action` returns follows from `NoneIsStuck`: with
no request, no process and nothing to run there is no importer, and then every task has ended.

`RequestsMatchCoroutines` has one hypothesis more, `SlotsSuffice`: when a coroutine comes to an import, fewer than `MaxReq` others wait.  The build has
64 slots, and a 65th request has the index -1, for which `zsp_scenario_post_import` does not test.  `NoSlotIsMissing` shows that as
many slots as threads are enough.

**`ZdcRuntime_proofs`**, for any coroutines, queues, tokens and handles and queues of any depth, assuming `ZdcAssumption` and (a name for two of the
queues) `QueuesAssumption`:

* `ZdcTypesHold`: the types, for all programs, with joins and selects;
* `CompletionKeepsResultHolds`: for all programs, too;
* `SoleUsersFindWhatTheyAwait` and `SoleUsersAreScheduledOnce`: `ResumedFindsWhatItAwaited` and `ScheduledIffReady` in every
  behaviour whose program is `SoleUsers`: it consists of puts, gets, sets, awaits, spawns and joins, with one putter and one getter
  per queue, one awaiter per token and one spawn per handle and coroutine, and a join stands behind the spawn in the same coroutine, of a
  coroutine that does not suspend (`Brief`).  `zdc_shared` shows that one putter per queue cannot be dropped; that what is joined does not suspend
  cannot be dropped either, because `_spawn_wrapper` marks the handle done at the first return, whether it is the last or not;
* `SoleUsersImplementFifo == Spec /\ SoleUsers(program) => ImplementsFifo`: each queue is a bounded FIFO queue there.

Why the waits hold is not in any one action: a put does not know why it was resumed.  `SoleUseInv` says where the
reason is kept.  A coroutine has at most one turn (it is scheduled once, or it runs); a suspended one has a turn if and only if what it
waits for is there, and without a turn it is on the list of what it waits for; and who is on the list of a queue is its one putter, while the
queue is full, or its one getter, while it is empty.  So the put that fills the empty queue finds the getter on the
list and gives it its turn in the same step, and nobody else can take the item before.

For joins the reason is spread over the text of the program, the handle and the turns of two coroutines (`HandleOK`, `NotBefore`): before its spawn a coroutine
has no turn, from then on one that is `Brief` has exactly one until it has ended, and its handle is done from that step on and not before; the joiner is written
in the handle as long as it waits.  What the property calls the end, `HasEnded`, is thereby what the code tests, `done` (`WaitOverIs`).  A coroutine that suspends may be
spawned, too, and then releases its handle while it waits; but then, by the text, nobody joins it (`NotJoined`), so that returning at a wait
schedules nobody (`ReturnsQuietly`).  That a spawn is not executed twice is in the text as well (`SpawnedOnce`, `NotYetSpawned`).

One lemma per way of each action (`SolePutWaits`,
`SolePutGoesOn`, `SoleSpawn`, `SoleFinish`, ...) keeps all of it: the coroutine that acts, the one it wakes, and all others (`KeepsTurn`).

The refinement rests on less than sole users.  Whether a put is `Enqueue` and a get `Dequeue` depends on nothing but what `ResumedFindsWhatItAwaited`
says of the coroutine that goes on; the rest is the ring (`RingInv`: the tail is `count` places behind the head, and the places
between hold items).  So the theorem proved first is

    FoundImpliesFifo == Spec /\ []ResumedFindsWhatItAwaited => ImplementsFifo

for *all* programs, with any number of putters, getters, joins and selects: overtaking a resumed coroutine is the only way in which these
queues lose, repeat or swap an item, or hold more than their depth.  `waiters` is a sequence without bound here; that the arrays of the
code have sixteen entries is no restriction for sole users, of whom at most one waits, and is one for others (hazard list).

**`RtlProcess_proofs`**, for any processes, clock periods, counters, waits and lengths of calls, assuming `CyclesAssumption` and `ProcessesAssumption` (what a
process is: lines, a period and a modulus that are not zero): `RunsOnTimeHolds` and `SleepsUntilAnEdgeHolds`, from `ProcessInvHolds`.

Both properties speak of the past (`log`) and of calls that have returned; neither says what happens inside `co_run`.  `ProcessInv` does: while a line is
to come, it follows the last one at *this* time (`IsNext`), and no loop ends before it (`Live`), since behind an endless loop nothing is executed; while none is, the process
has not begun, or its last line is a wait, `pc` is the number of that wait, and `wake` is the *first* time at which it is over (`Sleeping`).
The two loops of `sim_run` meet there: the one reaches `wake` because both are edges, so that steps of one period cannot pass it (`EdgesApart`); the other sets the time to it.

What `wake` is worth is arithmetic, once per kind of wait (`LoweredWaitEnds`): rounding up gives the first edge that is not before the time asked for (`FirstEdgeEnds`), and
`((n - cur + M - 1) % M) + 1` cycles lead to the first edge *after* now at which a counter modulo `M` has the value `n`, for every `M`, `n < M` and `cur`
(`CounterWaitEnds`, on `CountsTo`).  `CaseOfWait` and `LabelOfLoop` show that numbering by counted suspensions finds the right line: each wait has a number of its own, and each
loop does when a wait lies between two of them.

Where an argument needs induction over numbers (the heap, the ready list, the lists of `crt`), it takes a least counterexample (`WFMin` of `WellFoundedInduction`), since the
induction rules take a predicate as a parameter.

Left to TLC: liveness under fairness and `ENABLED` (out of the prover's reach); the generators and `RtlComponent`, which say what C and Python make of a text by recursive operators;
scenarios with join NONE (section 3).

## 6. Where code and comments disagree, and what does not work

With a run:

* "The parent suspends (BLOCKED) after spawning and resumes when woken" (`timebase_emit.py:17-18`): if
  the last branch ends while it is created, the parent has been woken before it marks itself
  blocked (314).  It runs once more with the flag set; if it was traversed by another action, that one
  never goes on.  Run `scenario_instant_branch`.
* "Non-blocking put (caller must check !full first)" (`crt/zdc_queue.py:117`, see also 77): with two putters the slot freed for the one that
  waits is taken by the other, and the first, resumed behind its test (102), puts into a full queue.  Run `zdc_shared`.

Met while modelling; the models leave these cases out by name (a predicate, an assumption, the choice of programs), or take
the code as it is:

*Timebase.*  After `zsp_timebase_stop`, `zsp_timebase_run_until` still sets the time to its end time
(`zsp_timebase.c:495`), beyond events that are due earlier: the heap, "threads waiting for future times" (`zsp_timebase.h:148`),
then holds past ones.  A stop while threads are ready makes it advance over them (476-491), against "if no ready threads"
(`zsp_timebase.h:251`).  `event_seq` is compared as a plain number: after 2^32 delays two events of one time can swap their order
(`zsp_timebase.h:122`).  `zsp_timebase_alloc_frame` and `_alloca` do not test that a request fits a block, and do not align it.
`zsp_timebase_thread_init` of a thread that still has blocks loses them; a thread that completes during its creation does not get its `exit_f` called.
"Wake up one get waiter" (`zsp_channel.c:154`): the loop wakes all, since it tests a count it does not change; nothing is lost by it.

*Scenario.*  A branch whose randomization fails returns without `done_one` (`timebase_emit.py:240`, against 16), and its parent
waits for ever.  With join=NONE the last branch schedules the parent all the same (263, against "continue without waiting", 317), and cuts
short a delay the parent waits for by then.

*Bridge.*  A coroutine that waits for a time never goes on: `zsp_bridge_run` does not advance it.  Without a free slot
the request is written before the table ("no free slot is a fatal misconfiguration").  A second completion of a request schedules its thread twice.  Two
`run_action` calls at once share one bridge, and one may return early.

*crt.*  A suspension returns into `_spawn_wrapper`, which marks the handle done and wakes the joiner.  Waiter arrays have no bound test in the
queue macros.  A select that waited goes on with `ready_idx` -1 and stays registered with the other queues; nothing calls
`zdc_select_notify`.  A second awaiter of a completion replaces the first.

*Statements* (`stmt_generator.py`).  Comparisons are printed without parentheses; chains of comparisons, ranges with a negative step, `//=`
and or-patterns and guards of `match` do not mean in C what they mean in Python; a loop variable is not known after its loop.  A call of a port method
without arguments prints `m(impl, )`; a port of a nested component is called without its object; `self.method()` as a statement becomes a
comment.  A `match` whose first case is the wildcard prints an `else` without an `if` (lines 759-761), which C rejects, or reads as the branch of an `if`
printed just before it; the model takes it for no C.  `print(x)` of a number is printed as `fprintf(stdout, "%s\n", x)` (lines 573-574;
`dm_async_generator.py:602` and `sync_generator.py:391` do the same), which has no meaning in C; `print("%d" % x)` prints the number, and a call of `print` in
the models is one of these.  `sync_generator.py` prints `==` for every comparison and `0` for every parameter, runs a `for` once, and does not look
for a request to halt.

*Halting.*  `{name}_request_halt` (`passes/c_emit.py`) sets a flag that endless loops of `stmt_generator.py` and `dm_async_generator.py` look at, at the start of
a turn; they jump back to the `setjmp` of `{name}_run`.  In the files of `c_generator.py` nothing sets the flag or prepares the jump, so that the check is never
true there; the members are declared only in components with a process that has an endless loop at its top level (`c_generator.py:1082-1090`), and the text of
another endless loop names members that do not exist.

*Coroutines.*  `dm_async_generator.py`: a nested await is printed in place and not waited for; `return v` returns the frame pointer; the result of an awaited
method is lost; only the first await of an endless loop suspends.  `async_lower.py` and `passes/c_emit.py`: names assigned in nested blocks are not in
the frame (`async_lower.py:337-341`); an await nested in a statement becomes an unconditional wait behind it; `wait(Time.ns(n))` of the
older form becomes one second; a task run without a timebase does its first continuation only; the entry function runs
continuations twice behind a fall-through ("Drives all continuations in order", `c_emit.py`).  `async_analyzer.py:171` says "Unknown
statement type - conservatively keep as async" and returns `True`, which makes it synchronous.

*Passes.*  `wait_point_analysis.py` does not visit conditions, returned values or operators, counts only the first argument that waits, and takes the bound
of the `else` part alone when the `then` part is empty.  A recursive component type is elaborated without end; the path of a connection
uses the name of the owner's type, and a direct call is found per type and not per instance.  Loops, conditions, `match` and `replicate` of an activity print nothing, `select` prints
all its branches, a parallel block is sequential, two blocks declare one variable twice.  `resource_lower.py` drops the release and the body of a
`with` ("rel is attached").  An unknown method of a register becomes a write; a memory node forgets its memory.

*C files.*  `zsp_fifo.h` is never included; a static scheduler is used before its definition; contract functions and some typedefs have no
guard; two locks of a pool define one function twice; elements of an array are no dependencies of its owner.  Boolean and alias fields are 32 bits in the
ABI of a component and 8 or other in C.  `class_codegen.py`: an override without its own virtual flag is called directly from its class; a nested `return` of a task is
printed as a C `return`; constructors are found in the class itself only; a derived class with handles replaces its base's reference map.
`c_generator.py`: a component without ports, exports and binds gets no call of its bind function, so the binds below it are skipped; names assigned by annotated assignments only, or
behind a loop that counted with them, are not declared; the ring of a channel needs a power of two.

*RTL.*  An augmented assignment in a `@sync` process reads the next value; a poke of a register through its state setter is undone by the next
edge unless `_nxt` is poked too (as `test_counter_correct.py:89-90` does); arrays are written at once; two
`@comb` processes that share a local declare it twice; wires are evaluated before combinational fields they read.  A process that has ended is resumed again;
the test of a loop is not printed, and two loops without a wait between them print one label twice; a `yield` resumes a cycle late; only the first process of a component is emitted; the fast
loop skips clock edges.  `1u << bits` is undefined for the width of an `int`.  The ctypes mirror leaves out fields of unknown type that the struct has.

## 7. What is not modelled

* `zsp_mutex.c`, `zsp_indexed_pool.c`, `zsp_fifo.c`, `zsp_memory.c`, `zsp_map.c`, `zsp_list.c`, `zsp_object.c` and their like: sequential data structures, used
  from one C stack, with no callback and no waiter; what they hold is for unit tests.  (Reading them: the unit number of `zsp_mutex` is computed from the count, so two holders can
  have one number after a release out of order, which release and the emitted code ignore; `zsp_map` does not count an insertion.)
* `zsp_thread.c`: the scheduler that the timebase replaced, which generated code does not call.
* `ZSP_WAIT_PS` and the quantum of the loosely timed mode; the conversion of times to ticks.  Delays are in ticks.
* The main function, the headers and the accessors of specialized memories of `c_generator.py`, contracts and inference: text without control.
* `channel_port_lower.py`, whose marks nothing reads (its comment says that puts and gets in bodies are recorded; none are), and
  `pipeline_lower.py`: it writes a member, `self->f_nxt`, that the struct does not have, so there is no meaning of its text to compare with.
* `co_obj_factory.py`, `compiler.py`, `runner.py`, `validator.py`, `mmr/`, `debug/`, and the solver side of `scenario/`: they run compilers and solvers, load libraries
  and print scripts.
* Of what is modelled: the contents of frames beyond what the generators put there, formatting and comments of the printed text, arguments and results of
  bridge requests, the `setjmp` of `zsp_timebase.c:419`, and `{name}_halt`, which jumps out of a callback at once.

`PROJECT.json`, "components", says for each component what its modules leave out.
