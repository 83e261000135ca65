# ccore in TLA+

This directory holds TLA+ specifications of [ccore](../src/README.md), a small C library of data
structures, threads helpers and utilities. The specifications are translated from the code in
`src/src` and `src/include/ccore`; paths below are relative to `src/`. They are checked with TLC on
small instances, and nearly all of the safety properties are also proved with TLAPS for every value of the constants.

## 1. The system

ccore is a library. It starts threads of its own in two places, the thread pool and the run loop;
everything else runs in the thread of the caller.

| component | state | operations | used by |
|---|---|---|---|
| thread pool (`src/tpool.c`) | the global `pool`, its queue, flag and two counters, two mutexes, two condition variables | `ccpool_start`, `ccpool_stop`, `ccpool_submit`, `ccpool_wait`; the thread function `pool_worker` | programs |
| linked list (`src/list.c`) | a ring of nodes inside the objects, a size | insertion in five forms, removal in three, clear, four queries | thread pool, hash table |
| run loop (`src/run_loop.c`) | a list of entries with a countdown each, a flag, two mutexes, a condition variable | `cc_run_loop_new`, `_delete`, `_register`, `_unregister`; the thread function `loop_thread` | programs |
| hash table (`src/table.c`) | an array of buckets, each a linked list | `cctable_init`, `_deinit`, `_insert`, `_get_one`, `_get_many`, `_iter` | programs |
| configuration (`src/cfg.c`) | an array of entries | load, delete, seven getters | programs |
| clock (`src/time.c`) | none | `cc_microtime` | run loop |
| logging (`src/log.c`) | a printer, a name, a mutex | set the printer or the name, log, print | everything |
| exceptions (`src/except.c`) | the signal actions that were there before | install, uninstall, the signal handler | programs |
| stack traces (`src/debug.c`) | static variables for the text | print the stack | exceptions, assertions |
| files and paths (`src/filesystem.c`) | a path in the caller's buffer; a file that others write, and what was read of it | `ccfs_path_concat`, `ccfs_path_rtrim_i`, `ccfs_file_open`, `ccfs_file_read`, `ccfs_path_read` | configuration, programs |
| memory (`src/memory.c`) | the allocator in use | `cc_set_allocator`; allocate, resize, free | everything |
| PID controller (`include/ccore/pid.h`) | gains, clamp; last value, error, derivative, integral | `cc_pid_init`, `_load_cfg`, `_reset`, `_update`, `_get_output` | programs |
| tagged values and pairs (`src/value.c`) | a chain of objects with a count | `gc_init`, `gc_new`, `gc_collect`, `gc_deinit` | programs |
| strings (`src/format.c`, `string.h`), math (`src/math.c`) | none | pure functions | everything |
| messages and arrays (`message.h`, `array.h`) | none | declared and nowhere implemented | nobody |

How they interact: the thread pool keeps its tasks in a linked list and relies on its order and its
size; the hash table keeps one list per bucket and, in a table of many values, one list per node;
the run loop links its entries by hand. A PID controller reads its gains from a configuration. Files and
objects are allocated and freed through the one allocator of `memory.c`. The other links are plain calls.

What is hard, by component, and what makes it right:

* **Thread pool.** Three kinds of thread meet: clients, workers, and workers inside a task that
  submits more tasks. There are four critical sections on one mutex, two condition variables that
  wake one thread or all of them, a pointer that is read without a lock, counters of eight bits and
  memory that is freed by one thread while others may still use it. It is right when every task is
  run at most once and in order, when none is left waiting beside a sleeping worker,
  when `ccpool_wait` returns exactly when there is nothing more to do, and when `ccpool_stop` neither
  hangs nor frees the pool under somebody.
* **Linked list.** Four links change in each operation, and the node inside the list is a neighbour
  like the others. It is right when the ring is closed in both directions after every sequence of
  calls, the size is that of the ring, and it behaves as a sequence.
* **Run loop.** The thread starts while its flag still says stop; the walk over the entries calls
  out with a mutex held; deletion does not signal the sleeper; countdowns are unsigned. It is right
  when the thread lives exactly as long as the loop, when no entry is used after it is freed, when a ticker
  runs once per interval, and when deletion returns.
* **Hash table.** Two kinds of table share one layout of buckets with different contents; a walk
  calls out and the callback may insert. It is right when it is a map, whatever collides, and when
  what is destroyed is what was stored.
* **Logging and exceptions.** A line is printed in pieces under a mutex; a signal handler prints through the same
  mutex on top of whatever it has interrupted, allocates and frees, and keeps its stack trace in static variables. They are right when lines
  are whole, when the program's own signal actions survive, when an overflow of the stack is reported, and when a signal ends the program.
* **Configuration.** Entries are added before their value is parsed, parsing may fail half way, and a key may
  be set again. It is right when the array is never written past its end, a getter answers by the last
  good line of its key, and deletion frees every string once and nothing else.
* **PID controller.** The derivative and the integral feed on themselves, and a double may be an infinity or no
  number; loading stops at the first gain that is missing. It is right when a loaded controller has the gains
  of the file and starts afresh, and when good inputs bring its output back whatever it was fed before.
* **Paths, files, objects, memory.** Every byte of a path must fit with its separator and null; a file changes between its measuring
  and its reading; objects are freed along links that lie inside them. They are right when nothing is written
  outside a buffer, trimming undoes joining, what is read is the file's, and each block is owned and freed once.

## 2. Modules

| module | what it is | extends or instantiates |
|---|---|---|
| `TaskQueue` | abstract: what the pool promises | |
| `ThreadPool` | `src/tpool.c` | instantiates `TaskQueue` as `Queue` |
| `PoolOnList` | `ThreadPool` with its queue on the ring of `LinkedList`, under the pool's mutex | extends `ThreadPool`, instantiates `LinkedList` as `List` |
| `ListSeq` | abstract: a sequence with a cursor and a clear in steps | |
| `LinkedList` | `src/list.c`, pointer by pointer | instantiates `ListSeq` as `Abstract` |
| `RunLoop` | `src/run_loop.c` with the clock of `src/time.c` | |
| `TableMap` | abstract: a map from keys to values, newest first | |
| `HashTable` | `src/table.c` | instantiates `TableMap` as `Map` |
| `Config` | `src/cfg.c` | |
| `Pid` | `include/ccore/pid.h`, its gains read from the configuration | extends `Config` |
| `Memory` | `src/memory.c` | |
| `FileSystem` | `src/filesystem.c`, and another process that writes the file | extends `Memory` |
| `ObjectHeap` | the collector of `src/value.c` | extends `Memory` |
| `Storage` | a program that uses both on one heap | extends `FileSystem` and `ObjectHeap` |
| `Exceptions` | `src/log.c`, the POSIX parts of `src/except.c` and of `src/debug.c` | |
| `MC...` | symmetry sets and values of constants for TLC | the module it is named after |
| `ThreadPoolProofs` | theorems about `ThreadPool`: the counters, the signals, who owns a task, and that it implements `TaskQueue` | extends `ThreadPool` |
| `PoolOnListProofs` | `PoolOnList` implements `ThreadPool`, and its ring is the queue | extends `PoolOnList` and `ThreadPoolProofs` |
| `LinkedListProofs` | the ring under arbitrary calls, and that it implements `ListSeq` | extends `LinkedList` |
| `RunLoopProofs` | the walk, the life of the thread, the intervals | extends `RunLoop` |
| `HashTableProofs` | the capacity, nodes and values, the walk, and that the table implements `TableMap` | extends `HashTable` |
| `ConfigProofs` | the entries, the getters, the strings; the controller | extends `Pid`, and so `Config` |
| `StorageProofs` | what a read returns, who owns a block, what joining and trimming paths gives | extends `Storage` |
| `ExceptionsProofs` | the signal actions, the lines of the log, a lone handler | extends `Exceptions` |

Beside an action there may be a variant marked *Fault*: the same step with the kind of mistake one
makes in such code (a dropped guard, a signal instead of a broadcast, a missing unlink). No
specification uses them. They are there to show that each property notices something: a property is
kept only if replacing an action by such a variant makes TLC report it as violated.

### ThreadPool

Clients and workers have a program counter each. Every section under `pool->mt` is one action, since the
mutex is never held across anything that blocks: `SubmitInsert`, `WaitSleep` or `WaitReturn`,
`WorkerSleep`, `WorkerExit` or `WorkerTake`, `WorkerFinish`, `StopBroadcast`. A thread that waits on a
condition variable has a place of its own ("asleep" on `cv`, "waiting" on `idle_cv`) and when it is
woken it goes back to the place that tests the condition, as the `while` around `pthread_cond_wait` does;
`SpuriousWakeup` does so for no reason. `single_mt` is held across the joins, so it has an owner.
The pointer `pool` is "null", "raw" between the assignment at `tpool.c:51` and the end of the initialisation, or
"live". A thread that locks a pool that is not live goes to "fault" and stays there.

`pthread_cond_signal` wakes exactly one sleeper if there is any (`SignalOne`), any one of them.

Clients are either *disciplined* (`MayUse`, `MayStop`: they use the pool while it is live and nobody
is stopping it, and stop it while nobody else is inside it) or they only pass the assertions of the
code. The code says nothing of which is expected of a program, so both are run: what concerns the clients is
claimed of the first kind, what concerns the workers of both. Tasks that are running may submit in
either case, also while the pool is being stopped.

Not in the module: a task that calls `ccpool_wait`, `ccpool_start` or `ccpool_stop` (it waits for
itself), failures of `pthread_create` (the code does not look) and a pool without threads.

### PoolOnList

The pool as it lies in memory: `pool->tasks` is the ring of `list.c`, its nodes inside the tasks. Each section of `ThreadPool`
that touches the queue also makes the calls of `LinkedList` that the code makes: `PoolCreate` (`cclist_init`),
`PoolInsert` (`cclist_insert_last`), `PoolTake` (`cclist_remove_first`). `cclist_clear` calls a destructor per task, so
`ccpool_stop` takes the steps `StopClear`, `StopDestroy` (one per task) and `StopCleared` while it holds `pool->mt`, which here has an owner, `mt`;
the sections of the others wait until it is free again (`Locked`), while calls, task functions and spurious wake-ups
go on. Restricted to the variables of `ThreadPool` it is that module: proved, see below. It is run with disciplined clients,
for which the places "fault" are out of reach, and has no steps for them.

### LinkedList

A node is its object; `ListHead` is the node in the list. `next` and `prev` are functions on nodes, and
each operation makes the assignments of the code, with the order taken care of by `LET` where a value is read before
it is overwritten. `cclist_clear` takes several steps, as it calls a destructor for each object, which poisons
the links. `Asserts` tells a debug build from one with `NDEBUG`.

### RunLoop

Time is counted from the thread's last reading of the clock, which is what the deltas are made of.
`Tick` advances it while the thread is anywhere, so that a late wake-up, a slow ticker and a long wait for a mutex are
all the same thing: a larger delta. `loops_mt` has an owner as tickers run under it; `mt` has
one only in `cc_run_loop_new`, the one place that does something observable to the thread while holding it.
Frequencies are given by the intervals they amount to, and the random start of a countdown is a choice. Clients
register and unregister concurrently and delete the loop when no other call is in progress.

### HashTable

`buckets` is a sequence of buckets, each a sequence of nodes (a key, and its values). `hash` is any
function from keys to hashes, chosen at the beginning, so every pattern of collisions is covered. A table of single values keeps the first value of a key:
`cctable_insert_single` returns without storing anything when the key is there (`src/table.c:101`), and the value refused belongs to
nobody. `TableMap` promises no more than that, so that the refinement says what the code does; that it is not what the header says is what the
run `table_insert` shows. `cctable_deinit` goes through the buckets and clears the list of each, a call of the node destructor per node
(`node_destructor`, chosen once for the kind of table), which in a table of many values clears the list of the node, a call of the program's destructor per
value: `DeinitBegin`, `DeinitValue`, `DeinitBucket`, `DeinitEnd`, with `clearing` and `deinit` for the place it has got to and `calls` for the calls that were made. `fate` is kept by the
caller's view and not by the buckets: a value is stored unless its key was inserted before (`mapped`) in a table of single values, and what is stored when the
table goes is due to be destroyed, if there is a destructor, or left alone.
`cctable_iter` takes a step per callback and lets insertions happen between two of them. `next_power_of_2` is computed on words of `Width` bits, by the shifts
of the code, which cover half of the word (1 to 16 of a `size_t` of 64 bits). `Or` adds up the bits that either word has,
and `Power` is a function and not the operator `^`, of which the provers know nothing. The mask `hash & (capacity - 1)` is the
remainder `hash % capacity` in `BucketOf`, which it equals for a power of two: `CapacityFits` says that the capacity is one.

### Config

The next line of the file is a choice among comments, lines without a colon and lines with a key, a value and
possibly more text; values are numbers, texts, the two words, and everything that `parse_value` refuses. Numbers count
halves, so a fraction, zero and a number outside `int` are all there. `find_entry_or_add` gives a set: what a new
entry holds before its value is parsed is whatever `realloc` returned (any kind, and `Wild` for the rest). A string
on the heap is its allocation number and its text, so that freeing it twice or freeing another is visible. The getters are operators,
as they change nothing; `GettersFollowFile` compares them with what the lines read so far say.

### Pid

What a controller computes is one of four classes of double, which is all that its tests tell apart: a number, either infinity, no number.
Sums and products are operators on classes (`Plus`, `Times`), as sets where the class does not decide; of a gain and of the rise time the sign
matters too (`Factors`, `Smoothing`). `cc_pid_init` takes any doubles for gains, clamp and rise time (`Setups`), and `clamp_f64` is translated with
what it makes of bounds that are infinite or no numbers. The output is the sum of the three products of `pid.h:98`, again as the set of what it can be.
`cc_pid_load_cfg` makes its lookups in order and leaves at the
first that fails, with the gains before it overwritten. `integ_clamp` is not written by it: a controller in raw memory keeps
whatever was there (`Wild`). `good` counts the good updates in a row and is an observer. The arguments of `cc_pid_update` are
named as in its definition (value, error, time step); the prototype at the head of the file names them differently.

Numbers are ordinary ones, of which no sum or product overflows. For the derivative this is an assumption about the program: if updates
are further apart than twice the rise time, the smoothing of `pid.h:88` grows with each of them and gets to an infinity in the end.

### Storage, FileSystem, ObjectHeap, Memory

A path is a sequence of characters of which only the separators matter. `Concat` is the loop of `ccfs_path_concat` with the test that
decides whether the next component fits; `TrimHead` is where the loop of `ccfs_path_rtrim_i` stops. Reading a file is three
steps, `ccfs_file_open`, `Measure` and `ReadAll`, between which `OtherWrites` cuts and extends the file; what was read is a sequence of
cells, bytes of the file, the null, or memory that was never written. `Measure` may also give no length, as `ftell` does of what is no file on a disk; the block
of -1 + 1 bytes that the code then asks for is none (`ReadFails`). `Memory` remembers the maker of each block; `misfreed` records a block that is freed
twice or by an allocator that did not make it. `ObjectHeap` keeps the field `next` of each object; `Chain` follows it as `gc_collect` does, and
`strayed` records a link into freed memory. `gc_deinit` takes a step per object (`DeinitBegin`, `DeinitNext`, `DeinitEnd`, with its local variable `obj`), which reads the link and then frees,
and between which another thread reads files on the same heap. An allocation may fail (`cc_alloc_fails`): the default allocator of a build with assertions aborts the program, and
where a null pointer is returned, under `NDEBUG` or by an allocator of the program, its caller writes through it and crashes (`ended`). A program exchanges the allocator while it has no memory of the old one. `parts` and `asked`
are observers: what a path was joined from, and the room for it.

### Exceptions

Each thread has a stack of frames, the topmost of which runs: a logging call that wants the mutex or holds it, a call of `malloc` or `free` that
wants the lock of the heap or holds it, a handler at one of its steps, a call made by the handler. `Deliver` pushes a handler on top of anything. The handler
reports, allocates (`Allocate`, `Store`), shows and frees its trace, forwards the signal to the old action and exits; it does not return, so that
a message on the heap can be named by the frame that allocated it. `msg` is the static pointer of
`cc_print_stack` and stands for its other static variables as well (`TraceRace`). What is undefined is a crash: printing
or freeing what is not allocated, and calling `SIG_IGN`. Installing and restoring take a step per signal, in the caller's
thread, which may be interrupted in between; the alternate stack is set before them (`SetStack`), for that thread alone, so that an overflow of another thread's stack
ends the program unreported (`Overflow`). `Asserts` tells the two builds apart: under `NDEBUG` the
assertions around `sigaltstack` and `sigaction` disappear with what is in them.

The heap of libc has one lock, which each call takes and no thread can take twice. A libc that gives threads heaps of their own, or small blocks without a lock,
has fewer waits than the model. The other locks of libc (of its streams, of its loader and of `exit`) are not modelled, and the program's own
handler, to which a signal is forwarded, and its printer are assumed to return: `HandlerEnds` is about `stream_mutex` and the heap.

## 3. Runs

Passing runs:

| run | bounds | what it shows |
|---|---|---|
| `pool_safety` | 3 clients that only pass the assertions, of which 2 wait, 3 workers, 4 tasks, counters modulo 4 | no worker uses a missing pool; `in_work` is right; a task is owned once; no signal is lost |
| `pool_live` | `PoolOnList`: 2 disciplined clients of which 1 waits, 2 workers, 3 tasks, counters modulo 3 | no client uses a missing pool; the waiter always has something to wait for; the ring is the queue; only late tasks are lost; the pool implements `TaskQueue`; queued tasks are run or discarded; `ccpool_wait` and `ccpool_stop` return |
| `list_safety` | 4 objects, release build | the ring and its size; the list implements `ListSeq` |
| `loop_run` | 2 clients, 2 tickers with intervals 1 and 2, countdowns modulo 5, waits and delays of at most 2 | no entry is used after it is freed; the thread lives as long as the loop; no ticker runs early; `cc_run_loop_delete` returns |
| `table_safety` | 3 keys, 3 values, hashes 0 and 3, counts 1, 2, 3, 9 and 16, words of 8 bits | the capacity is the least power of two that is large enough; nodes are in their buckets, size; the destructor is called once with each stored value and with no other; a walk visits what was there once; the table implements `TableMap` |
| `config_safety` | files of up to 3 lines, 3 keys of which one is cut to another, 5 numbers, 2 texts; a controller of four gains (one key stands for those of kp, ki and kd), loaded after up to 2 lines, or set up with numbers, or with an infinity or no number for gains and clamp; inputs that are numbers or none, with time between them or none | the array, the getters, deletion; a loaded controller follows the file; the output of a controller settles |
| `storage` | 3 blocks, 2 allocators; paths of up to 3 out of 5 components (empty, a separator, separators inside and behind), 7 sizes of buffer from 0 on, trims of 0, 1 and 2; files of up to 2 bytes; a collection for every object from the second on | paths fit their buffers, a trimmed path is a joined one; what is read is the file's; every block has one owner |
| `except_handler` | 2 threads, one call of the log or the heap each, 2 signals of which one is forwarded, 2 deliveries | lines are whole, signal actions are kept, a handler alone does not crash, an overflow of the initialising thread's stack is reported; a signal ends the program unless a handler has interrupted a call that holds one of the two locks |

Why the bounds are enough for the cases to happen. Pool: three workers give one that sleeps, one that
looks and one that is busy at once, which is what a lost or stolen signal needs; four tasks let a
running one submit while two are queued; three clients let two wait or submit while a third stops;
the counters are just large enough for the workers, so that an uncounted step wraps at once. The pool is started and
stopped any number of times. Each `task_t` is submitted once, which bounds the runs: the
code allocates a new one each time. With the ring, two workers and three tasks are enough for the clear to have a node behind it,
under it and in front of it while a task submits a late one. List: with four objects there are two that are neighbours of neither the head nor each
other, and each insertion and removal occurs at the front, in the middle and at the end. Run loop: a second
entry is needed behind the one that is unregistered; a delay of two ticks exceeds the shorter interval, so tickers are
late and countdowns wrap (five is more than the largest sum of a countdown and an interval).
Table: capacities are 1, 2, 4 and 16, at powers of two and on both sides of them; with one bucket all keys share it,
with more the keys of hash 0 and of hash 3 part, and all hashes of three keys give every pattern of sharing; three values under one key
make a list with a middle. Configuration: an array that starts with room for one has to grow for the second and the third key, and
three lines let a key be set, set again and refused. The controller keeps no more of its past than four classes, so that its runs of updates are covered
whole; two lines give it all gains, some of them or none, and it may be set up, loaded and set up again in between. Infinities come from updates with no time in them; those that the program feeds it itself are left to the theorem `OutputIsNumber`. Deadlock is not checked there: a deleted configuration takes no more steps.
Storage: the sizes lie on both sides of every length that the components give; three names allow a trim that leaves one and a trim of the
result; two bytes let a file be cut to one and to nothing; three blocks are a chain with a middle, or one block between file and objects. Deadlock is not checked, as the program may abort or crash.
Exceptions: two deliveries are two threads in a handler, or a handler that is interrupted. One call of each thread outside of handlers is enough, as what it
interrupts is what matters. Deadlock is not checked, as the program ends, and as a handler that has interrupted a call that holds
`stream_mutex` or the lock of the heap may block; `HandlerEnds` says that of these two locks nothing else keeps it.

Runs that end in a violation, each of one property that quotes the repository:

| run | property | what it shows |
|---|---|---|
| `loop_due` | `DueRuns` | the countdown of a ticker is a `uint64_t`, so `acc <= 0` (`src/run_loop.c:81`) holds at zero only, and a ticker that is late by a microsecond wraps instead of running |
| `table_insert` | `InsertedIsFound` | "Maps [key] to [object] in [table]." (`include/ccore/table.h:46`). In a table of single values an insertion under a key that is there stores nothing (`src/table.c:101`): a lookup finds the first object |
| `config_delete` | `FreesAllocated` | "Frees the memory at [ptr]." (`include/ccore/memory.h:30`). An entry whose value was refused keeps a kind and a pointer that were never written, and `cc_cfg_delete` frees the one if the other happens to be `CFG_STR` (`src/cfg.c:293`) |
| `storage_trim` | `TrimsNumDirs` | "Trims [path] in place by [num_dirs] path components." (`include/ccore/filesystem.h:32`). The loop passes one separator more than that (`src/filesystem.c:85`): a path joined from two names and trimmed by none has one left |

Seen in the source, in the models, and without a run of their own:

* the assertions of `cc_except_init` hold the calls of `sigaltstack` and `sigaction` (`src/except.c:256-267`), and under `NDEBUG` the argument of `CCASSERT` is not
  evaluated (`include/ccore/log.h:23`): a release build installs no handler. `Asserts` of `Exceptions` has both builds (`CallInit`), and the run is of a debug build;
* `cclist_nth_item` decrements `n` on the turn that ends its loop, and then asserts that it is zero (`src/list.c:41-44`): in a debug build `cclist_insert_at` aborts
  the program for every position but the end. `Asserts` of `LinkedList` has both builds (`NthItemLeft`), and the run is of a release build.

## 4. Fairness

Liveness is checked under weak fairness of each thread's own steps. For the pool: a client that is
inside `ccpool_start`, `_stop`, `_submit` or `_wait` goes on when it can, a worker too, and task functions
return. Nothing else is assumed: no client has to make a call, no task has to submit, and a spurious wake-up never
has to happen, so that a waiter is only ever woken by `WorkerFinish`. That is what a scheduler gives
to threads that can run. Weak fairness is enough even for the mutexes: `pool->mt` is inside the actions, and while a
client holds `single_mt` nothing the other clients wait for depends on their getting it. `PoolSpec` assumes the same of the pool on a ring: each client,
each worker, each running task function and each submission; a clear ends because the queue cannot grow while it holds the mutex. For the run loop, the thread,
the clock and each client are weakly fair; a timed wait ends because time passes, up to the bound on the
time between two readings, which is not below the longest wait.

For the log and its handlers, threads are weakly fair and make finitely many calls (`MaxCalls`), so that each gets the locks in
the end without fair locks; no signal has to arrive.

## 5. Proofs

Eight modules of proofs establish the following for every value of the constants that the named assumptions of the models allow: any number
of clients, workers, tasks, objects, entries, keys, values, blocks, threads and signals, any width of the counters, files
of any length. The assumptions say what kind of thing a constant is, that null and its like are none of the others, and what the code justifies besides:
there are finitely many objects, keys and addresses (`IsFiniteSet`), the intervals of tickers are positive, the keys that a
controller looks up fit the buffer of a getter (`PidAssumption`; they are four short literals in `pid.h`), infinities and no number are doubles of their own, and a path is trimmed by no
negative number of directories (`TrimsAssumption`; with one, `ccfs_path_rtrim_i` would keep the path and write a null behind its own). `WordAssumption` is about
the words of `next_power_of_2`: the shifts are doubled from 1 up to a quarter of the word, as 1, 2, 4, 8 and 16 are of 64 bits, and no table is asked for fewer buckets than one or
more than half of the word can number, 2^32 for 64 bits; beyond that the code misses the last shift. TLC evaluates every
assumption on the instances it runs. What is needed beyond them is a hypothesis of the theorem:

* `FitsCounter` is `NumThreads < CountMod`: with 256 workers or more `thread_count` wraps and `WorkersStayInside` is false,
  which is why it is a hypothesis and not an assumption of the model;
* `Disciplined` says that clients use the pool as section 2 describes;
* `Asserts` says that the build has assertions.

| theorem | statement | hypotheses |
|---|---|---|
| `TypeCorrect` | `Spec => []TypeOK` | |
| `WorkersStayInside` | `Spec => []WorkersInsidePool` | `FitsCounter` |
| `InWorkIsCounted` | `Spec => []InWorkCounts` | `FitsCounter` |
| `NoLostSignal` | `Spec => []WorkConserving` | |
| `ClientsStayInside` | `Spec => []ClientsInsidePool` | `FitsCounter`, `Disciplined` |
| `WaiterIsWoken` | `Spec => []NoStrandedWaiter` | `FitsCounter`, `Disciplined`, at most one waiter |
| `OneOwner` | `Spec => []TaskOwnedOnce` | |
| `LateOnesLost` | `Spec => OnlyLateLost` | |
| `PoolIsQueue` | `Spec => ImplementsTaskQueue` | `FitsCounter`, `Disciplined` |
| `RingIsPool` | `PoolSpec => Spec` | |
| `RingHoldsQueue` | `PoolSpec => []QueueOnRing` | `FitsCounter` |
| `RingIsClosed` | `Spec => []RingInv` of `LinkedList` | |
| `RingIsSequence` | `Spec => ImplementsListSeq` | |
| `LoopTypeCorrect` | `Spec => []TypeOK` of `RunLoop` | |
| `CursorStaysLinked` | `Spec => []VisitsLinked` | |
| `ThreadLivesWithLoop` | `Spec => []ThreadLife` | |
| `TickersNeverEarly` | `Spec => []NeverEarly` | |
| `CapacityIsFit` | `Spec => []CapacityFits` | |
| `TableIsSound` | `Spec => []TableInv` | |
| `ValuesAreDestroyedOnce` | `Spec => []DestroyedOnce` | |
| `TableIsMap` | `Spec => ImplementsTableMap` | |
| `WalkIsComplete` | `Spec => WalkVisitsAll` | |
| `EntriesAreFit` | `PidSpec => []EntriesFit` | |
| `GettersAreRight` | `PidSpec => []GettersFollowFile` | |
| `OnlyResetsLose` | `PidSpec => []OnlyResetTextsLost` | |
| `DeleteIsClean` | `PidSpec => []ParsedDeletes` | |
| `LoadIsWhole` | `PidSpec => LoadFollowsFile` | |
| `OutputIsNumber` | `PidSpec => []OutputSettles` | |
| `ReadsAreWhole` | `Spec => []ReadWhole` of `Storage` | |
| `BlocksHaveOwners` | `Spec => []BlocksOwned` | |
| `JoinsFit` | `Spec => []JoinFits` | |
| `TrimsUndoJoins` | `Spec => []TrimUndoesJoin` | |
| `ActionsAreKept` | `Spec => []ActionsKept` of `Exceptions` | |
| `LoneHandlersAreSafe` | `Spec => []LoneHandlerSafe` | |
| `LinesStayWhole` | `Spec => LinesWhole` | |
| `OverflowsAreReported` | `Spec => OverflowReported` | |
| `DebugInstalls` | `Spec => []InitInstalls` | `Asserts` |

By `RingIsPool` all that is proved of `Spec` of `ThreadPool` holds of `PoolSpec` as well. `DebugInstalls` has no run:
of a release build `InitInstalls` is false, as the first point of "Seen in the source" says.

The arguments:

* *The pool outlives its workers.* `WorkersInsidePool` is not inductive: it needs that a worker asleep
  has not been told to stop (`StoppedAwake`), that `single_mt` is owned by exactly the client that is
  creating or joining (`LockInv`, `CreateInv`), and, for the clients, that a disciplined stop has the pool to itself
  (`StoppingAlone`). `StopFree` waits for `thread_count` workers, which are all of them when the
  counter does not truncate.
* *The counter.* `CountInv` says that `in_work` is the number of busy workers. Taking a task adds one to both and finishing
  removes one from both; the modulus never acts because the busy workers are among `NumThreads`.
* *No lost signal.* With the queue no longer than the number of workers about to look at it whenever
  somebody sleeps, a submission adds one task and wakes one sleeper; a worker that takes a task lowers
  both sides; one that goes to sleep found the queue empty. This needs neither discipline nor the counter.
* *The waiter.* It sleeps only if something is pending or in work. The step that brings `in_work` to zero signals
  it, and the only waiter is the one who wakes. `WaitersOnly` says that nobody else is ever waiting. With two waiters
  the statement is false for the code: one signal wakes one of them.
* *One owner.* `OwnInv` ties what has become of a task to where it is: in the queue once (`QueueOwns`), with one running worker
  (`WorkersOwn`), or in one call of `ccpool_submit` (`CallersOwn`). `TaskOwnedOnce` alone is not inductive, as a task taken
  from the queue has to be known not to run already; the state of the task says so. A task is lost only in `StopFree`, after the flag was set, when
  whatever is in the queue is late.
* *The pool is a queue.* `Known` gathers the invariants. With it each step maps to a step of `TaskQueue` or to none: `WorkerTake`
  to `Begin`, where the active tasks are fewer than `NumThreads` because each running worker has one and this one does not run yet; `WaitReturn` to its namesake, as `in_work`
  counts the busy workers; both parts of `ccpool_stop` that drop tasks to `Discard`. `ccpool_start` needs that no queue is left over (`NoQueueLeft`), and the clients' discipline.
* *The ring.* `ListInv` says that the ring spells the queue while the mutex is free (`Spelled`) and that a clear is at some node
  behind which the links still lead through the rest (`ClearingAt`), although those in front of it are poisoned. Insertion behind the last
  node needs that the new task is in the queue nowhere else, which is `OwnInv` again.

* *The list.* The ghost of the inductive invariant `ListInv` of `LinkedListProofs` is a sequence of distinct objects: at rest the ring spells it (`AtRest`), and while a clear
  is in progress it is what is left to destroy, from the local variable `item` on (`Clearing`). Every operation is shown to give the ring of the
  sequence that `ListSeq` says, and `PathEnds` that following the links finds that sequence, which is what the refinement mapping is made of.
* *The run loop.* `IInv` is `TypeOK` with four parts. `WalkInv`: the mutex of the list is held exactly during the walk, so nothing the thread points to can be
  unlinked. `LifeInv`: a loop that is told to stop is being made, joined or gone, and a client that makes or deletes it is alone (`LoopStates`, `ClientPlaces`). `HandleInv`: an
  entry in the hand of a client is in no other's. `Spaced`: what is left of an interval and the time since the last run add up to the interval at least; the wrap of the countdown
  only makes it larger, which is why a ticker is never early although `loop_due` shows that it may be late.
* *The capacity.* `Top(a, e, lo)` says that the bits of a word from number `lo` up to `e` are ones and that none is behind them. The argument less one has such a word with
  one bit (`HighestBit`). A shift by s takes each bit s places down (`ShiftedBit`), so `Or` with the shifted word has s ones more, or all of them down to bit 0 (`SmearStep`; `OrTop` adds
  the bits up). As each shift is as long as the ones that are there, they double; after the last there is no zero left below the highest bit (`SmearedTop`), and one more is the power. `NextPowerIs` says so, and
  the other theorems about the table take from it that there is a bucket at all.
* *The table.* `TableSound` says that every key has one node, in its bucket (`Placed`), that every value has one place (`Once`), a node of a single value no second one (`Singles`), that the size counts the
  values (`Counted`), that the keys with a node are those that were inserted (`MappedSound`), and, for the loop of `cctable_deinit`, that it leaves nothing behind it (`ClearingSound`) and that the values
  still in a bucket are the ones the destructor has not been called with yet (`FatesSound`). A walk keeps `WalkSound`: in the order of places, all it has visited is behind it, and
  whatever was there at its beginning is visited or still ahead; an insertion by the callback moves the places behind the new value along, but none across the cursor.
* *The configuration.* `CfgInv`: each entry has a key of its own (`Keyed`) and a place in the array; a key with a good line has an entry that holds what the last of them says
  (`Follows`); whatever is on the heap is pointed to by an entry or is the text of a line that was overruled, and the keys are on it (`HeapKept`). As long as
  parsing has not failed every entry has a good line (`Backed`) and its text is on the heap and nobody else's (`TextsOwned`); this is what an error breaks, as `config_delete` shows, and why
  `DeleteIsClean` asks for `success`.
* *The controller.* `LookupTold` and `LookupUntold` say what a lookup finds by the lines of the file. `PidInv` climbs with the number of good updates: after
  one the last value and the error are numbers and, with a clamp that is one, the integral; after two the derivative is no infinity; after three it is a number. A lookup that fails is never behind
  `pid_rise`, so a load that fails leaves the rise time that the climb depends on.
* *Files.* `ReadInv`: from the measuring to the reading the file exists and is at least as long as the least length seen.
* *Paths.* `Joined` and `Concat` are folds. `FoldExists` shows by induction on the number of elements that the function which such a fold chooses exists, so that it
  satisfies its equation; `JoinedIs` and `ConcatSteps` turn the folds into sequences of paths (`Joins`) and of states of the loop (`Add`). Along them `Filled` is kept: each
  component that was taken had room for itself, a separator and the null, the one that ended the loop had not. `FilledFits` makes of it that as many are in as fit at all: what the code
  checks asks for the room of a separator for the first component too, hence the exception in `JoinFits`. For trimming, `SeparatorsOf` says that the separators of a joined path are those
  between two components (`Parted`), and `GrowingHits` that counting n + 1 of them from the end finds the one in front of the last n + 1 names. `PathInv` is `TrimUndoesJoin` with the type of the names.
* *Objects and memory.* `StoreInv`: every block is of the allocator in use, objects and read files share none (`Owned`), and a ghost sequence of all objects is linked from `First` (`Linked`), the head or what `gc_deinit` has still to free, which `ChainIs`
  shows to be what `Chain` finds; `DeinitNext` takes the first off it.
* *Signals and the log.* `InstallInv`: the signals up to the position of the loop have our handler and their old action saved, the others the program's; the alternate stack is there from before the first to beyond the last. `PrintInv`: at most one
  frame prints, and its thread has the mutex. `HandlerInv`: a call that prints or frees a message stands on a handler that frees it later or is done with it (`ShownInv`), and the message is the handler's own, and allocated, while that is alone (`AloneInv`).

Most of the inductive invariants were checked by TLC on the instance of the component's run before they were proved, and each is preserved by every action of the
next-state relation, action by action. The lemmas about numbers below a bound and about sequences go back to `WellFoundedInduction`, applied to
a set of numbers.

Checked by TLC only: everything that is temporal beyond safety (`QueuedTaskSettles`, `WaitReturns`, `StopReturns`, `DeleteReturns`, `HandlerEnds`), as the prover has no rule for fairness and ENABLED.

## 6. Not modelled

Formatting (`format.c`, `string.h`) and vector math keep no state between calls and have nothing for a
model checker to interleave, nor have the constructors and accessors of tagged values; the marks and kinds of objects are written and never read, as `gc_collect` does
not mark yet. The Windows versions of the handler and of the stack trace are left out. `message.h` and `array.h` have no implementation.
Outside of `Storage` memory allocation always succeeds: in a build with assertions `cc_default_alloc` aborts otherwise, but under `NDEBUG` it returns the null pointer, as may an allocator
of the program, and no caller in the library looks at it. `cc_realloc` is modelled where it is used, in `Config`. Failures of pthread calls, which the code does not check, are
left out, and so is a wall clock that steps back. `ccfs_path_exists` is a query, and a file that is opened for writing is written through stdio.
A table of zero buckets and a ticker of interval zero are undefined in
the code (an index modulo nothing, a division by zero) and are outside the constants.

What the models leave to their properties' conditions, and a reader may trip over:

* a task that calls `ccpool_wait`, `ccpool_start` or `ccpool_stop` waits for itself, and a ticker that registers or unregisters an entry
  waits for the mutex its own thread holds. Neither call is in the models, which could only say that it never returns;
* with two clients in `ccpool_wait` one may be left asleep: `idle_cv` is signalled and not broadcast, so `NoStrandedWaiter` and `WaitReturns` are about one;
* `ccfs_path_rtrim_i(path, n)` takes off n + 1 names unless the path ends in a separator (`TrimsNumDirs` is violated), and of a path with too few separators it leaves the first
  two characters. `TrimUndoesJoin` is about paths with more names than that, and an empty path is outside the model, as the code reads in front of it;
* a buffer of no bytes gets its null all the same (`JoinFits` is about the others);
* `ccfs_file_read` does not look at what `fread` returns: of a file that shrinks between measuring and reading the rest of the block is whatever memory
  held, and counts in the size, although "sets the number of bytes read" is what `include/ccore/filesystem.h:38` says; `ReadWhole` leaves both open;
* an error that is no number sends the integral of a controller to its lower clamp, `cc_pid_load_cfg` writes no clamp, and the output of a
  controller may never settle if a gain or the clamp is infinite or no number, or if the rise time is not above zero (`OutputSettles` asks for numbers, and for such a rise time).

## 7. Plan

In order of what matters most:

1. *Thread pool* (done): `TaskQueue`, `ThreadPool`, its runs and theorems.
2. *What it is built on* (done): `ListSeq`, `LinkedList`; then `RunLoop`; then `TableMap`, `HashTable`.
3. *Configuration* (done): `Config`, and `Pid` on top of it.
4. *Logging and exceptions together* (done): `Exceptions`.
5. *Paths, files, objects and memory* (done): `Memory`, `FileSystem`, `ObjectHeap`, `Storage`.
6. *A pool on a ring* (done): `PoolOnList`.
7. *Proofs* of every safety invariant, action property and refinement that the passing runs check (done).
