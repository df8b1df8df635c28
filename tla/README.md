# A TLA+ model of guitar&tea

guitar&tea (gt) is a framework for a TCP server that runs as a daemon with
several threads. This directory models it in TLA+, checks the model with TLC
and proves the safety of the spinlock and of the network engine with TLAPS.
Paths below are relative to `src/`.

## The system

| Part | State | Operations | Talks to |
|---|---|---|---|
| Spinlock, `user/core/gt_spinlock.h` | the lock word | lock, trylock, unlock, the `_with_val` pair | its users; `test/spinlock_test.c` |
| Lists, `user/comm/gt_list.h` | two pointers per node | add, del, replace, move, splice, `_init` variants, iteration | the elist of a poller |
| Poller, `user/core/gt_poller.c` | epoll set, event array, elist; per event: descriptor, flags, handlers, poller | init, clean, create, start, stop, destroy, epoll_wait | kernel; called by network and signal engine |
| Network engine, `user/core/gt_network.c` | the pollers of `gt_network_m` and of the datanet threads | accept and dispatch, read, close, listen | poller, threads, phases |
| Threads, `user/core/gt_worker.c` | thread tables, one mutex, one condition variable, a cached thread id | create, wait, wake up, loop | started by `main` and by phase 2 |
| Signal engine, `user/core/gt_signal.c` | handlers, mask, a socketpair | handler writes the number, main thread reads it | poller of the main thread, log |
| Core, `user/core/gt_core.c` | phase table | register, run | all engines |
| Start, `user/main/main.c` | process, session, descriptors | parse, daemonize, initialise, run | all |
| Log, `user/core/gt_log.c` | a descriptor | init, print a line | all |
| Memory, ring queue | none; stub | malloc and free; none | poller |

`main` daemonizes, initialises the engines, creates the business threads and
`gt_network_m`, runs the phases (which create the datanet threads), sleeps two
seconds and broadcasts on a condition variable that all threads wait on. Then
the main thread polls the signal socketpair, `gt_network_m` accepts connections
and registers each with the poller of datanet thread *descriptor mod 4*, and
the datanet threads read and close them.

What is hard about it: the network thread and a datanet thread share a poller,
its elist and the descriptor table without a lock; a batch of events is handled
while handlers free events and the kernel reuses descriptors; signals interrupt
every thread, between a system call and its test of `errno` and inside the C
library; start-up rests on a sleep; calls fail half way, some of them unnoticed,
and leave numbers behind that mean something else later. `PROJECT.json` lists
these hazards by line, with the properties that cover them.

## Modules

| Module | Models | State and actions |
|---|---|---|
| `GtAtomicCount` | what the lock promises | a total and the increments left per thread |
| `GtSpinlock` | `gt_spinlock.h` under `spinlock_test.c` | lock word, program counters; one action per call, the increment as load and store |
| `GtListOps` | the functions of `gt_list.h` | operators on a memory of `next` and `prev`, writes in the code's order |
| `GtList` | the lists as a data type | memory next to the sequences it should spell; one action per function and variant; every iteration macro, step by step, with a body that takes entries away |
| `GtPoller` | `gt_poller.c` and the kernel below it | descriptors, epoll sets, heap, events, elists; the functions split between writes that two threads can interleave |
| `GtWatch` | what a poller promises its caller | per event: its life and the flags it is watched for; the last call with its flags and its result, or the last handler call |
| `GtPollerApi` | `gt_poller.c` under any sequence of calls of one thread | `GtPoller`'s state; one action per function, any flags, `gt_poller_clean` and the write handler included |
| `GtServer` | what the network engine promises its clients | per connection: its stage, what the client did, unread chunks |
| `GtNetwork` | `gt_network.c` and the datanet loop on top of `GtPoller` | program counters and locals of the network thread and the datanet threads; clients that connect, send, shut down, reset |
| `GtSignal` | `gt_signal.c` at work | pending signals, faulting threads, handler of each thread, holders of the library's locks, bytes in the socketpair, main thread |
| `GtStartup` | `main.c`, `gt_core.c`, thread creation and release | main's place, phase table, what is set up, threads, mutex |
| `GtLog` | the lengths in `gt_log_print` | operators only |
| `GtProcess` | `main.c` and the engines' initialisation, as the kernel sees them; `gt_log.c`, `gt_gettid` | process and session numbers, the descriptor table, the numbers the program keeps |
| `GtSpinlockProofs`, `GtNetworkProofs`, `GtServerProofs`, `GtPollerApiProofs`, `GtProcessProofs`, `GtStartupProofs`, `GtSignalProofs`, `GtListProofs` | - | theorems |
| `MC...` | - | instances for TLC |

How they fit together. `GtNetwork` and `GtPollerApi` extend `GtPoller`, which
uses `GtListOps`; `GtNetwork` implements `GtServer`, `GtPollerApi` implements
`GtWatch`, `GtSpinlock` implements `GtAtomicCount`. `GtStartup` ends where
`GtNetwork` and `GtSignal` begin: `MainRunsOnReady` is what their `Init` takes
for granted of the pollers and the socketpair. `GtProcess` goes through the same
start with the descriptors in view and justifies two things the others assume:
`epoll_ctl` on a poller that is still zero fails (`ColdPollerRefused`, used by
`GtPoller`), and a missing socketpair is refused by phase 1 (`WatchesReadEnd`,
used by `GtStartup`). `ErrnoPreserved` of `GtSignal` is why `GtNetwork` leaves
handlers out of its threads' `errno`.

Definitions carry the names of the functions they model; `map` in `PROJECT.json`
gives the lines. Definitions named `MUT_...` are small mutations of the
definition that follows them; nothing uses them, they show that a property can
fail (`mutants` in `PROJECT.json`).

Abstractions. A failed compare-and-swap, an `accept` without a free descriptor
and an `epoll_wait` that times out change nothing and are stuttering steps. Data
on a connection is a number of unread chunks. `errno` is EAGAIN or another value
in `GtNetwork`, the thread's own or the handler's in `GtSignal`. The three upper
bytes of the uninitialised `sig` in `gt_signal_ops_read` are 0 or not, chosen at
every call; in the second case the signal goes to `default` and is lost, which
`NothingInvented` allows. Writes of four bytes to the socketpair are whole or
fail. Of the C library `GtSignal` keeps the lock of the allocator and the one of
`localtime_r`, which the thread's own code takes at any time; a backtrace over a
frame without a name may end the process. The text of a log line is its length
in `GtLog`, and where it goes in `GtProcess`; elsewhere logging is left out,
except for the line that reads a freed event (`Report` in `GtNetwork`). A failing
call is an alternative of its action, and the number of failures is bounded.

## Runs

Passing:

| Run | Instance | Shows |
|---|---|---|
| `spinlock` | 4 threads, all three ways to lock, two different values, 2 iterations | mutual exclusion, the word names its holder, no update is lost; refines `GtAtomicCount`, liveness included |
| `list` | 2 heads, 3 entries, symmetry | the pointers spell the promised lists after every sequence of calls and the observers agree; every macro visits what was ahead of it and is not taken away |
| `network_reuse` | 1 datanet thread, 2 descriptors, 3 connections and events, 1 failure, 1 early report, cold start, symmetry | no use after free, no dangling elist, no foreign close; refines `GtServer`: a connection in service is closed only when its client has gone and all it sent was read |
| `network_faults` | 2 datanet threads, 2 descriptors and connections, 1 failure, cold start | one owner per event; a registered connection is closed after its client has gone |
| `poller_api` | 2 descriptors, 2 events, any flags, 2 failures, symmetry | results, flags and kernel stay in step: refines `GtWatch`; the warning of `gt_poller_clean` is true |
| `signal` | 2 threads, 2 signals, room for 2 messages, 2 signals sent, any number of faults | messages stay whole and in order, nothing is invented, errno survives; only an interrupted library call can stop a handler, and only a fault of the main thread the reading |
| `startup` | 4 threads, 2 failures, 1 spurious wakeup, prompt threads | phases in order, mask inherited, no thread released early but by a spurious wakeup, main runs on what is ready, start-up ends and all threads run |
| `process` | 4 process numbers, 3 failures, messages around the end of the log buffer | the daemon is detached, the cached thread id right, and no stale or missing descriptor number sends log lines, signals or epoll entries to the wrong place |

Violations (each a finding in `PROJECT.json`, with the line that says otherwise):

| Run | Property | What happens |
|---|---|---|
| `startup_race` | `ServerAnswersFin` | a connection is dispatched to a poller that is not initialised yet, and stays open for ever |
| `stale_errno` | `ServerAnswersFin` | a stale EAGAIN hides an end of file |
| `elist` | `ElistListsEvents` | swapped arguments of `list_add`: the elist loses events |
| `lost_wakeup` | `AllThreadsRun` | the broadcast comes before the wait |

The abstract specifications state limits that a caller has to know. `GtWatch`: a
start that names a flag the event is watched for returns GT_OK and does nothing,
also for its other flags, although the comment at `user/core/gt_poller.c:37`
says that they have been registered (the program starts `EPOLLIN` alone and does
not meet the case); an event stopped for its last flag stays in the epoll set,
so that starting it again is refused; and after an error nothing is promised
until it is destroyed. The results are part of `GtWatch`'s state: a call that
returns GT_OK without its effect is no step of it, and neither is an error
without a reason. `GtServer`: without memory, after a failed `epoll_ctl` or
before all pollers are ready, an accepted connection is lost and its descriptor
with it.

Some properties have premises that leave a real hazard out, and `PROJECT.json`
says so at the hazard. `RegisteredAnswered` holds without early reports only
(`MaxSpurious = 0`): after one, the stale `errno` of `stale_errno` breaks it
too; it says nothing of a connection that was lost before it was registered, nor
of a network thread that spins at the descriptor limit. `Undisturbed`: a signal
that interrupts the allocator or `localtime_r` and whose handler needs the same
lock stops the thread; `HandlerReturns` and `MessagesRead` say that nothing else
does. `HeldBack` is about wakeups that are not spurious. `LineSafe` holds for
messages up to one byte longer than the room in the buffer; for longer ones
`log_length` in `gt_log.c` lies beyond it.

Two threads do work on the same elist without a lock, although the comment at
`user/core/gt_poller.c:102` says one thread; `ElistNotDangling` is what survives.

Bounds. Reuse needs a descriptor and an event address that come back while a
batch holds others: three connections over two descriptors of one thread, with a
third event so that an address can stay free. Cross-thread properties need two
datanet threads. One failure reaches every error path on its own; in `startup`
and `poller_api` two reach a second one after an ignored one, and in `process`
three let `/dev/null`, the socketpair and one more be missing at once. The list
operations touch an entry and its neighbours; three entries give an entry with
two different neighbours. In `poller_api` two events over two descriptors meet
in every combination, and the event array has one entry; batches are the matter
of `GtNetwork`. In `signal` a faulting thread writes as many messages as there
is room for, so that the socketpair is full also while the handler runs on the
main thread. In `process` four numbers are the shell, the daemon and two parents
that have gone and whose numbers come back. `CHECK_DEADLOCK FALSE` is set where
the model ends or waits for clients that may stay away.

Fairness. Every thread is scheduled again and again, so `WF` of each thread's
steps; a contended compare-and-swap needs no more, since every other thread is
done some day. In `GtSignal` the kernel delivers pending signals, and a lock of
the C library that becomes free again and again is got some day: `SF` of the
steps that take one. Clients, senders of signals, faults, library calls and
failing calls are under no obligation. `Warm` (the datanet threads are ready
before the network thread is released) and `Prompt` (all threads wait before the
sleep ends) are not guaranteed by the code; the runs `startup_race` and
`lost_wakeup` show what happens without them, and `RegisteredAnswered` and
`HeldBack` what remains.

## Proofs

`GtSpinlockProofs` proves for every finite set of threads, mix of calls,
non-zero values and number of iterations that `IInv` is an invariant, from which
mutual exclusion, `WordNamesHolder`, `NoLostUpdate` and the safety part of the
refinement of `GtAtomicCount` follow. Mutual exclusion alone is not inductive: a
thread may enter only because the word is 0 exactly when nobody is inside
(`WordNamesHolder`), and the refinement needs the loop counter in step with the
program counter (`IterationsLeft`).

`GtNetworkProofs` proves for every number of datanet threads, descriptors,
connections, events, failures and early reports, cold start included, that
`IInv` of `GtNetwork` is an invariant, and with it type correctness,
`KernelPointersLive`, `ElistNotDangling`, `BatchStaysLive`, `OneOwner` and
`DestroysItsOwn`. The argument is one of ownership. An event belongs to the
network thread from `malloc` until `epoll_ctl` accepts it (`DispatchInv`), then
to the kernel's entry for its descriptor, then to the datanet thread that found
its client gone (`DestroyInv`). Its list node points at its poller both ways as
long as it is registered (`LinkInv`: a consequence of the swapped arguments of
`list_add`, every event is alone on its list with the poller), so that
`list_del` writes to the poller's own head only, and an elist points at events
of its own poller only (`ElistInv`), so that nobody else's event can be left
behind. Each lemma states what one action does to the shared state, then goes
through the conjuncts. The assumption is `NetworkAssumption`: the pollers are
`0..N-1`, descriptors are natural numbers, and addresses differ.

`GtServerProofs` proves that `GtNetwork` implements `GtServer`
(`ServesConnections`): each step is a step of the abstract server or changes
nothing there. Beyond `IInv` it needs to know whose connection a descriptor is
(`ConnInv`: an open descriptor is that of an accepted connection that was not
closed, and no two are of the same one, which also makes the cases of the
refinement mapping disjoint) and that a thread which has begun to destroy an
event has seen the last of its client (`GoneInv`).

`GtPollerApiProofs` proves for any number of events, descriptors and failures,
under any sequence of calls with any flags, that `GtPollerApi` implements
`GtWatch` (`WatchesAsTold`), and `NoFalseAlarm`. The invariant says how three
records of one thing agree: the kernel's entry is that of the event which owns
the descriptor (`EntryInv`), an event has an open descriptor of its own
(`OwnerInv`), and as long as no call for it returned an error its flags are what
the kernel watches (`FlagsInv`): the choice between `EPOLL_CTL_ADD` and `MOD`
made from the flags is then right, except for an event that was stopped for all
of them. The steps for a start and a stop go through the three outcomes of a
call (returned at once, accepted by `epoll_ctl`, refused by it) and match each
with the result the program is told. For `NoFalseAlarm`, every event is linked
with the poller alone and the poller's pointer is an event that is there, or
itself (`ElistInv`).

`GtProcessProofs` proves `Detached`, `TidRight`, `LogTarget`, `LineSafe`,
`SignalBytes`, `WatchesReadEnd` and `ColdPollerRefused` for any set of process
numbers and any failures. Descriptors are given out lowest first, so the proof
keeps what every number stands for at each point of the start (`TableInv`), that
there is always a free one (`RoomInv`), where the ends of the socketpair are
(`PipeInv`), which process numbers can be in use (`PidInv`), whose number the
cache of `gt_gettid` holds (`CacheInv`) and how far a log line has got
(`LineInv`).

`GtStartupProofs` proves `MaskInherited`, `HeldBack`, `MainRunsOnReady` and
`PhasesInOrder` for any tables of threads and any failures, spurious wakeups
included. `RegisteredInv` and `EntryInv` say what is in the phase table,
`PlaceInv` where in it the two loops are, `ReadyInv` which calls lie behind each
value of `mpc`, `CreatedInv` which threads exist, and `AloneInv` that nobody is
woken before `gt_wakeup_pthread`.

`GtSignalProofs` proves `BytesInStep`, `ReadNeverBlocks`, `ErrnoPreserved` and
`NothingInvented` for any size of the socketpair, any signals below 65 and any
interleaving of handlers, faults and the reading main thread. `BytesInStep` says
which byte of which message each byte in the socketpair is, so that the
arithmetic of a write of four bytes and a read of one carries it; `HandlerInv`
keeps the saved `errno` of every thread inside a handler.

`GtListProofs` proves `PointersSpellList` and `LoopOnCourse` for any sets of
heads and entries: any lengths, any aliasing of arguments, any sequence of calls.
A list of n entries is a ring of n + 1 different nodes, and each operation is
followed through four layers: what its writes make of a ring, which ring the
promised sequence stands for, which nodes it leaves alone, and what that means
for all lists at once. `PointersSpellList` is not inductive, since a node on two
lists would let an operation on one tear the other: `Shape` adds that no entry is
on a list twice or on two of them. `LoopOnCourse` needs to know that the loop is
at a place of its list with the entries from there on still to visit, and that
the saved `n` of a safe loop is the neighbour of `pos` (`OnCourse`), so that a
body may take `pos` away. `ListAssumption` says that heads and entries are different
nodes, that null and the poisons are no nodes, and that the mark of a head that
may not be used is no list.

The assumptions are those of the modules: addresses, null values and special
values differ, the bounds are natural numbers, the tables of threads hold
threads, signals are numbers from 1 to 64.

Only model-checked: all liveness (`ServerAnswersFin`, `RegisteredAnswered`, the
liveness part of `AtomicIncrements`, `HandlerReturns`, `MessagesRead`,
`AllThreadsRun`), since the prover does not do fairness.

## Not modelled

`gt_set_pthread_sigmask` and `gt_process_reconf` (nothing calls them), the ring
queue (a stub), the values of the command line's parameters, the text of log
lines and backtraces, the packets of the test client, and the business threads'
work (they sleep). The hazard at `user/core/gt_poller.c:160` (an event is read
after it was freed) has no property: what is read goes to the log only. Spurious
wakeups aside, `pthread` and the kernel behave as documented.

## Plan

Every safety property of a passing run is stated by a theorem. Liveness stays with
TLC.
