----------------------------- MODULE GtStartup -----------------------------
(***************************************************************************)
(* Process start: main and gt_init_system (user/main/main.c), the phase    *)
(* table of user/core/gt_core.c, the initialisation of the signal and the  *)
(* network engine, and the creation and release of the threads of          *)
(* user/core/gt_worker.c.  It ends where GtNetwork and GtSignal begin.     *)
(*                                                                         *)
(* Before gt_create_pthread the process has one thread, so a function is   *)
(* one step; afterwards a step is what happens between two accesses to     *)
(* the mutex, the condition variable or the threads' tables.               *)
(***************************************************************************)
EXTENDS Integers, FiniteSets, Sequences

CONSTANTS BusinessTable, \* g_gt_business_pthread, gt_network_m its last entry
          DatanetTable,  \* g_gt_datanet_pthread
          Nobody,
          MaxFail,       \* bound: failures of system calls and malloc
          MaxSpurious,   \* bound: returns of pthread_cond_wait without broadcast
          Prompt         \* TRUE: when sleep(2) returns, every thread has come
                         \* to pthread_cond_wait

Entries(table) == {table[i] : i \in DOMAIN table}
Datanet == Entries(DatanetTable)
Threads == Entries(BusinessTable) \cup Datanet
Network == BusinessTable[Len(BusinessTable)]

ASSUME StartupAssumption ==
    /\ BusinessTable \in Seq(Entries(BusinessTable)) /\ BusinessTable # <<>>
    /\ DatanetTable \in Seq(Datanet) /\ DatanetTable # <<>>
    /\ Entries(BusinessTable) \cap Datanet = {}
    /\ Nobody \notin Threads
    /\ MaxFail \in Nat /\ MaxSpurious \in Nat /\ Prompt \in BOOLEAN

VARIABLES mpc,      \* what the main thread does next
          table,    \* g_gt_phase: phase -> cmod -> phase function
          phase, cmod,
          created,  \* entries of the table being worked on that have a thread
          ready,    \* what has been set up
          mask,     \* does the main thread block g_gt_sig_ignore?
          tmask,    \* the mask each thread inherited
          tpc,      \* where each thread is
          mutex,    \* owner of gt_pthread_mutex
          spurious, \* returns of pthread_cond_wait without broadcast so far
          fails

phaseVars == <<table, phase, cmod>>
threadVars == <<created, tmask, tpc, mutex, spurious>>
vars == <<mpc, phaseVars, ready, mask, threadVars, fails>>

NULL == "NULL"
Phases == 0..3   \* GT_PHASE_0 to GT_PHASE_3
Cmods == 0..5    \* gt_cmod_e
GT_CMOD_CORE == 0
GT_CMOD_SIGNAL == 2
GT_CMOD_NETWORK == 4

Init ==
    /\ mpc = "parse"
    /\ table = [p \in Phases |-> [c \in Cmods |-> NULL]]
    /\ phase = 0 /\ cmod = 0
    /\ created = 0 /\ ready = {} /\ mask = FALSE
    /\ tmask = [t \in Threads |-> FALSE]
    /\ tpc = [t \in Threads |-> "none"]
    /\ mutex = Nobody
    /\ spurious = 0 /\ fails = 0

-----------------------------------------------------------------------------
\* Mutant: the threads are created before the mask is set.
MUT_ThreadsBeforeSignals ==
    [parse |-> "daemonize", daemonize |-> "log", log |-> "core_init",
     core_init |-> "network_init", network_init |-> "pthread_init",
     pthread_init |-> "create", create |-> "signals_init", signals_init |-> "phase_run",
     phase_run |-> "sleep", sleep |-> "wakeup", wakeup |-> "do_run"]
\* Mutant: the threads are released before the phases run.
MUT_WakeupBeforePhases ==
    [parse |-> "daemonize", daemonize |-> "log", log |-> "signals_init",
     signals_init |-> "core_init", core_init |-> "network_init",
     network_init |-> "pthread_init", pthread_init |-> "create", create |-> "sleep",
     sleep |-> "wakeup", wakeup |-> "phase_run", phase_run |-> "do_run"]

\* The order of the calls in main and gt_init_system.
After ==
    [parse |-> "daemonize", daemonize |-> "log", log |-> "signals_init",
     signals_init |-> "core_init", core_init |-> "network_init",
     network_init |-> "pthread_init", pthread_init |-> "create", create |-> "phase_run",
     phase_run |-> "sleep", sleep |-> "wakeup", wakeup |-> "do_run"]

\* A call that succeeds is followed by the next; one that fails makes main
\* return, which ends the process with all its threads.
Call(call) == mpc = call /\ mpc' = After[call] /\ UNCHANGED fails
Fail(call) == /\ mpc = call /\ mpc' = "exit"
              /\ fails < MaxFail /\ fails' = fails + 1

\* gt_parse_parameters, gt_daemonize_process, gt_log_init, and the mutex and
\* the condition variable of gt_create_pthread.
Prepare == /\ \E call \in {"parse", "daemonize", "log", "pthread_init"} :
                  Call(call) \/ Fail(call)
           /\ UNCHANGED <<phaseVars, ready, mask, threadVars>>

\* gt_phase_register: an entry that is taken is left alone, with GT_ERROR.
Free(p, c) == table[p][c] = NULL
gt_phase_register(tbl, c, p, fn) == [tbl EXCEPT ![p][c] = IF @ = NULL THEN fn ELSE @]

\* The caller of gt_phase_register that passes GT_ERROR on.
Register(call, entries) ==
    /\ mpc = call
    /\ mpc' = IF \A e \in entries : Free(e[1], e[2]) THEN After[call] ELSE "exit"
    /\ UNCHANGED fails

\* gt_signals_init ignores what its five calls return: the process goes on
\* without the socketpair, the handlers or the mask.
gt_signals_init ==
    /\ mpc = "signals_init" /\ mpc' = After[mpc]
    /\ \E broken \in SUBSET {"pipefd", "handlers", "mask"} :
           /\ fails + Cardinality(broken) <= MaxFail
           /\ fails' = fails + Cardinality(broken)
           /\ ready' = ready \cup ({"pipefd", "handlers"} \ broken)
           /\ mask' = ("mask" \notin broken)
    /\ table' = gt_phase_register(table, GT_CMOD_SIGNAL, 1, "signal_phase1")
    /\ UNCHANGED <<phase, cmod, threadVars>>

\* Mutant: the core poller is registered for the last phase.
MUT_CoreLate ==
    /\ Register("core_init", {<<3, GT_CMOD_CORE>>})
    /\ table' = gt_phase_register(table, GT_CMOD_CORE, 3, "core_phase0")
    /\ UNCHANGED <<phase, cmod, ready, mask, threadVars>>

gt_core_init ==
    /\ Register("core_init", {<<0, GT_CMOD_CORE>>})
    /\ table' = gt_phase_register(table, GT_CMOD_CORE, 0, "core_phase0")
    /\ UNCHANGED <<phase, cmod, ready, mask, threadVars>>

gt_network_init ==
    /\ Register("network_init", {<<1, GT_CMOD_NETWORK>>, <<2, GT_CMOD_NETWORK>>})
    /\ table' = gt_phase_register(
                    gt_phase_register(table, GT_CMOD_NETWORK, 1, "network_phase1"),
                    GT_CMOD_NETWORK, 2, "network_phase2")
    /\ UNCHANGED <<phase, cmod, ready, mask, threadVars>>

-----------------------------------------------------------------------------
(* gt_phase_run.                                                           *)

\* Mutant: <= for < in the inner loop.
MUT_OneColumnTooMany == /\ cmod' = IF cmod = 6 THEN 0 ELSE cmod + 1
                        /\ phase' = IF cmod = 6 THEN phase + 1 ELSE phase
                        /\ mpc' = "phase_run"

\* The loop's step to the next entry; after the last one gt_phase_run returns.
Advance == /\ cmod' = (cmod + 1) % 6
           /\ phase' = IF cmod = 5 THEN phase + 1 ELSE phase
           /\ mpc' = IF phase = 3 /\ cmod = 5 THEN After["phase_run"] ELSE "phase_run"

\* An entry of the table: skipped when NULL, called otherwise.
gt_phase_run ==
    /\ mpc = "phase_run"
    /\ IF Free(phase, cmod)
       THEN Advance
       ELSE mpc' = table[phase][cmod] /\ UNCHANGED <<phase, cmod>>
    /\ UNCHANGED <<table, ready, mask, threadVars, fails>>

\* Mutant: gt_phase_run does not look at the result.
MUT_IgnoresFailure(fn, inputs, output) ==
    /\ mpc = fn /\ Advance
    /\ \/ inputs \subseteq ready /\ ready' = ready \cup output /\ UNCHANGED fails
       \/ fails < MaxFail /\ fails' = fails + 1 /\ UNCHANGED ready
    /\ UNCHANGED <<table, mask, threadVars>>

\* A phase function that sets something up, provided its inputs are there.
Phase(fn, inputs, output) ==
    /\ \/ mpc = fn /\ inputs \subseteq ready /\ Advance
          /\ ready' = ready \cup output /\ UNCHANGED fails
       \/ Fail(fn) /\ UNCHANGED <<phase, cmod, ready>>
       \/ /\ mpc = fn /\ ~(inputs \subseteq ready) /\ mpc' = "exit"
          /\ UNCHANGED <<phase, cmod, ready, fails>>
    /\ UNCHANGED <<table, mask, threadVars>>

gt_core_phase0_func == Phase("core_phase0", {}, {"core_poller"})

\* The event for the read end, started on the core poller; epoll_ctl refuses
\* when either was not set up.
gt_signal_phase1_func == Phase("signal_phase1", {"core_poller", "pipefd"}, {"signal_event"})

\* gt_poller_init and gt_network_listenning.
gt_network_phase1_func == Phase("network_phase1", {}, {"network_poller", "listening"})

-----------------------------------------------------------------------------
(* Threads.                                                                *)

\* One pthread_create of the loop over a table; a thread starts with the
\* creator's mask.
Spawn(t) == /\ tpc' = [tpc EXCEPT ![t] = "start"]
            /\ tmask' = [tmask EXCEPT ![t] = mask]
            /\ UNCHANGED <<mutex, spurious>>

gt_create_pthread ==
    /\ \/ /\ mpc = "create" /\ created < Len(BusinessTable)
          /\ Spawn(BusinessTable[created + 1]) /\ created' = created + 1
          /\ UNCHANGED <<mpc, fails>>
       \/ /\ Call("create") /\ created = Len(BusinessTable)
          /\ created' = 0 /\ UNCHANGED <<tpc, tmask, mutex, spurious>>
       \/ Fail("create") /\ UNCHANGED threadVars
    /\ UNCHANGED <<phaseVars, ready, mask>>

\* gt_network_phase2_func is gt_create_datanet_pthread.
gt_network_phase2_func ==
    /\ \/ /\ mpc = "network_phase2" /\ created < Len(DatanetTable)
          /\ Spawn(DatanetTable[created + 1]) /\ created' = created + 1
          /\ UNCHANGED <<mpc, phase, cmod, fails>>
       \/ /\ mpc = "network_phase2" /\ created = Len(DatanetTable)
          /\ Advance
          /\ created' = 0 /\ UNCHANGED <<tpc, tmask, mutex, spurious, fails>>
       \/ Fail("network_phase2") /\ UNCHANGED <<phase, cmod, threadVars>>
    /\ UNCHANGED <<table, ready, mask>>

\* The three thread routines begin alike: lock, wait, unlock.  There is no
\* predicate to test: a broadcast that comes first is not seen.
Goto(t, from, to) == /\ mpc # "exit" /\ tpc[t] = from
                     /\ tpc' = [tpc EXCEPT ![t] = to]
                     /\ UNCHANGED <<mpc, phaseVars, ready, mask, created, tmask>>

Acquire(t) == mutex = Nobody /\ mutex' = t /\ UNCHANGED <<spurious, fails>>
Release == mutex' = Nobody /\ UNCHANGED <<spurious, fails>>

Lock(t) == Goto(t, "start", "locked") /\ Acquire(t)
CondWait(t) == Goto(t, "locked", "waiting") /\ Release
Relock(t) == Goto(t, "woken", "relocked") /\ Acquire(t)
\* Mutant: the routine goes on with the mutex locked.
MUT_KeepsMutex(t) == /\ Goto(t, "relocked", IF t \in Datanet THEN "init" ELSE "running")
                     /\ UNCHANGED <<mutex, spurious, fails>>

Unlock(t) == /\ Goto(t, "relocked", IF t \in Datanet THEN "init" ELSE "running")
             /\ Release

\* pthread_cond_wait may return on its own (external).
SpuriousWakeup(t) == /\ Goto(t, "waiting", "woken")
                     /\ spurious < MaxSpurious /\ spurious' = spurious + 1
                     /\ UNCHANGED <<mutex, fails>>

\* A datanet thread initialises its own poller, or exits.
InitPoller(t) == /\ UNCHANGED <<mutex, spurious>>
                 /\ \/ Goto(t, "init", "running") /\ UNCHANGED fails
                    \/ /\ Goto(t, "init", "exited")
                       /\ fails < MaxFail /\ fails' = fails + 1

Thread(t) == Lock(t) \/ CondWait(t) \/ Relock(t) \/ Unlock(t) \/ InitPoller(t)

\* sleep(2), in which the threads are meant to come to pthread_cond_wait.
Sleep == /\ Call("sleep")
         /\ Prompt => \A t \in Threads : tpc[t] \notin {"start", "locked"}
         /\ UNCHANGED <<phaseVars, ready, mask, threadVars>>

\* pthread_cond_broadcast, without the mutex.
gt_wakeup_pthread ==
    /\ \/ /\ Call("wakeup")
          /\ tpc' = [t \in Threads |-> IF tpc[t] = "waiting" THEN "woken" ELSE tpc[t]]
       \/ Fail("wakeup") /\ UNCHANGED tpc
    /\ UNCHANGED <<phaseVars, ready, mask, created, tmask, mutex, spurious>>

MainThread ==
    \/ Prepare \/ gt_signals_init \/ gt_core_init \/ gt_network_init \/ gt_create_pthread
    \/ gt_phase_run \/ gt_core_phase0_func \/ gt_signal_phase1_func
    \/ gt_network_phase1_func \/ gt_network_phase2_func \/ Sleep \/ gt_wakeup_pthread

Next == MainThread \/ \E t \in Threads : Thread(t) \/ SpuriousWakeup(t)

Spec == /\ Init /\ [][Next]_vars
        /\ WF_vars(MainThread)
        /\ \A t \in Threads : WF_vars(Thread(t))

-----------------------------------------------------------------------------
PhaseFns == {"core_phase0", "signal_phase1", "network_phase1", "network_phase2"}

TypeOK ==
    /\ mpc \in DOMAIN After \cup PhaseFns \cup {"do_run", "exit"}
    /\ table \in [Phases -> [Cmods -> PhaseFns \cup {NULL}]]
    /\ phase \in 0..4 /\ cmod \in Cmods
    /\ created \in Nat /\ created <= Len(BusinessTable) + Len(DatanetTable)
    /\ ready \subseteq {"pipefd", "handlers", "core_poller", "signal_event",
                        "network_poller", "listening"}
    /\ mask \in BOOLEAN /\ tmask \in [Threads -> BOOLEAN]
    /\ tpc \in [Threads -> {"none", "start", "locked", "waiting", "woken", "relocked",
                            "init", "running", "exited"}]
    /\ mutex \in Threads \cup {Nobody}
    /\ spurious \in 0..MaxSpurious /\ fails \in 0..MaxFail

\* When the main thread enters gt_do_run, the core poller has the signal pipe
\* in it, and the network poller the listening socket.
MainRunsOnReady ==
    mpc = "do_run" => {"core_poller", "signal_event", "pipefd",
                       "network_poller", "listening"} \subseteq ready

\* The threads are held back until all phases are done: whoever is past its
\* pthread_cond_wait finds gt_phase_run finished, so that gt_network_m polls
\* an initialised poller with the listening socket in it.  A spurious wakeup
\* breaks this, since the routines test no predicate.
HeldBack ==
    spurious = 0 =>
        \A t \in Threads :
            tpc[t] \in {"woken", "relocked", "init", "running", "exited"}
                => mpc \in {"do_run", "exit"}

\* A phase function finds what earlier phases and modules set up, although
\* the table is filled by modules that do not know of each other; it fails
\* for the missing socketpair only.
PhasesInOrder ==
    /\ mpc = "signal_phase1" => "core_poller" \in ready
    /\ mpc = "network_phase2" => {"network_poller", "listening"} \subseteq ready

\* Every thread blocks what the main thread blocks: a signal of
\* g_gt_sig_ignore cannot terminate the process through a worker.
MaskInherited == \A t \in Threads : tpc[t] # "none" => tmask[t] = mask

\* Start-up comes to an end, and gt_wakeup_pthread wakes all threads: unless
\* main gave up, it gets to gt_do_run and each thread to its loop, or to the
\* end that a failed gt_poller_init brings.
AllThreadsRun ==
    <>(\/ mpc = "exit"
       \/ mpc = "do_run" /\ \A t \in Threads : tpc[t] \in {"running", "exited"})
=============================================================================
