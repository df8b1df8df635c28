-------------------------- MODULE GtStartupProofs --------------------------
(***************************************************************************)
(* The start of the system, for any two tables of threads, any number of   *)
(* failing calls and any number of spurious wakeups: what the phases and   *)
(* gt_do_run find ready, which mask the threads inherit, and when they may *)
(* leave pthread_cond_wait.                                                *)
(*                                                                         *)
(* IInv says which registrations lie behind each call of main (EntryInv,   *)
(* RegisteredInv), where in g_gt_phase the loop stands when a phase        *)
(* function runs (PlaceInv), what the entries before that place have set   *)
(* up (ReadyInv), and that no thread exists before gt_create_pthread       *)
(* (AloneInv), when the mask may still change.                             *)
(***************************************************************************)
EXTENDS GtStartup, TLAPS, FiniteSetTheorems

\* The calls before gt_create_pthread, and those before or at a registration.
Alone == {"parse", "daemonize", "log", "signals_init", "core_init", "network_init",
          "pthread_init"}
NoSignal == {"parse", "daemonize", "log", "signals_init", "exit"}
NoCore == NoSignal \cup {"core_init"}
NoNetwork == NoCore \cup {"network_init"}

InPhases == PhaseFns \cup {"phase_run"}
Done == {"sleep", "wakeup", "do_run"}
Things == {"pipefd", "handlers", "core_poller", "signal_event", "network_poller",
           "listening"}

\* An entry of g_gt_phase is NULL or the one function that is registered there.
Proper(tbl) ==
    \A p \in Phases, c \in Cmods :
        /\ tbl[p][c] = "core_phase0" => p = 0 /\ c = 0
        /\ tbl[p][c] = "signal_phase1" => p = 1 /\ c = 2
        /\ tbl[p][c] = "network_phase1" => p = 1 /\ c = 4
        /\ tbl[p][c] = "network_phase2" => p = 2 /\ c = 4

EntryInv == Proper(table)

\* The registrations made so far.
RegisteredInv ==
    /\ mpc \notin NoSignal => table[1][2] = "signal_phase1"
    /\ mpc \notin NoCore => table[0][0] = "core_phase0"
    /\ mpc \notin NoNetwork => /\ table[1][4] = "network_phase1"
                               /\ table[2][4] = "network_phase2"

\* How far gt_phase_run has come in g_gt_phase.
Pos == 6 * phase + cmod

PlaceInv ==
    /\ mpc \in InPhases => phase \in Phases
    /\ mpc \in PhaseFns => table[phase][cmod] = mpc
    /\ mpc \in Alone \cup {"create"} => Pos = 0
    /\ mpc \in Done => Pos = 24

\* What the entries up to a place have set up.
ReadyInv ==
    mpc # "exit" =>
        /\ Pos > 0 => "core_poller" \in ready
        /\ Pos > 8 => {"signal_event", "pipefd"} \subseteq ready
        /\ Pos > 10 => {"network_poller", "listening"} \subseteq ready

\* The loops over the tables of threads.
CreatedInv ==
    /\ mpc = "create" => created <= Len(BusinessTable)
    /\ mpc = "network_phase2" => created <= Len(DatanetTable)
    /\ mpc \notin {"create", "network_phase2", "exit"} => created = 0

\* There are no threads yet.
AloneInv == mpc \in Alone => \A t \in Threads : tpc[t] = "none"

IInv == /\ TypeOK /\ EntryInv /\ RegisteredInv /\ PlaceInv /\ ReadyInv /\ CreatedInv
        /\ AloneInv /\ MaskInherited /\ HeldBack

SafeSpec == Init /\ [][Next]_vars

-----------------------------------------------------------------------------
\* The order of the calls, one by one.
LEMMA AfterIs ==
  /\ After["parse"] = "daemonize" /\ After["daemonize"] = "log"
  /\ After["log"] = "signals_init" /\ After["signals_init"] = "core_init"
  /\ After["core_init"] = "network_init" /\ After["network_init"] = "pthread_init"
  /\ After["pthread_init"] = "create" /\ After["create"] = "phase_run"
  /\ After["phase_run"] = "sleep" /\ After["sleep"] = "wakeup"
  /\ After["wakeup"] = "do_run"
  /\ DOMAIN After = Alone \cup {"create", "phase_run", "sleep", "wakeup"}
  BY DEF After, Alone

\* One more failure is still within the bound.
LEMMA FailType ==
  ASSUME TypeOK, fails < MaxFail, fails' = fails + 1 PROVE fails' \in 0..MaxFail
  BY StartupAssumption DEF TypeOK

\* Main as it starts, alone.
LEMMA InitIInv == Init => IInv
<1> SUFFICES ASSUME Init PROVE IInv
  OBVIOUS
<1>1. TypeOK
  <2>1. mpc \in DOMAIN After
    BY AfterIs DEF Init, Alone
  <2>2. created <= Len(BusinessTable) + Len(DatanetTable)
    BY StartupAssumption DEF Init
  <2>3. table \in [Phases -> [Cmods -> PhaseFns \cup {NULL}]]
    BY DEF Init
  <2>4. 0 \in 0..MaxSpurious /\ 0 \in 0..MaxFail /\ 0 \in 0..4 /\ 0 \in Cmods
    BY StartupAssumption DEF Cmods
  <2> QED BY <2>1, <2>2, <2>3, <2>4 DEF Init, TypeOK
<1>2. EntryInv
  BY DEF Init, EntryInv, Proper, NULL, Phases, Cmods
<1>3. RegisteredInv
  BY DEF Init, RegisteredInv, NoNetwork, NoCore, NoSignal
<1>4. Pos = 0
  BY DEF Init, Pos
<1>5. mpc = "parse"
  BY DEF Init
<1>6. PlaceInv
  BY <1>4, <1>5 DEF PlaceInv, InPhases, PhaseFns, Done
<1>7. ReadyInv
  BY <1>4 DEF ReadyInv
<1>8. CreatedInv /\ AloneInv /\ MaskInherited /\ HeldBack
  BY DEF Init, CreatedInv, AloneInv, MaskInherited, HeldBack
<1> QED BY <1>1, <1>2, <1>3, <1>6, <1>7, <1>8 DEF IInv

-----------------------------------------------------------------------------
(* Registrations.                                                          *)

\* A registration changes one entry, and only if that is NULL.
LEMMA RegisterIs ==
  ASSUME NEW tbl \in [Phases -> [Cmods -> PhaseFns \cup {NULL}]],
         NEW c \in Cmods, NEW p \in Phases, NEW fn \in PhaseFns
  PROVE  /\ gt_phase_register(tbl, c, p, fn) \in [Phases -> [Cmods -> PhaseFns \cup {NULL}]]
         /\ gt_phase_register(tbl, c, p, fn)[p][c] = IF tbl[p][c] = NULL THEN fn ELSE tbl[p][c]
         /\ \A q \in Phases, d \in Cmods :
                (q # p \/ d # c) => gt_phase_register(tbl, c, p, fn)[q][d] = tbl[q][d]
  BY DEF gt_phase_register

\* The four entries of gt_core.c's table.
Slot(p, c, fn) == \/ p = 0 /\ c = 0 /\ fn = "core_phase0"
                  \/ p = 1 /\ c = 2 /\ fn = "signal_phase1"
                  \/ p = 1 /\ c = 4 /\ fn = "network_phase1"
                  \/ p = 2 /\ c = 4 /\ fn = "network_phase2"

\* Registering a function in its slot leaves the table proper, the function
\* in it, and all other entries alone.
LEMMA RegisterProper ==
  ASSUME NEW tbl \in [Phases -> [Cmods -> PhaseFns \cup {NULL}]], Proper(tbl),
         NEW c \in Cmods, NEW p \in Phases, NEW fn \in PhaseFns, Slot(p, c, fn)
  PROVE  /\ gt_phase_register(tbl, c, p, fn) \in [Phases -> [Cmods -> PhaseFns \cup {NULL}]]
         /\ Proper(gt_phase_register(tbl, c, p, fn))
         /\ gt_phase_register(tbl, c, p, fn)[p][c] = fn
         /\ \A q \in Phases, d \in Cmods :
                (q # p \/ d # c) => gt_phase_register(tbl, c, p, fn)[q][d] = tbl[q][d]
<1> DEFINE new == gt_phase_register(tbl, c, p, fn)
<1>1. /\ new \in [Phases -> [Cmods -> PhaseFns \cup {NULL}]]
      /\ new[p][c] = IF tbl[p][c] = NULL THEN fn ELSE tbl[p][c]
      /\ \A q \in Phases, d \in Cmods : (q # p \/ d # c) => new[q][d] = tbl[q][d]
  BY RegisterIs
<1> HIDE DEF new
<1>2. tbl[p][c] \in PhaseFns \cup {NULL}
  OBVIOUS
<1>3. tbl[p][c] = NULL \/ tbl[p][c] = fn
  BY <1>2 DEF Proper, Slot, PhaseFns
<1>4. new[p][c] = fn
  BY <1>1, <1>3
<1>5. Proper(new)
  <2> SUFFICES ASSUME NEW q \in Phases, NEW d \in Cmods
               PROVE  /\ new[q][d] = "core_phase0" => q = 0 /\ d = 0
                      /\ new[q][d] = "signal_phase1" => q = 1 /\ d = 2
                      /\ new[q][d] = "network_phase1" => q = 1 /\ d = 4
                      /\ new[q][d] = "network_phase2" => q = 2 /\ d = 4
    BY DEF Proper
  <2>1. CASE q = p /\ d = c
    BY <2>1, <1>4 DEF Slot
  <2>2. CASE q # p \/ d # c
    BY <2>2, <1>1 DEF Proper
  <2> QED BY <2>1, <2>2
<1> QED BY <1>1, <1>4, <1>5 DEF new

\* The four slots are in the table.
LEMMA SlotTypes ==
  /\ Slot(0, GT_CMOD_CORE, "core_phase0") /\ Slot(1, GT_CMOD_SIGNAL, "signal_phase1")
  /\ Slot(1, GT_CMOD_NETWORK, "network_phase1") /\ Slot(2, GT_CMOD_NETWORK, "network_phase2")
  /\ {GT_CMOD_CORE, GT_CMOD_SIGNAL, GT_CMOD_NETWORK} \subseteq Cmods
  /\ 0 \in Phases /\ 1 \in Phases /\ 2 \in Phases
  /\ {"core_phase0", "signal_phase1", "network_phase1", "network_phase2"} \subseteq PhaseFns
  BY DEF Slot, GT_CMOD_CORE, GT_CMOD_SIGNAL, GT_CMOD_NETWORK, Cmods, Phases, PhaseFns

-----------------------------------------------------------------------------
(* Steps of the main thread.                                               *)

\* Main gives up.
LEMMA ExitIInv ==
  ASSUME IInv, mpc' = "exit", fails' \in 0..MaxFail,
         table' \in [Phases -> [Cmods -> PhaseFns \cup {NULL}]], Proper(table'),
         UNCHANGED <<phase, cmod, ready, mask, threadVars>>
  PROVE  IInv'
<1> USE DEF threadVars
<1>1. TypeOK'
  BY DEF IInv, TypeOK
<1>2. EntryInv' /\ RegisteredInv'
  BY DEF EntryInv, RegisteredInv, NoNetwork, NoCore, NoSignal
<1>3. PlaceInv' /\ ReadyInv' /\ CreatedInv' /\ AloneInv'
  BY DEF PlaceInv, ReadyInv, CreatedInv, AloneInv, InPhases, PhaseFns, Alone, Done
<1>4. MaskInherited' /\ HeldBack'
  BY DEF IInv, MaskInherited, HeldBack
<1> QED BY <1>1, <1>2, <1>3, <1>4 DEF IInv

\* The same, for a call that leaves the table alone.
LEMMA FailIInv ==
  ASSUME IInv, mpc' = "exit", fails < MaxFail, fails' = fails + 1,
         UNCHANGED <<phaseVars, ready, mask, threadVars>>
  PROVE  IInv'
<1>1. fails' \in 0..MaxFail
  BY FailType DEF IInv
<1>2. table' = table /\ UNCHANGED <<phase, cmod, ready, mask, threadVars>>
  BY DEF phaseVars
<1>3. table \in [Phases -> [Cmods -> PhaseFns \cup {NULL}]] /\ Proper(table)
  BY DEF IInv, TypeOK, EntryInv
<1> QED BY <1>1, <1>2, <1>3, ExitIInv

\* A call before there are threads: what it leaves behind follows from the
\* table, the mask and the failures alone.
LEMMA AloneIInv ==
  ASSUME IInv, mpc \in Alone, mpc' \in Alone \cup {"create"}, fails' \in 0..MaxFail,
         table' \in [Phases -> [Cmods -> PhaseFns \cup {NULL}]], Proper(table'),
         RegisteredInv', ready' \subseteq Things, mask' \in BOOLEAN,
         UNCHANGED <<phase, cmod, threadVars>>
  PROVE  IInv'
<1> USE DEF threadVars
<1>1. mpc \notin {"create", "network_phase2", "exit"} /\ mpc' # "exit" /\ mpc' # "network_phase2"
      /\ mpc' \notin InPhases /\ mpc' \notin PhaseFns /\ mpc' \notin Done
  BY DEF Alone, InPhases, PhaseFns, Done
<1>2. TypeOK'
  <2>1. mpc' \in DOMAIN After
    BY AfterIs
  <2> QED BY <2>1 DEF IInv, TypeOK, Things
<1>3. EntryInv'
  BY DEF EntryInv
<1>4. Pos = 0 /\ Pos' = Pos
  BY DEF IInv, PlaceInv, Pos
<1>5. PlaceInv'
  BY <1>1, <1>4 DEF PlaceInv
<1>6. ReadyInv'
  BY <1>4 DEF ReadyInv
<1>7. created = 0
  BY <1>1 DEF IInv, CreatedInv
<1>8. CreatedInv'
  BY <1>1, <1>7, StartupAssumption DEF CreatedInv
<1>9. \A t \in Threads : tpc[t] = "none" /\ tpc'[t] = "none"
  BY DEF IInv, AloneInv
<1>10. AloneInv' /\ MaskInherited' /\ HeldBack'
  BY <1>9 DEF AloneInv, MaskInherited, HeldBack
<1> QED BY <1>2, <1>3, <1>5, <1>6, <1>8, <1>10 DEF IInv

\* gt_parse_parameters, gt_daemonize_process, gt_log_init, gt_create_pthread's
\* mutex and condition variable.
LEMMA PrepareIInv == ASSUME IInv, Prepare PROVE IInv'
<1>1. PICK call \in {"parse", "daemonize", "log", "pthread_init"} : Call(call) \/ Fail(call)
  BY DEF Prepare
<1>2. UNCHANGED <<phaseVars, ready, mask, threadVars>>
  BY DEF Prepare
<1>3. CASE Fail(call)
  BY <1>2, <1>3, FailIInv DEF Fail
<1>4. CASE Call(call)
  <2>1. mpc = call /\ mpc' = After[call] /\ UNCHANGED fails
    BY <1>4 DEF Call
  <2>2. mpc \in Alone /\ mpc' \in Alone \cup {"create"}
    BY <2>1, AfterIs DEF Alone
  <2>3. RegisteredInv'
    <3>1. (mpc' \notin NoSignal => mpc \notin NoSignal) /\ (mpc' \notin NoCore => mpc \notin NoCore)
          /\ (mpc' \notin NoNetwork => mpc \notin NoNetwork)
      BY <2>1, AfterIs DEF NoSignal, NoCore, NoNetwork
    <3> QED BY <1>2, <3>1 DEF IInv, RegisteredInv, phaseVars
  <2>4. /\ table' \in [Phases -> [Cmods -> PhaseFns \cup {NULL}]] /\ Proper(table')
        /\ ready' \subseteq Things /\ mask' \in BOOLEAN /\ fails' \in 0..MaxFail
        /\ UNCHANGED <<phase, cmod, threadVars>>
    BY <1>2, <2>1 DEF IInv, TypeOK, EntryInv, phaseVars, Things
  <2> QED BY <2>2, <2>3, <2>4, AloneIInv
<1> QED BY <1>1, <1>3, <1>4

\* gt_signals_init, with any of its three results missing.
LEMMA SignalsInitIInv == ASSUME IInv, gt_signals_init PROVE IInv'
<1>1. PICK broken \in SUBSET {"pipefd", "handlers", "mask"} :
           /\ fails + Cardinality(broken) <= MaxFail
           /\ fails' = fails + Cardinality(broken)
           /\ ready' = ready \cup ({"pipefd", "handlers"} \ broken)
           /\ mask' = ("mask" \notin broken)
  BY DEF gt_signals_init
<1>2. /\ mpc = "signals_init" /\ mpc' = "core_init"
      /\ table' = gt_phase_register(table, GT_CMOD_SIGNAL, 1, "signal_phase1")
      /\ UNCHANGED <<phase, cmod, threadVars>>
  BY AfterIs DEF gt_signals_init
<1>3. Cardinality(broken) \in Nat
  <2>1. IsFiniteSet({"pipefd", "handlers", "mask"})
    <3>1. IsFiniteSet({"pipefd"})
      BY FS_Singleton
    <3>2. IsFiniteSet({"pipefd"} \cup {"handlers"})
      BY <3>1, FS_AddElement
    <3>3. IsFiniteSet(({"pipefd"} \cup {"handlers"}) \cup {"mask"})
      BY <3>2, FS_AddElement
    <3>4. {"pipefd", "handlers", "mask"} = ({"pipefd"} \cup {"handlers"}) \cup {"mask"}
      OBVIOUS
    <3> QED BY <3>3, <3>4
  <2>2. IsFiniteSet(broken)
    BY <2>1, FS_Subset
  <2> QED BY <2>2, FS_CardinalityType
<1>4. fails' \in 0..MaxFail
  BY <1>1, <1>3, StartupAssumption DEF IInv, TypeOK
<1>5. ready' \subseteq Things /\ mask' \in BOOLEAN
  BY <1>1 DEF IInv, TypeOK, Things
<1>6. /\ table' \in [Phases -> [Cmods -> PhaseFns \cup {NULL}]] /\ Proper(table')
      /\ table'[1][GT_CMOD_SIGNAL] = "signal_phase1"
  BY <1>2, SlotTypes, RegisterProper DEF IInv, TypeOK, EntryInv
<1>7. RegisteredInv'
  BY <1>2, <1>6 DEF RegisteredInv, NoSignal, NoCore, NoNetwork, GT_CMOD_SIGNAL
<1>8. mpc \in Alone /\ mpc' \in Alone
  BY <1>2 DEF Alone
<1> QED BY <1>2, <1>4, <1>5, <1>6, <1>7, <1>8, AloneIInv

\* gt_core_init registers phase 0.
LEMMA CoreInitIInv == ASSUME IInv, gt_core_init PROVE IInv'
<1>1. /\ mpc = "core_init" /\ (mpc' = "network_init" \/ mpc' = "exit")
      /\ table' = gt_phase_register(table, GT_CMOD_CORE, 0, "core_phase0")
      /\ UNCHANGED <<phase, cmod, ready, mask, threadVars>> /\ UNCHANGED fails
  BY AfterIs DEF gt_core_init, Register
<1>2. /\ table' \in [Phases -> [Cmods -> PhaseFns \cup {NULL}]] /\ Proper(table')
      /\ table'[0][GT_CMOD_CORE] = "core_phase0"
      /\ \A q \in Phases, d \in Cmods :
             (q # 0 \/ d # GT_CMOD_CORE) => table'[q][d] = table[q][d]
  BY <1>1, SlotTypes, RegisterProper DEF IInv, TypeOK, EntryInv
<1>3. fails' \in 0..MaxFail /\ ready' \subseteq Things /\ mask' \in BOOLEAN
  BY <1>1 DEF IInv, TypeOK, Things
<1>4. CASE mpc' = "exit"
  BY <1>1, <1>2, <1>3, <1>4, ExitIInv
<1>5. CASE mpc' = "network_init"
  <2>1. table[1][2] = "signal_phase1"
    <3>1. mpc \notin NoSignal
      BY <1>1 DEF NoSignal
    <3> QED BY <3>1 DEF IInv, RegisteredInv
  <2>2. table'[1][2] = "signal_phase1" /\ table'[0][0] = "core_phase0"
    BY <1>2, <2>1 DEF Phases, Cmods, GT_CMOD_CORE
  <2>3. RegisteredInv'
    BY <1>5, <2>2 DEF RegisteredInv, NoNetwork
  <2>4. mpc \in Alone /\ mpc' \in Alone
    BY <1>1, <1>5 DEF Alone
  <2> QED BY <1>1, <1>2, <1>3, <2>3, <2>4, AloneIInv
<1> QED BY <1>1, <1>4, <1>5

\* gt_network_init registers phases 1 and 2.
LEMMA NetworkInitIInv == ASSUME IInv, gt_network_init PROVE IInv'
<1> DEFINE one == gt_phase_register(table, GT_CMOD_NETWORK, 1, "network_phase1")
<1>1. /\ mpc = "network_init" /\ (mpc' = "pthread_init" \/ mpc' = "exit")
      /\ table' = gt_phase_register(one, GT_CMOD_NETWORK, 2, "network_phase2")
      /\ UNCHANGED <<phase, cmod, ready, mask, threadVars>> /\ UNCHANGED fails
  BY AfterIs DEF gt_network_init, Register
<1>2. /\ one \in [Phases -> [Cmods -> PhaseFns \cup {NULL}]] /\ Proper(one)
      /\ one[1][GT_CMOD_NETWORK] = "network_phase1"
      /\ \A q \in Phases, d \in Cmods :
             (q # 1 \/ d # GT_CMOD_NETWORK) => one[q][d] = table[q][d]
  BY SlotTypes, RegisterProper DEF IInv, TypeOK, EntryInv
<1> HIDE DEF one
<1>3. /\ table' \in [Phases -> [Cmods -> PhaseFns \cup {NULL}]] /\ Proper(table')
      /\ table'[2][GT_CMOD_NETWORK] = "network_phase2"
      /\ \A q \in Phases, d \in Cmods :
             (q # 2 \/ d # GT_CMOD_NETWORK) => table'[q][d] = one[q][d]
  BY <1>1, <1>2, SlotTypes, RegisterProper
<1>4. fails' \in 0..MaxFail /\ ready' \subseteq Things /\ mask' \in BOOLEAN
  BY <1>1 DEF IInv, TypeOK, Things
<1>5. CASE mpc' = "exit"
  BY <1>1, <1>3, <1>4, <1>5, ExitIInv
<1>6. CASE mpc' = "pthread_init"
  <2>1. table[1][2] = "signal_phase1" /\ table[0][0] = "core_phase0"
    <3>1. mpc \notin NoSignal /\ mpc \notin NoCore
      BY <1>1 DEF NoSignal, NoCore
    <3> QED BY <3>1 DEF IInv, RegisteredInv
  <2>2. one[1][2] = "signal_phase1" /\ one[0][0] = "core_phase0" /\ one[1][4] = "network_phase1"
    BY <1>2, <2>1 DEF Phases, Cmods, GT_CMOD_NETWORK
  <2>3. /\ table'[1][2] = "signal_phase1" /\ table'[0][0] = "core_phase0"
        /\ table'[1][4] = "network_phase1" /\ table'[2][4] = "network_phase2"
    BY <1>3, <2>2 DEF Phases, Cmods, GT_CMOD_NETWORK
  <2>4. RegisteredInv'
    BY <2>3 DEF RegisteredInv
  <2>5. mpc \in Alone /\ mpc' \in Alone
    BY <1>1, <1>6 DEF Alone
  <2> QED BY <1>1, <1>3, <1>4, <2>4, <2>5, AloneIInv
<1> QED BY <1>1, <1>5, <1>6

-----------------------------------------------------------------------------
(* gt_phase_run and the phase functions.                                    *)

\* The nested loops of gt_phase_run go through the table entry by entry.
LEMMA AdvanceIs ==
  ASSUME phase \in Phases, cmod \in Cmods, Advance
  PROVE  /\ phase' \in 0..4 /\ cmod' \in Cmods /\ Pos' = Pos + 1 /\ Pos \in Nat
         /\ mpc' = "phase_run" \/ mpc' = "sleep"
         /\ mpc' = "phase_run" => phase' \in Phases
         /\ mpc' = "sleep" => Pos' = 24
<1> USE DEF Phases, Cmods
<1>1. CASE cmod = 5
  <2>1. cmod' = 0 /\ phase' = phase + 1
    BY <1>1 DEF Advance
  <2>2. mpc' = IF phase = 3 THEN "sleep" ELSE "phase_run"
    BY <1>1, AfterIs DEF Advance
  <2> QED BY <1>1, <2>1, <2>2 DEF Pos
<1>2. CASE cmod # 5
  <2>1. cmod' = cmod + 1 /\ phase' = phase
    BY <1>2 DEF Advance
  <2>2. mpc' = "phase_run"
    BY <1>2 DEF Advance
  <2> QED BY <1>2, <2>1, <2>2 DEF Pos
<1> QED BY <1>1, <1>2

\* Threads that are left alone between two calls after gt_create_pthread.
LEMMA RestIInv ==
  ASSUME IInv, mpc \notin {"do_run", "exit"}, mpc' \notin Alone,
         UNCHANGED <<mask, tmask, tpc, spurious>>
  PROVE  AloneInv' /\ MaskInherited' /\ HeldBack'
  BY DEF IInv, AloneInv, MaskInherited, HeldBack

\* The loop goes on from an entry that leaves the right things set up.
LEMMA AdvanceIInv ==
  ASSUME IInv, mpc \in InPhases, Advance, ready \subseteq ready', ready' \subseteq Things,
         created' = 0, Pos = 0 => "core_poller" \in ready',
         Pos = 8 => {"signal_event", "pipefd"} \subseteq ready',
         Pos = 10 => {"network_poller", "listening"} \subseteq ready',
         UNCHANGED <<table, mask, tmask, tpc, mutex, spurious, fails>>
  PROVE  IInv'
<1>1. phase \in Phases /\ cmod \in Cmods
  BY DEF IInv, PlaceInv, TypeOK
<1>2. /\ phase' \in 0..4 /\ cmod' \in Cmods /\ Pos' = Pos + 1 /\ Pos \in Nat
      /\ mpc' = "phase_run" \/ mpc' = "sleep"
      /\ mpc' = "phase_run" => phase' \in Phases
      /\ mpc' = "sleep" => Pos' = 24
  BY <1>1, AdvanceIs
<1>3. TypeOK'
  <2>1. mpc' \in DOMAIN After
    BY <1>2, AfterIs
  <2>2. created' \in Nat /\ created' <= Len(BusinessTable) + Len(DatanetTable)
    BY StartupAssumption
  <2> QED BY <1>2, <2>1, <2>2 DEF IInv, TypeOK, Things
<1>4. EntryInv'
  BY DEF IInv, EntryInv
<1>5. mpc \notin NoSignal /\ mpc \notin NoCore /\ mpc \notin NoNetwork
      /\ mpc \notin {"do_run", "exit"}
  BY DEF InPhases, PhaseFns, NoSignal, NoCore, NoNetwork
<1>6. RegisteredInv'
  BY <1>5 DEF IInv, RegisteredInv
<1>7. mpc' \notin PhaseFns /\ mpc' \notin Alone /\ mpc' \notin {"create", "network_phase2", "exit"}
  BY <1>2 DEF PhaseFns, Alone
<1>8. PlaceInv'
  <2>1. (mpc' \in InPhases => mpc' = "phase_run") /\ (mpc' \in Done => mpc' = "sleep")
    BY <1>2, <1>7 DEF InPhases, Done
  <2> QED BY <1>2, <1>7, <2>1 DEF PlaceInv
<1>9. ReadyInv'
  <2>1. /\ Pos > 0 => "core_poller" \in ready
        /\ Pos > 8 => {"signal_event", "pipefd"} \subseteq ready
        /\ Pos > 10 => {"network_poller", "listening"} \subseteq ready
    BY <1>5 DEF IInv, ReadyInv
  <2>2. (Pos' > 0 => Pos > 0 \/ Pos = 0) /\ (Pos' > 8 => Pos > 8 \/ Pos = 8)
        /\ (Pos' > 10 => Pos > 10 \/ Pos = 10)
    BY <1>2
  <2>3. /\ Pos' > 0 => "core_poller" \in ready'
        /\ Pos' > 8 => {"signal_event", "pipefd"} \subseteq ready'
        /\ Pos' > 10 => {"network_poller", "listening"} \subseteq ready'
    BY <2>1, <2>2
  <2> QED BY <2>3 DEF ReadyInv
<1>10. CreatedInv'
  BY <1>7 DEF CreatedInv
<1>11. AloneInv' /\ MaskInherited' /\ HeldBack'
  BY <1>5, <1>7, RestIInv
<1> QED BY <1>3, <1>4, <1>6, <1>8, <1>9, <1>10, <1>11 DEF IInv

\* Which function stands at a place.
LEMMA PlaceOf ==
  ASSUME IInv
  PROVE  /\ mpc = "core_phase0" => Pos = 0
         /\ mpc = "signal_phase1" => Pos = 8
         /\ mpc = "network_phase1" => Pos = 10
         /\ mpc = "network_phase2" => Pos = 16
<1>1. mpc \in PhaseFns => phase \in Phases /\ cmod \in Cmods /\ table[phase][cmod] = mpc
  BY DEF IInv, TypeOK, PlaceInv, InPhases
<1>2. mpc \in PhaseFns =>
        /\ mpc = "core_phase0" => phase = 0 /\ cmod = 0
        /\ mpc = "signal_phase1" => phase = 1 /\ cmod = 2
        /\ mpc = "network_phase1" => phase = 1 /\ cmod = 4
        /\ mpc = "network_phase2" => phase = 2 /\ cmod = 4
  BY <1>1 DEF IInv, EntryInv, Proper
<1>3. \A fn \in {"core_phase0", "signal_phase1", "network_phase1", "network_phase2"} :
          fn \in PhaseFns
  BY DEF PhaseFns
<1> QED BY <1>2, <1>3 DEF Pos

\* A place with no function in it is none of those that set something up.
LEMMA FreePlace ==
  ASSUME IInv, mpc = "phase_run", Free(phase, cmod)
  PROVE  Pos # 0 /\ Pos # 8 /\ Pos # 10
<1>1. phase \in Phases /\ cmod \in Cmods
  BY DEF IInv, TypeOK, PlaceInv, InPhases
<1>2. mpc \notin NoSignal /\ mpc \notin NoCore /\ mpc \notin NoNetwork
  BY DEF NoSignal, NoCore, NoNetwork
<1>3. table[1][2] # NULL /\ table[0][0] # NULL /\ table[1][4] # NULL
  BY <1>2 DEF IInv, RegisteredInv, NULL
<1>4. /\ Pos = 0 => phase = 0 /\ cmod = 0
      /\ Pos = 8 => phase = 1 /\ cmod = 2
      /\ Pos = 10 => phase = 1 /\ cmod = 4
  BY <1>1 DEF Pos, Phases, Cmods
<1> QED BY <1>3, <1>4 DEF Free

\* The loop of gt_phase_run skips an entry or calls it.
LEMMA PhaseRunIInv == ASSUME IInv, gt_phase_run PROVE IInv'
<1>1. mpc = "phase_run" /\ UNCHANGED <<table, ready, mask, threadVars, fails>>
  BY DEF gt_phase_run
<1>2. UNCHANGED <<table, ready, mask, created, tmask, tpc, mutex, spurious, fails>>
  BY <1>1 DEF threadVars
<1>3. mpc \in InPhases /\ created = 0 /\ ready \subseteq Things
  BY <1>1 DEF InPhases, IInv, CreatedInv, TypeOK, Things
<1>4. CASE Free(phase, cmod)
  <2>1. Advance
    BY <1>4 DEF gt_phase_run
  <2>2. Pos # 0 /\ Pos # 8 /\ Pos # 10
    BY <1>1, <1>4, FreePlace
  <2>3. ready \subseteq ready' /\ ready' \subseteq Things /\ created' = 0
    BY <1>2, <1>3
  <2>4. UNCHANGED <<table, mask, tmask, tpc, mutex, spurious, fails>>
    BY <1>2
  <2> QED BY <1>3, <2>1, <2>2, <2>3, <2>4, AdvanceIInv
<1>5. CASE ~Free(phase, cmod)
  <2>1. mpc' = table[phase][cmod] /\ UNCHANGED <<phase, cmod>>
    BY <1>5 DEF gt_phase_run
  <2>2. phase \in Phases /\ cmod \in Cmods
    BY <1>3 DEF IInv, TypeOK, PlaceInv
  <2>3. mpc' \in PhaseFns
    BY <1>5, <2>1, <2>2 DEF Free, IInv, TypeOK
  <2>4. mpc' \notin Alone \cup {"create"} /\ mpc' \notin Done /\ mpc' # "exit" /\ mpc' \notin NoSignal
        /\ mpc \notin NoSignal /\ mpc \notin NoCore /\ mpc \notin NoNetwork
        /\ mpc \notin {"do_run", "exit"}
    BY <1>1, <2>3 DEF PhaseFns, Alone, Done, NoSignal, NoCore, NoNetwork
  <2>5. TypeOK'
    BY <1>2, <2>1, <2>3 DEF IInv, TypeOK
  <2>6. EntryInv' /\ RegisteredInv'
    BY <1>2, <2>4 DEF IInv, EntryInv, RegisteredInv
  <2>7. Pos' = Pos
    BY <2>1 DEF Pos
  <2>8. PlaceInv'
    BY <1>2, <2>1, <2>2, <2>4 DEF PlaceInv
  <2>9. ReadyInv'
    BY <1>2, <2>4, <2>7 DEF IInv, ReadyInv
  <2>10. CreatedInv'
    BY <1>2, <1>3, <2>4, StartupAssumption DEF CreatedInv
  <2>11. AloneInv' /\ MaskInherited' /\ HeldBack'
    BY <1>2, <2>4, RestIInv
  <2> QED BY <2>5, <2>6, <2>8, <2>9, <2>10, <2>11 DEF IInv
<1> QED BY <1>4, <1>5

\* A phase function sets up what its place calls for, or main gives up.
LEMMA PhaseIInv ==
  ASSUME IInv, NEW fn \in PhaseFns \ {"network_phase2"}, NEW inputs, NEW output,
         Phase(fn, inputs, output), output \subseteq Things,
         fn = "core_phase0" => "core_poller" \in output,
         fn = "signal_phase1" => "signal_event" \in output /\ "pipefd" \in inputs,
         fn = "network_phase1" => {"network_poller", "listening"} \subseteq output
  PROVE  IInv'
<1>1. mpc = fn /\ UNCHANGED <<table, mask, threadVars>>
  BY DEF Phase, Fail
<1>2. UNCHANGED <<table, mask, created, tmask, tpc, mutex, spurious>>
  BY <1>1 DEF threadVars
<1>3. table \in [Phases -> [Cmods -> PhaseFns \cup {NULL}]] /\ Proper(table)
      /\ ready \subseteq Things
  BY DEF IInv, TypeOK, EntryInv, Things
<1>4. CASE inputs \subseteq ready /\ Advance /\ ready' = ready \cup output /\ UNCHANGED fails
  <2>1. mpc \in InPhases /\ mpc \notin {"create", "network_phase2", "exit"}
    BY <1>1 DEF InPhases, PhaseFns
  <2>2. created' = 0
    BY <1>2, <2>1 DEF IInv, CreatedInv
  <2>3. ready \subseteq ready' /\ ready' \subseteq Things
    BY <1>3, <1>4
  <2>4. (mpc = "core_phase0" \/ mpc = "signal_phase1" \/ mpc = "network_phase1")
    BY <1>1 DEF PhaseFns
  <2>5. /\ Pos = 0 => mpc = "core_phase0"
        /\ Pos = 8 => mpc = "signal_phase1"
        /\ Pos = 10 => mpc = "network_phase1"
    BY <2>4, PlaceOf
  <2>6. /\ Pos = 0 => "core_poller" \in ready'
        /\ Pos = 8 => {"signal_event", "pipefd"} \subseteq ready'
        /\ Pos = 10 => {"network_poller", "listening"} \subseteq ready'
    BY <1>1, <1>4, <2>5
  <2>7. UNCHANGED <<table, mask, tmask, tpc, mutex, spurious, fails>>
    BY <1>2, <1>4
  <2> QED BY <1>4, <2>1, <2>2, <2>3, <2>6, <2>7, AdvanceIInv
<1>5. CASE Fail(fn) /\ UNCHANGED <<phase, cmod, ready>>
  BY <1>1, <1>5, FailIInv DEF Fail, phaseVars
<1>6. CASE mpc' = "exit" /\ UNCHANGED <<phase, cmod, ready, fails>>
  <2>1. fails' \in 0..MaxFail
    BY <1>6 DEF IInv, TypeOK
  <2> QED BY <1>1, <1>3, <1>6, <2>1, ExitIInv
<1> QED BY <1>4, <1>5, <1>6 DEF Phase

\* The three phase functions that set something up.
LEMMA PhaseFunctionsIInv ==
  ASSUME IInv, gt_core_phase0_func \/ gt_signal_phase1_func \/ gt_network_phase1_func
  PROVE  IInv'
<1> USE DEF PhaseFns, Things
<1>1. CASE gt_core_phase0_func
  BY <1>1, PhaseIInv DEF gt_core_phase0_func
<1>2. CASE gt_signal_phase1_func
  BY <1>2, PhaseIInv DEF gt_signal_phase1_func
<1>3. CASE gt_network_phase1_func
  BY <1>3, PhaseIInv DEF gt_network_phase1_func
<1> QED BY <1>1, <1>2, <1>3

-----------------------------------------------------------------------------
(* Threads.                                                                *)

\* The entries of the two tables are threads.
LEMMA EntriesAreThreads ==
  /\ Len(BusinessTable) \in Nat /\ Len(DatanetTable) \in Nat
  /\ \A n \in Nat : n < Len(BusinessTable) => BusinessTable[n + 1] \in Threads
  /\ \A n \in Nat : n < Len(DatanetTable) => DatanetTable[n + 1] \in Threads
<1>1. /\ Len(BusinessTable) \in Nat /\ Len(DatanetTable) \in Nat
      /\ DOMAIN BusinessTable = 1..Len(BusinessTable)
      /\ DOMAIN DatanetTable = 1..Len(DatanetTable)
  BY StartupAssumption
<1>2. /\ \A n \in Nat : n < Len(BusinessTable) => n + 1 \in DOMAIN BusinessTable
      /\ \A n \in Nat : n < Len(DatanetTable) => n + 1 \in DOMAIN DatanetTable
  BY <1>1
<1> QED BY <1>1, <1>2 DEF Threads, Datanet, Entries

\* pthread_create: the new thread has the mask of the main thread, and has
\* not come to pthread_cond_wait.
LEMMA SpawnIInv ==
  ASSUME IInv, mpc = "create" \/ mpc = "network_phase2", NEW t \in Threads, Spawn(t),
         created' = created + 1,
         created + 1 <= IF mpc = "create" THEN Len(BusinessTable) ELSE Len(DatanetTable),
         UNCHANGED <<mpc, phase, cmod, table, ready, mask, fails>>
  PROVE  IInv'
<1>1. /\ tpc' = [tpc EXCEPT ![t] = "start"] /\ tmask' = [tmask EXCEPT ![t] = mask]
      /\ UNCHANGED <<mutex, spurious>>
  BY DEF Spawn
<1>2. TypeOK'
  <2>1. created' \in Nat /\ created' <= Len(BusinessTable) + Len(DatanetTable)
    BY EntriesAreThreads DEF IInv, TypeOK
  <2> QED BY <1>1, <2>1 DEF IInv, TypeOK
<1>3. EntryInv' /\ RegisteredInv'
  BY DEF IInv, EntryInv, RegisteredInv
<1>4. PlaceInv' /\ ReadyInv'
  BY DEF IInv, PlaceInv, ReadyInv, Pos
<1>5. CreatedInv'
  BY DEF CreatedInv
<1>6. AloneInv'
  BY DEF AloneInv, Alone
<1>7. MaskInherited'
  BY <1>1 DEF IInv, TypeOK, MaskInherited
<1>8. HeldBack'
  BY <1>1 DEF IInv, TypeOK, HeldBack
<1> QED BY <1>2, <1>3, <1>4, <1>5, <1>6, <1>7, <1>8 DEF IInv

\* gt_create_pthread.
LEMMA CreateIInv == ASSUME IInv, gt_create_pthread PROVE IInv'
<1>1. UNCHANGED <<phaseVars, ready, mask>>
  BY DEF gt_create_pthread
<1>2. CASE /\ mpc = "create" /\ created < Len(BusinessTable)
           /\ Spawn(BusinessTable[created + 1]) /\ created' = created + 1
           /\ UNCHANGED <<mpc, fails>>
  <2>1. created \in Nat
    BY DEF IInv, TypeOK
  <2>2. BusinessTable[created + 1] \in Threads /\ created + 1 <= Len(BusinessTable)
    BY <1>2, <2>1, EntriesAreThreads
  <2> QED BY <1>1, <1>2, <2>2, SpawnIInv DEF phaseVars
<1>3. CASE /\ Call("create") /\ created' = 0 /\ UNCHANGED <<tpc, tmask, mutex, spurious>>
  <2>1. mpc = "create" /\ mpc' = "phase_run" /\ UNCHANGED fails
    BY <1>3, AfterIs DEF Call
  <2>2. Pos = 0 /\ phase = 0 /\ UNCHANGED <<phase, cmod, table, ready, mask>>
    <3>1. Pos = 0 /\ phase \in 0..4 /\ cmod \in Cmods
      BY <2>1 DEF IInv, PlaceInv, TypeOK
    <3>2. phase = 0
      BY <3>1 DEF Pos, Cmods
    <3> QED BY <1>1, <3>1, <3>2 DEF phaseVars
  <2>3. TypeOK'
    <3>1. created' \in Nat /\ created' <= Len(BusinessTable) + Len(DatanetTable)
      BY <1>3, EntriesAreThreads
    <3>2. mpc' \in DOMAIN After
      BY <2>1, AfterIs
    <3> QED BY <1>3, <2>1, <2>2, <3>1, <3>2 DEF IInv, TypeOK
  <2>4. mpc \notin NoSignal /\ mpc \notin NoCore /\ mpc \notin NoNetwork
        /\ mpc \notin {"do_run", "exit"} /\ mpc' \notin Alone
        /\ mpc' \notin PhaseFns /\ mpc' \notin Done /\ mpc' # "create"
    BY <2>1 DEF NoSignal, NoCore, NoNetwork, Alone, PhaseFns, Done
  <2>5. EntryInv' /\ RegisteredInv'
    BY <2>2, <2>4 DEF IInv, EntryInv, RegisteredInv
  <2>6. PlaceInv' /\ ReadyInv'
    <3>1. Pos' = 0 /\ phase' \in Phases
      BY <2>2 DEF Pos, Phases
    <3>2. PlaceInv'
      BY <2>4, <3>1 DEF PlaceInv
    <3> QED BY <3>1, <3>2 DEF ReadyInv
  <2>7. CreatedInv'
    BY <1>3, <2>1 DEF CreatedInv
  <2>8. AloneInv' /\ MaskInherited' /\ HeldBack'
    BY <1>3, <2>2, <2>4, RestIInv
  <2> QED BY <2>3, <2>5, <2>6, <2>7, <2>8 DEF IInv
<1>4. CASE Fail("create") /\ UNCHANGED threadVars
  BY <1>1, <1>4, FailIInv DEF Fail
<1> QED BY <1>2, <1>3, <1>4 DEF gt_create_pthread

\* gt_create_datanet_pthread, from the table of phases.
LEMMA Phase2IInv == ASSUME IInv, gt_network_phase2_func PROVE IInv'
<1>1. UNCHANGED <<table, ready, mask>>
  BY DEF gt_network_phase2_func
<1>2. CASE /\ mpc = "network_phase2" /\ created < Len(DatanetTable)
           /\ Spawn(DatanetTable[created + 1]) /\ created' = created + 1
           /\ UNCHANGED <<mpc, phase, cmod, fails>>
  <2>1. created \in Nat
    BY DEF IInv, TypeOK
  <2>2. DatanetTable[created + 1] \in Threads /\ created + 1 <= Len(DatanetTable)
    BY <1>2, <2>1, EntriesAreThreads
  <2> QED BY <1>1, <1>2, <2>2, SpawnIInv
<1>3. CASE /\ mpc = "network_phase2" /\ Advance
           /\ created' = 0 /\ UNCHANGED <<tpc, tmask, mutex, spurious, fails>>
  <2>1. mpc \in InPhases /\ ready \subseteq Things
    BY <1>3 DEF InPhases, PhaseFns, IInv, TypeOK, Things
  <2>2. Pos = 16
    BY <1>3, PlaceOf
  <2>3. ready \subseteq ready' /\ ready' \subseteq Things
    BY <1>1, <2>1
  <2>4. Pos # 0 /\ Pos # 8 /\ Pos # 10
    BY <2>2
  <2>5. UNCHANGED <<table, mask, tmask, tpc, mutex, spurious, fails>>
    BY <1>1, <1>3
  <2> QED BY <1>3, <2>1, <2>3, <2>4, <2>5, AdvanceIInv
<1>4. CASE Fail("network_phase2") /\ UNCHANGED <<phase, cmod, threadVars>>
  BY <1>1, <1>4, FailIInv DEF Fail, phaseVars
<1> QED BY <1>2, <1>3, <1>4 DEF gt_network_phase2_func

Past == {"woken", "relocked", "init", "running", "exited"}

\* A thread goes on: it gets past pthread_cond_wait only if it was there, or
\* by a spurious wakeup.
LEMMA GotoIInv ==
  ASSUME IInv, NEW t \in Threads, NEW from \in {"start", "locked", "waiting"} \cup Past,
         NEW to \in {"locked", "waiting"} \cup Past, Goto(t, from, to),
         mutex' \in Threads \cup {Nobody}, spurious' \in 0..MaxSpurious, fails' \in 0..MaxFail,
         spurious' = 0 => spurious = 0, to \in Past => from \in Past \/ spurious' # 0
  PROVE  IInv'
<1>1. /\ mpc # "exit" /\ tpc[t] = from /\ tpc' = [tpc EXCEPT ![t] = to]
      /\ UNCHANGED <<mpc, table, phase, cmod, ready, mask, created, tmask>>
  BY DEF Goto, phaseVars
<1>2. from # "none" /\ tpc \in [Threads -> {"none", "start", "locked", "waiting"} \cup Past]
  BY DEF Past, IInv, TypeOK
<1>3. tpc' \in [Threads -> {"none", "start", "locked", "waiting"} \cup Past]
  BY <1>1, <1>2
<1>4. TypeOK'
  <2>1. tpc' \in [Threads -> {"none", "start", "locked", "waiting", "woken", "relocked",
                              "init", "running", "exited"}]
    BY <1>3 DEF Past
  <2> QED BY <1>1, <2>1 DEF IInv, TypeOK
<1>5. EntryInv' /\ RegisteredInv' /\ PlaceInv' /\ ReadyInv' /\ CreatedInv'
  BY <1>1 DEF IInv, EntryInv, RegisteredInv, PlaceInv, ReadyInv, CreatedInv, Pos
<1>6. AloneInv'
  BY <1>1, <1>2 DEF IInv, AloneInv
<1>7. MaskInherited'
  BY <1>1, <1>2 DEF IInv, MaskInherited
<1>8. HeldBack'
  <2> SUFFICES ASSUME spurious' = 0, NEW u \in Threads, tpc'[u] \in Past
               PROVE  mpc' \in {"do_run", "exit"}
    BY DEF HeldBack, Past
  <2>1. tpc[u] \in Past
    BY <1>1, <1>2
  <2> QED BY <1>1, <2>1 DEF IInv, HeldBack, Past
<1> QED BY <1>4, <1>5, <1>6, <1>7, <1>8 DEF IInv

\* The steps of the thread routines.
LEMMA ThreadIInv ==
  ASSUME IInv, NEW t \in Threads, Thread(t) \/ SpuriousWakeup(t) PROVE IInv'
<1>1. /\ mutex \in Threads \cup {Nobody} /\ spurious \in 0..MaxSpurious /\ fails \in 0..MaxFail
  BY DEF IInv, TypeOK
<1>2. CASE Lock(t)
  BY <1>1, <1>2, GotoIInv DEF Lock, Acquire, Past
<1>3. CASE CondWait(t)
  BY <1>1, <1>3, GotoIInv DEF CondWait, Release, Past
<1>4. CASE Relock(t)
  BY <1>1, <1>4, GotoIInv DEF Relock, Acquire, Past
<1>5. CASE Unlock(t)
  <2>1. PICK to \in {"init", "running"} : Goto(t, "relocked", to)
    BY <1>5 DEF Unlock
  <2>2. UNCHANGED <<spurious, fails>> /\ mutex' = Nobody
    BY <1>5 DEF Unlock, Release
  <2> QED BY <1>1, <2>1, <2>2, GotoIInv DEF Past
<1>6. CASE InitPoller(t)
  <2>1. UNCHANGED <<mutex, spurious>>
    BY <1>6 DEF InitPoller
  <2>2. CASE Goto(t, "init", "running") /\ UNCHANGED fails
    BY <1>1, <2>1, <2>2, GotoIInv DEF Past
  <2>3. CASE Goto(t, "init", "exited") /\ fails < MaxFail /\ fails' = fails + 1
    <3>1. fails' \in 0..MaxFail
      BY <2>3, FailType DEF IInv
    <3> QED BY <1>1, <2>1, <2>3, <3>1, GotoIInv DEF Past
  <2> QED BY <1>6, <2>2, <2>3 DEF InitPoller
<1>7. CASE SpuriousWakeup(t)
  <2>1. Goto(t, "waiting", "woken") /\ UNCHANGED <<mutex, fails>>
    BY <1>7 DEF SpuriousWakeup
  <2>2. spurious' \in 0..MaxSpurious /\ spurious' # 0
    BY <1>1, <1>7, StartupAssumption DEF SpuriousWakeup
  <2> QED BY <1>1, <2>1, <2>2, GotoIInv DEF Past
<1> QED BY <1>2, <1>3, <1>4, <1>5, <1>6, <1>7 DEF Thread

\* A call after gt_phase_run that moves main on; threads may only be woken
\* when it goes to gt_do_run.
LEMMA DoneIInv ==
  ASSUME IInv, mpc = "sleep" \/ mpc = "wakeup", mpc' = "wakeup" \/ mpc' = "do_run",
         UNCHANGED <<phaseVars, ready, mask, created, tmask, mutex, spurious, fails>>,
         tpc' \in [Threads -> {"none", "start", "locked", "waiting", "woken", "relocked",
                               "init", "running", "exited"}],
         \A t \in Threads : tpc'[t] # "none" => tpc[t] # "none",
         mpc' = "do_run" \/ UNCHANGED tpc
  PROVE  IInv'
<1>1. UNCHANGED <<table, phase, cmod, ready, mask, created, tmask, mutex, spurious, fails>>
  BY DEF phaseVars
<1>2. TypeOK'
  <2>1. mpc' \in DOMAIN After \cup {"do_run"}
    BY AfterIs
  <2> QED BY <1>1, <2>1 DEF IInv, TypeOK
<1>3. mpc \notin NoSignal /\ mpc \notin NoCore /\ mpc \notin NoNetwork /\ mpc \in Done
      /\ mpc' \notin Alone \cup {"create"} /\ mpc' \notin InPhases /\ mpc' \notin PhaseFns
      /\ mpc \notin {"do_run", "exit"} /\ mpc # "exit"
      /\ mpc \notin {"create", "network_phase2", "exit"}
      /\ mpc' \notin {"create", "network_phase2", "exit"}
  BY DEF NoSignal, NoCore, NoNetwork, Done, Alone, InPhases, PhaseFns
<1>4. EntryInv' /\ RegisteredInv'
  BY <1>1, <1>3 DEF IInv, EntryInv, RegisteredInv
<1>5. Pos' = Pos /\ Pos = 24
  BY <1>1, <1>3 DEF IInv, PlaceInv, Pos
<1>6. PlaceInv'
  BY <1>3, <1>5 DEF PlaceInv
<1>7. ReadyInv'
  BY <1>1, <1>3, <1>5 DEF IInv, ReadyInv
<1>8. CreatedInv'
  BY <1>1, <1>3 DEF IInv, CreatedInv
<1>9. AloneInv'
  BY <1>3 DEF AloneInv
<1>10. MaskInherited'
  BY <1>1 DEF IInv, MaskInherited
<1>11. HeldBack'
  BY <1>1, <1>3 DEF IInv, HeldBack
<1> QED BY <1>2, <1>4, <1>6, <1>7, <1>8, <1>9, <1>10, <1>11 DEF IInv

\* sleep(2).
LEMMA SleepIInv == ASSUME IInv, Sleep PROVE IInv'
<1>1. /\ mpc = "sleep" /\ mpc' = "wakeup"
      /\ UNCHANGED <<phaseVars, ready, mask, created, tmask, mutex, spurious, fails>>
      /\ UNCHANGED tpc
  BY AfterIs DEF Sleep, Call, threadVars
<1>2. tpc' \in [Threads -> {"none", "start", "locked", "waiting", "woken", "relocked",
                            "init", "running", "exited"}]
  BY <1>1 DEF IInv, TypeOK
<1>3. \A t \in Threads : tpc'[t] # "none" => tpc[t] # "none"
  BY <1>1
<1> QED BY <1>1, <1>2, <1>3, DoneIInv

\* The broadcast takes main to gt_do_run.
LEMMA WakeupIInv == ASSUME IInv, gt_wakeup_pthread PROVE IInv'
<1>1. UNCHANGED <<phaseVars, ready, mask, created, tmask, mutex, spurious>>
  BY DEF gt_wakeup_pthread
<1>2. CASE /\ Call("wakeup")
           /\ tpc' = [t \in Threads |-> IF tpc[t] = "waiting" THEN "woken" ELSE tpc[t]]
  <2>1. mpc = "wakeup" /\ mpc' = "do_run" /\ UNCHANGED fails
    BY <1>2, AfterIs DEF Call
  <2>2. tpc' \in [Threads -> {"none", "start", "locked", "waiting", "woken", "relocked",
                              "init", "running", "exited"}]
    BY <1>2 DEF IInv, TypeOK
  <2>3. \A t \in Threads : tpc'[t] # "none" => tpc[t] # "none"
    BY <1>2
  <2> QED BY <1>1, <2>1, <2>2, <2>3, DoneIInv
<1>3. CASE Fail("wakeup") /\ UNCHANGED tpc
  BY <1>1, <1>3, FailIInv DEF Fail, threadVars
<1> QED BY <1>2, <1>3 DEF gt_wakeup_pthread

\* A step that changes nothing.
LEMMA StutterIInv == ASSUME IInv, UNCHANGED vars PROVE IInv'
<1> USE DEF vars, phaseVars, threadVars
<1>1. TypeOK'
  BY DEF IInv, TypeOK
<1>2. EntryInv' /\ RegisteredInv' /\ PlaceInv' /\ ReadyInv' /\ CreatedInv' /\ AloneInv'
  BY DEF IInv, EntryInv, RegisteredInv, PlaceInv, ReadyInv, CreatedInv, AloneInv, Pos
<1>3. MaskInherited' /\ HeldBack'
  BY DEF IInv, MaskInherited, HeldBack
<1> QED BY <1>1, <1>2, <1>3 DEF IInv

-----------------------------------------------------------------------------
\* Every step of main and of every thread keeps the inductive invariant,
\* whichever calls fail.
THEOREM StartupInvariant == SafeSpec => []IInv
<1>1. ASSUME IInv, [Next]_vars PROVE IInv'
  BY <1>1, PrepareIInv, SignalsInitIInv, CoreInitIInv, NetworkInitIInv, CreateIInv,
     PhaseRunIInv, PhaseFunctionsIInv, Phase2IInv, SleepIInv, WakeupIInv, ThreadIInv,
     StutterIInv
     DEF Next, MainThread
<1> QED BY <1>1, InitIInv, PTL DEF SafeSpec

\* The loops over g_gt_phase and over the tables of threads stay inside them.
THEOREM StartupTyped == SafeSpec => []TypeOK
  BY StartupInvariant, PTL DEF IInv

\* A thread never blocks less than main, however many there are: the mask is
\* set before the first of them is created, and not again.
THEOREM StartupMaskInherited == SafeSpec => []MaskInherited
  BY StartupInvariant, PTL DEF IInv

\* Without spurious wakeups no thread runs before gt_phase_run is done.
THEOREM StartupHeldBack == SafeSpec => []HeldBack
  BY StartupInvariant, PTL DEF IInv

\* gt_do_run is entered with the core poller, the signal event and the
\* listening socket set up, although gt_signals_init ignores its failures.
THEOREM StartupMainRunsOnReady == SafeSpec => []MainRunsOnReady
<1>1. IInv => MainRunsOnReady
  <2> SUFFICES ASSUME IInv, mpc = "do_run"
               PROVE  {"core_poller", "signal_event", "pipefd",
                       "network_poller", "listening"} \subseteq ready
    BY DEF MainRunsOnReady
  <2>1. Pos = 24
    BY DEF IInv, PlaceInv, Done
  <2> QED BY <2>1 DEF IInv, ReadyInv
<1> QED BY <1>1, StartupInvariant, PTL

\* Each phase function finds what it needs from the ones before it.
THEOREM StartupPhasesInOrder == SafeSpec => []PhasesInOrder
<1>1. IInv => PhasesInOrder
  <2> SUFFICES ASSUME IInv PROVE PhasesInOrder
    OBVIOUS
  <2>1. (mpc = "signal_phase1" => Pos = 8) /\ (mpc = "network_phase2" => Pos = 16)
    BY PlaceOf
  <2>2. mpc = "signal_phase1" => "core_poller" \in ready
    BY <2>1 DEF IInv, ReadyInv
  <2>3. mpc = "network_phase2" => {"network_poller", "listening"} \subseteq ready
    BY <2>1 DEF IInv, ReadyInv
  <2> QED BY <2>2, <2>3 DEF PhasesInOrder
<1> QED BY <1>1, StartupInvariant, PTL
=============================================================================
