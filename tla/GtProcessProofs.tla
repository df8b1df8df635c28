-------------------------- MODULE GtProcessProofs --------------------------
(***************************************************************************)
(* The start of the process, for any set of process numbers, any number of *)
(* failing calls and log messages of any length: the daemon is detached,   *)
(* the cached thread id is right, and no descriptor number that the        *)
(* program keeps, good, stale or never set, makes it write to, watch or    *)
(* poll the wrong object.                                                  *)
(*                                                                         *)
(* IInv follows main from call to call: TableInv and RoomInv say what the  *)
(* descriptor table holds at each place, PipeInv what the two numbers of   *)
(* the socketpair are good for, and PidInv where the process stands        *)
(* between its two forks.                                                  *)
(***************************************************************************)
EXTENDS GtProcess, TLAPS

Early == {"parse", "fork", "setsid", "fork again", "close", "null", "log"}
Late == {"signals", "phase0", "phase1 signal", "phase1 network", "listen", "run"}

\* What a log line may be written to.
Text == {"tty", "null", "log", "closed"}

\* Up to gt_log_init the logger's number is the standard output's, then it is
\* the log file's; descriptor 0 is taken by /dev/null or else by the log.
TableInv ==
    /\ pc \in Early => /\ g_gt_log_fd = 1
                       /\ \A n \in FDs : fd[n] \in {"tty", "null", "closed"}
    /\ pc = "null" => \A n \in FDs : fd[n] = "closed"
    /\ pc = "log" => fd[0] = "null" \/ \A n \in FDs : fd[n] = "closed"
    /\ pc \in Late => /\ fd[0] \in {"null", "log"}
                      /\ g_gt_log_fd \in FDs /\ fd[g_gt_log_fd] = "log"
    /\ At(g_gt_log_fd) \in Text /\ fd[0] \in Text

\* The numbers from n on are free.
FreeFrom(n) == \A m \in n..8 : fd[m] = "closed"

\* The table has room for what is still to be opened.
RoomInv ==
    /\ pc \in Early => FreeFrom(3)
    /\ pc = "signals" => FreeFrom(4)
    /\ pc = "phase0" => FreeFrom(6)
    /\ pc \in {"phase1 signal", "phase1 network"} => FreeFrom(7)
    /\ pc = "listen" => FreeFrom(8)

\* The socketpair is there, or its two numbers are still zero, or they are
\* those of ends that were closed again: then the first of them is the next
\* number to be given out, to the core poller's epoll set.
PairOpen == fd[g_signal_pipefd[1]] = "sigR" /\ fd[g_signal_pipefd[2]] = "sigW"
PairMissing == g_signal_pipefd = <<0, 0>>
PairClosed == /\ fd[g_signal_pipefd[2]] = "closed"
              /\ g_signal_pipefd[1] < g_signal_pipefd[2]
              /\ \A n \in FDs : fd[n] = "closed" => n >= g_signal_pipefd[1]
              /\ fd[g_signal_pipefd[1]] = "closed"
PairTaken == fd[g_signal_pipefd[1]] = "core" /\ fd[g_signal_pipefd[2]] = "closed"

PipeInv ==
    /\ pc \in Early \cup {"signals"} => PairMissing
    /\ pc = "phase0" => PairOpen \/ PairMissing \/ PairClosed
    /\ pc = "phase1 signal" => PairOpen \/ PairMissing \/ PairTaken
    /\ pc \in {"phase1 network", "listen", "run"} =>
           PairOpen /\ <<"core", "sigR">> \in watched

\* The first fork makes a process that leads no group, so that setsid works;
\* the second one that does not lead its session.
PidInv ==
    /\ pid # Shell
    /\ pc = "setsid" => pgid[pid] # pid
    /\ pc = "fork again" => pgid[pid] = pid /\ sid[pid] = pid

\* A process has one thread here, whose number is its own.
CacheInv == cached_tid = cached_pid

\* The target of the last log line, whatever has been opened since.
LineInv == line.to \in Text \cup {"none"}

\* What an epoll set may hold.
WatchInv == watched \subseteq {<<"core", "sigR">>, <<"net", "listen">>}

IInv == /\ TypeOK /\ TableInv /\ RoomInv /\ PipeInv /\ PidInv /\ CacheInv /\ LineInv
        /\ Detached /\ TidRight /\ WatchInv

-----------------------------------------------------------------------------
(* The lowest free number, and the table once it is given out.              *)

\* A table with a free number has a lowest one.
LEMMA LowestFreeIs ==
  ASSUME NEW table, NEW k \in FDs, table[k] = "closed"
  PROVE  /\ LowestFree(table) \in FDs /\ LowestFree(table) <= k
         /\ table[LowestFree(table)] = "closed"
         /\ \A n \in FDs : table[n] = "closed" => LowestFree(table) <= n
<1> DEFINE S == {n \in FDs : table[n] = "closed"}
<1> DEFINE IsLowest(x) == x \in S /\ \A y \in S : x <= y
<1>1. \E x \in FDs : IsLowest(x)
  <2>1. ASSUME \A x \in FDs : ~IsLowest(x) PROVE FALSE
    <3>1. \A x \in FDs : x \in S => \E y \in S : y < x
      BY <2>1 DEF FDs
    <3>2. 0 \notin S /\ (\A y \in S : y \in FDs)
      BY <3>1 DEF FDs
    <3>3. 1 \notin S /\ 2 \notin S
      BY <3>1, <3>2 DEF FDs
    <3>4. 3 \notin S /\ 4 \notin S
      BY <3>1, <3>2, <3>3 DEF FDs
    <3>5. 5 \notin S /\ 6 \notin S
      BY <3>1, <3>2, <3>3, <3>4 DEF FDs
    <3>6. 7 \notin S /\ 8 \notin S
      BY <3>1, <3>2, <3>3, <3>4, <3>5 DEF FDs
    <3> QED BY <3>2, <3>3, <3>4, <3>5, <3>6 DEF FDs
  <2> QED BY <2>1
<1>2. LowestFree(table) \in S /\ \A y \in S : LowestFree(table) <= y
  BY <1>1 DEF LowestFree, Min
<1> QED BY <1>2

\* Opening something changes the entry at that number and no other.
LEMMA OpenedIs ==
  ASSUME NEW table \in [FDs -> Kinds], NEW kind \in Kinds,
         NEW k \in FDs, table[k] = "closed"
  PROVE  /\ Opened(table, kind) \in [FDs -> Kinds]
         /\ Opened(table, kind)[LowestFree(table)] = kind
         /\ \A n \in FDs : n # LowestFree(table) => Opened(table, kind)[n] = table[n]
  BY LowestFreeIs DEF Opened

-----------------------------------------------------------------------------
\* The program as the shell starts it.
LEMMA InitIInv == Init => IInv
<1> SUFFICES ASSUME Init PROVE IInv
  OBVIOUS
<1> USE ProcessAssumption
<1>1. TypeOK
  BY DEF Init, TypeOK, Places, FDs, Kinds, NoTid, NoLine, Levels, g_log_level_str
<1>2. TableInv
  BY DEF Init, TableInv, Early, Late, At, Text, FDs
<1>3. RoomInv
  BY DEF Init, RoomInv, Early, FreeFrom, FDs
<1>4. PipeInv /\ PidInv /\ CacheInv /\ Detached
  BY DEF Init, PipeInv, PairMissing, PidInv, CacheInv, Detached
<1>5. LineInv /\ TidRight
  BY DEF Init, LineInv, TidRight, NoLine, NoTid
<1>6. WatchInv
  BY DEF Init, WatchInv
<1> QED BY <1>1, <1>2, <1>3, <1>4, <1>5, <1>6 DEF IInv, WatchInv

\* A step that goes to "fail" without touching descriptors or processes.
LEMMA FailIInv ==
  ASSUME IInv, pc' = "fail", pc # "exited", fails' \in 0..MaxFail,
         UNCHANGED <<procVars, fdVars, tidVars, line>>
  PROVE  IInv'
<1> USE DEF procVars, fdVars, tidVars
<1>1. TypeOK'
  BY DEF IInv, TypeOK, Places
<1>2. (TableInv /\ RoomInv /\ PipeInv)'
  BY DEF IInv, TableInv, RoomInv, PipeInv, Early, Late, At
<1>3. (PidInv /\ CacheInv /\ Detached /\ LineInv /\ TidRight)'
  BY DEF IInv, PidInv, CacheInv, Detached, LineInv, TidRight
<1> QED BY <1>1, <1>2, <1>3 DEF IInv, WatchInv, fdVars

\* gt_parse_parameters, and the three calls that only move the process.
LEMMA ParseIInv == ASSUME IInv, gt_parse_parameters PROVE IInv'
<1>1. CASE pc' = "fail"
  BY <1>1, FailIInv DEF gt_parse_parameters, Goto, IInv, TypeOK
<1>2. CASE pc = "parse" /\ pc' = "fork"
  <2> USE <1>2 DEF gt_parse_parameters, procVars, fdVars, tidVars
  <2>1. TypeOK'
    BY DEF IInv, TypeOK, Places
  <2>2. (TableInv /\ RoomInv /\ PipeInv)'
    BY DEF IInv, TableInv, RoomInv, PipeInv, Early, Late, At, FreeFrom, PairMissing
  <2>3. (PidInv /\ CacheInv /\ Detached /\ LineInv /\ TidRight)'
    BY DEF IInv, PidInv, CacheInv, Detached, LineInv, TidRight
  <2> QED BY <2>1, <2>2, <2>3 DEF IInv, WatchInv
<1> QED BY <1>1, <1>2 DEF gt_parse_parameters, Goto

\* The call failed: one failure more.
LEMMA BreaksType == ASSUME TypeOK, Breaks PROVE fails' \in 0..MaxFail
  BY ProcessAssumption DEF TypeOK, Breaks

\* A new process is not the shell, and its number is not that of a group or
\* session of ours.
LEMMA ForkIs ==
  ASSUME TypeOK, NEW child \in Pids, fork(child)
  PROVE  /\ up' \in SUBSET Pids /\ pid' \in up' /\ pid' = child
         /\ pgid' \in [Pids -> Pids] /\ sid' \in [Pids -> Pids]
         /\ child # Shell /\ child # pid /\ child # pgid[pid] /\ child # sid[pid]
         /\ pgid'[child] = pgid[pid] /\ sid'[child] = sid[pid]
  BY DEF TypeOK, fork, Unused

\* The first fork: the child leads no group.
LEMMA FirstForkIInv == ASSUME IInv, FirstFork PROVE IInv'
<1>1. CASE pc' = "fail"
  BY <1>1, FailIInv, BreaksType DEF FirstFork, Goto, IInv
<1>2. CASE Goto("fork", "setsid") /\ (\E child \in Pids : fork(child)) /\ Works
  <2>1. PICK child \in Pids : fork(child)
    BY <1>2
  <2>2. TypeOK
    BY DEF IInv
  <2>3. /\ up' \in SUBSET Pids /\ pid' \in up' /\ pid' = child
        /\ pgid' \in [Pids -> Pids] /\ sid' \in [Pids -> Pids]
        /\ child # Shell /\ child # pid /\ child # pgid[pid] /\ child # sid[pid]
        /\ pgid'[child] = pgid[pid] /\ sid'[child] = sid[pid]
    BY <2>1, <2>2, ForkIs
  <2> USE <1>2 DEF FirstFork, fdVars, tidVars, Goto, Works
  <2>4. TypeOK'
    BY <2>3 DEF IInv, TypeOK, Places
  <2>5. (TableInv /\ RoomInv /\ PipeInv)'
    BY DEF IInv, TableInv, RoomInv, PipeInv, Early, Late, At, FreeFrom, PairMissing
  <2>6. (PidInv /\ CacheInv /\ Detached /\ LineInv /\ TidRight)'
    BY <2>3 DEF IInv, PidInv, CacheInv, Detached, LineInv, TidRight
  <2> QED BY <2>4, <2>5, <2>6 DEF IInv, WatchInv
<1> QED BY <1>1, <1>2 DEF FirstFork, Goto

\* setsid: its caller leads no group, so it does not fail.
LEMMA SetSidIInv == ASSUME IInv, SetSid PROVE IInv'
<1> USE DEF SetSid, fdVars, tidVars, Goto
<1>1. /\ pgid' = [pgid EXCEPT ![pid] = pid] /\ sid' = [sid EXCEPT ![pid] = pid]
      /\ pid \in Pids
  BY DEF IInv, PidInv, TypeOK
<1>2. TypeOK'
  BY <1>1 DEF IInv, TypeOK, Places
<1>3. (TableInv /\ RoomInv /\ PipeInv)'
  BY DEF IInv, TableInv, RoomInv, PipeInv, Early, Late, At, FreeFrom, PairMissing
<1>4. (PidInv /\ Detached)'
  BY <1>1 DEF IInv, PidInv, Detached, TypeOK
<1>5. (CacheInv /\ LineInv /\ TidRight)'
  BY DEF IInv, CacheInv, LineInv, TidRight
<1> QED BY <1>2, <1>3, <1>4, <1>5 DEF IInv, WatchInv

\* The second fork: the child is in the session its parent leads.
LEMMA SecondForkIInv == ASSUME IInv, SecondFork PROVE IInv'
<1>1. CASE pc' = "fail"
  BY <1>1, FailIInv, BreaksType DEF SecondFork, Goto, IInv
<1>2. CASE Goto("fork again", "close") /\ (\E child \in Pids : fork(child)) /\ Works
  <2>1. PICK child \in Pids : fork(child)
    BY <1>2
  <2>2. TypeOK
    BY DEF IInv
  <2>3. /\ up' \in SUBSET Pids /\ pid' \in up' /\ pid' = child
        /\ pgid' \in [Pids -> Pids] /\ sid' \in [Pids -> Pids]
        /\ child # Shell /\ child # pid /\ child # pgid[pid] /\ child # sid[pid]
        /\ pgid'[child] = pgid[pid] /\ sid'[child] = sid[pid]
    BY <2>1, <2>2, ForkIs
  <2> USE <1>2 DEF SecondFork, fdVars, tidVars, Goto, Works
  <2>4. TypeOK'
    BY <2>3 DEF IInv, TypeOK, Places
  <2>5. (TableInv /\ RoomInv /\ PipeInv)'
    BY DEF IInv, TableInv, RoomInv, PipeInv, Early, Late, At, FreeFrom, PairMissing
  <2>6. (PidInv /\ CacheInv /\ Detached /\ LineInv /\ TidRight)'
    BY <2>3 DEF IInv, PidInv, CacheInv, Detached, LineInv, TidRight
  <2> QED BY <2>4, <2>5, <2>6 DEF IInv, WatchInv
<1> QED BY <1>1, <1>2 DEF SecondFork, Goto

\* A parent exits, the process that goes on does not.
LEMMA ParentExitIInv == ASSUME IInv, NEW p \in Pids, ParentExit(p) PROVE IInv'
<1> USE DEF ParentExit, fdVars, tidVars
<1>1. TypeOK'
  BY DEF IInv, TypeOK
<1>2. (TableInv /\ RoomInv /\ PipeInv)'
  BY DEF IInv, TableInv, RoomInv, PipeInv, Early, Late, At, FreeFrom,
         PairOpen, PairMissing, PairClosed, PairTaken
<1>3. (PidInv /\ CacheInv /\ Detached /\ LineInv /\ TidRight)'
  BY DEF IInv, PidInv, CacheInv, Detached, LineInv, TidRight
<1> QED BY <1>1, <1>2, <1>3 DEF IInv, WatchInv

\* gt_gettid: the cache is either that of this process or is filled again.
LEMMA GettidIInv == ASSUME IInv, gt_gettid PROVE IInv'
<1> USE DEF gt_gettid, fdVars, procVars
<1>1. /\ pid \in Pids /\ cached_pid' = pid /\ cached_tid' = pid
      /\ tid' = [of |-> pid, is |-> pid]
  BY DEF IInv, TypeOK, Uncached, CacheInv
<1>2. TypeOK'
  BY <1>1 DEF IInv, TypeOK
<1>3. (TableInv /\ RoomInv /\ PipeInv)'
  BY DEF IInv, TableInv, RoomInv, PipeInv, Early, Late, At, FreeFrom,
         PairOpen, PairMissing, PairClosed, PairTaken
<1>4. TidRight' /\ CacheInv'
  BY <1>1 DEF CacheInv, TidRight
<1>5. (PidInv /\ Detached /\ LineInv)'
  BY DEF IInv, PidInv, Detached, LineInv
<1> QED BY <1>2, <1>3, <1>4, <1>5 DEF IInv, WatchInv

\* gt_log_print writes to the number the logger keeps.
LEMMA LogPrintIInv ==
  ASSUME IInv, NEW level \in Levels, NEW len \in MsgLens, gt_log_print(level, len)
  PROVE  IInv'
<1> USE DEF gt_log_print, fdVars, procVars, tidVars
<1>1. /\ line' = [to |-> At(g_gt_log_fd), level |-> level, len |-> len]
      /\ At(g_gt_log_fd) \in Text
  BY DEF IInv, TableInv
<1>2. TypeOK'
  BY <1>1 DEF IInv, TypeOK, Text, Kinds
<1>3. (TableInv /\ RoomInv /\ PipeInv)'
  BY DEF IInv, TableInv, RoomInv, PipeInv, Early, Late, At, FreeFrom,
         PairOpen, PairMissing, PairClosed, PairTaken
<1>4. LineInv'
  BY <1>1 DEF LineInv
<1>5. (PidInv /\ CacheInv /\ Detached /\ TidRight)'
  BY DEF IInv, PidInv, CacheInv, Detached, TidRight
<1> QED BY <1>2, <1>3, <1>4, <1>5 DEF IInv, WatchInv

-----------------------------------------------------------------------------
(* The steps that change the descriptor table.  What they leave alone:     *)

\* The process, the cache and the last line, once the forks are done.
LEMMA RestIInv ==
  ASSUME IInv, UNCHANGED <<procVars, tidVars>>, line'.to \in Text \cup {"none"},
         pc \notin {"parse", "fork", "setsid", "fork again", "exited", "fail"},
         pc' \notin {"parse", "fork", "setsid", "fork again"}
  PROVE  (PidInv /\ CacheInv /\ Detached /\ LineInv /\ TidRight)'
  BY DEF IInv, PidInv, CacheInv, Detached, LineInv, TidRight, procVars, tidVars

\* The standard descriptors are closed.
LEMMA CloseStdIInv == ASSUME IInv, CloseStd PROVE IInv'
<1> USE DEF CloseStd, Goto
<1>1. TypeOK'
  BY DEF IInv, TypeOK, Places, Kinds, FDs, procVars, tidVars
<1>2. \A n \in FDs : fd'[n] = "closed"
  BY DEF IInv, TypeOK, RoomInv, Early, FreeFrom, FDs
<1>3. TableInv'
  BY <1>2 DEF IInv, TableInv, Early, Late, At, Text, FDs
<1>4. RoomInv' /\ PipeInv'
  BY <1>2 DEF IInv, RoomInv, PipeInv, PairMissing, Early, FreeFrom, FDs
<1>5. (PidInv /\ CacheInv /\ Detached /\ LineInv /\ TidRight)'
  BY RestIInv DEF IInv, LineInv
<1> QED BY <1>1, <1>3, <1>4, <1>5 DEF IInv, WatchInv

\* /dev/null becomes the three standard descriptors, or none of them.
LEMMA OpenNullIInv == ASSUME IInv, OpenNull PROVE IInv'
<1> USE DEF OpenNull, Goto
<1>1. \A n \in FDs : fd[n] = "closed"
  BY DEF IInv, TableInv
<1>2. fd \in [FDs -> Kinds] /\ fails' \in 0..MaxFail
  BY BreaksType DEF IInv, TypeOK, Works
<1>3. /\ fd' \in [FDs -> Kinds] /\ FreeFrom(3)'
      /\ \A n \in FDs : fd'[n] \in {"null", "closed"}
      /\ fd'[0] = "null" \/ \A n \in FDs : fd'[n] = "closed"
  <2>1. CASE UNCHANGED fd
    BY <1>1, <1>2, <2>1 DEF FreeFrom, FDs
  <2>2. CASE fd' = [Opened(fd, "null") EXCEPT ![1] = "null", ![2] = "null"]
    <3>1. LowestFree(fd) = 0
      BY <1>1, LowestFreeIs, SMTT(30) DEF FDs
    <3>2. /\ Opened(fd, "null") \in [FDs -> Kinds] /\ Opened(fd, "null")[0] = "null"
          /\ \A n \in FDs : n # 0 => Opened(fd, "null")[n] = fd[n]
      BY <1>1, <1>2, <3>1, OpenedIs DEF FDs, Kinds
    <3> QED BY <1>1, <2>2, <3>2 DEF FreeFrom, FDs, Kinds
  <2> QED BY <2>1, <2>2
<1>4. TypeOK'
  BY <1>2, <1>3 DEF IInv, TypeOK, Places, procVars, tidVars
<1>5. TableInv'
  BY <1>3 DEF IInv, TableInv, Early, Late, At, Text, FDs
<1>6. RoomInv' /\ PipeInv'
  BY <1>3 DEF IInv, RoomInv, PipeInv, PairMissing, Early
<1>7. (PidInv /\ CacheInv /\ Detached /\ LineInv /\ TidRight)'
  BY RestIInv DEF IInv, LineInv
<1> QED BY <1>4, <1>5, <1>6, <1>7 DEF IInv, WatchInv

\* The log file takes the lowest number, descriptor 0 if /dev/null did not.
LEMMA LogInitIInv == ASSUME IInv, gt_log_init PROVE IInv'
<1> USE DEF gt_log_init, Goto
<1>1. /\ fd \in [FDs -> Kinds] /\ fails' \in 0..MaxFail
      /\ FreeFrom(3) /\ \A n \in FDs : fd[n] \in {"tty", "null", "closed"}
      /\ fd[0] = "null" \/ \A n \in FDs : fd[n] = "closed"
  BY BreaksType DEF IInv, TypeOK, Works, TableInv, RoomInv, Early
<1>2. CASE pc' = "signals"
  <2>1. /\ fd' = Opened(fd, "log") /\ g_gt_log_fd' = LowestFree(fd) /\ UNCHANGED line
    BY <1>2
  <2>2. fd[3] = "closed" /\ 3 \in FDs
    BY <1>1 DEF FreeFrom, FDs
  <2>3. LowestFree(fd) \in FDs /\ LowestFree(fd) <= 3 /\ fd[LowestFree(fd)] = "closed"
        /\ \A n \in FDs : fd[n] = "closed" => LowestFree(fd) <= n
    BY <2>2, LowestFreeIs
  <2>4. /\ fd' \in [FDs -> Kinds] /\ fd'[LowestFree(fd)] = "log"
        /\ \A n \in FDs : n # LowestFree(fd) => fd'[n] = fd[n]
    BY <1>1, <2>1, <2>2, OpenedIs DEF Kinds
  <2>5. fd'[0] \in {"null", "log"} /\ FreeFrom(4)'
    BY <1>1, <2>3, <2>4 DEF FDs, FreeFrom
  <2>6. TypeOK'
    BY <1>1, <1>2, <2>1, <2>3, <2>4 DEF IInv, TypeOK, Places, procVars, tidVars
  <2>7. TableInv'
    BY <1>2, <2>1, <2>3, <2>4, <2>5 DEF TableInv, Early, Late, At, Text
  <2>8. RoomInv' /\ PipeInv'
    BY <1>2, <2>5 DEF IInv, RoomInv, PipeInv, PairMissing, Early
  <2>9. (PidInv /\ CacheInv /\ Detached /\ LineInv /\ TidRight)'
    BY <1>2, <2>1, RestIInv DEF IInv, LineInv
  <2> QED BY <2>6, <2>7, <2>8, <2>9 DEF IInv, WatchInv
<1>3. CASE pc' = "fail"
  <2>1. PICK len \in MsgLens : line' = [to |-> At(1), level |-> "ERROR", len |-> len]
    BY <1>3
  <2>2. At(1) \in Text
    BY <1>1 DEF At, Text, FDs
  <2>3. TypeOK'
    BY <1>1, <1>3, <2>1, <2>2
       DEF IInv, TypeOK, Places, procVars, tidVars, Text, Kinds, Levels, g_log_level_str
  <2>4. TableInv'
    BY <1>1, <1>3 DEF TableInv, Early, Late, At, Text, FDs
  <2>5. RoomInv' /\ PipeInv'
    BY <1>3 DEF RoomInv, PipeInv, Early
  <2>6. line'.to \in Text
    BY <2>1, <2>2
  <2>7. (PidInv /\ CacheInv /\ Detached /\ LineInv /\ TidRight)'
    BY <1>3, <2>6, RestIInv
  <2> QED BY <1>3, <2>3, <2>4, <2>5, <2>7 DEF IInv, WatchInv
<1> QED BY <1>2, <1>3

\* Once there is a log file, a descriptor opened where the numbers from k on
\* are free takes neither the logger's number nor descriptor 0.
LEMMA OpenedLate ==
  ASSUME IInv, pc \in Late, NEW kind \in Kinds, NEW k \in FDs, FreeFrom(k)
  PROVE  /\ LowestFree(fd) \in FDs /\ LowestFree(fd) <= k
         /\ fd[LowestFree(fd)] = "closed"
         /\ \A n \in FDs : fd[n] = "closed" => LowestFree(fd) <= n
         /\ Opened(fd, kind) \in [FDs -> Kinds]
         /\ Opened(fd, kind)[LowestFree(fd)] = kind
         /\ \A n \in FDs : n # LowestFree(fd) => Opened(fd, kind)[n] = fd[n]
         /\ \A n \in FDs : n > k => Opened(fd, kind)[n] = "closed"
         /\ Opened(fd, kind)[0] \in {"null", "log"}
         /\ g_gt_log_fd \in FDs /\ Opened(fd, kind)[g_gt_log_fd] = "log"
<1>1. fd[k] = "closed" /\ fd \in [FDs -> Kinds] /\ \A n \in FDs : n > k => fd[n] = "closed"
  BY DEF FreeFrom, FDs, IInv, TypeOK
<1>2. /\ LowestFree(fd) \in FDs /\ LowestFree(fd) <= k
      /\ fd[LowestFree(fd)] = "closed"
      /\ \A n \in FDs : fd[n] = "closed" => LowestFree(fd) <= n
  BY <1>1, LowestFreeIs
<1>3. /\ Opened(fd, kind) \in [FDs -> Kinds]
      /\ Opened(fd, kind)[LowestFree(fd)] = kind
      /\ \A n \in FDs : n # LowestFree(fd) => Opened(fd, kind)[n] = fd[n]
  BY <1>1, OpenedIs
<1>4. fd[0] \in {"null", "log"} /\ g_gt_log_fd \in FDs /\ fd[g_gt_log_fd] = "log" /\ 0 \in FDs
  BY DEF IInv, TableInv, FDs
<1>5. \A n \in FDs : n > k => n # LowestFree(fd)
  BY <1>2 DEF FDs
<1>6. 0 # LowestFree(fd) /\ g_gt_log_fd # LowestFree(fd)
  BY <1>2, <1>4
<1> QED BY <1>1, <1>2, <1>3, <1>4, <1>5, <1>6

\* What is above the lowest free number stays closed.
LEMMA OpenedAbove ==
  ASSUME IInv, pc \in Late, NEW kind \in Kinds, NEW k \in FDs, FreeFrom(k)
  PROVE  \A n \in FDs : n > k => Opened(fd, kind)[n] = "closed"
  BY OpenedLate

\* What a step of the later calls does to the table is enough for TableInv.
LEMMA LateTable ==
  ASSUME IInv, pc \in Late, pc' \in Late \cup {"fail"}, UNCHANGED g_gt_log_fd,
         fd'[0] \in {"null", "log"}, fd'[g_gt_log_fd] = "log"
  PROVE  TableInv'
  BY DEF IInv, TableInv, Early, Late, At, Text, FDs

\* The socketpair: made, not made, or made and closed again.
LEMMA PipefdIInv == ASSUME IInv, gt_signal_create_pipefd PROVE IInv'
<1> DEFINE r == LowestFree(fd)
           with_r == Opened(fd, "sigR")
           w == LowestFree(with_r)
<1>1. /\ pc = "signals" /\ pc' = "phase0"
      /\ \/ fd' = Opened(with_r, "sigW") /\ g_signal_pipefd' = <<r, w>>
         \/ UNCHANGED <<fd, g_signal_pipefd>>
         \/ g_signal_pipefd' = <<r, w>> /\ UNCHANGED fd
      /\ UNCHANGED <<procVars, g_gt_log_fd, watched, tidVars, line>>
  BY DEF gt_signal_create_pipefd, Goto
<1>2. fails' \in 0..MaxFail
  BY BreaksType DEF gt_signal_create_pipefd, Works, IInv, TypeOK
<1>3. /\ FreeFrom(4) /\ pc \in Late /\ 4 \in FDs /\ 5 \in FDs /\ "sigR" \in Kinds
      /\ "sigW" \in Kinds /\ fd \in [FDs -> Kinds]
  BY <1>1 DEF IInv, TypeOK, RoomInv, Late, FDs, Kinds
<1>4. /\ r \in FDs /\ r <= 4 /\ fd[r] = "closed"
      /\ \A n \in FDs : fd[n] = "closed" => r <= n
      /\ with_r \in [FDs -> Kinds] /\ with_r[r] = "sigR"
      /\ \A n \in FDs : n # r => with_r[n] = fd[n]
      /\ \A n \in FDs : n > 4 => with_r[n] = "closed"
      /\ with_r[0] \in {"null", "log"}
      /\ g_gt_log_fd \in FDs /\ with_r[g_gt_log_fd] = "log"
  BY <1>3, OpenedLate
<1> HIDE DEF r, with_r
<1>5. with_r[5] = "closed"
  BY <1>3, <1>4
<1>6. /\ w \in FDs /\ w <= 5 /\ with_r[w] = "closed"
      /\ \A n \in FDs : with_r[n] = "closed" => w <= n
  BY <1>3, <1>5, LowestFreeIs
<1>7. /\ Opened(with_r, "sigW") \in [FDs -> Kinds] /\ Opened(with_r, "sigW")[w] = "sigW"
      /\ \A n \in FDs : n # w => Opened(with_r, "sigW")[n] = with_r[n]
  BY <1>3, <1>4, <1>5, OpenedIs, SMTT(30)
<1> HIDE DEF w
<1>8. w # r /\ fd[w] = "closed" /\ r < w
  BY <1>4, <1>6 DEF FDs
<1>9. TypeOK'
  BY <1>1, <1>2, <1>4, <1>6, <1>7 DEF IInv, TypeOK, Places, procVars, tidVars
<1>10. fd'[0] \in {"null", "log"} /\ fd'[g_gt_log_fd] = "log"
  <2>1. 0 \in FDs /\ w # 0 /\ w # g_gt_log_fd
    BY <1>4, <1>6 DEF FDs
  <2>2. fd[0] \in {"null", "log"} /\ fd[g_gt_log_fd] = "log"
    BY <1>3 DEF IInv, TableInv
  <2> QED BY <1>1, <1>4, <1>7, <2>1, <2>2
<1>11. TableInv'
  BY <1>1, <1>3, <1>10, LateTable DEF Late
<1>12. RoomInv'
  <2>1. \A m \in 6..8 : m \in FDs /\ m > 4 /\ m # w /\ fd[m] = "closed"
    BY <1>3, <1>6 DEF FDs, FreeFrom
  <2>2. FreeFrom(6)'
    BY <1>1, <1>4, <1>7, <2>1 DEF FreeFrom
  <2> QED BY <1>1, <2>2 DEF RoomInv, Early
<1>13. PipeInv'
  <2>1. CASE fd' = Opened(with_r, "sigW") /\ g_signal_pipefd' = <<r, w>>
    <3>1. PairOpen'
      BY <2>1, <1>4, <1>7, <1>8 DEF PairOpen
    <3> QED BY <1>1, <3>1 DEF PipeInv, Early
  <2>2. CASE UNCHANGED <<fd, g_signal_pipefd>>
    <3>1. g_signal_pipefd = <<0, 0>>
      BY <1>1 DEF IInv, PipeInv, PairMissing
    <3> QED BY <1>1, <2>2, <3>1 DEF PipeInv, PairMissing
  <2>3. CASE g_signal_pipefd' = <<r, w>> /\ UNCHANGED fd
    <3>1. PairClosed'
      BY <2>3, <1>4, <1>8 DEF PairClosed, FDs
    <3> QED BY <1>1, <3>1 DEF PipeInv, Early
  <2> QED BY <1>1, <2>1, <2>2, <2>3
<1>14. (PidInv /\ CacheInv /\ Detached /\ LineInv /\ TidRight)'
  BY <1>1, RestIInv DEF IInv, LineInv
<1> QED BY <1>1, <1>9, <1>11, <1>12, <1>13, <1>14 DEF IInv, WatchInv

\* A later call that fails, with or without a new descriptor left open.
LEMMA LateFailIInv ==
  ASSUME IInv, pc \in Late, pc' = "fail", fails' \in 0..MaxFail,
         NEW kind \in Kinds, NEW k \in FDs, FreeFrom(k), fd' \in {fd, Opened(fd, kind)},
         UNCHANGED <<procVars, g_gt_log_fd, g_signal_pipefd, watched, tidVars, line>>
  PROVE  IInv'
<1>1. /\ Opened(fd, kind) \in [FDs -> Kinds] /\ Opened(fd, kind)[0] \in {"null", "log"}
      /\ Opened(fd, kind)[g_gt_log_fd] = "log"
  BY OpenedLate
<1>2. /\ fd' \in [FDs -> Kinds] /\ fd'[0] \in {"null", "log"} /\ fd'[g_gt_log_fd] = "log"
  BY <1>1 DEF IInv, TypeOK, TableInv
<1>3. TypeOK'
  BY <1>2 DEF IInv, TypeOK, Places, procVars, tidVars
<1>4. TableInv'
  BY <1>2, LateTable
<1>5. RoomInv' /\ PipeInv'
  BY DEF RoomInv, PipeInv, Early
<1>6. (PidInv /\ CacheInv /\ Detached /\ LineInv /\ TidRight)'
  BY RestIInv DEF IInv, LineInv, Late
<1> QED BY <1>3, <1>4, <1>5, <1>6 DEF IInv, WatchInv

\* The core poller's epoll set may take the number of the closed read end.
LEMMA Phase0IInv == ASSUME IInv, gt_core_phase0_func PROVE IInv'
<1>0. fails' \in 0..MaxFail
  BY BreaksType DEF IInv, TypeOK, Works, gt_core_phase0_func, Goto
<1>1. /\ pc = "phase0" /\ pc \in Late /\ FreeFrom(6) /\ 6 \in FDs /\ "core" \in Kinds
      /\ UNCHANGED <<procVars, g_gt_log_fd, g_signal_pipefd, watched, tidVars, line>>
  <2>1. pc = "phase0" /\ UNCHANGED <<procVars, g_gt_log_fd, g_signal_pipefd, watched, tidVars, line>>
    BY DEF gt_core_phase0_func, Goto
  <2>2. pc \in Late /\ FreeFrom(6)
    BY <2>1 DEF IInv, RoomInv, Late
  <2>3. 6 \in FDs /\ "core" \in Kinds
    BY DEF FDs, Kinds
  <2> QED BY <2>1, <2>2, <2>3
<1>2. CASE pc' = "fail"
  <2>1. fd' \in {fd, Opened(fd, "core")}
    BY <1>2 DEF gt_core_phase0_func, Goto
  <2> QED BY <1>0, <1>1, <1>2, <2>1, LateFailIInv
<1>3. CASE pc' = "phase1 signal"
  <2>1. fd' = Opened(fd, "core")
    BY <1>3 DEF gt_core_phase0_func, Goto
  <2> DEFINE l == LowestFree(fd)
  <2>2. /\ l \in FDs /\ l <= 6 /\ fd[l] = "closed"
        /\ \A n \in FDs : fd[n] = "closed" => l <= n
        /\ fd' \in [FDs -> Kinds] /\ fd'[l] = "core"
        /\ \A n \in FDs : n # l => fd'[n] = fd[n]
        /\ \A n \in FDs : n > 6 => fd'[n] = "closed"
        /\ fd'[0] \in {"null", "log"} /\ fd'[g_gt_log_fd] = "log"
    <3>1. /\ l \in FDs /\ l <= 6 /\ fd[l] = "closed"
          /\ \A n \in FDs : fd[n] = "closed" => l <= n
          /\ Opened(fd, "core") \in [FDs -> Kinds] /\ Opened(fd, "core")[l] = "core"
          /\ \A n \in FDs : n # l => Opened(fd, "core")[n] = fd[n]
          /\ \A n \in FDs : n > 6 => Opened(fd, "core")[n] = "closed"
          /\ Opened(fd, "core")[0] \in {"null", "log"}
          /\ Opened(fd, "core")[g_gt_log_fd] = "log"
      BY <1>1, OpenedLate
    <3> QED BY <2>1, <3>1
  <2> HIDE DEF l
  <2>3. TypeOK'
    BY <1>0, <1>1, <1>3, <2>2 DEF IInv, TypeOK, Places, procVars, tidVars
  <2>4. TableInv'
    BY <1>1, <1>3, <2>2, LateTable DEF Late
  <2>5. RoomInv'
    <3>1. FreeFrom(7)'
      BY <2>2 DEF FreeFrom, FDs
    <3> QED BY <1>3, <3>1 DEF RoomInv, Early
  <2>6. /\ g_signal_pipefd' = g_signal_pipefd
        /\ g_signal_pipefd[1] \in FDs /\ g_signal_pipefd[2] \in FDs
    BY <1>1 DEF IInv, TypeOK
  <2>7. (PairOpen \/ PairMissing \/ PairTaken)'
    <3>1. CASE PairOpen
      BY <3>1, <2>2, <2>6 DEF PairOpen
    <3>2. CASE PairMissing
      BY <3>2, <2>6 DEF PairMissing
    <3>3. CASE PairClosed
      <4>1. l >= g_signal_pipefd[1] /\ l <= g_signal_pipefd[1]
        BY <3>3, <2>2, <2>6 DEF PairClosed
      <4>2. l = g_signal_pipefd[1] /\ l # g_signal_pipefd[2]
        BY <3>3, <4>1, <2>2, <2>6 DEF PairClosed, FDs
      <4> QED BY <4>2, <3>3, <2>2, <2>6 DEF PairClosed, PairTaken
    <3> QED BY <1>1, <3>1, <3>2, <3>3 DEF IInv, PipeInv
  <2>8. PipeInv'
    BY <1>3, <2>7 DEF PipeInv, Early
  <2>9. (PidInv /\ CacheInv /\ Detached /\ LineInv /\ TidRight)'
    BY <1>1, <1>3, RestIInv DEF IInv, LineInv
  <2> QED BY <1>1, <2>3, <2>4, <2>5, <2>8, <2>9 DEF IInv, WatchInv
<1> QED BY <1>2, <1>3 DEF gt_core_phase0_func, Goto

\* epoll_ctl accepts the read end and refuses what a stale number names.
LEMMA Phase1SignalIInv == ASSUME IInv, gt_signal_phase1_func PROVE IInv'
<1>1. /\ pc = "phase1 signal" /\ pc \in Late
      /\ UNCHANGED <<procVars, fd, g_gt_log_fd, g_signal_pipefd, tidVars, line>>
      /\ fails' \in 0..MaxFail /\ g_signal_pipefd[1] \in FDs
      /\ fd[0] \in {"null", "log"}
  BY BreaksType DEF IInv, TypeOK, Late, Works, TableInv, gt_signal_phase1_func, Goto
<1>2. CASE pc' = "fail"
  <2>1. UNCHANGED <<procVars, fdVars, tidVars, line>>
    BY <1>1, <1>2 DEF fdVars, gt_signal_phase1_func, Goto
  <2> QED BY <1>1, <1>2, <2>1, FailIInv
<1>3. CASE pc' = "phase1 network"
  <2>1. /\ CtlAccepts("core", g_signal_pipefd[1])
        /\ watched' = watched \cup {<<"core", At(g_signal_pipefd[1])>>}
    BY <1>3 DEF gt_signal_phase1_func, Goto
  <2>2. PairOpen
    <3>1. ASSUME PairMissing PROVE FALSE
      <4>1. g_signal_pipefd[1] = 0 /\ 0 \in FDs
        BY <3>1 DEF PairMissing, FDs
      <4> QED BY <4>1, <1>1, <2>1 DEF CtlAccepts, At
    <3>2. ~PairTaken
      BY <1>1, <2>1 DEF PairTaken, CtlAccepts, At
    <3> QED BY <1>1, <3>1, <3>2 DEF IInv, PipeInv
  <2>3. watched' = watched \cup {<<"core", "sigR">>}
    BY <1>1, <2>1, <2>2 DEF PairOpen, At
  <2>4. TypeOK'
    <3>1. watched' \in SUBSET ({"core", "net"} \X Kinds)
      BY <2>3 DEF IInv, TypeOK, Kinds
    <3> QED BY <1>1, <1>3, <3>1 DEF IInv, TypeOK, Places, procVars, tidVars
  <2>5. TableInv' /\ RoomInv'
    BY <1>1, <1>3 DEF IInv, TableInv, RoomInv, Early, Late, At, FreeFrom
  <2>6. PipeInv'
    BY <1>1, <1>3, <2>2, <2>3 DEF PipeInv, PairOpen, Early
  <2>7. (PidInv /\ CacheInv /\ Detached /\ LineInv /\ TidRight)'
    BY <1>1, <1>3, RestIInv DEF IInv, LineInv
  <2>8. WatchInv'
    BY <2>3 DEF IInv, WatchInv
  <2> QED BY <2>4, <2>5, <2>6, <2>7, <2>8 DEF IInv, WatchInv
<1> QED BY <1>2, <1>3 DEF gt_signal_phase1_func, Goto

\* The listening socket may be the one new thing that is watched.
WatchStep == watched' \in {watched, watched \cup {<<"net", "listen">>}}

\* It keeps the type of watched.
LEMMA WatchStepType ==
  ASSUME TypeOK, WatchStep PROVE watched' \in SUBSET ({"core", "net"} \X Kinds)
<1>1. watched \in SUBSET ({"core", "net"} \X Kinds) /\ <<"net", "listen">> \in {"core", "net"} \X Kinds
  BY DEF TypeOK, Kinds
<1> QED BY <1>1 DEF WatchStep

\* The last number of the table, which the listening socket may need.
LEMMA LastNumber == /\ 8 \in FDs /\ 7 <= 7
                    /\ \A k \in FDs : k <= 7 => 8 > k
                    /\ \A m \in 8..8 : m = 8
  BY DEF FDs

\* A new descriptor beside the socketpair that is watched.
LEMMA OpenBesideIInv ==
  ASSUME IInv, pc = "phase1 network" \/ pc = "listen", pc' = "listen" \/ pc' = "run",
         NEW kind \in Kinds, NEW k \in FDs, FreeFrom(k), fd' = Opened(fd, kind),
         pc' = "listen" => k <= 7,
         WatchStep,
         UNCHANGED <<procVars, g_gt_log_fd, g_signal_pipefd, tidVars, line, fails>>
  PROVE  IInv'
<1> DEFINE l == LowestFree(fd)
<1>1. pc \in Late
  BY DEF Late
<1>2. /\ l \in FDs /\ fd[l] = "closed"
      /\ fd' \in [FDs -> Kinds]
      /\ \A n \in FDs : n # l => fd'[n] = fd[n]
      /\ \A n \in FDs : n > k => fd'[n] = "closed"
      /\ fd'[0] \in {"null", "log"} /\ fd'[g_gt_log_fd] = "log"
  <2>1. LowestFree(fd) \in FDs /\ fd[LowestFree(fd)] = "closed"
    BY <1>1, OpenedLate, Zenon
  <2>2. Opened(fd, kind) \in [FDs -> Kinds]
    BY <1>1, OpenedLate, Zenon
  <2>3. \A n \in FDs : n # LowestFree(fd) => Opened(fd, kind)[n] = fd[n]
    BY <1>1, OpenedLate, Zenon
  <2>4. \A n \in FDs : n > k => Opened(fd, kind)[n] = "closed"
    BY <1>1, OpenedAbove, Zenon
  <2>5. Opened(fd, kind)[0] \in {"null", "log"} /\ Opened(fd, kind)[g_gt_log_fd] = "log"
    BY <1>1, OpenedLate, Zenon
  <2> QED BY <2>1, <2>2, <2>3, <2>4, <2>5
<1> HIDE DEF l
<1>3. TypeOK'
  <2>1. watched' \in SUBSET ({"core", "net"} \X Kinds)
    BY WatchStepType DEF IInv
  <2> QED BY <1>2, <2>1 DEF IInv, TypeOK, Places, procVars, tidVars
<1>4. TableInv'
  BY <1>1, <1>2, LateTable DEF Late
<1>5. RoomInv'
  <2>1. pc' = "listen" => fd'[8] = "closed"
    BY <1>2, LastNumber, Zenon
  <2>2. pc' = "listen" => FreeFrom(8)'
    BY <2>1, LastNumber, Zenon DEF FreeFrom
  <2> QED BY <2>2 DEF RoomInv, Early
<1>6. PipeInv'
  <2>1. PairOpen /\ <<"core", "sigR">> \in watched
    BY DEF IInv, PipeInv
  <2>2. g_signal_pipefd[1] \in FDs /\ g_signal_pipefd[2] \in FDs
    BY DEF IInv, TypeOK
  <2>3. PairOpen'
    BY <1>2, <2>1, <2>2 DEF PairOpen
  <2> QED BY <2>1, <2>3 DEF PipeInv, Early, WatchStep
<1>7. (PidInv /\ CacheInv /\ Detached /\ LineInv /\ TidRight)'
  BY RestIInv DEF IInv, LineInv
<1>8. WatchInv'
  BY DEF IInv, WatchInv, WatchStep
<1> QED BY <1>3, <1>4, <1>5, <1>6, <1>7, <1>8 DEF IInv, WatchInv

\* The network poller's epoll set.
LEMMA Phase1NetworkIInv == ASSUME IInv, gt_network_phase1_func PROVE IInv'
<1>0. fails' \in 0..MaxFail
  BY BreaksType DEF IInv, TypeOK, Works, gt_network_phase1_func, Goto
<1>1. /\ pc = "phase1 network" /\ pc \in Late /\ FreeFrom(7) /\ 7 \in FDs /\ "net" \in Kinds
      /\ UNCHANGED <<procVars, g_gt_log_fd, g_signal_pipefd, watched, tidVars, line>>
  <2>1. pc = "phase1 network" /\ UNCHANGED <<procVars, g_gt_log_fd, g_signal_pipefd, watched, tidVars, line>>
    BY DEF gt_network_phase1_func, Goto
  <2>2. pc \in Late /\ FreeFrom(7)
    BY <2>1 DEF IInv, RoomInv, Late
  <2>3. 7 \in FDs /\ "net" \in Kinds
    BY DEF FDs, Kinds
  <2> QED BY <2>1, <2>2, <2>3
<1>2. CASE pc' = "fail"
  <2>1. fd' \in {fd, Opened(fd, "net")}
    BY <1>2 DEF gt_network_phase1_func, Goto
  <2> QED BY <1>0, <1>1, <1>2, <2>1, LateFailIInv
<1>3. CASE pc' = "listen"
  <2>1. fd' = Opened(fd, "net") /\ UNCHANGED fails
    BY <1>3 DEF Works, gt_network_phase1_func, Goto
  <2>2. WatchStep /\ 7 <= 7
    BY <1>1, LastNumber, Zenon DEF WatchStep
  <2> QED BY <1>1, <1>3, <2>1, <2>2, OpenBesideIInv
<1> QED BY <1>2, <1>3 DEF gt_network_phase1_func, Goto

\* The listening socket, the last descriptor of the start.
LEMMA ListenIInv == ASSUME IInv, gt_network_listenning PROVE IInv'
<1>0. fails' \in 0..MaxFail
  BY BreaksType DEF IInv, TypeOK, Works, gt_network_listenning, Goto
<1>1. /\ pc = "listen" /\ pc \in Late /\ FreeFrom(8) /\ 8 \in FDs /\ "listen" \in Kinds
      /\ UNCHANGED <<procVars, g_gt_log_fd, g_signal_pipefd, tidVars, line>>
  <2>1. pc = "listen" /\ UNCHANGED <<procVars, g_gt_log_fd, g_signal_pipefd, tidVars, line>>
    BY DEF gt_network_listenning, Goto
  <2>2. pc \in Late /\ FreeFrom(8)
    BY <2>1 DEF IInv, RoomInv, Late
  <2>3. 8 \in FDs /\ "listen" \in Kinds
    BY DEF FDs, Kinds
  <2> QED BY <2>1, <2>2, <2>3
<1>2. CASE pc' = "fail"
  <2>1. fd' \in {fd, Opened(fd, "listen")} /\ UNCHANGED watched
    BY <1>2 DEF gt_network_listenning, Goto
  <2> QED BY <1>0, <1>1, <1>2, <2>1, LateFailIInv
<1>3. CASE pc' = "run"
  <2>1. /\ fd' = Opened(fd, "listen") /\ UNCHANGED fails
        /\ watched' = watched \cup {<<"net", "listen">>}
    BY <1>3 DEF Works, gt_network_listenning, Goto
  <2> QED BY <1>1, <1>3, <2>1, OpenBesideIInv DEF WatchStep
<1> QED BY <1>2, <1>3 DEF gt_network_listenning, Goto

\* The end closes everything.
LEMMA ExitIInv == ASSUME IInv, Exit PROVE IInv'
<1> USE DEF Exit, Goto
<1>1. TypeOK'
  BY DEF IInv, TypeOK, Places, Kinds, procVars, tidVars
<1>2. TableInv' /\ RoomInv' /\ PipeInv'
  BY DEF TableInv, RoomInv, PipeInv, Early, Late, At, Text, FDs
<1>3. (PidInv /\ CacheInv /\ Detached /\ LineInv /\ TidRight)'
  BY DEF IInv, PidInv, CacheInv, Detached, LineInv, TidRight, procVars, tidVars
<1> QED BY <1>1, <1>2, <1>3 DEF IInv, WatchInv

\* A step that changes nothing.
LEMMA StutterIInv == ASSUME IInv, UNCHANGED vars PROVE IInv'
<1> USE DEF vars, procVars, fdVars, tidVars
<1>1. TypeOK'
  BY DEF IInv, TypeOK
<1>2. (TableInv /\ RoomInv /\ PipeInv)'
  BY DEF IInv, TableInv, RoomInv, PipeInv, Early, Late, At, FreeFrom,
         PairOpen, PairMissing, PairClosed, PairTaken
<1>3. (PidInv /\ CacheInv /\ Detached /\ LineInv /\ TidRight)'
  BY DEF IInv, PidInv, CacheInv, Detached, LineInv, TidRight
<1> QED BY <1>1, <1>2, <1>3 DEF IInv, WatchInv

-----------------------------------------------------------------------------
\* The start of the process keeps its inductive invariant through both forks
\* and every call that opens a descriptor, whichever of them fail.
THEOREM ProcessInvariant == Spec => []IInv
<1>1. ASSUME IInv, [Next]_vars PROVE IInv'
  BY <1>1, ParseIInv, FirstForkIInv, SetSidIInv, SecondForkIInv, CloseStdIInv, OpenNullIInv,
     LogInitIInv, PipefdIInv, Phase0IInv, Phase1SignalIInv, Phase1NetworkIInv, ListenIInv,
     ExitIInv, ParentExitIInv, GettidIInv, LogPrintIInv, StutterIInv
     DEF Next
<1> QED BY <1>1, InitIInv, PTL DEF Spec

\* Every variable keeps its type: no number the program keeps leaves the
\* table, and the process that goes on is never one that has exited.
THEOREM ProcessTyped == Spec => []TypeOK
  BY ProcessInvariant, PTL DEF IInv

\* After gt_daemonize_process the daemon is outside the shell's session and
\* job and leads no session, for any set of process numbers.
THEOREM ProcessDetached == Spec => []Detached
  BY ProcessInvariant, PTL DEF IInv

\* The cache of gt_gettid never answers for another process.
THEOREM ProcessTidRight == Spec => []TidRight
  BY ProcessInvariant, PTL DEF IInv

\* No log line goes to a socket or an epoll set.
THEOREM ProcessLogTarget == Spec => []LogTarget
<1>1. IInv => LogTarget
  BY DEF IInv, LogTarget, TableInv, LineInv, Text, Late, At
<1> QED BY <1>1, ProcessInvariant, PTL

\* gt_log_print stays in its buffer for messages of any length up to one byte
\* more than the room, and its line is whole up to two bytes less.
THEOREM ProcessLineSafe == Spec => []LineSafe
<1>1. IInv => LineSafe
  <2> SUFFICES ASSUME IInv PROVE LineSafe
    OBVIOUS
  <2>1. line.level \in Levels /\ line.len \in Nat
    <3>1. line \in [to : Kinds \cup {"none"}, level : Levels, len : MsgLens \cup {0}]
      BY DEF IInv, TypeOK
    <3>2. line.level \in Levels /\ line.len \in MsgLens \cup {0}
      BY <3>1
    <3>3. \A len \in MsgLens \cup {0} : len \in Nat
      BY ProcessAssumption
    <3> QED BY <3>2, <3>3
  <2>2. g_log_level_str[line.level] \in {4, 5}
    BY <2>1 DEF Levels, g_log_level_str
  <2>3. /\ Line(line.level, line.len).inside
             <=> LogLength(line.level, line.len) + 1 <= 1024 /\ EndRoom(line.level, line.len) >= 0
        /\ Line(line.level, line.len).whole
             <=> line.len < Room(line.level) /\ EndRoom(line.level, line.len) >= 2
    BY DEF Line, GT_LOG_BUF_MAX_LEN
  <2>4. /\ line.len <= Room(line.level) + 1 =>
               LogLength(line.level, line.len) + 1 <= 1024 /\ EndRoom(line.level, line.len) >= 0
        /\ line.len <= Room(line.level) - 2 =>
               line.len < Room(line.level) /\ EndRoom(line.level, line.len) >= 2
    BY <2>1, <2>2 DEF Room, LogLength, EndRoom, Prefix, LevelLen, TimeLen, GT_LOG_BUF_MAX_LEN
  <2> QED BY <2>3, <2>4, Zenon DEF LineSafe
<1> QED BY <1>1, ProcessInvariant, PTL

\* A signal handler's byte goes to the socketpair or to nothing that reads it.
THEOREM ProcessSignalBytes == Spec => []SignalBytes
<1>1. IInv => SignalBytes
  <2> SUFFICES ASSUME IInv PROVE SignalBytes
    OBVIOUS
  <2> DEFINE Armed == pc \in {"phase0", "phase1 signal", "phase1 network", "listen", "run"}
             w == g_signal_pipefd[2]
  <2>1. Armed => PairOpen \/ PairMissing \/ PairClosed \/ PairTaken
    BY DEF IInv, PipeInv
  <2>2. w \in FDs
    BY DEF IInv, TypeOK
  <2>3. 0 \in FDs
    BY DEF FDs
  <2>4. Armed => fd[0] \in {"null", "log"}
    BY DEF IInv, TableInv, Late
  <2>5. PairOpen \/ PairClosed \/ PairTaken => At(w) \in {"sigW", "closed"}
    BY <2>2 DEF At, PairOpen, PairClosed, PairTaken
  <2>6. PairMissing => w = 0
    BY DEF PairMissing
  <2>7. At(0) = fd[0]
    BY <2>3 DEF At
  <2> HIDE DEF Armed, w
  <2>8. Armed => At(w) \in {"sigW", "closed"} \/ (w = 0 /\ At(0) \in {"null", "log"})
    BY <2>1, <2>4, <2>5, <2>6, <2>7
  <2> QED BY <2>8 DEF SignalBytes, Armed, w
<1> QED BY <1>1, ProcessInvariant, PTL

\* The epoll sets hold the read end and the listening socket only, and a main
\* thread in its loop watches the read end.
THEOREM ProcessWatchesReadEnd == Spec => []WatchesReadEnd
<1>1. IInv => WatchesReadEnd
  BY DEF IInv, WatchesReadEnd, PipeInv, WatchInv
<1> QED BY <1>1, ProcessInvariant, PTL

\* Descriptor 0 is never an epoll set, so that a poller which was not
\* initialised refuses every event.
THEOREM ProcessColdPollerRefused == Spec => []ColdPollerRefused
<1>1. IInv => ColdPollerRefused
  BY DEF IInv, ColdPollerRefused, TableInv, Text, At, FDs
<1> QED BY <1>1, ProcessInvariant, PTL
=============================================================================
