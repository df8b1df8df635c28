----------------------------- MODULE GtProcess -----------------------------
(***************************************************************************)
(* The start of the process in terms of what the kernel keeps for it: its  *)
(* process and session numbers through the two forks of                    *)
(* gt_daemonize_process (user/main/main.c), and its descriptor table while *)
(* /dev/null, the log file, the socketpair of the signals, the epoll sets  *)
(* and the listening socket are opened, each of which takes the lowest     *)
(* number that is free.  Numbers are kept in g_gt_log_fd, g_signal_pipefd  *)
(* and the pollers, also when the call that should have set them failed    *)
(* and the program went on.                                                *)
(*                                                                         *)
(* GtStartup has the order of all calls, with the threads; the ones that   *)
(* open no descriptor are left out here, and the main thread is alone.     *)
(***************************************************************************)
EXTENDS GtLog, FiniteSetsExt

CONSTANTS Pids,      \* process numbers, the shell's among them
          Shell,     \* the shell's process number, and its session's
          MsgLens,   \* bound: lengths of log messages
          MaxFail    \* bound: failing calls

FDs == 0..8
Kinds == {"closed", "tty", "null", "log", "sigR", "sigW", "core", "net", "listen"}

ASSUME ProcessAssumption == /\ Pids \subseteq Nat \ {0} /\ Shell \in Pids
                            /\ MsgLens \subseteq Nat /\ MaxFail \in Nat

VARIABLES up,        \* our processes: the one that goes on, and those in _exit
          pid,       \* the one that goes on
          pgid, sid, \* process number -> its process group and session
          pc,        \* where it is
          fd,        \* its descriptors: number -> what it is open on
          g_gt_log_fd,
          g_signal_pipefd,
          watched,   \* what the epoll sets hold: pairs of set and object
          cached_pid, cached_tid,   \* the statics of gt_gettid
          tid,       \* what gt_gettid returned last, to which process
          line,      \* the last log line: where it went, its level and length
          fails

procVars == <<up, pid, pgid, sid>>
tidVars == <<cached_pid, cached_tid, tid>>
fdVars == <<fd, g_gt_log_fd, g_signal_pipefd, watched>>
vars == <<procVars, pc, fdVars, tidVars, line, fails>>

NoTid == [of |-> 0, is |-> 0]
NoLine == [to |-> "none", level |-> "INFO", len |-> 0]

\* The process is started by a shell, alone or in a job with others, with or
\* without the three standard descriptors.
Init ==
    /\ \E p, job \in Pids \ {Shell}, open \in SUBSET (0..2) :
           /\ pid = p /\ up = {p}
           /\ pgid = [q \in Pids |-> job]
           /\ fd = [n \in FDs |-> IF n \in open THEN "tty" ELSE "closed"]
    /\ sid = [q \in Pids |-> Shell]
    /\ pc = "parse"
    /\ g_gt_log_fd = 1 /\ g_signal_pipefd = <<0, 0>> /\ watched = {}
    /\ cached_pid = 0 /\ cached_tid = 0 /\ tid = NoTid
    /\ line = NoLine /\ fails = 0

Works == UNCHANGED fails
Breaks == fails < MaxFail /\ fails' = fails + 1

-----------------------------------------------------------------------------
(* The kernel (external).                                                  *)

\* What a number is open on.
At(n) == IF n \in FDs THEN fd[n] ELSE "closed"

\* The descriptor table with a new entry, at the lowest number that is free.
LowestFree(table) == Min({n \in FDs : table[n] = "closed"})
Opened(table, kind) == [table EXCEPT ![LowestFree(table)] = kind]

\* A new process number is in use neither as such nor as that of a group or
\* session.
Unused(p) == /\ p \notin up \cup {Shell}
             /\ \A q \in up : pgid[q] # p /\ sid[q] # p

\* The child goes on, with a copy of everything.
fork(child) == /\ Unused(child)
               /\ up' = up \cup {child} /\ pid' = child
               /\ pgid' = [pgid EXCEPT ![child] = pgid[pid]]
               /\ sid' = [sid EXCEPT ![child] = sid[pid]]

\* epoll_ctl(EPOLL_CTL_ADD) refuses regular files, /dev/null and the epoll set
\* itself.
CtlAccepts(set, n) == At(n) \notin {"closed", "null", "log", set}

-----------------------------------------------------------------------------
(* What the program may do at any time.                                    *)

\* Mutant: the cache does not notice that the process is another one.
MUT_CachedOnce == cached_tid = 0

\* The test of gt_gettid.
Uncached == cached_pid # pid \/ cached_tid = 0

\* The main thread's number is that of the process.
gt_gettid ==
    /\ pc # "exited"
    /\ cached_pid' = IF Uncached THEN pid ELSE cached_pid
    /\ cached_tid' = IF Uncached THEN pid ELSE cached_tid
    /\ tid' = [of |-> pid, is |-> cached_tid']
    /\ UNCHANGED <<procVars, pc, fdVars, line, fails>>

gt_log_print(level, len) ==
    /\ pc # "exited"
    /\ line' = [to |-> At(g_gt_log_fd), level |-> level, len |-> len]
    /\ UNCHANGED <<procVars, pc, fdVars, tidVars, fails>>

-----------------------------------------------------------------------------
(* main.  A call that fails takes it to "fail", where the failure is       *)
(* logged, and to its end.                                                 *)

Goto(from, to) == pc = from /\ pc' = to

gt_parse_parameters == /\ Goto("parse", "fork") \/ Goto("parse", "fail")
                       /\ UNCHANGED <<procVars, fdVars, tidVars, line, fails>>

\* Mutant: setsid without a fork before it.
MUT_NoFirstFork == /\ Goto("fork", "setsid") /\ Works /\ UNCHANGED procVars
                   /\ UNCHANGED <<fdVars, tidVars, line>>

FirstFork == /\ \/ Goto("fork", "setsid") /\ (\E child \in Pids : fork(child)) /\ Works
                \/ Goto("fork", "fail") /\ Breaks /\ UNCHANGED procVars
             /\ UNCHANGED <<fdVars, tidVars, line>>

\* Refused to the leader of a process group; the result is not looked at.
SetSid == /\ Goto("setsid", "fork again")
          /\ IF pgid[pid] = pid
             THEN UNCHANGED <<pgid, sid>>
             ELSE /\ pgid' = [pgid EXCEPT ![pid] = pid]
                  /\ sid' = [sid EXCEPT ![pid] = pid]
          /\ UNCHANGED <<up, pid, fdVars, tidVars, line, fails>>

SecondFork == /\ \/ Goto("fork again", "close") /\ (\E child \in Pids : fork(child)) /\ Works
                 \/ Goto("fork again", "fail") /\ Breaks /\ UNCHANGED procVars
              /\ UNCHANGED <<fdVars, tidVars, line>>

\* Mutant: the child takes the branch of the parent (0 <= pid).
MUT_AnyoneExits(p) == /\ p \in up
                      /\ up' = up \ {p}
                      /\ UNCHANGED <<pid, pgid, sid, pc, fdVars, tidVars, line, fails>>

\* _exit(0) of a parent.
ParentExit(p) == /\ p \in up \ {pid}
                 /\ up' = up \ {p}
                 /\ UNCHANGED <<pid, pgid, sid, pc, fdVars, tidVars, line, fails>>

CloseStd == /\ Goto("close", "null")
            /\ fd' = [n \in FDs |-> IF n \in 0..2 THEN "closed" ELSE fd[n]]
            /\ UNCHANGED <<procVars, g_gt_log_fd, g_signal_pipefd, watched, tidVars, line, fails>>

\* open of /dev/null and the two dup2; when open fails so do they, and nobody
\* looks.
OpenNull ==
    /\ Goto("null", "log")
    /\ \/ fd' = [Opened(fd, "null") EXCEPT ![1] = "null", ![2] = "null"] /\ Works
       \/ Breaks /\ UNCHANGED fd
    /\ UNCHANGED <<procVars, g_gt_log_fd, g_signal_pipefd, watched, tidVars, line>>

\* Mutant: without a log file the program goes on, logging to its output.
MUT_LogIsOptional ==
    /\ Goto("log", "signals")
    /\ \/ /\ fd' = Opened(fd, "log") /\ g_gt_log_fd' = LowestFree(fd)
          /\ Works
       \/ Breaks /\ UNCHANGED <<fd, g_gt_log_fd>>
    /\ UNCHANGED <<line, procVars, g_signal_pipefd, watched, tidVars>>

\* The failure is reported through GT_STD_ERROR_LOG, on descriptor 1.
gt_log_init ==
    /\ \/ /\ Goto("log", "signals")
          /\ fd' = Opened(fd, "log") /\ g_gt_log_fd' = LowestFree(fd)
          /\ Works /\ UNCHANGED line
       \/ /\ Goto("log", "fail") /\ Breaks
          /\ g_gt_log_fd' = -1
          /\ \E len \in MsgLens : line' = [to |-> At(1), level |-> "ERROR", len |-> len]
          /\ UNCHANGED fd
    /\ UNCHANGED <<procVars, g_signal_pipefd, watched, tidVars>>

\* gt_signals_init ignores what gt_signal_create_pipefd returns: after a
\* failed socketpair g_signal_pipefd is still zero, and when fcntl fails on
\* the write end both ends are closed and their numbers stay.
gt_signal_create_pipefd ==
    LET r == LowestFree(fd)
        with_r == Opened(fd, "sigR")
        w == LowestFree(with_r)
    IN  /\ Goto("signals", "phase0")
        /\ \/ fd' = Opened(with_r, "sigW") /\ g_signal_pipefd' = <<r, w>> /\ Works
           \/ Breaks /\ UNCHANGED <<fd, g_signal_pipefd>>
           \/ Breaks /\ g_signal_pipefd' = <<r, w>> /\ UNCHANGED fd
        /\ UNCHANGED <<procVars, g_gt_log_fd, watched, tidVars, line>>

\* gt_poller_init of the core poller; a missing event array leaves the epoll
\* set open.
gt_core_phase0_func ==
    /\ \/ Goto("phase0", "phase1 signal") /\ fd' = Opened(fd, "core") /\ Works
       \/ Goto("phase0", "fail") /\ Breaks /\ fd' \in {fd, Opened(fd, "core")}
    /\ UNCHANGED <<procVars, g_gt_log_fd, g_signal_pipefd, watched, tidVars, line>>

\* Mutant: the result of gt_poller_event_start is not looked at.
MUT_ResultIgnored ==
    LET n == g_signal_pipefd[1]
    IN  /\ Goto("phase1 signal", "phase1 network")
        /\ watched' = IF CtlAccepts("core", n) THEN watched \cup {<<"core", At(n)>>} ELSE watched
        /\ UNCHANGED <<fails, procVars, fd, g_gt_log_fd, g_signal_pipefd, tidVars, line>>
\* Mutant: the event is made for the write end.
MUT_WriteEnd ==
    LET n == g_signal_pipefd[2]
    IN  /\ Goto("phase1 signal", "phase1 network") /\ CtlAccepts("core", n)
        /\ watched' = watched \cup {<<"core", At(n)>>}
        /\ UNCHANGED <<fails, procVars, fd, g_gt_log_fd, g_signal_pipefd, tidVars, line>>

\* The read end is put into the core poller's epoll set, if the kernel takes
\* what the number is open on.
gt_signal_phase1_func ==
    LET n == g_signal_pipefd[1]
    IN  /\ \/ /\ Goto("phase1 signal", "phase1 network") /\ CtlAccepts("core", n)
              /\ watched' = watched \cup {<<"core", At(n)>>} /\ Works
           \/ /\ Goto("phase1 signal", "fail")
              /\ IF CtlAccepts("core", n) THEN Breaks ELSE Works
              /\ UNCHANGED watched
        /\ UNCHANGED <<procVars, fd, g_gt_log_fd, g_signal_pipefd, tidVars, line>>

\* gt_poller_init of the network poller, as in phase 0.
gt_network_phase1_func ==
    /\ \/ Goto("phase1 network", "listen") /\ fd' = Opened(fd, "net") /\ Works
       \/ Goto("phase1 network", "fail") /\ Breaks /\ fd' \in {fd, Opened(fd, "net")}
    /\ UNCHANGED <<procVars, g_gt_log_fd, g_signal_pipefd, watched, tidVars, line>>

\* A failure up to listen closes the socket, a later one leaves it open.
gt_network_listenning ==
    /\ \/ /\ Goto("listen", "run")
          /\ fd' = Opened(fd, "listen")
          /\ watched' = watched \cup {<<"net", "listen">>} /\ Works
       \/ /\ Goto("listen", "fail") /\ Breaks
          /\ fd' \in {fd, Opened(fd, "listen")}
          /\ UNCHANGED watched
    /\ UNCHANGED <<procVars, g_gt_log_fd, g_signal_pipefd, tidVars, line>>

Exit == /\ Goto("fail", "exited")
        /\ fd' = [n \in FDs |-> "closed"] /\ watched' = {}
        /\ UNCHANGED <<procVars, g_gt_log_fd, g_signal_pipefd, tidVars, line, fails>>

Next == \/ gt_parse_parameters \/ FirstFork \/ SetSid \/ SecondFork \/ CloseStd \/ OpenNull
        \/ gt_log_init \/ gt_signal_create_pipefd
        \/ gt_core_phase0_func \/ gt_signal_phase1_func
        \/ gt_network_phase1_func \/ gt_network_listenning \/ Exit
        \/ \E p \in Pids : ParentExit(p)
        \/ gt_gettid
        \/ \E level \in Levels, len \in MsgLens : gt_log_print(level, len)

Spec == Init /\ [][Next]_vars

-----------------------------------------------------------------------------
Places == {"parse", "fork", "setsid", "fork again", "close", "null", "log", "signals",
           "phase0", "phase1 signal", "phase1 network", "listen", "run", "fail", "exited"}

TypeOK ==
    /\ up \in SUBSET Pids /\ pid \in up
    /\ pgid \in [Pids -> Pids] /\ sid \in [Pids -> Pids]
    /\ pc \in Places /\ fails \in 0..MaxFail
    /\ fd \in [FDs -> Kinds]
    /\ g_gt_log_fd \in FDs \cup {-1} /\ g_signal_pipefd \in FDs \X FDs
    /\ watched \in SUBSET ({"core", "net"} \X Kinds)
    /\ cached_pid \in Pids \cup {0} /\ cached_tid \in Pids \cup {0}
    /\ tid \in [of : Pids \cup {0}, is : Pids \cup {0}]
    /\ line \in [to : Kinds \cup {"none"}, level : Levels, len : MsgLens \cup {0}]

\* Both forks done, the daemon is in a session of its own that no terminal
\* can be given to through it: it does not lead the session, and it is in
\* neither session nor group of the shell's job.  setsid works because its
\* caller is a child, whose number is that of no group.
Detached ==
    pc \notin {"parse", "fork", "setsid", "fork again", "fail", "exited"} =>
        /\ sid[pid] \notin {Shell, pid}
        /\ pgid[pid] = sid[pid]

\* gt_gettid returns the number of the thread that calls it, after the forks
\* too, whose children inherit the cache, and even when a child is given the
\* number of a process that filled the cache and has gone.
TidRight == tid.is = tid.of

\* A log line goes to the terminal, to /dev/null, to the log file or nowhere,
\* never to a socket or an epoll set that was given the number the logger
\* keeps; once gt_log_init has succeeded it goes to the log file.
LogTarget ==
    /\ line.to \in {"none", "tty", "null", "log", "closed"}
    /\ pc \in {"signals", "phase0", "phase1 signal", "phase1 network", "listen", "run"}
           => At(g_gt_log_fd) = "log"

\* A line is written from within the buffer if the message is at most one
\* byte longer than the room for it, and it is whole, with its newline, if
\* the message is at least two bytes shorter.
LineSafe ==
    LET room == Room(line.level)
        written == Line(line.level, line.len)
    IN  /\ line.len <= room + 1 => written.inside
        /\ line.len <= room - 2 => written.whole

\* From gt_signals_init on a handler may run, and write to
\* g_signal_pipefd[1]: this is the write end, or a number that is closed or,
\* after a failed socketpair, that of /dev/null or, without one, of the log.
SignalBytes ==
    pc \in {"phase0", "phase1 signal", "phase1 network", "listen", "run"} =>
        \/ At(g_signal_pipefd[2]) \in {"sigW", "closed"}
        \/ g_signal_pipefd[2] = 0 /\ At(0) \in {"null", "log"}

\* A main thread that gets to its loop has the read end of the socketpair in
\* its epoll set, and nothing else; no stale number got something else in.
WatchesReadEnd ==
    /\ watched \subseteq {<<"core", "sigR">>, <<"net", "listen">>}
    /\ pc = "run" => <<"core", "sigR">> \in watched

\* epfd of a poller that has not been initialised is 0, and epoll_ctl on it
\* fails, as GtPoller has it, since descriptor 0 is never an epoll set.
ColdPollerRefused == At(0) \notin {"core", "net"}
=============================================================================
