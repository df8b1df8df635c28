----------------------------- MODULE GtSignal -----------------------------
(***************************************************************************)
(* user/core/gt_signal.c: a signal interrupts any thread, its handler      *)
(* writes the number, four bytes, to the socketpair g_signal_pipefd, and   *)
(* the main thread reads the other end, one byte at a time, from the loop  *)
(* of gt_poller_epoll_wait over the core poller.                           *)
(*                                                                         *)
(* The handlers of g_gt_sig_core print a backtrace, which allocates, and a *)
(* handler that finds the socketpair full writes to the log, which asks    *)
(* for the local time.  The C library does both under a lock that is not   *)
(* recursive, and the code that was interrupted may be its holder.         *)
(*                                                                         *)
(* The model starts when the handlers are installed and the read end is in *)
(* the core poller's epoll set (GtStartup).                                *)
(***************************************************************************)
EXTENDS Integers, Sequences

CONSTANTS Threads, Main, \* the threads, the main thread among them
          NoThread,
          Custom, Core,  \* g_gt_sig_custom and g_gt_sig_core
          Faults,        \* those of Core that an instruction raises: SIGSEGV...
          Capacity,      \* messages the socketpair holds
          MaxRaise       \* bound: signals sent to the process

Signals == Custom \cup Core
Locks == {"heap", "time"}  \* the locks of malloc and of localtime_r
Upper == 0..1              \* what the three upper bytes of an uninitialised
                           \* int32_t hold: 0, or anything else

ASSUME SignalAssumption ==
    /\ Main \in Threads /\ NoThread \notin Threads
    /\ Signals \subseteq 1..64 /\ Custom \cap Core = {} /\ Faults \subseteq Core
    /\ Capacity \in Nat \ {0} /\ MaxRaise \in Nat

VARIABLES alive,     \* does the process still run?
          pending,   \* signals sent to the process and not yet taken
          raised,    \* signals sent so far
          fault,     \* the signal the thread's next instruction raises, or 0
          hpc,       \* where each thread is in gt_signal_routine
          hsig,      \* the signal its handler runs for
          errno,     \* the thread's errno: its "own", or one the handler left
          save_errno,
          holder,    \* the thread whose own code is inside the library, by lock
          pipe,      \* the bytes between the two ends
          mpc,       \* the main thread: in epoll_wait, before read, or logging
          sig,       \* the value gt_signal_ops_read found
          msgs,      \* history: the signals whose messages are in the socketpair
          off        \* history: bytes of the first that were read

kernelVars == <<pending, raised, fault>>
handlerVars == <<hpc, hsig, errno, save_errno>>
pipeVars == <<pipe, msgs, off>>
mainVars == <<mpc, sig>>
vars == <<alive, kernelVars, handlerVars, holder, pipeVars, mainVars>>

Init ==
    /\ alive = TRUE
    /\ pending = {} /\ raised = 0
    /\ fault = [t \in Threads |-> 0]
    /\ hpc = [t \in Threads |-> "idle"]
    /\ hsig = [t \in Threads |-> 0]
    /\ errno = [t \in Threads |-> "own"]
    /\ save_errno = [t \in Threads |-> "own"]
    /\ holder = [l \in Locks |-> NoThread]
    /\ pipe = <<>> /\ msgs = <<>> /\ off = 0
    /\ mpc = "wait" /\ sig = 0

-----------------------------------------------------------------------------
(* The kernel and the C library (external).                                *)

\* A signal that is already pending is not queued a second time.
Raise(s) == /\ alive /\ raised < MaxRaise
            /\ raised' = raised + 1
            /\ pending' = pending \cup {s}
            /\ UNCHANGED <<alive, fault, handlerVars, holder, pipeVars, mainVars>>

\* The thread runs its own code, and no handler.
OwnCode(t) == alive /\ hpc[t] = "idle" /\ fault[t] = 0

\* An instruction of the thread faults, in a library call or elsewhere.  The
\* handler returns to it, so it faults for ever.
Fault(t, s) == /\ OwnCode(t)
               /\ fault' = [fault EXCEPT ![t] = s]
               /\ UNCHANGED <<alive, pending, raised, handlerVars, holder, pipeVars, mainVars>>

Free(l) == holder[l] = NoThread
Outside(t) == \A l \in Locks : holder[l] # t

TakeLock(t, l) == /\ OwnCode(t) /\ Outside(t) /\ Free(l)
                  /\ holder' = [holder EXCEPT ![l] = t]

LeaveLibrary(t, l) == /\ OwnCode(t) /\ holder[l] = t
                      /\ holder' = [holder EXCEPT ![l] = NoThread]

-----------------------------------------------------------------------------
(* The threads' own code.  Only the network thread and the datanet threads *)
(* allocate; all threads write to the log.                                 *)

gt_malloc_mem(t) ==
    /\ t # Main /\ TakeLock(t, "heap")
    /\ UNCHANGED <<alive, kernelVars, handlerVars, pipeVars, mainVars>>

gt_log_print(t) ==
    /\ t = Main => mpc = "log"
    /\ TakeLock(t, "time")
    /\ UNCHANGED <<alive, kernelVars, handlerVars, pipeVars, mainVars>>

LibraryReturns(t) ==
    /\ \E l \in Locks : LeaveLibrary(t, l)
    /\ mpc' = IF t = Main THEN "wait" ELSE mpc
    /\ UNCHANGED <<alive, kernelVars, handlerVars, pipeVars, sig>>

-----------------------------------------------------------------------------
(* gt_signal_routine on thread t.  sa_mask is full, so that handlers do    *)
(* not nest on a thread.                                                   *)

Goto(t, label) == hpc' = [hpc EXCEPT ![t] = label]

\* Any thread that is in its own code may be the one that is interrupted; a
\* fault interrupts the thread that made it.
Enter(t, s) ==
    /\ alive /\ hpc[t] = "idle"
    /\ \/ s \in pending /\ pending' = pending \ {s}
       \/ s = fault[t] /\ UNCHANGED pending
    /\ hsig' = [hsig EXCEPT ![t] = s]
    /\ save_errno' = [save_errno EXCEPT ![t] = errno[t]]
    /\ Goto(t, IF s \in Core THEN "backtrace" ELSE "deliver")
    /\ UNCHANGED <<alive, raised, fault, errno, holder, pipeVars, mainVars>>

\* gt_backtrace_print: backtrace_symbols and free need the heap, and calls in
\* it may change errno.  gt_strcut fails on a frame that has no name (or when
\* strings is NULL): a fault in a handler that masks it ends the process.
Backtrace(t) ==
    /\ alive /\ hpc[t] = "backtrace" /\ Free("heap")
    /\ \/ /\ Goto(t, "deliver")
          /\ \E e \in {errno[t], "handler"} : errno' = [errno EXCEPT ![t] = e]
          /\ UNCHANGED alive
       \/ alive' = FALSE /\ UNCHANGED <<hpc, errno>>
    /\ UNCHANGED <<kernelVars, hsig, save_errno, holder, pipeVars, mainVars>>

\* The message of gt_signal_deliver: an int32_t, least significant byte first.
Message(s) == <<s, 0, 0, 0>>

\* A message that was read in part still takes its place.
Unread == (Len(pipe) + 3) \div 4

Send(s) == /\ pipe' = pipe \o Message(s)
           /\ msgs' = Append(msgs, s)
           /\ UNCHANGED off

\* Mutant: the message is one byte, as on the reading side.
MUT_WritesOneByte(t) ==
    /\ alive /\ hpc[t] = "deliver" /\ Unread < Capacity
    /\ Goto(t, "restore")
    /\ pipe' = Append(pipe, hsig[t]) /\ msgs' = Append(msgs, hsig[t])
    /\ UNCHANGED <<errno, alive, kernelVars, hsig, save_errno, holder, off, mainVars>>
\* Mutant: the write end blocks.
MUT_BlockingWrite(t) ==
    /\ alive /\ hpc[t] = "deliver" /\ Unread < Capacity
    /\ Goto(t, "restore")
    /\ Send(hsig[t])
    /\ UNCHANGED <<errno, alive, kernelVars, hsig, save_errno, holder, mainVars>>
\* Mutant: a message too many is written.
MUT_NoLimit(t) ==
    /\ alive /\ hpc[t] = "deliver" /\ Unread <= Capacity
    /\ Goto(t, "restore")
    /\ Send(hsig[t])
    /\ UNCHANGED <<errno, alive, kernelVars, hsig, save_errno, holder, mainVars>>

\* The write end does not block: without room write fails with EAGAIN, and
\* the signal is logged and dropped.
gt_signal_deliver(t) ==
    /\ alive /\ hpc[t] = "deliver"
    /\ IF Unread < Capacity
       THEN Goto(t, "restore") /\ Send(hsig[t]) /\ UNCHANGED errno
       ELSE /\ Goto(t, "log")
            /\ errno' = [errno EXCEPT ![t] = "handler"]
            /\ UNCHANGED pipeVars
    /\ UNCHANGED <<alive, kernelVars, hsig, save_errno, holder, mainVars>>

\* GT_ERROR_LOG of gt_signal_deliver, with the handler's own localtime_r.
LogDropped(t) ==
    /\ alive /\ hpc[t] = "log" /\ Free("time")
    /\ Goto(t, "restore")
    /\ UNCHANGED <<alive, kernelVars, hsig, errno, save_errno, holder, pipeVars, mainVars>>

\* Mutant: errno is not restored.
MUT_KeepsErrno(t) ==
    /\ alive /\ hpc[t] = "restore"
    /\ Goto(t, "idle")
    /\ hsig' = [hsig EXCEPT ![t] = 0]
    /\ UNCHANGED <<errno, alive, kernelVars, save_errno, holder, pipeVars, mainVars>>

\* errno = save_errno, and the handler returns.
Return(t) ==
    /\ alive /\ hpc[t] = "restore"
    /\ Goto(t, "idle")
    /\ hsig' = [hsig EXCEPT ![t] = 0]
    /\ errno' = [errno EXCEPT ![t] = save_errno[t]]
    /\ UNCHANGED <<alive, kernelVars, save_errno, holder, pipeVars, mainVars>>

gt_signal_routine(t) == \/ \E s \in Signals : Enter(t, s)
                        \/ Backtrace(t) \/ gt_signal_deliver(t) \/ LogDropped(t)
                        \/ Return(t)

-----------------------------------------------------------------------------
(* The main thread.                                                        *)

\* Mutant: epoll_wait reports new messages only, as with EPOLLET.
MUT_OncePerMessage == /\ OwnCode(Main) /\ mpc = "wait"
                      /\ pipe # <<>> /\ Len(pipe) % 4 = 0
                      /\ mpc' = "read"
                      /\ UNCHANGED <<alive, kernelVars, handlerVars, holder, pipeVars, sig>>

\* EPOLLIN is level triggered: epoll_wait returns while there are bytes.
MainWait == /\ OwnCode(Main) /\ mpc = "wait" /\ pipe # <<>>
            /\ mpc' = "read"
            /\ UNCHANGED <<alive, kernelVars, handlerVars, holder, pipeVars, sig>>

\* The value the switch of gt_signal_ops_read sees: one byte was read into an
\* int32_t that was never initialised.
Value(byte, upper) == byte + 256 * upper

\* Mutant: what is not a known signal is acted on.
MUT_DefaultDumps(value) == value < 256

\* The cases of the switch; every other value goes to default.
Known(value) == value \in Signals

\* read of one byte.
Receive == /\ pipe' = Tail(pipe)
           /\ off' = (off + 1) % 4
           /\ msgs' = IF off = 3 THEN Tail(msgs) ELSE msgs

\* Mutant: the handler reads on without going back to epoll_wait.
MUT_ReadsOn ==
    /\ OwnCode(Main) /\ mpc = "read" /\ pipe # <<>>
    /\ Receive
    /\ UNCHANGED <<mpc, sig, alive, kernelVars, handlerVars, holder>>

\* A known signal is passed to gt_process_snap or gt_process_dump, which log.
gt_signal_ops_read ==
    /\ OwnCode(Main) /\ mpc = "read" /\ pipe # <<>>
    /\ Receive
    /\ \E upper \in Upper :
           LET value == Value(Head(pipe), upper)
           IN  IF Known(value) THEN sig' = value /\ mpc' = "log"
                               ELSE mpc' = "wait" /\ UNCHANGED sig
    /\ UNCHANGED <<alive, kernelVars, handlerVars, holder>>

MainThread == MainWait \/ gt_signal_ops_read \/ gt_log_print(Main)

Next == \/ \E s \in Signals : Raise(s)
        \/ \E t \in Threads : \/ gt_signal_routine(t)
                              \/ gt_malloc_mem(t) \/ gt_log_print(t) \/ LibraryReturns(t)
                              \/ \E s \in Faults : Fault(t, s)
        \/ MainWait \/ gt_signal_ops_read

\* Threads run, in handlers and in the library, and the kernel delivers
\* pending signals.  A lock that is free again and again is got some day,
\* hence strong fairness of what takes one.  Nobody has to send a signal, to
\* fault or to call the library.
Spec == /\ Init /\ [][Next]_vars
        /\ \A t \in Threads : SF_vars(gt_signal_routine(t)) /\ WF_vars(LibraryReturns(t))
        /\ SF_vars(MainThread)

-----------------------------------------------------------------------------
TypeOK ==
    /\ alive \in BOOLEAN
    /\ pending \in SUBSET Signals /\ raised \in 0..MaxRaise
    /\ fault \in [Threads -> Faults \cup {0}]
    /\ hpc \in [Threads -> {"idle", "backtrace", "deliver", "log", "restore"}]
    /\ hsig \in [Threads -> Signals \cup {0}]
    /\ errno \in [Threads -> {"own", "handler"}]
    /\ save_errno \in [Threads -> {"own", "handler"}]
    /\ holder \in [Locks -> Threads \cup {NoThread}]
    /\ pipe \in Seq(Signals \cup {0}) /\ Unread <= Capacity
    /\ msgs \in Seq(Signals) /\ off \in 0..3
    /\ mpc \in {"wait", "read", "log"} /\ sig \in Signals \cup {0}

\* The k-th byte, from 0, of the messages of msgs, one after the other.
Byte(k) == Message(msgs[(k \div 4) + 1])[(k % 4) + 1]

\* Reading byte by byte keeps the main thread in step with the messages: what
\* is in the socketpair is the rest of the first message and whole messages
\* of the signals that were delivered after it, in their order.
BytesInStep ==
    /\ Len(pipe) = 4 * Len(msgs) - off
    /\ \A i \in 1..Len(pipe) : pipe[i] = Byte(off + i - 1)

\* The main thread acts on nothing that was not sent: gt_process_snap and
\* gt_process_dump are called for the oldest signal in the socketpair, and
\* once, whatever the uninitialised bytes hold.
NothingInvented ==
    [][mpc = "read" /\ mpc' = "log" => off = 0 /\ sig' = Head(msgs)]_vars

\* The read end blocks, but the main thread never calls read on an empty
\* socketpair, so it cannot get stuck there with the other events of the core
\* poller waiting.
ReadNeverBlocks == mpc = "read" => pipe # <<>>

\* A handler leaves no trace in the errno of the code it interrupted, which
\* gt_datanet_ops_read and others test after their system calls.
ErrnoPreserved == \A t \in Threads : hpc[t] = "idle" => errno[t] = "own"

\* A thread that faulted or was interrupted by a handler inside the library,
\* whose lock is therefore not released.
LibraryInterrupted ==
    \E l \in Locks : holder[l] # NoThread /\ ~OwnCode(holder[l])

\* The process is not ended by a backtrace, and no library call stays
\* interrupted for ever.
Undisturbed == []alive /\ []<>~LibraryInterrupted

\* A handler returns: not the full socketpair, not even while it interrupts
\* the main thread that would empty it, but only a library call that stays
\* interrupted (of its own thread, or of one that waits for it) can stop it.
HandlerReturns ==
    Undisturbed => \A t \in Threads : hpc[t] # "idle" ~> hpc[t] = "idle"

\* Unless the main thread itself faults, every byte that was written is read,
\* also while other threads fault for ever and keep the socketpair full.
MessagesRead ==
    Undisturbed =>
        \A k \in 0..3 : pipe # <<>> /\ off = k ~> off # k \/ fault[Main] # 0

=============================================================================
