--------------------------- MODULE GtSignalProofs ---------------------------
(***************************************************************************)
(* The signal engine, for any set of threads, any set of signals and any   *)
(* capacity of the socketpair: the byte-wise reader stays in step with the *)
(* four-byte writer, acts only on what was sent, never reads from an empty *)
(* socketpair, and no handler is seen in errno.                            *)
(*                                                                         *)
(* IInv adds to these HandlerInv, what a handler that is under way knows.  *)
(* BytesInStep carries the bound on the socketpair: the messages in it are *)
(* as many as the signals in msgs, a message read in part included.        *)
(***************************************************************************)
EXTENDS GtSignal, TLAPS, SequenceTheorems

\* A handler runs for a signal, and keeps the errno it found.
HandlerInv ==
    \A t \in Threads : hpc[t] # "idle" => hsig[t] \in Signals /\ save_errno[t] = "own"

IInv == TypeOK /\ BytesInStep /\ ReadNeverBlocks /\ ErrnoPreserved /\ HandlerInv

SafeSpec == Init /\ [][Next]_vars

-----------------------------------------------------------------------------
(* Bytes and messages.                                                     *)

\* Signal numbers are positive.
LEMMA SignalNumbers == Signals \subseteq Nat \ {0} /\ \A s \in Signals : s <= 64
  BY SignalAssumption

\* A message read in part takes the place of a whole one.
LEMMA UnreadIs ==
  ASSUME TypeOK, BytesInStep PROVE Unread = Len(msgs)
<1>1. Len(msgs) \in Nat /\ off \in 0..3 /\ Len(pipe) \in Nat /\ Len(pipe) = 4 * Len(msgs) - off
  BY DEF TypeOK, BytesInStep
<1>2. (Len(pipe) + 3) \div 4 = Len(msgs)
  BY <1>1
<1> QED BY <1>2 DEF Unread

\* Where the k-th byte stands in its message, and in which.
LEMMA Quarters ==
  ASSUME NEW k \in Nat
  PROVE  /\ k \div 4 \in Nat /\ k % 4 \in 0..3 /\ k = 4 * (k \div 4) + (k % 4)
         /\ (k + 4) \div 4 = (k \div 4) + 1 /\ (k + 4) % 4 = k % 4
  OBVIOUS

\* The bytes of a message.
LEMMA MessageIs ==
  ASSUME NEW s \in Signals
  PROVE  /\ Message(s) \in Seq(Signals \cup {0}) /\ Len(Message(s)) = 4
         /\ Message(s)[1] = s /\ \A j \in 2..4 : Message(s)[j] = 0
<1>1. Message(s) = <<s, 0, 0, 0>>
  BY DEF Message
<1>2. /\ <<s, 0, 0, 0>> \in Seq(Signals \cup {0}) /\ Len(<<s, 0, 0, 0>>) = 4
      /\ <<s, 0, 0, 0>>[1] = s
  OBVIOUS
<1>3. /\ <<s, 0, 0, 0>>[2] = 0 /\ <<s, 0, 0, 0>>[3] = 0 /\ <<s, 0, 0, 0>>[4] = 0
  OBVIOUS
<1>4. \A j \in 2..4 : j = 2 \/ j = 3 \/ j = 4
  OBVIOUS
<1> QED BY <1>1, <1>2, <1>3, <1>4

\* A message is appended: the new bytes are its own, the others are still
\* those of the messages before it.
LEMMA SendIs ==
  ASSUME TypeOK, BytesInStep, NEW s \in Signals, Unread < Capacity, Send(s)
  PROVE  /\ pipe' \in Seq(Signals \cup {0}) /\ msgs' \in Seq(Signals) /\ off' \in 0..3
         /\ BytesInStep' /\ Unread' <= Capacity /\ pipe' # <<>>
<1> DEFINE L == Len(msgs)
           P == Len(pipe)
<1>1. /\ L \in Nat /\ P \in Nat /\ off \in 0..3 /\ P = 4 * L - off
      /\ msgs \in Seq(Signals) /\ pipe \in Seq(Signals \cup {0})
  BY DEF TypeOK, BytesInStep
<1>2. pipe' = pipe \o Message(s) /\ msgs' = Append(msgs, s) /\ off' = off
  BY DEF Send
<1>3. /\ msgs' \in Seq(Signals) /\ Len(msgs') = L + 1 /\ msgs'[L + 1] = s
      /\ \A i \in 1..L : msgs'[i] = msgs[i]
  BY <1>1, <1>2, AppendProperties
<1>4. /\ pipe' \in Seq(Signals \cup {0}) /\ Len(pipe') = P + 4
      /\ \A i \in 1..P + 4 : pipe'[i] = IF i <= P THEN pipe[i] ELSE Message(s)[i - P]
  <2>1. Message(s) \in Seq(Signals \cup {0}) /\ Len(Message(s)) = 4
    BY MessageIs
  <2> DEFINE S == Signals \cup {0}
             M == Message(s)
  <2>2. pipe \in Seq(S) /\ M \in Seq(S) /\ Len(M) = 4 /\ pipe' = pipe \o M
    BY <1>1, <1>2, <2>1
  <2> HIDE DEF S, M
  <2>3. /\ pipe \o M \in Seq(S) /\ Len(pipe \o M) = Len(pipe) + Len(M)
        /\ \A i \in 1..Len(pipe) + Len(M) :
               (pipe \o M)[i] = IF i <= Len(pipe) THEN pipe[i] ELSE M[i - Len(pipe)]
    BY <2>2, ConcatProperties
  <2>4. /\ pipe' \in Seq(S) /\ Len(pipe') = P + 4
        /\ \A i \in 1..P + 4 : pipe'[i] = IF i <= P THEN pipe[i] ELSE M[i - P]
    BY <2>2, <2>3
  <2> QED BY <2>4 DEF S, M
<1> HIDE DEF L, P
<1>5. ASSUME NEW i \in 1..P + 4 PROVE pipe'[i] = Byte(off + i - 1)'
  <2> DEFINE k == off + i - 1
  <2>1. k \in Nat
    BY <1>1
  <2>2. /\ k \div 4 \in Nat /\ k % 4 \in 0..3 /\ k = 4 * (k \div 4) + (k % 4)
    BY <2>1, Quarters
  <2> DEFINE m == k \div 4
             j == k % 4
  <2>3. m \in Nat /\ j \in 0..3 /\ off + i - 1 = 4 * m + j
    BY <2>2
  <2>4. Byte(off + i - 1)' = Message(msgs'[m + 1])[j + 1]
    BY <1>2 DEF Byte
  <2> HIDE DEF m, j
  <2>5. CASE i <= P
    <3>1. m + 1 \in 1..L
      BY <1>1, <2>3, <2>5
    <3>2. pipe[i] = Message(msgs[m + 1])[j + 1]
      BY <1>1, <2>5, SMTT(30) DEF BytesInStep, Byte, P, m, j
    <3> QED BY <1>3, <1>4, <2>4, <2>5, <3>1, <3>2
  <2>6. CASE i > P
    <3>1. m = L /\ i - P = j + 1
      BY <1>1, <2>3, <2>6
    <3>2. ~(i <= P)
      BY <1>1, <2>6
    <3>3. pipe'[i] = Message(s)[i - P]
      BY <1>4, <3>2
    <3>4. msgs'[m + 1] = s
      BY <1>3, <3>1
    <3> QED BY <2>4, <3>1, <3>3, <3>4
  <2> QED BY <1>1, <2>5, <2>6
<1>6. BytesInStep'
  <2>1. Len(pipe') = 4 * Len(msgs') - off'
    BY <1>1, <1>2, <1>3, <1>4
  <2>2. \A i \in 1..Len(pipe') : pipe'[i] = Byte(off + i - 1)'
    BY <1>4, <1>5
  <2> QED BY <1>2, <2>1, <2>2 DEF BytesInStep
<1>7. Unread' <= Capacity
  <2>1. L < Capacity
    BY UnreadIs DEF L
  <2>2. (Len(pipe') + 3) \div 4 = L + 1
    BY <1>1, <1>4
  <2> QED BY <1>1, <2>1, <2>2, SignalAssumption DEF Unread
<1>8. pipe' # <<>>
  BY <1>1, <1>4
<1> QED BY <1>1, <1>2, <1>3, <1>4, <1>6, <1>7, <1>8

\* A byte is taken off: the first message loses it, and goes with its last.
LEMMA ReceiveIs ==
  ASSUME TypeOK, BytesInStep, pipe # <<>>, Receive
  PROVE  /\ pipe' \in Seq(Signals \cup {0}) /\ msgs' \in Seq(Signals) /\ off' \in 0..3
         /\ BytesInStep' /\ Unread' <= Capacity
<1> DEFINE L == Len(msgs)
           P == Len(pipe)
<1>1. /\ L \in Nat /\ P \in Nat /\ off \in 0..3 /\ P = 4 * L - off
      /\ msgs \in Seq(Signals) /\ pipe \in Seq(Signals \cup {0})
  BY DEF TypeOK, BytesInStep
<1>2. P > 0
  BY <1>1, EmptySeq
<1>3. /\ pipe' = Tail(pipe) /\ off' = (off + 1) % 4
      /\ msgs' = IF off = 3 THEN Tail(msgs) ELSE msgs
  BY DEF Receive
<1>4. /\ pipe' \in Seq(Signals \cup {0}) /\ Len(pipe') = P - 1
      /\ \A i \in 1..P - 1 : pipe'[i] = pipe[i + 1]
  BY <1>1, <1>3, HeadTailProperties
<1>5. L > 0 /\ msgs # <<>>
  BY <1>1, <1>2, EmptySeq
<1>6. \A i \in 1..P : pipe[i] = Byte(off + i - 1)
  BY DEF BytesInStep
<1>7. Len(pipe') = 4 * Len(msgs') - off' /\ msgs' \in Seq(Signals) /\ off' \in 0..3
  <2>1. CASE off = 3
    <3>1. off' = 0 /\ msgs' = Tail(msgs)
      BY <1>3, <2>1
    <3>2. Len(msgs') = L - 1 /\ msgs' \in Seq(Signals)
      BY <1>1, <1>5, <3>1, HeadTailProperties
    <3> QED BY <1>1, <1>4, <2>1, <3>1, <3>2
  <2>2. CASE off # 3
    <3>1. off' = off + 1 /\ msgs' = msgs
      BY <1>1, <1>3, <2>2, SMTT(30)
    <3> QED BY <1>1, <1>4, <2>2, <3>1
  <2> QED BY <2>1, <2>2
<1> HIDE DEF L, P
<1>8. ASSUME NEW i \in 1..P - 1 PROVE pipe'[i] = Byte(off + i - 1)'
  <2>1. i + 1 \in 1..P /\ pipe'[i] = pipe[i + 1] /\ pipe[i + 1] = Byte(off + (i + 1) - 1)
    <3>1. i + 1 \in 1..P
      BY <1>1
    <3>2. pipe'[i] = pipe[i + 1]
      BY <1>4
    <3> QED BY <1>6, <3>1, <3>2
  <2>2. CASE off # 3
    <3>1. off' = off + 1 /\ msgs' = msgs
      BY <1>1, <1>3, <2>2, SMTT(30)
    <3>2. off' + i - 1 = off + (i + 1) - 1
      BY <1>1, <3>1
    <3> QED BY <2>1, <3>1, <3>2 DEF Byte
  <2>3. CASE off = 3
    <3> DEFINE k == i - 1
    <3>1. off' = 0 /\ msgs' = Tail(msgs)
      BY <1>3, <2>3
    <3>2. k \in Nat
      BY <1>1
    <3>3. /\ k \div 4 \in Nat /\ k % 4 \in 0..3 /\ k = 4 * (k \div 4) + (k % 4)
          /\ (k + 4) \div 4 = (k \div 4) + 1 /\ (k + 4) % 4 = k % 4
      BY <3>2, Quarters
    <3> DEFINE m == k \div 4
               j == k % 4
    <3>4. m \in Nat /\ j \in 0..3 /\ i - 1 = 4 * m + j
      BY <3>3
    <3>5. off' + i - 1 = k /\ off + (i + 1) - 1 = k + 4
      BY <1>1, <2>3, <3>1
    <3>6. Byte(off + i - 1)' = Message(msgs'[m + 1])[j + 1]
      BY <3>5 DEF Byte
    <3>7. Byte(off + (i + 1) - 1) = Message(msgs[(m + 1) + 1])[j + 1]
      BY <3>3, <3>5 DEF Byte
    <3> HIDE DEF m, j, k
    <3>8. m + 1 \in 1..L - 1
      BY <1>1, <2>3, <3>4
    <3>9. msgs'[m + 1] = msgs[(m + 1) + 1]
      BY <1>1, <1>5, <3>1, <3>8, HeadTailProperties DEF L
    <3> QED BY <2>1, <3>6, <3>7, <3>9
  <2> QED BY <2>2, <2>3
<1>9. BytesInStep'
  <2>1. \A i \in 1..Len(pipe') : pipe'[i] = Byte(off + i - 1)'
    BY <1>4, <1>8
  <2> QED BY <1>7, <2>1 DEF BytesInStep
<1>10. Unread' <= Capacity
  <2>1. (P + 3) \div 4 <= Capacity
    BY DEF TypeOK, Unread, P
  <2>2. ((P - 1) + 3) \div 4 <= (P + 3) \div 4
    BY <1>1, <1>2
  <2>3. ((P - 1) + 3) \div 4 \in Int /\ (P + 3) \div 4 \in Int
    BY <1>1
  <2> QED BY <1>4, <2>1, <2>2, <2>3, SignalAssumption DEF Unread
<1> QED BY <1>4, <1>7, <1>9, <1>10

-----------------------------------------------------------------------------
(* Steps.                                                                  *)

\* Before the first signal.
LEMMA InitIInv == Init => IInv
<1> SUFFICES ASSUME Init PROVE IInv
  OBVIOUS
<1>1. /\ pipe \in Seq(Signals \cup {0}) /\ Len(pipe) = 0 /\ msgs \in Seq(Signals) /\ Len(msgs) = 0
      /\ off = 0
  BY EmptySeq DEF Init
<1>2. BytesInStep
  BY <1>1 DEF BytesInStep
<1>3. Unread <= Capacity
  BY <1>1, SignalAssumption DEF Unread
<1>4. TypeOK
  <2>1. raised \in 0..MaxRaise /\ off \in 0..3
    BY <1>1, SignalAssumption DEF Init
  <2> QED BY <1>1, <1>3, <2>1 DEF Init, TypeOK
<1>5. ReadNeverBlocks /\ ErrnoPreserved /\ HandlerInv
  BY DEF Init, ReadNeverBlocks, ErrnoPreserved, HandlerInv
<1> QED BY <1>2, <1>4, <1>5 DEF IInv

\* What is said of the socketpair, left alone.
LEMMA PipeSame ==
  ASSUME IInv, UNCHANGED pipeVars
  PROVE  /\ pipe' \in Seq(Signals \cup {0}) /\ msgs' \in Seq(Signals) /\ off' \in 0..3
         /\ BytesInStep' /\ Unread' <= Capacity
  BY DEF IInv, TypeOK, BytesInStep, Byte, Unread, pipeVars

\* The kernel sends a signal.
LEMMA RaiseIInv == ASSUME IInv, NEW s \in Signals, Raise(s) PROVE IInv'
<1> USE DEF Raise, handlerVars, mainVars
<1>1. raised' \in 0..MaxRaise
  BY SignalAssumption DEF IInv, TypeOK
<1>2. TypeOK'
  BY <1>1, PipeSame DEF IInv, TypeOK
<1>3. ReadNeverBlocks' /\ ErrnoPreserved' /\ HandlerInv'
  BY DEF IInv, ReadNeverBlocks, ErrnoPreserved, HandlerInv, pipeVars
<1> QED BY <1>2, <1>3, PipeSame DEF IInv

\* A thread faults.
LEMMA FaultIInv == ASSUME IInv, NEW t \in Threads, NEW s \in Faults, Fault(t, s) PROVE IInv'
<1> USE DEF Fault, handlerVars, mainVars
<1>1. TypeOK'
  BY PipeSame DEF IInv, TypeOK
<1>2. ReadNeverBlocks' /\ ErrnoPreserved' /\ HandlerInv'
  BY DEF IInv, ReadNeverBlocks, ErrnoPreserved, HandlerInv, pipeVars
<1> QED BY <1>1, <1>2, PipeSame DEF IInv

\* A thread enters or leaves the C library.
LEMMA LibraryIInv ==
  ASSUME IInv, NEW t \in Threads, gt_malloc_mem(t) \/ gt_log_print(t) \/ LibraryReturns(t)
  PROVE  IInv'
<1>1. /\ UNCHANGED <<alive, pending, raised, fault, hpc, hsig, errno, save_errno, sig>>
      /\ UNCHANGED pipeVars
      /\ mpc' = mpc \/ mpc' = "wait"
  BY DEF gt_malloc_mem, gt_log_print, LibraryReturns, kernelVars, handlerVars, mainVars
<1>2. holder' \in [Locks -> Threads \cup {NoThread}]
  BY DEF IInv, TypeOK, gt_malloc_mem, gt_log_print, LibraryReturns, TakeLock, LeaveLibrary, Locks
<1>3. mpc' \in {"wait", "read", "log"}
  BY <1>1 DEF IInv, TypeOK
<1>4. TypeOK'
  BY <1>1, <1>2, <1>3, PipeSame DEF IInv, TypeOK
<1>5. ReadNeverBlocks' /\ ErrnoPreserved' /\ HandlerInv'
  BY <1>1 DEF IInv, ReadNeverBlocks, ErrnoPreserved, HandlerInv, pipeVars
<1> QED BY <1>1, <1>4, <1>5, PipeSame DEF IInv

\* A handler begins: the interrupted code's errno is its own.
LEMMA EnterIInv == ASSUME IInv, NEW t \in Threads, NEW s \in Signals, Enter(t, s) PROVE IInv'
<1> DEFINE label == IF s \in Core THEN "backtrace" ELSE "deliver"
<1>1. /\ hpc[t] = "idle" /\ hpc' = [hpc EXCEPT ![t] = label]
      /\ hsig' = [hsig EXCEPT ![t] = s] /\ save_errno' = [save_errno EXCEPT ![t] = errno[t]]
      /\ pending' \subseteq pending
      /\ UNCHANGED <<alive, raised, fault, errno, holder, mpc, sig>> /\ UNCHANGED pipeVars
  BY DEF Enter, Goto, mainVars
<1>2. label \in {"backtrace", "deliver"} /\ errno[t] = "own"
  BY <1>1 DEF IInv, ErrnoPreserved
<1> HIDE DEF label
<1>3. TypeOK'
  BY <1>1, <1>2, PipeSame DEF IInv, TypeOK
<1>4. ErrnoPreserved' /\ HandlerInv'
  BY <1>1, <1>2 DEF IInv, TypeOK, ErrnoPreserved, HandlerInv
<1>5. ReadNeverBlocks'
  BY <1>1 DEF IInv, ReadNeverBlocks, pipeVars
<1> QED BY <1>1, <1>3, <1>4, <1>5, PipeSame DEF IInv

\* The backtrace may leave its own errno behind, which is not restored yet.
LEMMA BacktraceIInv == ASSUME IInv, NEW t \in Threads, Backtrace(t) PROVE IInv'
<1>1. /\ hpc[t] = "backtrace" /\ alive' \in BOOLEAN
      /\ UNCHANGED <<pending, raised, fault, hsig, save_errno, holder, mpc, sig>>
      /\ UNCHANGED pipeVars
  BY DEF Backtrace, kernelVars, mainVars, IInv, TypeOK
<1>2. \/ UNCHANGED <<hpc, errno>>
      \/ /\ hpc' = [hpc EXCEPT ![t] = "deliver"]
         /\ \E e \in {errno[t], "handler"} : errno' = [errno EXCEPT ![t] = e]
  BY DEF Backtrace, Goto
<1>3. errno' \in [Threads -> {"own", "handler"}]
  BY <1>2 DEF IInv, TypeOK
<1>4. hpc' \in [Threads -> {"idle", "backtrace", "deliver", "log", "restore"}]
  BY <1>2 DEF IInv, TypeOK
<1>5. TypeOK'
  BY <1>1, <1>3, <1>4, PipeSame DEF IInv, TypeOK
<1>6. \A u \in Threads : (hpc'[u] = "idle") = (hpc[u] = "idle")
  BY <1>1, <1>2 DEF IInv, TypeOK
<1>7. \A u \in Threads : u # t => errno'[u] = errno[u]
  BY <1>2 DEF IInv, TypeOK
<1>8. ErrnoPreserved'
  BY <1>1, <1>6, <1>7 DEF IInv, ErrnoPreserved
<1>9. HandlerInv' /\ ReadNeverBlocks'
  BY <1>1, <1>6 DEF IInv, HandlerInv, ReadNeverBlocks, pipeVars
<1> QED BY <1>1, <1>5, <1>8, <1>9, PipeSame DEF IInv

\* A handler that has something to deliver or to log goes on.
LEMMA GoesOn ==
  ASSUME IInv, NEW t \in Threads, hpc[t] # "idle", NEW label \in {"log", "restore"},
         Goto(t, label), errno' \in [Threads -> {"own", "handler"}],
         \A u \in Threads : u # t => errno'[u] = errno[u],
         UNCHANGED <<alive, kernelVars, hsig, save_errno, holder, mainVars>>,
         pipe' \in Seq(Signals \cup {0}), msgs' \in Seq(Signals), off' \in 0..3,
         BytesInStep', Unread' <= Capacity, pipe' = <<>> => pipe = <<>>
  PROVE  IInv'
<1>1. /\ hpc' = [hpc EXCEPT ![t] = label]
      /\ UNCHANGED <<alive, pending, raised, fault, hsig, save_errno, holder, mpc, sig>>
  BY DEF Goto, kernelVars, mainVars
<1>2. TypeOK'
  BY <1>1 DEF IInv, TypeOK
<1>3. \A u \in Threads : (hpc'[u] = "idle") = (hpc[u] = "idle")
  BY <1>1 DEF IInv, TypeOK
<1>4. ErrnoPreserved'
  BY <1>3 DEF IInv, ErrnoPreserved
<1>5. HandlerInv' /\ ReadNeverBlocks'
  BY <1>1, <1>3 DEF IInv, HandlerInv, ReadNeverBlocks
<1> QED BY <1>2, <1>4, <1>5 DEF IInv

\* A signal is delivered, or dropped when the socketpair is full.
LEMMA DeliverIInv == ASSUME IInv, NEW t \in Threads, gt_signal_deliver(t) PROVE IInv'
<1>1. /\ hpc[t] # "idle" /\ hsig[t] \in Signals
      /\ UNCHANGED <<alive, kernelVars, hsig, save_errno, holder, mainVars>>
      /\ errno \in [Threads -> {"own", "handler"}]
  BY DEF gt_signal_deliver, IInv, HandlerInv, TypeOK
<1>2. CASE Unread < Capacity
  <2>1. Goto(t, "restore") /\ Send(hsig[t]) /\ UNCHANGED errno
    BY <1>2 DEF gt_signal_deliver
  <2>2. /\ pipe' \in Seq(Signals \cup {0}) /\ msgs' \in Seq(Signals) /\ off' \in 0..3
        /\ BytesInStep' /\ Unread' <= Capacity /\ pipe' # <<>>
    BY <1>1, <1>2, <2>1, SendIs DEF IInv
  <2> QED BY <1>1, <2>1, <2>2, GoesOn
<1>3. CASE ~(Unread < Capacity)
  <2>1. /\ Goto(t, "log") /\ errno' = [errno EXCEPT ![t] = "handler"]
        /\ UNCHANGED pipeVars
    BY <1>3 DEF gt_signal_deliver
  <2>2. /\ errno' \in [Threads -> {"own", "handler"}]
        /\ \A u \in Threads : u # t => errno'[u] = errno[u]
    BY <1>1, <2>1
  <2>3. pipe' = pipe
    BY <2>1 DEF pipeVars
  <2> QED BY <1>1, <2>1, <2>2, <2>3, GoesOn, PipeSame
<1> QED BY <1>2, <1>3

\* The dropped signal is logged.
LEMMA LogDroppedIInv == ASSUME IInv, NEW t \in Threads, LogDropped(t) PROVE IInv'
<1>1. /\ hpc[t] # "idle" /\ Goto(t, "restore") /\ UNCHANGED errno
      /\ UNCHANGED <<alive, kernelVars, hsig, save_errno, holder, mainVars>>
      /\ UNCHANGED pipeVars
  BY DEF LogDropped
<1>2. errno' \in [Threads -> {"own", "handler"}] /\ pipe' = pipe
  BY <1>1 DEF IInv, TypeOK, pipeVars
<1> QED BY <1>1, <1>2, GoesOn, PipeSame

\* The handler returns with the errno it found.
LEMMA ReturnIInv == ASSUME IInv, NEW t \in Threads, Return(t) PROVE IInv'
<1>1. /\ hpc[t] = "restore" /\ hpc' = [hpc EXCEPT ![t] = "idle"]
      /\ hsig' = [hsig EXCEPT ![t] = 0]
      /\ errno' = [errno EXCEPT ![t] = save_errno[t]]
      /\ UNCHANGED <<alive, pending, raised, fault, save_errno, holder, mpc, sig>>
      /\ UNCHANGED pipeVars
  BY DEF Return, Goto, kernelVars, mainVars
<1>2. save_errno[t] = "own"
  BY <1>1 DEF IInv, HandlerInv
<1>3. TypeOK'
  BY <1>1, <1>2, PipeSame DEF IInv, TypeOK
<1>4. ErrnoPreserved' /\ HandlerInv'
  BY <1>1, <1>2 DEF IInv, TypeOK, ErrnoPreserved, HandlerInv
<1>5. ReadNeverBlocks'
  BY <1>1 DEF IInv, ReadNeverBlocks, pipeVars
<1> QED BY <1>1, <1>3, <1>4, <1>5, PipeSame DEF IInv

\* epoll_wait reports the read end only when there is something to read.
LEMMA MainWaitIInv == ASSUME IInv, MainWait PROVE IInv'
<1>1. /\ pipe # <<>> /\ mpc' = "read" /\ UNCHANGED pipeVars
      /\ UNCHANGED <<alive, pending, raised, fault, hpc, hsig, errno, save_errno, holder, sig>>
  BY DEF MainWait, kernelVars, handlerVars
<1>2. TypeOK'
  BY <1>1, PipeSame DEF IInv, TypeOK
<1>3. ReadNeverBlocks' /\ ErrnoPreserved' /\ HandlerInv'
  BY <1>1 DEF IInv, ReadNeverBlocks, ErrnoPreserved, HandlerInv, pipeVars
<1> QED BY <1>1, <1>2, <1>3, PipeSame DEF IInv

\* The switch of gt_signal_ops_read: the byte it acts on is the first of a
\* message, with the upper bytes zero, for all others are no signal's number.
LEMMA ReadIs ==
  ASSUME IInv, gt_signal_ops_read
  PROVE  \/ mpc' = "wait" /\ UNCHANGED sig
         \/ mpc' = "log" /\ off = 0 /\ sig' = Head(msgs) /\ sig' \in Signals
<1>1. PICK upper \in Upper :
          IF Known(Value(Head(pipe), upper)) THEN sig' = Value(Head(pipe), upper) /\ mpc' = "log"
                                             ELSE mpc' = "wait" /\ UNCHANGED sig
  BY DEF gt_signal_ops_read
<1>2. /\ pipe # <<>> /\ pipe \in Seq(Signals \cup {0}) /\ off \in 0..3 /\ Len(msgs) \in Nat
      /\ msgs \in Seq(Signals) /\ Len(pipe) = 4 * Len(msgs) - off
  BY DEF gt_signal_ops_read, IInv, TypeOK, BytesInStep
<1>3. Len(pipe) \in Nat \ {0}
  BY <1>2, EmptySeq
<1>4. Len(msgs) \in Nat \ {0}
  BY <1>2, <1>3
<1>5. msgs # <<>> /\ msgs[1] \in Signals /\ Head(msgs) = msgs[1] /\ Head(pipe) = pipe[1]
  BY <1>2, <1>4
<1>6. pipe[1] = Byte(off + 1 - 1)
  BY <1>3 DEF IInv, BytesInStep
<1>7. pipe[1] = Message(msgs[1])[off + 1]
  <2>1. off + 1 - 1 = off /\ off \div 4 = 0 /\ off % 4 = off
    BY <1>2
  <2> QED BY <1>6, <2>1 DEF Byte
<1>8. /\ Message(msgs[1])[1] = msgs[1] /\ \A j \in 2..4 : Message(msgs[1])[j] = 0
  BY <1>5, MessageIs
<1>9. CASE Known(Value(Head(pipe), upper))
  <2>1. /\ Head(pipe) + 256 * upper \in Signals /\ sig' = Head(pipe) + 256 * upper
        /\ mpc' = "log"
    BY <1>1, <1>9 DEF Known, Value
  <2>2. off # 0 => Head(pipe) = 0
    BY <1>2, <1>5, <1>7, <1>8
  <2>3. off = 0 => Head(pipe) = msgs[1]
    BY <1>5, <1>7, <1>8
  <2>4. Head(pipe) \in Nat
    <3>1. msgs[1] \in Nat
      BY <1>5, SignalNumbers
    <3>2. Head(pipe) = 0 \/ Head(pipe) = msgs[1]
      BY <2>2, <2>3
    <3> QED BY <3>1, <3>2
  <2>5. upper \in {0, 1} /\ Head(pipe) + 256 * upper <= 64 /\ Head(pipe) + 256 * upper # 0
    BY <2>1, SignalNumbers DEF Upper
  <2>6. upper = 0 /\ Head(pipe) # 0
    BY <2>4, <2>5
  <2>7. off = 0
    BY <2>2, <2>6
  <2>8. sig' = Head(msgs)
    BY <1>5, <2>1, <2>3, <2>4, <2>6, <2>7
  <2> QED BY <1>5, <2>1, <2>7, <2>8
<1>10. CASE ~Known(Value(Head(pipe), upper))
  BY <1>1, <1>10
<1> QED BY <1>9, <1>10

\* Reading a byte.
LEMMA ReadIInv == ASSUME IInv, gt_signal_ops_read PROVE IInv'
<1>1. /\ pipe # <<>> /\ Receive
      /\ UNCHANGED <<alive, pending, raised, fault, hpc, hsig, errno, save_errno, holder>>
  BY DEF gt_signal_ops_read, kernelVars, handlerVars
<1>2. /\ pipe' \in Seq(Signals \cup {0}) /\ msgs' \in Seq(Signals) /\ off' \in 0..3
      /\ BytesInStep' /\ Unread' <= Capacity
  BY <1>1, ReceiveIs DEF IInv
<1>3. (mpc' = "wait" \/ mpc' = "log") /\ sig' \in Signals \cup {0}
  BY ReadIs DEF IInv, TypeOK
<1>4. TypeOK'
  BY <1>1, <1>2, <1>3 DEF IInv, TypeOK
<1>5. ReadNeverBlocks' /\ ErrnoPreserved' /\ HandlerInv'
  BY <1>1, <1>3 DEF IInv, ReadNeverBlocks, ErrnoPreserved, HandlerInv
<1> QED BY <1>2, <1>4, <1>5 DEF IInv

\* A step that changes nothing.
LEMMA StutterIInv == ASSUME IInv, UNCHANGED vars PROVE IInv'
<1>1. /\ UNCHANGED <<alive, pending, raised, fault, hpc, hsig, errno, save_errno, holder, mpc, sig>>
      /\ UNCHANGED pipeVars
  BY DEF vars, kernelVars, handlerVars, mainVars
<1>2. TypeOK'
  BY <1>1, PipeSame DEF IInv, TypeOK
<1>3. ReadNeverBlocks' /\ ErrnoPreserved' /\ HandlerInv'
  BY <1>1 DEF IInv, ReadNeverBlocks, ErrnoPreserved, HandlerInv, pipeVars
<1> QED BY <1>1, <1>2, <1>3, PipeSame DEF IInv

-----------------------------------------------------------------------------
\* Every interleaving of handlers, faults, library calls and the reading main
\* thread keeps the inductive invariant.
THEOREM SignalInvariant == SafeSpec => []IInv
<1>1. ASSUME IInv, [Next]_vars PROVE IInv'
  BY <1>1, RaiseIInv, FaultIInv, LibraryIInv, EnterIInv, BacktraceIInv, DeliverIInv,
     LogDroppedIInv, ReturnIInv, MainWaitIInv, ReadIInv, StutterIInv
     DEF Next, gt_signal_routine
<1> QED BY <1>1, InitIInv, PTL DEF SafeSpec

\* Every variable keeps its type, and the socketpair never holds more messages
\* than it has room for.
THEOREM SignalTyped == SafeSpec => []TypeOK
  BY SignalInvariant, PTL DEF IInv

\* Four bytes written and one byte read at a time never get out of step.
THEOREM SignalBytesInStep == SafeSpec => []BytesInStep
  BY SignalInvariant, PTL DEF IInv

\* The main thread never blocks in read.
THEOREM SignalReadNeverBlocks == SafeSpec => []ReadNeverBlocks
  BY SignalInvariant, PTL DEF IInv

\* No handler is seen in the errno of the code it interrupted.
THEOREM SignalErrnoPreserved == SafeSpec => []ErrnoPreserved
  BY SignalInvariant, PTL DEF IInv

\* The main thread acts on the oldest signal that was sent, or on none, for
\* any signals below 65 and whatever the uninitialised bytes hold.
THEOREM SignalNothingInvented == SafeSpec => NothingInvented
<1> DEFINE Acts == mpc = "read" /\ mpc' = "log" => off = 0 /\ sig' = Head(msgs)
<1>1. ASSUME IInv, [Next]_vars PROVE Acts
  <2>1. CASE gt_signal_ops_read
    BY <2>1, ReadIs, <1>1
  <2>2. CASE ~gt_signal_ops_read
    <3>1. mpc = "read" => mpc' # "log"
      BY <1>1, <2>2
         DEF Next, gt_signal_routine, Raise, Fault, gt_malloc_mem, gt_log_print, LibraryReturns,
             Enter, Backtrace, gt_signal_deliver, LogDropped, Return, MainWait, mainVars, vars
    <3> QED BY <3>1
  <2> QED BY <2>1, <2>2
<1> QED BY <1>1, SignalInvariant, PTL DEF SafeSpec, NothingInvented
=============================================================================
