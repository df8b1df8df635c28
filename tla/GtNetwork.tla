----------------------------- MODULE GtNetwork -----------------------------
(***************************************************************************)
(* The network engine at work: user/core/gt_network.c on the pollers of    *)
(* GtPoller, run by the threads of user/core/gt_worker.c.  The thread      *)
(* gt_network_m accepts connections and hands each to the poller of        *)
(* datanet thread (descriptor mod number of threads); the datanet threads  *)
(* read them and close them when the peer is gone.                         *)
(*                                                                         *)
(* The model starts when gt_wakeup_pthread has let the threads go.  Each   *)
(* action is the code between two accesses to what the threads share.      *)
(***************************************************************************)
EXTENDS GtPoller

CONSTANTS N,           \* GT_DATANET_PTHREAD_NUM
          MaxData,     \* bound: unread chunks of a connection
          MaxSpurious, \* bound: times epoll_wait reports a socket too early
          Warm         \* TRUE: the datanet threads ran gt_poller_init before
                       \* the network thread was let go

ASSUME NetworkAssumption ==
    /\ N \in Nat \ {0} /\ Pollers = 0..(N - 1)
    /\ FDs \subseteq Nat
    /\ NoConn \notin Conns
    /\ Null \notin Events \cup Pollers
    /\ Pollers \cap Events = {}
    /\ MaxFail \in Nat /\ MaxData \in Nat /\ MaxSpurious \in Nat
    /\ Warm \in BOOLEAN

VARIABLES conn,     \* connection -> "idle" | "backlog" | "open" | "closed"
          peer,     \* what the client did: "up" | "fin" | "rst"
          unread,   \* chunks in the receive buffer
          npc,      \* where the network thread is
          cfd,      \* its local cfd
          nge,      \* its local ge
          pc,       \* where each datanet thread is
          ge,       \* the event it handles
          batch,    \* the events of gpoller->ee it has not come to yet
          ret,      \* what its read(2) returned
          errno,    \* its errno: "EAGAIN", or any "other" value
          spurious  \* early reports so far

netVars == <<npc, cfd, nge>>
dataVars == <<pc, ge, batch, ret, errno, spurious>>
connVars == <<conn, peer, unread>>
vars == <<pollerVars, netVars, dataVars, connVars>>

Init ==
    /\ PollerInit
    /\ conn = [c \in Conns |-> "idle"]
    /\ peer = [c \in Conns |-> "up"]
    /\ unread = [c \in Conns |-> 0]
    /\ npc = "wait" /\ cfd = Null /\ nge = Null
    /\ pc = [p \in Pollers |-> "epoll_create"]
    /\ ge = [p \in Pollers |-> Null]
    /\ batch = [p \in Pollers |-> {}]
    /\ ret = [p \in Pollers |-> 0]
    /\ errno = [p \in Pollers |-> "other"]
    /\ spurious = 0

-----------------------------------------------------------------------------
(* The clients (external).                                                 *)

Connect(c) == /\ conn[c] = "idle"
              /\ conn' = [conn EXCEPT ![c] = "backlog"]
              /\ UNCHANGED <<pollerVars, netVars, dataVars, peer, unread>>

Connected(c) == conn[c] \in {"backlog", "open"}

Send(c) == /\ Connected(c) /\ peer[c] = "up" /\ unread[c] < MaxData
           /\ unread' = [unread EXCEPT ![c] = @ + 1]
           /\ UNCHANGED <<pollerVars, netVars, dataVars, conn, peer>>

\* FIN after the data, or a reset that throws unread data away.
Shutdown(c) == /\ Connected(c) /\ peer[c] = "up"
               /\ peer' = [peer EXCEPT ![c] = "fin"]
               /\ UNCHANGED <<pollerVars, netVars, dataVars, conn, unread>>

Reset(c) == /\ Connected(c) /\ peer[c] # "rst"
            /\ peer' = [peer EXCEPT ![c] = "rst"]
            /\ unread' = [unread EXCEPT ![c] = 0]
            /\ UNCHANGED <<pollerVars, netVars, dataVars, conn>>

-----------------------------------------------------------------------------
(* The network thread: gt_network_ops_read and gt_network_round_dispatch.  *)

\* Mutant: the descriptor is the index.
MUT_NoModulo(f) == f

\* g_gt_datanet_pthread[sockfd % DIM(g_gt_datanet_pthread)].data
DispatchPoller(f) == f % N

LowestFree(f) == Closed(f) /\ \A g \in FDs : Closed(g) => f <= g

\* accept gives out the lowest free descriptor.  When there is none it fails,
\* the handler returns GT_ERROR and the next epoll_wait reports the listening
\* socket again: a stuttering step.
Accept(c, f) ==
    /\ npc = "wait" /\ (Warm => \A p \in Pollers : pc[p] \notin {"epoll_create", "elist"})
    /\ conn[c] = "backlog" /\ LowestFree(f)
    /\ conn' = [conn EXCEPT ![c] = "open"]
    /\ cfd' = f
    /\ sock' = [sock EXCEPT ![f] = c]
    /\ npc' = "setsockopt"
    /\ UNCHANGED <<reg, epfd, alloc, ev, mem, fails, nge, dataVars, peer, unread>>

\* setsockopt and fcntl; when one fails the connection is closed.
SetOptions ==
    /\ npc = "setsockopt"
    /\ \/ /\ npc' = "create" /\ Works /\ UNCHANGED <<sock, reg, conn>>
       \/ /\ Breaks /\ close(cfd)
          /\ conn' = [conn EXCEPT ![sock[cfd]] = "closed"]
          /\ npc' = "wait"
    /\ UNCHANGED <<epfd, alloc, ev, mem, cfd, nge, dataVars, peer, unread>>

\* gt_poller_gevent_create in gt_network_round_dispatch; without memory the
\* dispatcher returns GT_OK and nobody knows the descriptor any more.
Create ==
    /\ npc = "create"
    /\ \/ \E g \in Events : /\ gevent_create_alloc(cfd, DispatchPoller(cfd), g)
                            /\ nge' = g /\ npc' = "link"
       \/ /\ Breaks /\ npc' = "wait"
          /\ UNCHANGED <<sock, reg, epfd, alloc, ev, mem, nge>>
    /\ UNCHANGED <<cfd, dataVars, connVars>>

\* Mutant: the event is registered while it is still being built.
MUT_LinkStarts ==
    /\ npc = "link"
    /\ mem' = list_add_second_half(mem, DispatchPoller(cfd), nge, nge)
    /\ ev' = [ev EXCEPT ![nge].gpoller = DispatchPoller(cfd), ![nge].events = {"EPOLLIN"}]
    /\ reg' = [reg EXCEPT ![cfd] = [epfd |-> DispatchPoller(cfd),
                                    events |-> {"EPOLLIN"}, ptr |-> nge]]
    /\ npc' = "ops"
    /\ UNCHANGED <<sock, epfd, alloc, fails, cfd, nge, dataVars, connVars>>

Link == /\ npc = "link"
        /\ gevent_create_link(DispatchPoller(cfd), nge)
        /\ npc' = "ops"
        /\ UNCHANGED <<cfd, nge, dataVars, connVars>>

\* ge->ops.read = gt_datanet_ops_read
SetOps == /\ npc = "ops"
          /\ ev' = [ev EXCEPT ![nge].read = TRUE]
          /\ npc' = "start"
          /\ UNCHANGED <<sock, reg, epfd, alloc, mem, fails, cfd, nge, dataVars, connVars>>

\* gt_poller_event_start(EPOLLIN, ge); a failure is reported to the caller,
\* which returns GT_ERROR without closing or freeing.
Start == /\ npc = "start"
         /\ \E r \in {GT_OK, GT_ERROR} : gt_poller_event_start({"EPOLLIN"}, nge, r)
         /\ npc' = "wait"
         /\ UNCHANGED <<sock, epfd, alloc, mem, cfd, nge, dataVars, connVars>>

NetworkThread == \/ \E c \in Conns, f \in FDs : Accept(c, f)
                 \/ SetOptions \/ Create \/ Link \/ SetOps \/ Start

-----------------------------------------------------------------------------
(* A datanet thread: gt_datanet_pthread_routine, gt_poller_epoll_wait and  *)
(* gt_datanet_ops_read.                                                    *)

Goto(p, from, to) == pc[p] = from /\ pc' = [pc EXCEPT ![p] = to]

\* gt_poller_init; a thread that cannot initialise its poller exits.
InitEpfd(p) == /\ \/ Goto(p, "epoll_create", "elist") /\ poller_init_epfd(p)
                  \/ /\ Goto(p, "epoll_create", "exited") /\ Breaks
                     /\ UNCHANGED <<sock, reg, epfd, alloc, ev, mem>>
               /\ UNCHANGED <<ge, batch, ret, errno, spurious, netVars, connVars>>

InitElist(p) == /\ \/ Goto(p, "elist", "wait") /\ poller_init_elist(p)
                   \/ /\ Goto(p, "elist", "exited") /\ Breaks
                      /\ UNCHANGED <<sock, reg, epfd, alloc, ev, mem>>
                /\ UNCHANGED <<ge, batch, ret, errno, spurious, netVars, connVars>>

\* EPOLLIN is level triggered: data, end of file or an error is pending.
Readable(f) == LET c == sock[f] IN unread[c] > 0 \/ peer[c] # "up"

Watched(p) == {f \in FDs : reg[f].epfd = p /\ "EPOLLIN" \in reg[f].events}
Ready(p) == {f \in Watched(p) : Readable(f)}

\* epoll_wait reports what is readable.  maxe (1024) is not below the number
\* of descriptors, so it reports all of it.
EpollWait(p) ==
    /\ \E early \in SUBSET (Watched(p) \ Ready(p)) :
           /\ early \cup Ready(p) # {}
           /\ early # {} => spurious < MaxSpurious
           /\ spurious' = IF early = {} THEN spurious ELSE spurious + 1
           /\ batch' = [batch EXCEPT ![p] = {reg[f].ptr : f \in early \cup Ready(p)}]
    /\ Goto(p, "wait", "next")
    /\ UNCHANGED <<pollerVars, ge, ret, errno, netVars, connVars>>

\* A signal handler ran on this thread: epoll_wait fails with EINTR, and
\* what an earlier read left in errno is gone.
Interrupted(p) == /\ pc[p] = "wait"
                  /\ errno' = [errno EXCEPT ![p] = "other"]
                  /\ UNCHANGED <<pollerVars, pc, ge, batch, ret, spurious, netVars, connVars>>

\* Mutant: the loop does not move on.
MUT_SameEventAgain(b, g) == b

\* The for loop over gpoller->ee: the events after g, and the next one or
\* back to epoll_wait.
RestOfBatch(b, g) == b \ {g}

AfterHandler(b) == IF b = {} THEN "wait" ELSE "next"

\* Mutant: errno is not looked at.
MUT_IgnoresErrno(r, e) == r <= 0
\* Mutant: = for <= in the test.
MUT_OnlyEndOfFile(r, e) == r = 0 /\ e # "EAGAIN"

\* The test of gt_datanet_ops_read that gives the connection up.  It looks at
\* errno for every ret <= 0, an end of file included.
GivesUp(r, e) == r <= 0 /\ e # "EAGAIN"

\* ge->ops.read(ge): gt_datanet_ops_read up to that test.  read(2) sets errno
\* only when it fails.
Read(p, g) ==
    LET f == ev[g].efd
        c == sock[f]
        rest == RestOfBatch(batch[p], g)
        data == c # NoConn /\ unread[c] > 0
        eof == c # NoConn /\ unread[c] = 0 /\ peer[c] = "fin"
        again == c # NoConn /\ unread[c] = 0 /\ peer[c] = "up"
        failure == IF again THEN "EAGAIN" ELSE "other"
    IN  /\ g \in batch[p]
        /\ batch' = [batch EXCEPT ![p] = rest]
        /\ ge' = [ge EXCEPT ![p] = g]
        /\ unread' = IF data THEN [unread EXCEPT ![c] = @ - 1] ELSE unread
        /\ ret' = [ret EXCEPT ![p] = IF data THEN 1 ELSE IF eof THEN 0 ELSE -1]
        /\ errno' = [errno EXCEPT ![p] = IF data \/ eof THEN @ ELSE failure]
        /\ Goto(p, "next", IF GivesUp(ret'[p], errno'[p]) THEN "stop" ELSE AfterHandler(rest))
        /\ UNCHANGED <<pollerVars, spurious, netVars, conn, peer>>

\* gt_poller_event_stop(EPOLLIN, ge), its result ignored.  The call at the
\* top of gt_poller_gevent_destroy then finds no flags and returns.
Stop(p) == /\ Goto(p, "stop", "unlink")
           /\ \E r \in {GT_OK, GT_ERROR} : gt_poller_event_stop({"EPOLLIN"}, ge[p], r)
           /\ UNCHANGED <<sock, epfd, alloc, mem, ge, batch, ret, errno, spurious,
                          netVars, connVars>>

Unlink(p) == /\ Goto(p, "unlink", "unlinked")
             /\ gevent_destroy_unlink(ge[p])
             /\ UNCHANGED <<ge, batch, ret, errno, spurious, netVars, connVars>>

Unlinked(p) == /\ Goto(p, "unlinked", "close")
               /\ gevent_destroy_unlinked(ge[p])
               /\ UNCHANGED <<ge, batch, ret, errno, spurious, netVars, connVars>>

CloseFd(p) == /\ Goto(p, "close", "free")
              /\ conn' = [conn EXCEPT ![sock[ev[ge[p]].efd]] = "closed"]
              /\ gevent_destroy_close(ge[p])
              /\ UNCHANGED <<ge, batch, ret, errno, spurious, netVars, peer, unread>>

\* Mutant: a failed read destroys the event again.
MUT_DestroyedTwice(p) ==
    /\ Goto(p, "free", IF ret[p] < 0 THEN "stop" ELSE AfterHandler(batch[p]))
    /\ gevent_destroy_free(ge[p])
    /\ UNCHANGED <<ge, batch, ret, errno, spurious, netVars, connVars>>

\* gt_free_mem; the handler returns ret, and gt_poller_epoll_wait reports a
\* negative one.
Free(p) == /\ Goto(p, "free", IF ret[p] < 0 THEN "report" ELSE AfterHandler(batch[p]))
           /\ gevent_destroy_free(ge[p])
           /\ UNCHANGED <<ge, batch, ret, errno, spurious, netVars, connVars>>

\* GT_ERROR_LOG("Failed to read for efd:%d", ge->efd): what it reads was freed,
\* and goes to the log only.
Report(p) == /\ Goto(p, "report", AfterHandler(batch[p]))
             /\ UNCHANGED <<pollerVars, ge, batch, ret, errno, spurious, netVars, connVars>>

DatanetThread(p) ==
    \/ InitEpfd(p) \/ InitElist(p) \/ EpollWait(p)
    \/ \E g \in Events : Read(p, g)
    \/ Stop(p) \/ Unlink(p) \/ Unlinked(p) \/ CloseFd(p) \/ Free(p) \/ Report(p)

Next == \/ \E c \in Conns : Connect(c) \/ Send(c) \/ Shutdown(c) \/ Reset(c)
        \/ NetworkThread
        \/ \E p \in Pollers : DatanetThread(p) \/ Interrupted(p)

SafeSpec == Init /\ [][Next]_vars

\* Every thread keeps running; clients and signals are under no obligation.
Spec == /\ SafeSpec
        /\ WF_vars(NetworkThread)
        /\ \A p \in Pollers : WF_vars(DatanetThread(p))
-----------------------------------------------------------------------------
\* The stretch of gt_network_ops_read in which a new connection is known to
\* the network thread only.
Dispatching == npc \in {"setsockopt", "create", "link", "ops", "start"}

\* The stretch in which the thread holds an event that the kernel has not
\* been told about.
Building == npc \in {"link", "ops", "start"}

\* The stretch of gt_datanet_ops_read in which thread p owns the event ge[p].
Destroying(p) == pc[p] \in {"stop", "unlink", "unlinked", "close", "free"}

TypeOK ==
    /\ PollerTypeOK
    /\ conn \in [Conns -> {"idle", "backlog", "open", "closed"}]
    /\ peer \in [Conns -> {"up", "fin", "rst"}]
    /\ unread \in [Conns -> 0..MaxData]
    /\ npc \in {"wait", "setsockopt", "create", "link", "ops", "start"}
    /\ cfd \in FDs \cup {Null} /\ nge \in Events \cup {Null}
    /\ pc \in [Pollers -> {"epoll_create", "elist", "wait", "next", "stop", "unlink",
                           "unlinked", "close", "free", "report", "exited"}]
    /\ ge \in [Pollers -> Events \cup {Null}]
    /\ batch \in [Pollers -> SUBSET Events]
    /\ ret \in [Pollers -> {-1, 0, 1}]
    /\ errno \in [Pollers -> {"EAGAIN", "other"}]
    /\ spurious \in 0..MaxSpurious

\* What epoll_wait put into gpoller->ee stays good until the loop reaches it:
\* each pointer is the live, registered event of an open descriptor of this
\* poller, although the handlers of earlier entries closed descriptors and
\* freed events, and the network thread reused both.
BatchStaysLive ==
    \A p \in Pollers : \A g \in batch[p] :
        /\ g \in alloc
        /\ \E f \in FDs : reg[f].ptr = g /\ reg[f].epfd = p

\* An event has one owner: the one the network thread is building is no
\* kernel entry's, in no batch and not being destroyed, and no two datanet
\* threads destroy the same one.
OneOwner ==
    /\ Building => /\ nge \in alloc
                   /\ \A f \in FDs : reg[f].ptr # nge
                   /\ \A p \in Pollers : nge \notin batch[p]
                                        /\ (Destroying(p) => ge[p] # nge)
    /\ \A p, q \in Pollers : Destroying(p) /\ Destroying(q) /\ ge[p] = ge[q] => p = q

\* gt_poller_gevent_destroy works on an event that is still the one the
\* kernel has for its descriptor, so that it closes the descriptor it was
\* called for and never one that accept has handed out again; the batch does
\* not hold the event a second time, and it is freed once.
DestroysItsOwn ==
    \A p \in Pollers : Destroying(p) =>
        /\ ge[p] \in alloc /\ ge[p] \notin batch[p]
        /\ pc[p] # "free" => \E f \in FDs : reg[f].ptr = ge[p] /\ reg[f].epfd = p

\* What a client sees of the state of its connection: an open one is on its
\* way into an epoll set, in one, or lost.
ServerState(c) ==
    CASE conn[c] # "open" -> conn[c]
      [] \E f \in FDs : sock[f] = c /\ Registered(f) -> "serving"
      [] Dispatching /\ sock[cfd] = c -> "accepted"
      [] OTHER -> "lost"

Server == INSTANCE GtServer
              WITH state <- [c \in Conns |-> ServerState(c)],
                   ready <- \A p \in Pollers : epfd[p]

\* The threads, descriptors and events together serve connections as GtServer
\* says: a live client is never disconnected, data is read before the close,
\* a connection that reached its epoll set never leaves it otherwise, and
\* none is lost without a failing call once all pollers are ready.
ServesConnections == Server!Spec

\* A connection whose client has gone is closed by the server: the FIN that
\* the client of test/scapy_tools.py waits for is sent.
ServerAnswersFin ==
    \A c \in Conns : (conn[c] = "open" /\ peer[c] # "up") ~> (conn[c] = "closed")

\* Also after a cold start and with failing calls, a connection that reached
\* an epoll set is closed once its client has gone, unless the thread of
\* that poller gave up in gt_poller_init.  This is so without early reports
\* only (MaxSpurious = 0): after one, a stale EAGAIN can hide the end of file
\* from gt_datanet_ops_read, which breaks ServerAnswersFin and this alike.
RegisteredAnswered ==
    \A c \in Conns, f \in FDs :
        (sock[f] = c /\ Registered(f) /\ peer[c] # "up")
            ~> (conn[c] = "closed" \/ pc[DispatchPoller(f)] = "exited")

-----------------------------------------------------------------------------
(* What makes the safety properties above inductive.                       *)

\* The network thread between accept and gt_poller_event_start: its
\* descriptor is open and in no epoll set, its event is filled in line by
\* line and still without flags, and its list_head points at the poller.
DispatchInv ==
    /\ Dispatching => cfd \in FDs /\ ~Closed(cfd) /\ ~Registered(cfd)
    /\ Building => LET p == DispatchPoller(cfd)
                   IN  /\ nge \in alloc
                       /\ ev[nge].efd = cfd /\ ev[nge].events = {}
                       /\ mem.prev[nge] = p
                       /\ npc = "link" => ev[nge].gpoller = Null
                       /\ npc \in {"ops", "start"} => mem.next[nge] = p
                                                    /\ ev[nge].gpoller = p
                       /\ npc = "start" => ev[nge].read

\* The list_head of an event in an epoll set points at the poller both ways,
\* until its thread takes it off the elist.
LinkInv ==
    \A f \in FDs : Registered(f) =>
        LET g == reg[f].ptr
            p == reg[f].epfd
        IN  \/ mem.next[g] = p /\ mem.prev[g] = p
            \/ pc[p] = "close" /\ ge[p] = g

\* An elist points at events of its own poller only.
ElistInv ==
    \A p \in Pollers : \A g \in {mem.next[p], mem.prev[p]} \cap Events :
        \/ ev[g].gpoller = p
        \/ npc = "link" /\ nge = g /\ DispatchPoller(cfd) = p

\* A datanet thread that destroys an event: the event is its own, and the
\* elist forgets it in two writes.
DestroyInv ==
    \A p \in Pollers : Destroying(p) =>
        LET g == ge[p]
        IN  /\ g \in Events /\ ev[g].gpoller = p
            /\ pc[p] = "free" => \A f \in FDs : reg[f].ptr # g
            /\ pc[p] \in {"unlinked", "close", "free"} => mem.prev[p] # g
            /\ pc[p] \in {"close", "free"} => mem.next[p] # g

IInv == /\ TypeOK
        /\ KernelPointersLive /\ ElistNotDangling
        /\ BatchStaysLive /\ OneOwner /\ DestroysItsOwn
        /\ DispatchInv /\ LinkInv /\ ElistInv /\ DestroyInv

-----------------------------------------------------------------------------
(* What comments and tests say of the program and the code does not do.    *)

\* list_add inserts the new entry after the head: with no thread in the
\* middle of an update, a poller whose epoll set holds an event has an elist
\* that is not empty.
ElistListsEvents ==
    (~Building /\ \A p \in Pollers : ~Destroying(p)) =>
        \A f \in FDs : Registered(f) => ~list_empty(mem, reg[f].epfd)
=============================================================================
