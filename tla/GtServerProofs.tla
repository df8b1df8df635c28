--------------------------- MODULE GtServerProofs ---------------------------
(***************************************************************************)
(* The network engine implements the abstract server: every step of        *)
(* GtNetwork is a step of GtServer or leaves its state alone, for all      *)
(* values of the constants.                                                *)
(*                                                                         *)
(* Beyond IInv, which says who owns an event, the refinement needs to know *)
(* whose connection a descriptor is (ConnInv) and that a thread which has  *)
(* begun to destroy an event has seen the last of its client (GoneInv).    *)
(***************************************************************************)
EXTENDS GtNetworkProofs

\* An open descriptor is that of a connection that was accepted and not
\* closed, and no two are of the same one.
ConnInv ==
    \A f \in FDs : ~Closed(f) =>
        /\ conn[sock[f]] = "open"
        /\ \A h \in FDs : sock[h] = sock[f] => h = f

\* A thread between the test of gt_datanet_ops_read and close(2).
Closing(p) == pc[p] \in {"stop", "unlink", "unlinked", "close"}

\* Such a thread closes a connection whose client has gone and which has
\* nothing left to read.
GoneInv ==
    \A p \in Pollers : Closing(p) =>
        LET c == sock[ev[ge[p]].efd]
        IN  peer[c] # "up" /\ unread[c] = 0

RInv == IInv /\ ConnInv /\ GoneInv

-----------------------------------------------------------------------------
\* The connection a closing thread is about to close: its descriptor is open
\* and registered.
LEMMA ClosingConn ==
    ASSUME IInv, NEW p \in Pollers, Closing(p)
    PROVE  /\ ge[p] \in alloc /\ ge[p] \in Events
           /\ ev[ge[p]].efd \in FDs
           /\ Registered(ev[ge[p]].efd) /\ ~Closed(ev[ge[p]].efd)
           /\ reg[ev[ge[p]].efd].ptr = ge[p]
           /\ sock[ev[ge[p]].efd] \in Conns
<1>1. Destroying(p) /\ pc[p] # "free"
  BY DEF Closing, Destroying
<1>2. /\ ge[p] \in Events /\ ev[ge[p]].efd \in FDs
      /\ reg[ev[ge[p]].efd].ptr = ge[p]
  BY <1>1, DestroyedEvent
<1>3. ge[p] \in alloc
  BY <1>1 DEF IInv, DestroysItsOwn
<1>4. Registered(ev[ge[p]].efd)
  BY <1>2, NetworkAssumption DEF Registered
<1>5. ~Closed(ev[ge[p]].efd)
  BY <1>2, <1>4 DEF IInv, KernelPointersLive
<1> QED
  BY <1>2, <1>3, <1>4, <1>5 DEF IInv, TypeOK, PollerTypeOK, Closed

\* GoneInv survives a step after which the closing threads are among those
\* before it and still have the same connection, and which brings back
\* neither a client nor data.
LEMMA GoneFrame ==
    ASSUME IInv, GoneInv,
           \A p \in Pollers : Closing(p)' =>
               /\ Closing(p) /\ ge'[p] = ge[p]
               /\ ev'[ge[p]].efd = ev[ge[p]].efd
               /\ sock'[ev[ge[p]].efd] = sock[ev[ge[p]].efd],
           \A c \in Conns : peer[c] # "up" /\ unread[c] = 0
                                => peer'[c] # "up" /\ unread'[c] = 0
    PROVE  GoneInv'
<1> SUFFICES ASSUME NEW p \in Pollers, Closing(p)'
             PROVE  /\ peer'[sock'[ev'[ge'[p]].efd]] # "up"
                    /\ unread'[sock'[ev'[ge'[p]].efd]] = 0
  BY DEF GoneInv
<1>1. Closing(p) /\ sock'[ev'[ge'[p]].efd] = sock[ev[ge[p]].efd]
  OBVIOUS
<1>2. sock[ev[ge[p]].efd] \in Conns
  BY <1>1, ClosingConn
<1> QED
  BY <1>1, <1>2 DEF GoneInv

\* close(2) of a descriptor together with its connection keeps ConnInv.
LEMMA CloseConn ==
    ASSUME TypeOK, ConnInv, NEW f \in FDs, ~Closed(f),
           sock' = [sock EXCEPT ![f] = NoConn],
           conn' = [conn EXCEPT ![sock[f]] = "closed"]
    PROVE  ConnInv'
<1>1. /\ sock \in [FDs -> Conns \cup {NoConn}] /\ sock[f] \in Conns
      /\ conn \in [Conns -> {"idle", "backlog", "open", "closed"}]
  BY DEF TypeOK, PollerTypeOK, Closed
<1>2. sock'[f] = NoConn /\ \A h \in FDs : h # f => sock'[h] = sock[h]
  BY <1>1
<1>3. \A d \in Conns : d # sock[f] => conn'[d] = conn[d]
  BY <1>1
<1>4. \A h \in FDs : h # f => sock[h] # sock[f]
  BY DEF ConnInv
<1> SUFFICES ASSUME NEW h \in FDs, sock'[h] # NoConn
             PROVE  /\ conn'[sock'[h]] = "open"
                    /\ \A i \in FDs : sock'[i] = sock'[h] => i = h
  BY DEF ConnInv, Closed
<1>5. h # f /\ sock'[h] = sock[h] /\ sock[h] \in Conns /\ ~Closed(h)
  BY <1>1, <1>2 DEF Closed
<1>6. conn'[sock'[h]] = "open"
  BY <1>3, <1>4, <1>5 DEF ConnInv
<1>7. \A i \in FDs : sock'[i] = sock'[h] => i = h
  BY <1>2, <1>5 DEF ConnInv
<1> QED
  BY <1>6, <1>7

\* The clients.
LEMMA ClientsRInv ==
    ASSUME RInv, NEW c \in Conns, Connect(c) \/ Send(c) \/ Shutdown(c) \/ Reset(c)
    PROVE  ConnInv' /\ GoneInv'
<1>1. TypeOK /\ UNCHANGED <<sock, ev, pc, ge>>
  BY DEF RInv, IInv, Connect, Send, Shutdown, Reset, pollerVars, dataVars
<1>2. \A d \in Conns : conn[d] = "open" => conn'[d] = "open"
  BY <1>1 DEF TypeOK, Connect, Send, Shutdown, Reset
<1>3. ConnInv'
  BY <1>1, <1>2 DEF RInv, ConnInv, Closed, TypeOK, PollerTypeOK
<1>4. \A d \in Conns : peer[d] # "up" /\ unread[d] = 0
                           => peer'[d] # "up" /\ unread'[d] = 0
  BY <1>1 DEF TypeOK, Connect, Send, Shutdown, Reset
<1>5. GoneInv'
  BY <1>1, <1>4, GoneFrame DEF RInv, Closing
<1> QED
  BY <1>3, <1>5

\* The network thread: accept opens a descriptor that no event is for, and
\* the close after a failed setsockopt or fcntl is of such a one.
LEMMA NetworkRInv ==
    ASSUME RInv, NetworkThread
    PROVE  ConnInv' /\ GoneInv'
<1>1. TypeOK /\ PollerTypeOK /\ Types
  BY TypesOK DEF RInv, IInv, TypeOK
<1>2. UNCHANGED <<pc, ge, peer, unread>>
  BY DEF NetworkThread, Accept, SetOptions, Create, Link, SetOps, Start, dataVars, connVars
<1>3. \A p \in Pollers : Closing(p)' <=> Closing(p)
  BY <1>2 DEF Closing
<1>4. ASSUME NEW c \in Conns, NEW f \in FDs, Accept(c, f)
      PROVE  ConnInv' /\ GoneInv'
  <2>1. /\ Closed(f) /\ conn[c] = "backlog" /\ UNCHANGED ev
        /\ conn' = [conn EXCEPT ![c] = "open"] /\ sock' = [sock EXCEPT ![f] = c]
    BY <1>4 DEF Accept, LowestFree
  <2>2. ConnInv'
    BY <1>1, <2>1, NetworkAssumption DEF TypeOK, PollerTypeOK, RInv, ConnInv, Closed
  <2>3. \A p \in Pollers : Closing(p) => ev[ge[p]].efd # f
    BY <2>1, ClosingConn DEF RInv
  <2>4. \A p \in Pollers : Closing(p) => sock'[ev[ge[p]].efd] = sock[ev[ge[p]].efd]
    BY <1>1, <2>1, <2>3, ClosingConn DEF RInv, PollerTypeOK
  <2> QED
    BY <1>2, <1>3, <2>1, <2>2, <2>4, GoneFrame DEF RInv
<1>5. CASE SetOptions
  <2>1. UNCHANGED ev /\ cfd \in FDs /\ ~Registered(cfd) /\ ~Closed(cfd)
    BY <1>5 DEF SetOptions, RInv, IInv, DispatchInv, Dispatching
  <2>2. CASE UNCHANGED <<sock, conn>>
    BY <1>2, <1>3, <2>1, <2>2, GoneFrame DEF RInv, ConnInv, Closed
  <2>3. CASE /\ sock' = [sock EXCEPT ![cfd] = NoConn]
             /\ conn' = [conn EXCEPT ![sock[cfd]] = "closed"]
    <3>1. ConnInv'
      BY <1>1, <2>1, <2>3, CloseConn DEF RInv
    <3>2. \A p \in Pollers : Closing(p) => ev[ge[p]].efd # cfd
      BY <2>1, ClosingConn DEF RInv
    <3>3. \A p \in Pollers : Closing(p) => sock'[ev[ge[p]].efd] = sock[ev[ge[p]].efd]
      BY <1>1, <2>3, <3>2, ClosingConn DEF RInv, PollerTypeOK
    <3> QED
      BY <1>2, <1>3, <2>1, <3>1, <3>3, GoneFrame DEF RInv
  <2> QED
    BY <1>5, <2>2, <2>3 DEF SetOptions, close
<1>6. CASE Create \/ Link \/ SetOps \/ Start
  <2>1. UNCHANGED <<sock, conn>>
    BY <1>6 DEF Create, gevent_create_alloc, Link, gevent_create_link, SetOps, Start,
      connVars
  <2>2. ConnInv'
    BY <2>1 DEF RInv, ConnInv, Closed
  <2>3. \A g \in alloc : ev'[g].efd = ev[g].efd
    <3>1. CASE Create
      BY <1>1, <3>1 DEF Types, PollerTypeOK, Create, gevent_create_alloc
    <3>2. CASE Link \/ SetOps \/ Start
      BY <1>1, <3>2, SMTT(30) DEF Types, PollerTypeOK, Link, gevent_create_link, SetOps, Start,
        gt_poller_event_start
    <3> QED
      BY <1>6, <3>1, <3>2
  <2> QED
    BY <1>2, <1>3, <2>1, <2>2, <2>3, ClosingConn, GoneFrame DEF RInv
<1> QED
  BY <1>4, <1>5, <1>6 DEF NetworkThread

\* gt_datanet_ops_read gives a connection up only when read(2) said that its
\* client is gone: it looks at errno, but then an errno that is not EAGAIN is
\* that of this read, or the read found the end of the file.
LEMMA ReadRInv ==
    ASSUME RInv, NEW p \in Pollers, NEW g \in Events, Read(p, g)
    PROVE  ConnInv' /\ GoneInv'
<1> DEFINE f == ev[g].efd
           c == sock[f]
           data == c # NoConn /\ unread[c] > 0
<1>1. TypeOK /\ PollerTypeOK /\ Types
  BY TypesOK DEF RInv, IInv, TypeOK
<1>2. UNCHANGED <<sock, reg, ev, conn, peer>> /\ g \in batch[p]
  BY DEF Read, pollerVars
<1>3. f \in FDs /\ c \in Conns
  <2>1. PICK h \in FDs : reg[h].ptr = g
    BY <1>2 DEF RInv, IInv, BatchStaysLive
  <2>2. Registered(h)
    BY <2>1, NetworkAssumption DEF Registered
  <2>3. ev[g].efd = h /\ ~Closed(h)
    BY <2>1, <2>2 DEF RInv, IInv, KernelPointersLive
  <2> QED
    BY <1>1, <2>3 DEF PollerTypeOK, Closed
<1>4. ConnInv'
  BY <1>2, SMTT(30) DEF RInv, ConnInv, Closed
<1>5. unread' = IF data THEN [unread EXCEPT ![c] = @ - 1] ELSE unread
  BY DEF Read
<1>6. \A d \in Conns : unread[d] = 0 => unread'[d] = 0
  BY <1>1, <1>3, <1>5 DEF TypeOK
<1>7. \A q \in Pollers : q # p => pc'[q] = pc[q] /\ ge'[q] = ge[q]
  BY <1>1 DEF Read, Goto, TypeOK
<1>8. \A q \in Pollers : q # p /\ Closing(q)' =>
          LET d == sock'[ev'[ge'[q]].efd] IN peer'[d] # "up" /\ unread'[d] = 0
  BY <1>2, <1>6, <1>7, ClosingConn, SMTT(30) DEF RInv, GoneInv, Closing
<1>9. Closing(p)' => LET d == sock'[ev'[ge'[p]].efd] IN peer'[d] # "up" /\ unread'[d] = 0
  <2> SUFFICES ASSUME Closing(p)'
               PROVE  peer[c] # "up" /\ unread'[c] = 0
    BY <1>1, <1>2 DEF Read, TypeOK
  <2>1. GivesUp(ret'[p], errno'[p])
    BY <1>1, SMTT(30) DEF Read, Goto, TypeOK, Closing, AfterHandler
  <2>2. ret'[p] = IF data THEN 1 ELSE IF unread[c] = 0 /\ peer[c] = "fin" THEN 0 ELSE -1
    BY <1>1, <1>3, NetworkAssumption DEF Read, TypeOK
  <2>3. ~data
    BY <2>1, <2>2 DEF GivesUp
  <2>4. unread[c] = 0 /\ unread' = unread
    <3>1. unread[c] \in 0..MaxData /\ c # NoConn
      BY <1>1, <1>3, NetworkAssumption DEF TypeOK
    <3> QED
      BY <1>5, <2>3, <3>1, NetworkAssumption
  <2>5. CASE peer[c] = "fin"
    BY <2>4, <2>5
  <2>6. CASE peer[c] # "fin"
    <3>1. errno'[p] = IF peer[c] = "up" THEN "EAGAIN" ELSE "other"
      BY <1>1, <1>3, <2>3, <2>4, <2>6, NetworkAssumption, SMTT(30) DEF Read, TypeOK
    <3> QED
      BY <2>1, <2>4, <3>1 DEF GivesUp
  <2> QED
    BY <2>5, <2>6, Zenon
<1>10. GoneInv'
  BY <1>8, <1>9 DEF GoneInv
<1> QED
  BY <1>4, <1>10

\* close(2) ends the connection of the event being destroyed and no other
\* thread's.
LEMMA CloseRInv ==
    ASSUME RInv, NEW p \in Pollers, CloseFd(p)
    PROVE  ConnInv' /\ GoneInv'
<1> DEFINE f == ev[ge[p]].efd
<1>1. TypeOK /\ PollerTypeOK /\ Types
  BY TypesOK DEF RInv, IInv, TypeOK
<1>2. Closing(p)
  BY DEF CloseFd, Goto, Closing
<1>3. f \in FDs /\ ~Closed(f) /\ sock[f] \in Conns /\ reg[f].ptr = ge[p]
  BY <1>2, ClosingConn DEF RInv
<1>4. /\ sock' = [sock EXCEPT ![f] = NoConn]
      /\ conn' = [conn EXCEPT ![sock[f]] = "closed"]
      /\ UNCHANGED <<ev, ge, peer, unread>>
      /\ pc' = [pc EXCEPT ![p] = "free"]
  BY DEF CloseFd, gevent_destroy_close, close, Goto
<1>5. ConnInv'
  BY <1>1, <1>3, <1>4, CloseConn DEF RInv
<1>6. \A q \in Pollers : Closing(q)' => Closing(q) /\ q # p
  BY <1>1, <1>4 DEF TypeOK, Closing
<1>7. \A q \in Pollers : Closing(q)' => ev[ge[q]].efd # f
  <2> SUFFICES ASSUME NEW q \in Pollers, Closing(q), q # p
               PROVE  ev[ge[q]].efd # f
    BY <1>6
  <2>1. ge[q] # ge[p]
    BY <1>2 DEF RInv, IInv, OneOwner, Closing, Destroying
  <2>2. reg[ev[ge[q]].efd].ptr = ge[q]
    BY ClosingConn DEF RInv
  <2> QED
    BY <1>3, <2>1, <2>2
<1>8. \A q \in Pollers : Closing(q)' => sock'[ev[ge[q]].efd] = sock[ev[ge[q]].efd]
  BY <1>1, <1>4, <1>6, <1>7, ClosingConn DEF RInv, PollerTypeOK
<1>9. GoneInv'
  BY <1>4, <1>6, <1>8, GoneFrame DEF RInv
<1> QED
  BY <1>5, <1>9

\* The other steps of a datanet thread open and close nothing.
LEMMA DatanetRInv ==
    ASSUME RInv, NEW p \in Pollers, DatanetThread(p) \/ Interrupted(p)
    PROVE  ConnInv' /\ GoneInv'
<1>1. TypeOK /\ PollerTypeOK /\ Types
  BY TypesOK DEF RInv, IInv, TypeOK
<1>2. CASE \/ InitEpfd(p) \/ InitElist(p) \/ EpollWait(p) \/ Interrupted(p)
           \/ Stop(p) \/ Unlink(p) \/ Unlinked(p) \/ Free(p) \/ Report(p)
  <2>1. UNCHANGED <<sock, conn, peer, unread, ge>>
    BY <1>2 DEF InitEpfd, poller_init_epfd, InitElist, poller_init_elist, EpollWait,
      Interrupted, Stop, Unlink, gevent_destroy_unlink, Unlinked, gevent_destroy_unlinked,
      Free, gevent_destroy_free, Report, pollerVars, connVars
  <2>2. ConnInv'
    BY <2>1 DEF RInv, ConnInv, Closed
  <2>3. \A q \in Pollers : Closing(q)' => Closing(q)
    BY <1>1, <1>2 DEF TypeOK, Closing, Goto, AfterHandler, InitEpfd, InitElist, EpollWait,
      Interrupted, Stop, Unlink, Unlinked, Free, Report
  <2>4. \A g \in Events : ev'[g].efd = ev[g].efd
    <3>1. CASE Stop(p)
      BY <1>1, <3>1 DEF Stop, gt_poller_event_stop, PollerTypeOK
    <3>2. CASE ~Stop(p)
      BY <1>2, <3>2 DEF InitEpfd, poller_init_epfd, InitElist, poller_init_elist, EpollWait,
        Interrupted, Unlink, gevent_destroy_unlink, Unlinked, gevent_destroy_unlinked,
        Free, gevent_destroy_free, Report, pollerVars
    <3> QED
      BY <3>1, <3>2
  <2>5. GoneInv'
    BY <2>1, <2>3, <2>4, ClosingConn, GoneFrame DEF RInv
  <2> QED
    BY <2>2, <2>5
<1>3. CASE CloseFd(p) \/ \E g \in Events : Read(p, g)
  BY <1>3, ReadRInv, CloseRInv
<1> QED
  BY <1>2, <1>3 DEF DatanetThread

LEMMA StepRInv ==
    ASSUME RInv, [Next]_vars
    PROVE  RInv'
<1>1. IInv'
  BY StepIInv DEF RInv
<1>2. CASE Next
  BY <1>1, <1>2, ClientsRInv, NetworkRInv, DatanetRInv DEF Next, RInv
<1>3. CASE UNCHANGED vars
  BY <1>1, <1>3 DEF vars, pollerVars, dataVars, connVars, RInv, ConnInv, GoneInv, Closed,
    Closing
<1> QED
  BY <1>2, <1>3

\* The invariant of the refinement.
THEOREM NetworkRInvariant == SafeSpec => []RInv
<1>1. Init => RInv
  BY InitIInv DEF RInv, Init, PollerInit, ConnInv, GoneInv, Closed, Closing
<1>2. RInv /\ [Next]_vars => RInv'
  BY StepRInv
<1> QED
  BY <1>1, <1>2, PTL DEF SafeSpec

-----------------------------------------------------------------------------
(* The refinement mapping, and how it moves.                               *)

\* What the state of the abstract server is, case by case.
StateTable ==
    \A c \in Conns :
        /\ conn[c] # "open" => ServerState(c) = conn[c]
        /\ \A f \in FDs : sock[f] = c /\ Registered(f) => ServerState(c) = "serving"
        /\ Dispatching /\ sock[cfd] = c => ServerState(c) = "accepted"
        /\ (/\ conn[c] = "open"
            /\ \A f \in FDs : sock[f] = c => ~Registered(f)
            /\ ~(Dispatching /\ sock[cfd] = c)) => ServerState(c) = "lost"

\* The cases are disjoint because a connection has one descriptor.
LEMMA StateCases == RInv => StateTable
<1> SUFFICES ASSUME RInv, NEW c \in Conns
             PROVE  /\ conn[c] # "open" => ServerState(c) = conn[c]
                    /\ \A f \in FDs : sock[f] = c /\ Registered(f)
                                          => ServerState(c) = "serving"
                    /\ Dispatching /\ sock[cfd] = c => ServerState(c) = "accepted"
                    /\ (/\ conn[c] = "open"
                        /\ \A f \in FDs : sock[f] = c => ~Registered(f)
                        /\ ~(Dispatching /\ sock[cfd] = c)) => ServerState(c) = "lost"
  BY DEF StateTable
<1>1. \A f \in FDs : sock[f] = c /\ Registered(f) => conn[c] = "open" /\ ~Closed(f)
  BY DEF RInv, IInv, KernelPointersLive, ConnInv
<1>2. Dispatching /\ sock[cfd] = c =>
          /\ conn[c] = "open"
          /\ \A f \in FDs : sock[f] = c => ~Registered(f)
  BY DEF RInv, IInv, DispatchInv, ConnInv
<1>3. conn[c] # "open" => ServerState(c) = conn[c]
  BY <1>1, <1>2 DEF ServerState
<1>4. ASSUME NEW f \in FDs, sock[f] = c, Registered(f)
      PROVE  ServerState(c) = "serving"
  BY <1>1, <1>2, <1>4 DEF ServerState
<1>5. ASSUME Dispatching, sock[cfd] = c
      PROVE  ServerState(c) = "accepted"
  BY <1>2, <1>5 DEF ServerState
<1>6. ASSUME conn[c] = "open", \A f \in FDs : sock[f] = c => ~Registered(f),
             ~(Dispatching /\ sock[cfd] = c)
      PROVE  ServerState(c) = "lost"
  BY <1>6 DEF ServerState
<1> QED
  BY <1>3, <1>4, <1>5, <1>6

\* A connection about whose descriptor nothing changes keeps its state.
LEMMA StateFrame ==
    ASSUME NEW c \in Conns, conn'[c] = conn[c],
           \A f \in FDs : sock'[f] = c /\ Registered(f)' <=> sock[f] = c /\ Registered(f),
           Dispatching' /\ sock'[cfd'] = c <=> Dispatching /\ sock[cfd] = c
    PROVE  ServerState(c)' = ServerState(c)
BY DEF ServerState

\* The abstract state after a step that moves one connection, or none.
LEMMA OneMoves ==
    ASSUME NEW c \in Conns, NEW from, NEW to,
           ServerState(c) = from, ServerState(c)' = to,
           \A d \in Conns \ {c} : ServerState(d)' = ServerState(d)
    PROVE  Server!Becomes(c, from, to)
BY DEF Server!Becomes

LEMMA NoneMoves ==
    ASSUME \A d \in Conns : ServerState(d)' = ServerState(d)
    PROVE  UNCHANGED [c \in Conns |-> ServerState(c)]
OBVIOUS

ServerReady == \A p \in Pollers : epfd[p]

\* The clients' steps are the abstract clients'.
LEMMA ClientsServe ==
    ASSUME RInv, RInv', NEW c \in Conns, Connect(c) \/ Send(c) \/ Shutdown(c) \/ Reset(c)
    PROVE  Server!Next
<1>1. /\ UNCHANGED <<sock, reg, epfd, fails, npc, cfd>> /\ StateTable /\ StateTable'
      /\ conn \in [Conns -> {"idle", "backlog", "open", "closed"}]
  <2>1. StateTable /\ StateTable'
    BY StateCases, PTL
  <2> QED
    BY <2>1 DEF RInv, IInv, TypeOK, Connect, Send, Shutdown, Reset, pollerVars, netVars
<1>2. \A d \in Conns : conn'[d] = conn[d] => ServerState(d)' = ServerState(d)
  BY <1>1, StateFrame DEF Registered, Dispatching
<1>3. UNCHANGED ServerReady
  BY <1>1 DEF ServerReady
<1>4. CASE Connect(c)
  <2>1. ServerState(c) = "idle" /\ ServerState(c)' = "backlog"
    BY <1>1, <1>4 DEF Connect, StateTable
  <2>2. \A d \in Conns \ {c} : ServerState(d)' = ServerState(d)
    BY <1>1, <1>2, <1>4 DEF Connect
  <2>3. Server!Becomes(c, "idle", "backlog")
    BY <2>1, <2>2, OneMoves
  <2>4. Server!Connect(c)
    BY <1>1, <1>3, <1>4, <2>3 DEF Connect, Server!Connect, ServerReady
  <2> QED
    BY <2>4 DEF Server!Next
<1>5. CASE Send(c) \/ Shutdown(c) \/ Reset(c)
  <2>1. UNCHANGED [d \in Conns |-> ServerState(d)]
    BY <1>2, <1>5, NoneMoves DEF Send, Shutdown, Reset
  <2>2. Server!AtClient(c)
    BY <1>1, <1>5 DEF Send, Shutdown, Reset, Connected, Server!AtClient, ServerState
  <2>3. Server!Send(c) \/ Server!Shutdown(c) \/ Server!Reset(c)
    BY <1>1, <1>3, <1>5, <2>1, <2>2 DEF Send, Shutdown, Reset, Server!Send,
      Server!Shutdown, Server!Reset, ServerReady
  <2> QED
    BY <2>3 DEF Server!Next
<1> QED
  BY <1>4, <1>5

\* accept: the descriptor was closed, so nobody had the connection before.
LEMMA AcceptServes ==
    ASSUME RInv, RInv', NEW c \in Conns, NEW f \in FDs, Accept(c, f)
    PROVE  Server!Accept(c)
<1>1. StateTable /\ StateTable'
  BY StateCases, PTL
<1>2. /\ npc = "wait" /\ npc' = "setsockopt" /\ cfd' = f /\ Closed(f)
      /\ conn[c] = "backlog" /\ conn' = [conn EXCEPT ![c] = "open"]
      /\ sock' = [sock EXCEPT ![f] = c]
      /\ UNCHANGED <<reg, epfd, fails, peer, unread>>
  BY DEF Accept, LowestFree
<1>3. /\ conn \in [Conns -> {"idle", "backlog", "open", "closed"}]
      /\ sock \in [FDs -> Conns \cup {NoConn}]
  BY DEF RInv, IInv, TypeOK, PollerTypeOK
<1>4. ~Registered(f)
  BY <1>2 DEF RInv, IInv, KernelPointersLive
<1>5. ServerState(c) = "backlog"
  BY <1>1, <1>2 DEF StateTable
<1>6. ServerState(c)' = "accepted"
  <2>1. Dispatching' /\ sock'[cfd'] = c
    BY <1>2, <1>3 DEF Dispatching
  <2> QED
    BY <1>1, <2>1 DEF StateTable
<1>7. ASSUME NEW d \in Conns \ {c}
      PROVE  ServerState(d)' = ServerState(d)
  <2>1. conn'[d] = conn[d]
    BY <1>2, <1>3
  <2>2. \A h \in FDs : sock'[h] = d /\ Registered(h)' <=> sock[h] = d /\ Registered(h)
    BY <1>2, <1>3, <1>4 DEF Registered
  <2>3. ~(Dispatching' /\ sock'[cfd'] = d) /\ ~Dispatching
    BY <1>2, <1>3 DEF Dispatching
  <2> QED
    BY <2>1, <2>2, <2>3, StateFrame
<1>8. Server!Becomes(c, "backlog", "accepted")
  BY <1>5, <1>6, <1>7, OneMoves
<1> QED
  BY <1>2, <1>8 DEF Server!Accept

\* What the network thread's connection is to the others: only its own state
\* depends on where the thread is.
LEMMA DispatchFrame ==
    ASSUME RInv, Dispatching,
           conn' = conn \/ conn' = [conn EXCEPT ![sock[cfd]] = "closed"],
           \A f \in FDs : f # cfd => sock'[f] = sock[f] /\ (Registered(f)' <=> Registered(f)),
           cfd' = cfd, sock'[cfd] \in {sock[cfd], NoConn}
    PROVE  /\ cfd \in FDs /\ sock[cfd] \in Conns /\ ServerState(sock[cfd]) = "accepted"
           /\ \A d \in Conns \ {sock[cfd]} : ServerState(d)' = ServerState(d)
<1>1. cfd \in FDs /\ ~Closed(cfd) /\ sock[cfd] \in Conns
  BY DEF RInv, IInv, DispatchInv, TypeOK, PollerTypeOK, Closed
<1>2. ServerState(sock[cfd]) = "accepted"
  BY <1>1, StateCases DEF StateTable
<1>3. ASSUME NEW d \in Conns \ {sock[cfd]}
      PROVE  ServerState(d)' = ServerState(d)
  <2>1. conn'[d] = conn[d]
    BY DEF RInv, IInv, TypeOK
  <2>2. sock[cfd] # d /\ sock'[cfd] # d /\ sock'[cfd'] # d
    BY NetworkAssumption
  <2>3. \A f \in FDs : sock'[f] = d /\ Registered(f)' <=> sock[f] = d /\ Registered(f)
    BY <2>2
  <2> QED
    BY <2>1, <2>2, <2>3, StateFrame
<1> QED
  BY <1>1, <1>2, <1>3

LEMMA SetOptionsServes ==
    ASSUME RInv, RInv', SetOptions
    PROVE  Server!Next \/ UNCHANGED Server!vars
<1>1. Dispatching /\ UNCHANGED <<epfd, cfd, peer, unread>>
  BY DEF SetOptions, Dispatching
<1>2. /\ sock \in [FDs -> Conns \cup {NoConn}] /\ cfd \in FDs
      /\ conn \in [Conns -> {"idle", "backlog", "open", "closed"}]
      /\ reg \in [FDs -> [epfd : Pollers, events : SUBSET Flags, ptr : Events] \cup {NoReg}]
  BY <1>1 DEF RInv, IInv, TypeOK, PollerTypeOK, DispatchInv
<1>3. CASE npc' = "create" /\ Works /\ UNCHANGED <<sock, reg, conn>>
  <2>1. \A d \in Conns : ServerState(d)' = ServerState(d)
    BY <1>1, <1>3, StateFrame DEF SetOptions, Registered, Dispatching
  <2> QED
    BY <1>1, <1>3, <2>1, NoneMoves DEF Server!vars, Works
<1>4. CASE /\ Breaks /\ close(cfd)
           /\ conn' = [conn EXCEPT ![sock[cfd]] = "closed"]
  <2> PICK c \in Conns : c = sock[cfd]
    BY <1>1 DEF RInv, IInv, DispatchInv, TypeOK, PollerTypeOK, Closed
  <2>1. \A f \in FDs : f # cfd => sock'[f] = sock[f] /\ (Registered(f)' <=> Registered(f))
    BY <1>2, <1>4 DEF close, Registered
  <2>2. sock'[cfd] = NoConn
    BY <1>2, <1>4 DEF close
  <2>3. /\ c \in Conns /\ ServerState(c) = "accepted"
        /\ \A d \in Conns \ {c} : ServerState(d)' = ServerState(d)
    BY <1>1, <1>4, <2>1, <2>2, DispatchFrame
  <2>4. conn'[c] = "closed"
    BY <1>2, <1>4, <2>3
  <2>5. ServerState(c)' = "closed"
    <3>1. StateTable'
      BY StateCases, PTL
    <3> QED
      BY <2>3, <2>4, <3>1 DEF StateTable
  <2>6. Server!Becomes(c, "accepted", "closed")
    BY <2>3, <2>5, OneMoves
  <2>7. Server!Refuse(c)
    BY <1>1, <1>4, <2>6 DEF Server!Refuse, Server!Fails, Breaks
  <2> QED
    BY <2>3, <2>7 DEF Server!Next
<1> QED
  BY <1>3, <1>4 DEF SetOptions

\* Without memory the connection is lost, and a call has failed.
LEMMA CreateServes ==
    ASSUME RInv, RInv', Create
    PROVE  Server!Next \/ UNCHANGED Server!vars
<1>1. Dispatching /\ UNCHANGED <<sock, reg, epfd, conn, peer, unread, cfd>>
  BY DEF Create, gevent_create_alloc, Dispatching, connVars
<1>2. CASE npc' = "link" /\ UNCHANGED fails
  <2>1. \A d \in Conns : ServerState(d)' = ServerState(d)
    BY <1>1, <1>2, StateFrame DEF Registered, Dispatching
  <2> QED
    BY <1>1, <1>2, <2>1, NoneMoves DEF Server!vars
<1>3. CASE npc' = "wait" /\ Breaks
  <2> PICK c \in Conns : c = sock[cfd]
    BY <1>1 DEF RInv, IInv, DispatchInv, TypeOK, PollerTypeOK, Closed
  <2>1. /\ cfd \in FDs /\ c \in Conns /\ ServerState(c) = "accepted"
        /\ \A d \in Conns \ {c} : ServerState(d)' = ServerState(d)
    BY <1>1, DispatchFrame DEF Registered
  <2>2. ~Closed(cfd) /\ ~Registered(cfd) /\ conn[c] = "open"
    BY <1>1 DEF RInv, IInv, DispatchInv, ConnInv
  <2>3. \A f \in FDs : sock'[f] = c => ~Registered(f)'
    BY <1>1, <2>1, <2>2 DEF RInv, ConnInv, Registered
  <2>4. ServerState(c)' = "lost"
    <3>1. StateTable'
      BY StateCases, PTL
    <3> QED
      BY <1>1, <1>3, <2>1, <2>2, <2>3, <3>1 DEF StateTable, Dispatching
  <2>5. Server!Becomes(c, "accepted", "lost")
    BY <2>1, <2>4, OneMoves
  <2>6. Server!Lose(c)
    BY <1>1, <1>3, <2>5 DEF Server!Lose, Server!Fails, Breaks
  <2> QED
    BY <2>1, <2>6 DEF Server!Next
<1> QED
  BY <1>2, <1>3 DEF Create, gevent_create_alloc, Works

\* epoll_ctl takes the connection into service, or it is lost: because the
\* call failed, or because the poller has no epoll set yet.
LEMMA StartServes ==
    ASSUME RInv, RInv', Start
    PROVE  Server!Next
<1> DEFINE p == DispatchPoller(cfd)
<1>1. /\ Dispatching /\ ~Dispatching' /\ Building
      /\ UNCHANGED <<sock, epfd, conn, peer, unread, cfd>>
  BY DEF Start, Dispatching, Building, connVars
<1> PICK c \in Conns : c = sock[cfd]
  BY <1>1 DEF RInv, IInv, DispatchInv, TypeOK, PollerTypeOK, Closed
<1>2. /\ cfd \in FDs /\ ~Closed(cfd) /\ ~Registered(cfd) /\ conn[c] = "open"
      /\ ev[nge].efd = cfd /\ ev[nge].events = {} /\ ev[nge].gpoller = p
      /\ p \in Pollers /\ nge \in Events
      /\ reg \in [FDs -> [epfd : Pollers, events : SUBSET Flags, ptr : Events] \cup {NoReg}]
  BY <1>1, DispatchPollerType DEF Start, RInv, IInv, DispatchInv, ConnInv, TypeOK,
    PollerTypeOK
<1>3. PICK r \in {GT_OK, GT_ERROR} : epoll_ctl("ADD", p, cfd, {"EPOLLIN"}, nge, r)
  BY <1>2 DEF Start, gt_poller_event_start
<1>4. \A f \in FDs : f # cfd => (Registered(f)' <=> Registered(f))
  BY <1>2, <1>3 DEF epoll_ctl, Registered
<1>5. /\ c \in Conns /\ ServerState(c) = "accepted"
      /\ \A d \in Conns \ {c} : ServerState(d)' = ServerState(d)
  BY <1>1, <1>4, DispatchFrame
<1>6. StateTable'
  BY StateCases, PTL
<1>7. CASE r = GT_OK
  <2>1. fails' = fails /\ reg' = [reg EXCEPT ![cfd] = [epfd |-> p, events |-> {"EPOLLIN"},
                                                       ptr |-> nge]]
    BY <1>3, <1>7 DEF epoll_ctl, Works, GT_OK, GT_ERROR
  <2>2. Registered(cfd)'
    BY <1>1, <1>2, <2>1, NetworkAssumption DEF Registered
  <2>3. ServerState(c)' = "serving"
    BY <1>1, <1>2, <1>5, <1>6, <2>2 DEF StateTable
  <2>4. Server!Becomes(c, "accepted", "serving")
    BY <1>5, <2>3, OneMoves
  <2>5. Server!Serve(c)
    BY <1>1, <2>1, <2>4 DEF Server!Serve
  <2> QED
    BY <1>5, <2>5 DEF Server!Next
<1>8. CASE r = GT_ERROR
  <2>1. reg' = reg /\ IF epfd[p] THEN Breaks ELSE Works
    BY <1>2, <1>3, <1>8 DEF epoll_ctl, CtlAccepts, GT_OK, GT_ERROR
  <2>2. \A f \in FDs : sock'[f] = c => ~Registered(f)'
    BY <1>1, <1>2, <2>1 DEF RInv, ConnInv, Registered
  <2>3. ServerState(c)' = "lost"
    BY <1>1, <1>2, <1>5, <1>6, <2>2 DEF StateTable
  <2>4. Server!Becomes(c, "accepted", "lost")
    BY <1>5, <2>3, OneMoves
  <2>5. Server!Lose(c)
    BY <1>1, <1>2, <2>1, <2>4 DEF Server!Lose, Server!Fails, Breaks, Works
  <2> QED
    BY <1>5, <2>5 DEF Server!Next
<1> QED
  BY <1>3, <1>7, <1>8

LEMMA NetworkServes ==
    ASSUME RInv, RInv', NetworkThread
    PROVE  Server!Next \/ UNCHANGED Server!vars
<1>1. CASE \E c \in Conns, f \in FDs : Accept(c, f)
  BY <1>1, AcceptServes DEF Server!Next
<1>2. CASE Link \/ SetOps
  <2>1. UNCHANGED <<sock, reg, epfd, fails, conn, peer, unread, cfd>>
    BY <1>2 DEF Link, gevent_create_link, SetOps, Works, connVars
  <2>2. Dispatching /\ Dispatching'
    BY <1>2 DEF Link, SetOps, Dispatching
  <2>3. \A d \in Conns : ServerState(d)' = ServerState(d)
    BY <2>1, <2>2, StateFrame DEF Registered
  <2> QED
    BY <2>1, <2>3, NoneMoves DEF Server!vars
<1> QED
  BY <1>1, <1>2, SetOptionsServes, CreateServes, StartServes DEF NetworkThread

\* A step that touches neither connections nor descriptors, and keeps what
\* is registered registered.
LEMMA QuietServes ==
    ASSUME UNCHANGED <<sock, conn, npc, cfd>>,
           \A f \in FDs : Registered(f)' <=> Registered(f)
    PROVE  \A d \in Conns : ServerState(d)' = ServerState(d)
BY StateFrame DEF Dispatching

\* gt_poller_init: the last one makes the server ready.
LEMMA InitServes ==
    ASSUME RInv, NEW p \in Pollers, InitEpfd(p) \/ InitElist(p)
    PROVE  Server!Next \/ UNCHANGED Server!vars
<1>1. UNCHANGED <<sock, reg, conn, peer, unread, npc, cfd>>
  BY DEF InitEpfd, poller_init_epfd, InitElist, poller_init_elist, netVars, connVars
<1>2. UNCHANGED [c \in Conns |-> ServerState(c)]
  BY <1>1, QuietServes, NoneMoves DEF Registered
<1>3. CASE UNCHANGED epfd /\ Breaks
  <2>1. Server!Endure
    BY <1>1, <1>2, <1>3 DEF Server!Endure, Server!Fails, Breaks
  <2> QED
    BY <2>1 DEF Server!Next
<1>4. CASE UNCHANGED epfd /\ Works
  BY <1>1, <1>2, <1>4 DEF Server!vars, Works
<1>5. CASE epfd' = [epfd EXCEPT ![p] = TRUE] /\ Works
  <2>1. epfd \in [Pollers -> BOOLEAN]
    BY DEF RInv, IInv, TypeOK, PollerTypeOK
  <2>2. CASE \A q \in Pollers : epfd'[q]
    <3>1. Server!GetReady
      BY <1>1, <1>2, <1>5, <2>2 DEF Server!GetReady, Works
    <3> QED
      BY <3>1 DEF Server!Next
  <2>3. CASE ~\A q \in Pollers : epfd'[q]
    <3>1. ~\A q \in Pollers : epfd[q]
      BY <1>5, <2>1, <2>3
    <3>2. (\A q \in Pollers : epfd[q])' = (\A q \in Pollers : epfd[q])
      BY <2>3, <3>1
    <3> QED
      BY <1>1, <1>2, <1>5, <3>2 DEF Server!vars, Works
  <2> QED
    BY <2>2, <2>3
<1> QED
  BY <1>3, <1>4, <1>5 DEF InitEpfd, poller_init_epfd, InitElist, poller_init_elist

\* read(2) takes data of a connection in service, or nothing.
LEMMA ReadServes ==
    ASSUME RInv, NEW p \in Pollers, NEW g \in Events, Read(p, g)
    PROVE  Server!Next \/ UNCHANGED Server!vars
<1>1. UNCHANGED <<sock, reg, epfd, fails, conn, peer, npc, cfd>> /\ g \in batch[p]
  BY DEF Read, pollerVars, netVars
<1>2. UNCHANGED [c \in Conns |-> ServerState(c)]
  BY <1>1, QuietServes, NoneMoves DEF Registered
<1>3. PICK f \in FDs : reg[f].ptr = g
  BY <1>1 DEF RInv, IInv, BatchStaysLive
<1>4. Registered(f)
  BY <1>3, NetworkAssumption DEF Registered
<1>5. ev[g].efd = f /\ ~Closed(f)
  BY <1>3, <1>4 DEF RInv, IInv, KernelPointersLive
<1>6. PICK c \in Conns : c = sock[f]
  BY <1>5 DEF RInv, IInv, TypeOK, PollerTypeOK, Closed
<1>7. ServerState(c) = "serving"
  BY <1>4, <1>6, StateCases DEF StateTable
<1>8. unread' = IF unread[c] > 0 THEN [unread EXCEPT ![c] = @ - 1] ELSE unread
  BY <1>5, <1>6, NetworkAssumption DEF Read
<1>9. CASE unread[c] > 0
  <2>1. Server!Read(c)
    BY <1>1, <1>2, <1>7, <1>8, <1>9 DEF Server!Read
  <2> QED
    BY <2>1 DEF Server!Next
<1>10. CASE ~(unread[c] > 0)
  BY <1>1, <1>2, <1>8, <1>10 DEF Server!vars
<1> QED
  BY <1>9, <1>10, SMTT(30)

\* The stop keeps the kernel's entry, whether epoll_ctl succeeds or not.
LEMMA StopServes ==
    ASSUME RInv, NEW p \in Pollers, Stop(p)
    PROVE  Server!Next \/ UNCHANGED Server!vars
<1>1. UNCHANGED <<sock, epfd, conn, peer, unread, npc, cfd>>
  BY DEF Stop, netVars, connVars
<1>2. PICK f \in FDs : f = ev[ge[p]].efd /\ Registered(f) /\ ge[p] \in Events
  BY ClosingConn DEF Stop, Goto, Closing, RInv
<1>3. PICK entry : \/ reg' = reg
                   \/ reg' = [reg EXCEPT ![f] = entry] /\ entry.ptr = ge[p]
  BY <1>2 DEF Stop, gt_poller_event_stop, epoll_ctl
<1>4. \A h \in FDs : Registered(h)' <=> Registered(h)
  <2>1. reg \in [FDs -> [epfd : Pollers, events : SUBSET Flags, ptr : Events] \cup {NoReg}]
    BY DEF RInv, IInv, TypeOK, PollerTypeOK
  <2>2. reg'[f] = reg[f] \/ reg'[f].ptr = ge[p]
    BY <1>2, <1>3, <2>1
  <2>3. Registered(f)'
    BY <1>1, <1>2, <2>2, NetworkAssumption DEF Registered, Stop
  <2>4. \A h \in FDs : h # f => reg'[h] = reg[h]
    BY <1>3, <2>1
  <2> QED
    BY <1>2, <2>3, <2>4 DEF Registered
<1>5. UNCHANGED [c \in Conns |-> ServerState(c)]
  BY <1>1, <1>4, QuietServes, NoneMoves
<1>6. CASE Works
  BY <1>1, <1>5, <1>6 DEF Server!vars, Works
<1>7. CASE Breaks
  <2>1. Server!Endure
    BY <1>1, <1>5, <1>7 DEF Server!Endure, Server!Fails, Breaks
  <2> QED
    BY <2>1 DEF Server!Next
<1> QED
  BY <1>6, <1>7 DEF Stop, gt_poller_event_stop, epoll_ctl

\* A connection that leaves the epoll set does so because its client has
\* gone, and with all it sent read.
LEMMA CloseServes ==
    ASSUME RInv, RInv', NEW p \in Pollers, CloseFd(p)
    PROVE  Server!Next
<1>1. Closing(p)
  BY DEF CloseFd, Goto, Closing
<1>2. PICK f \in FDs : f = ev[ge[p]].efd
  BY <1>1, ClosingConn DEF RInv
<1>3. Registered(f) /\ ~Closed(f)
  BY <1>1, <1>2, ClosingConn DEF RInv
<1>4. PICK c \in Conns : c = sock[f]
  BY <1>1, <1>2, ClosingConn DEF RInv
<1>5. /\ sock' = [sock EXCEPT ![f] = NoConn] /\ reg' = [reg EXCEPT ![f] = NoReg]
      /\ conn' = [conn EXCEPT ![c] = "closed"]
      /\ UNCHANGED <<epfd, fails, npc, cfd, peer, unread>>
  BY <1>2, <1>4 DEF CloseFd, gevent_destroy_close, close, netVars
<1>6. /\ sock \in [FDs -> Conns \cup {NoConn}]
      /\ conn \in [Conns -> {"idle", "backlog", "open", "closed"}]
      /\ reg \in [FDs -> [epfd : Pollers, events : SUBSET Flags, ptr : Events] \cup {NoReg}]
  BY DEF RInv, IInv, TypeOK, PollerTypeOK
<1>7. peer[c] # "up" /\ unread[c] = 0
  BY <1>1, <1>2, <1>4 DEF RInv, GoneInv
<1>8. ServerState(c) = "serving"
  BY <1>3, <1>4, StateCases DEF StateTable
<1>9. ServerState(c)' = "closed"
  <2>1. StateTable'
    BY StateCases, PTL
  <2> QED
    BY <1>5, <1>6, <2>1 DEF StateTable
<1>10. ASSUME NEW d \in Conns \ {c}
       PROVE  ServerState(d)' = ServerState(d)
  <2>1. conn'[d] = conn[d]
    BY <1>5, <1>6
  <2>2. \A h \in FDs : sock'[h] = d /\ Registered(h)' <=> sock[h] = d /\ Registered(h)
    <3>1. sock[f] # d /\ sock'[f] # d
      BY <1>4, <1>5, <1>6, NetworkAssumption
    <3>2. \A h \in FDs : h # f => sock'[h] = sock[h] /\ reg'[h] = reg[h]
      BY <1>5, <1>6
    <3> QED
      BY <3>1, <3>2 DEF Registered
  <2>3. Dispatching => cfd \in FDs /\ cfd # f
    BY <1>3 DEF RInv, IInv, DispatchInv
  <2>4. Dispatching' /\ sock'[cfd'] = d <=> Dispatching /\ sock[cfd] = d
    BY <1>5, <1>6, <2>3 DEF Dispatching
  <2> QED
    BY <2>1, <2>2, <2>4, StateFrame
<1>11. Server!Becomes(c, "serving", "closed")
  BY <1>8, <1>9, <1>10, OneMoves
<1>12. Server!Close(c)
  BY <1>5, <1>7, <1>11 DEF Server!Close
<1> QED
  BY <1>12 DEF Server!Next

LEMMA DatanetServes ==
    ASSUME RInv, RInv', NEW p \in Pollers, DatanetThread(p) \/ Interrupted(p)
    PROVE  Server!Next \/ UNCHANGED Server!vars
<1>1. CASE EpollWait(p) \/ Interrupted(p) \/ Unlink(p) \/ Unlinked(p) \/ Free(p) \/ Report(p)
  <2>1. UNCHANGED <<sock, reg, epfd, fails, conn, peer, unread, npc, cfd>>
    BY <1>1 DEF EpollWait, Interrupted, Unlink, gevent_destroy_unlink, Unlinked,
      gevent_destroy_unlinked, Free, gevent_destroy_free, Report, pollerVars, netVars,
      connVars
  <2> QED
    BY <2>1, QuietServes, NoneMoves DEF Registered, Server!vars
<1> QED
  BY <1>1, InitServes, ReadServes, StopServes, CloseServes DEF DatanetThread

\* Every step of the network engine is a step of the abstract server, or none.
LEMMA StepServes ==
    ASSUME RInv, RInv', [Next]_vars
    PROVE  [Server!Next]_(Server!vars)
<1>1. CASE Next
  BY <1>1, ClientsServe, NetworkServes, DatanetServes DEF Next
<1>2. CASE UNCHANGED vars
  <2>1. UNCHANGED <<sock, reg, epfd, fails, conn, peer, unread, npc, cfd>>
    BY <1>2 DEF vars, pollerVars, netVars, connVars
  <2> QED
    BY <2>1, QuietServes, NoneMoves DEF Registered, Server!vars
<1> QED
  BY <1>1, <1>2

\* The threads, descriptors and events of gt_network.c and gt_poller.c serve
\* connections as GtServer says, for every number of each and with any
\* number of failing calls: nobody's live connection is closed, no data is
\* thrown away by a close, and a connection is lost only before it reaches
\* its epoll set, through a failing call or a poller that is not ready.
THEOREM NetworkServesConnections == SafeSpec => ServesConnections
<1>1. Init => Server!Init
  <2> SUFFICES ASSUME Init
               PROVE  Server!Init
    OBVIOUS
  <2>1. RInv
    BY InitIInv DEF RInv, Init, PollerInit, ConnInv, GoneInv, Closed, Closing
  <2>2. \A c \in Conns : ServerState(c) = "idle"
    BY <2>1, StateCases DEF StateTable, Init
  <2>3. ~\A p \in Pollers : epfd[p]
    <3>1. 0 \in Pollers
      BY NetworkAssumption
    <3> QED
      BY <3>1 DEF Init, PollerInit
  <2> QED
    BY <2>2, <2>3 DEF Init, PollerInit, Server!Init
<1>2. RInv /\ RInv' /\ [Next]_vars => [Server!Next]_(Server!vars)
  BY StepServes
<1> QED
  BY <1>1, <1>2, NetworkRInvariant, PTL DEF SafeSpec, ServesConnections, Server!Spec
=============================================================================
