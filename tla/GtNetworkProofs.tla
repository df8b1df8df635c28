--------------------------- MODULE GtNetworkProofs ---------------------------
(***************************************************************************)
(* The safety of the network engine for any number of datanet threads,     *)
(* descriptors, connections and events, any number of failing calls and    *)
(* early reports, and with the pollers initialised late.                   *)
(*                                                                         *)
(* IInv of GtNetwork is inductive.  Each action lemma first states what    *)
(* the action does to the parts of memory the invariant speaks of, then    *)
(* goes through the conjuncts.                                             *)
(***************************************************************************)
EXTENDS GtNetwork, TLAPS

\* The part of TypeOK the safety conjuncts need, component by component.
Types ==
    /\ alloc \subseteq Events
    /\ nge \in Events \cup {Null} /\ cfd \in FDs \cup {Null}
    /\ \A p \in Pollers : batch[p] \subseteq Events /\ ge[p] \in Events \cup {Null}
    /\ \A f \in FDs : \/ reg[f].ptr = Null /\ reg[f].epfd = Null
                      \/ reg[f].ptr \in Events /\ reg[f].epfd \in Pollers
    /\ \A g \in Events : /\ ev[g].efd \in FDs \cup {Null}
                         /\ ev[g].gpoller \in Pollers \cup {Null}
    /\ LET Pointers == Pollers \cup Events \cup {Null, LIST_POISON1, LIST_POISON2}
       IN  /\ mem.next \in [Pollers \cup Events -> Pointers]
           /\ mem.prev \in [Pollers \cup Events -> Pointers]

\* A well typed state has well typed components.
LEMMA TypesOK == TypeOK => Types
BY DEF TypeOK, PollerTypeOK, NoReg, Types

\* sockfd % DIM(g_gt_datanet_pthread) is the index of a datanet thread.
LEMMA DispatchPollerType ==
    ASSUME NEW f \in FDs
    PROVE  DispatchPoller(f) \in Pollers
BY NetworkAssumption DEF DispatchPoller

\* Up to its close, the event a thread destroys is the one the kernel has
\* for its descriptor, and up to the end of list_del its list_head points at
\* the thread's poller.
LEMMA DestroyedEvent ==
    ASSUME IInv, NEW p \in Pollers, Destroying(p), pc[p] # "free"
    PROVE  /\ ge[p] \in Events
           /\ ev[ge[p]].efd \in FDs /\ ev[ge[p]].gpoller = p
           /\ reg[ev[ge[p]].efd].ptr = ge[p] /\ reg[ev[ge[p]].efd].epfd = p
           /\ pc[p] # "close" => mem.next[ge[p]] = p /\ mem.prev[ge[p]] = p
<1>1. Types
  BY TypesOK DEF IInv
<1>2. PICK f \in FDs : reg[f].ptr = ge[p] /\ reg[f].epfd = p
  BY DEF IInv, DestroysItsOwn
<1>3. ge[p] \in alloc /\ ge[p] \in Events
  BY <1>1 DEF IInv, DestroysItsOwn, Types
<1>4. Registered(f) /\ ev[ge[p]].efd = f /\ ev[ge[p]].gpoller = p
  BY <1>2, <1>3, NetworkAssumption DEF IInv, KernelPointersLive, Registered
<1>5. pc[p] # "close" => mem.next[ge[p]] = p /\ mem.prev[ge[p]] = p
  BY <1>2, <1>4 DEF IInv, LinkInv
<1> QED
  BY <1>2, <1>3, <1>4, <1>5

\* IInv without the types, which have a part of their own below.
SafetyInv == /\ KernelPointersLive /\ ElistNotDangling
             /\ BatchStaysLive /\ OneOwner /\ DestroysItsOwn
             /\ DispatchInv /\ LinkInv /\ ElistInv /\ DestroyInv

\* A step that changes nothing but the place of threads that own no event
\* keeps the safety conjuncts.
LEMMA QuietStep ==
    ASSUME IInv, UNCHANGED <<sock, reg, alloc, ev, mem, npc, cfd, nge, ge, batch>>,
           \A q \in Pollers : pc'[q] = pc[q] \/ (~Destroying(q) /\ ~Destroying(q)')
    PROVE  SafetyInv'
<1>1. Types
  BY TypesOK DEF IInv
<1>2. KernelPointersLive' /\ ElistNotDangling' /\ BatchStaysLive' /\ DispatchInv'
  BY DEF IInv, KernelPointersLive, ElistNotDangling, BatchStaysLive, DispatchInv,
    Dispatching, Building, Registered, Closed
<1>3. OneOwner' /\ DestroysItsOwn' /\ DestroyInv'
  BY DEF IInv, OneOwner, DestroysItsOwn, DestroyInv, Building, Destroying
<1>4. LinkInv' /\ ElistInv'
  BY <1>1, NetworkAssumption DEF Types, IInv, LinkInv, ElistInv, Registered, Destroying
<1> QED
  BY <1>2, <1>3, <1>4 DEF SafetyInv

\* So do the clients, signals, epoll_create and the report.
LEMMA QuietSafe ==
    ASSUME IInv,
           \/ \E c \in Conns : Connect(c) \/ Send(c) \/ Shutdown(c) \/ Reset(c)
           \/ \E p \in Pollers : Interrupted(p) \/ InitEpfd(p) \/ Report(p)
    PROVE  SafetyInv'
<1>1. CASE \E c \in Conns : Connect(c) \/ Send(c) \/ Shutdown(c) \/ Reset(c)
  BY <1>1, QuietStep DEF Connect, Send, Shutdown, Reset, pollerVars, netVars, dataVars
<1>2. ASSUME NEW p \in Pollers, Interrupted(p)
      PROVE  SafetyInv'
  BY <1>2, QuietStep DEF Interrupted, pollerVars, netVars
<1>3. ASSUME NEW p \in Pollers, InitEpfd(p)
      PROVE  SafetyInv'
  <2>1. \A q \in Pollers : pc'[q] = pc[q] \/ (~Destroying(q) /\ ~Destroying(q)')
    BY <1>3 DEF InitEpfd, Goto, Destroying, IInv, TypeOK
  <2> QED
    BY <1>3, <2>1, QuietStep DEF InitEpfd, poller_init_epfd, netVars
<1>4. ASSUME NEW p \in Pollers, Report(p)
      PROVE  SafetyInv'
  <2>1. \A q \in Pollers : pc'[q] = pc[q] \/ (~Destroying(q) /\ ~Destroying(q)')
    BY <1>4 DEF Report, Goto, AfterHandler, Destroying, IInv, TypeOK
  <2> QED
    BY <1>4, <2>1, QuietStep DEF Report, pollerVars, netVars
<1> QED
  BY <1>1, <1>2, <1>3, <1>4

\* The descriptor accept hands out was closed, so no kernel entry is for it.
LEMMA AcceptSafe ==
    ASSUME IInv, NEW c \in Conns, NEW f \in FDs, Accept(c, f)
    PROVE  SafetyInv'
<1>1. Types
  BY TypesOK DEF IInv
<1>2. UNCHANGED <<reg, alloc, ev, mem, nge, pc, ge, batch>>
  BY DEF Accept, dataVars
<1>3. npc = "wait" /\ npc' = "setsockopt" /\ cfd' = f
  BY DEF Accept
<1>4. /\ sock[f] = NoConn /\ sock'[f] # NoConn
      /\ \A h \in FDs : h # f => sock'[h] = sock[h]
  BY NetworkAssumption DEF IInv, TypeOK, PollerTypeOK, Accept, LowestFree,
    Closed
<1>5. reg[f].ptr = Null
  BY <1>4 DEF IInv, KernelPointersLive, Registered, Closed
<1>6. KernelPointersLive'
  BY <1>2, <1>4 DEF IInv, KernelPointersLive, Registered, Closed
<1>7. ElistNotDangling'
  BY <1>2 DEF IInv, ElistNotDangling
<1>8. BatchStaysLive'
  BY <1>2 DEF IInv, BatchStaysLive
<1>9. OneOwner'
  BY <1>2, <1>3 DEF IInv, OneOwner, Destroying, Building
<1>10. DestroysItsOwn'
  BY <1>2 DEF IInv, DestroysItsOwn, Destroying
<1>11. DispatchInv'
  BY <1>2, <1>3, <1>4, <1>5 DEF IInv, DispatchInv, Building, Registered,
    Closed
<1>12. LinkInv'
  BY <1>2 DEF IInv, LinkInv, Registered
<1>13. ElistInv'
  BY <1>2, <1>3 DEF IInv, ElistInv
<1>14. DestroyInv'
  BY <1>2 DEF IInv, DestroyInv, Destroying
<1> QED
  BY <1>6, <1>7, <1>8, <1>9, <1>10, <1>11, <1>12, <1>13, <1>14 DEF SafetyInv

\* A connection closed after a failed setsockopt or fcntl is in no epoll set.
LEMMA SetOptionsSafe ==
    ASSUME IInv, SetOptions
    PROVE  SafetyInv'
<1>1. Types
  BY TypesOK DEF IInv
<1>2. UNCHANGED <<alloc, ev, mem, cfd, nge, pc, ge, batch>>
  BY DEF SetOptions, dataVars
<1>3. npc = "setsockopt" /\ npc' \in {"wait", "create"}
  BY DEF SetOptions
<1>4. cfd \in FDs /\ reg[cfd].ptr = Null
  BY <1>3 DEF IInv, DispatchInv, Dispatching, Registered
<1>5. \/ UNCHANGED <<sock, reg>> /\ npc' = "create"
      \/ /\ sock' = [sock EXCEPT ![cfd] = NoConn] /\ npc' = "wait"
         /\ reg' = [reg EXCEPT ![cfd] = NoReg]
  BY DEF SetOptions, close
<1>6. \A h \in FDs : h # cfd => reg'[h] = reg[h] /\ sock'[h] = sock[h]
  BY <1>5 DEF IInv, TypeOK, PollerTypeOK
<1>7. reg'[cfd].ptr = Null
  BY <1>4, <1>5 DEF IInv, TypeOK, PollerTypeOK, NoReg
<1>8. KernelPointersLive'
  BY <1>2, <1>6, <1>7 DEF IInv, KernelPointersLive, Registered, Closed
<1>9. ElistNotDangling'
  BY <1>2 DEF IInv, ElistNotDangling
<1>10. BatchStaysLive'
  BY <1>1, <1>2, <1>4, <1>6, NetworkAssumption DEF Types, IInv, BatchStaysLive
<1>11. OneOwner'
  BY <1>2, <1>3 DEF IInv, OneOwner, Destroying, Building
<1>12. DestroysItsOwn'
  BY <1>2, <1>4, <1>6, NetworkAssumption DEF IInv, DestroysItsOwn, Destroying,
    DestroyInv
<1>13. DispatchInv'
  BY <1>2, <1>3, <1>5 DEF IInv, DispatchInv, Dispatching, Building,
    Registered, Closed
<1>14. LinkInv'
  <2> SUFFICES ASSUME NEW f \in FDs, reg'[f].ptr # Null
               PROVE  LET g == reg'[f].ptr
                          q == reg'[f].epfd
                      IN  \/ mem'.next[g] = q /\ mem'.prev[g] = q
                          \/ pc'[q] = "close" /\ ge'[q] = g
    BY DEF LinkInv, Registered
  <2>1. /\ reg'[f].ptr = reg[f].ptr /\ reg'[f].epfd = reg[f].epfd
        /\ reg[f].ptr \in Events /\ reg[f].epfd \in Pollers
        /\ ev[reg[f].ptr].gpoller = reg[f].epfd
    BY <1>1, <1>6, <1>7 DEF Types, IInv, KernelPointersLive, Registered
  <2>2. \/ mem.next[reg[f].ptr] = reg[f].epfd /\ mem.prev[reg[f].ptr] = reg[f].epfd
        \/ pc[reg[f].epfd] = "close" /\ ge[reg[f].epfd] = reg[f].ptr
    BY <2>1, NetworkAssumption DEF IInv, LinkInv, Registered
  <2> QED
    BY <2>1, <2>2, <1>2
<1>15. ElistInv'
  BY <1>2, <1>3 DEF IInv, ElistInv
<1>16. DestroyInv'
  BY <1>2, <1>4, <1>6, <1>7 DEF IInv, DestroyInv, Destroying
<1> QED
  BY <1>8, <1>9, <1>10, <1>11, <1>12, <1>13, <1>14, <1>15, <1>16 DEF SafetyInv

\* The second half of list_add writes the new event's next and the elist's prev.
LEMMA LinkSafe ==
    ASSUME IInv, Link
    PROVE  SafetyInv'
<1>1. Types
  BY TypesOK DEF IInv
<1>2. UNCHANGED <<sock, reg, alloc, cfd, nge, pc, ge, batch>>
  BY DEF Link, gevent_create_link, dataVars
<1>3. /\ npc = "link" /\ npc' = "ops"
      /\ nge \in alloc /\ nge \in Events /\ DispatchPoller(cfd) \in Pollers
  BY <1>1, DispatchPollerType DEF Types, Link, IInv, DispatchInv, Dispatching,
    Building
<1>4. /\ mem'.next = [mem.next EXCEPT ![nge] = DispatchPoller(cfd)]
      /\ mem'.prev = [mem.prev EXCEPT ![DispatchPoller(cfd)] = nge]
  BY DEF Link, gevent_create_link, list_add_second_half, IInv, TypeOK,
    PollerTypeOK
<1>5. /\ mem'.next[nge] = DispatchPoller(cfd) /\ mem'.prev[DispatchPoller(cfd)] = nge
      /\ \A h \in Events : mem'.prev[h] = mem.prev[h]
      /\ \A h \in Events : h # nge => mem'.next[h] = mem.next[h]
      /\ \A q \in Pollers : mem'.next[q] = mem.next[q]
      /\ \A q \in Pollers : q # DispatchPoller(cfd) => mem'.prev[q] = mem.prev[q]
  BY <1>1, <1>3, <1>4, NetworkAssumption DEF Types
<1>6. \A f \in FDs : reg[f].ptr # nge
  BY <1>3 DEF IInv, OneOwner, Building
<1>7. \A h \in Events : /\ ev'[h].efd = ev[h].efd /\ ev'[h].events = ev[h].events
                        /\ ev'[h].read = ev[h].read
                        /\ h # nge => ev'[h].gpoller = ev[h].gpoller
  BY DEF Link, gevent_create_link, IInv, TypeOK, PollerTypeOK
<1>8. ev'[nge].gpoller = DispatchPoller(cfd)
  BY <1>3 DEF Link, gevent_create_link, IInv, TypeOK, PollerTypeOK
<1>9. KernelPointersLive'
  BY <1>1, <1>2, <1>6, <1>7 DEF Types, IInv, KernelPointersLive, Registered, Closed
<1>10. ElistNotDangling'
  BY <1>2, <1>3, <1>5 DEF IInv, ElistNotDangling
<1>11. BatchStaysLive'
  BY <1>2 DEF IInv, BatchStaysLive
<1>12. OneOwner'
  BY <1>2, <1>3 DEF IInv, OneOwner, Destroying, Building
<1>13. DestroysItsOwn'
  BY <1>2 DEF IInv, DestroysItsOwn, Destroying
<1>14. DispatchInv'
  BY <1>2, <1>3, <1>5, <1>7, <1>8 DEF IInv, DispatchInv, Dispatching,
    Building, Registered, Closed
<1>15. LinkInv'
  <2> SUFFICES ASSUME NEW f \in FDs, reg'[f].ptr # Null
               PROVE  LET g == reg'[f].ptr
                          q == reg'[f].epfd
                      IN  \/ mem'.next[g] = q /\ mem'.prev[g] = q
                          \/ pc'[q] = "close" /\ ge'[q] = g
    BY DEF LinkInv, Registered
  <2>1. /\ reg'[f].ptr = reg[f].ptr /\ reg'[f].epfd = reg[f].epfd
        /\ reg[f].ptr \in Events /\ reg[f].epfd \in Pollers
        /\ ev[reg[f].ptr].gpoller = reg[f].epfd
    BY <1>1, <1>2 DEF Types, IInv, KernelPointersLive, Registered
  <2>2. \/ mem.next[reg[f].ptr] = reg[f].epfd /\ mem.prev[reg[f].ptr] = reg[f].epfd
        \/ pc[reg[f].epfd] = "close" /\ ge[reg[f].epfd] = reg[f].ptr
    BY <2>1, NetworkAssumption DEF IInv, LinkInv, Registered
  <2> QED
    BY <2>1, <2>2, <1>2, <1>5, <1>6
<1>16. ElistInv'
  BY <1>3, <1>5, <1>7, <1>8, NetworkAssumption DEF IInv, ElistInv,
    DispatchInv, Building
<1>17. DestroyInv'
  BY <1>2, <1>3, <1>5, <1>7, NetworkAssumption DEF IInv, DestroyInv,
    Destroying, DispatchInv, Building
<1> QED
  BY <1>9, <1>10, <1>11, <1>12, <1>13, <1>14, <1>15, <1>16, <1>17 DEF
    SafetyInv

\* The read handler is set before the kernel knows the event.
LEMMA SetOpsSafe ==
    ASSUME IInv, SetOps
    PROVE  SafetyInv'
<1>1. Types
  BY TypesOK DEF IInv
<1>2. UNCHANGED <<sock, reg, alloc, mem, cfd, nge, pc, ge, batch>>
  BY DEF SetOps, dataVars
<1>3. npc = "ops" /\ npc' = "start" /\ nge \in Events
  BY <1>1 DEF Types, SetOps, IInv, DispatchInv, Building
<1>4. \A h \in Events : /\ ev'[h].efd = ev[h].efd /\ ev'[h].events = ev[h].events
                        /\ ev'[h].gpoller = ev[h].gpoller
                        /\ h # nge => ev'[h] = ev[h]
  BY DEF SetOps, IInv, TypeOK, PollerTypeOK
<1>5. ev'[nge].read
  BY <1>3 DEF SetOps, IInv, TypeOK, PollerTypeOK
<1>6. KernelPointersLive'
  BY <1>1, <1>2, <1>4, <1>5 DEF Types, IInv, KernelPointersLive, Registered,
    Closed
<1>7. ElistNotDangling'
  BY <1>2 DEF IInv, ElistNotDangling
<1>8. BatchStaysLive'
  BY <1>2 DEF IInv, BatchStaysLive, DestroysItsOwn
<1>9. OneOwner'
  BY <1>2, <1>3 DEF IInv, OneOwner, Destroying, Building
<1>10. DestroysItsOwn'
  BY <1>2 DEF IInv, DestroysItsOwn, Destroying
<1>11. DispatchInv'
  BY <1>2, <1>3, <1>4, <1>5 DEF IInv, DispatchInv, Dispatching, Building,
    Registered, Closed
<1>12. LinkInv'
  BY <1>2 DEF IInv, LinkInv, Registered
<1>13. ElistInv'
  BY <1>2, <1>3, <1>4 DEF IInv, ElistInv
<1>14. DestroyInv'
  BY <1>2, <1>4 DEF IInv, DestroyInv, Destroying
<1> QED
  BY <1>6, <1>7, <1>8, <1>9, <1>10, <1>11, <1>12, <1>13, <1>14 DEF SafetyInv

\* The event has no flags yet, so gt_poller_event_start asks the kernel to ADD
\* it; afterwards it is the kernel's, or, refused, nobody's.
LEMMA StartSafe ==
    ASSUME IInv, Start
    PROVE  SafetyInv'
<1>1. Types
  BY TypesOK DEF IInv
<1>2. UNCHANGED <<sock, alloc, mem, cfd, nge, pc, ge, batch>>
  BY DEF Start, dataVars
<1>3. /\ npc = "start" /\ npc' = "wait" /\ cfd \in FDs /\ nge \in Events
      /\ ev[nge].efd = cfd /\ ev[nge].events = {}
  BY <1>1 DEF Types, Start, IInv, DispatchInv, Dispatching, Building
<1>4. PICK r : gt_poller_event_start({"EPOLLIN"}, nge, r)
  BY DEF Start
<1>5. /\ ev' = [ev EXCEPT ![nge].events = @ \cup {"EPOLLIN"}]
      /\ epoll_ctl("ADD", ev[nge].gpoller, cfd, ev[nge].events \cup {"EPOLLIN"}, nge, r)
  BY <1>3, <1>4 DEF gt_poller_event_start
<1>6. \A h \in Events : /\ ev'[h].efd = ev[h].efd /\ ev'[h].read = ev[h].read
                        /\ ev'[h].gpoller = ev[h].gpoller
  BY <1>5 DEF IInv, TypeOK, PollerTypeOK
<1>7. /\ \A h \in FDs : h # cfd => reg'[h] = reg[h]
      /\ \/ reg'[cfd] = reg[cfd]
         \/ reg'[cfd].ptr = nge /\ reg'[cfd].epfd = ev[nge].gpoller
  BY <1>3, <1>5 DEF epoll_ctl, IInv, TypeOK, PollerTypeOK
<1>8. /\ nge \in alloc /\ ev[nge].read /\ ev[nge].gpoller \in Pollers
      /\ mem.next[nge] = ev[nge].gpoller /\ mem.prev[nge] = ev[nge].gpoller
      /\ sock[cfd] # NoConn
  BY <1>3, DispatchPollerType DEF IInv, DispatchInv, Dispatching, Building,
    Closed
<1>9. KernelPointersLive'
  BY <1>1, <1>2, <1>3, <1>6, <1>7, <1>8 DEF Types, IInv, KernelPointersLive,
    Registered, Closed
<1>10. ElistNotDangling'
  BY <1>2 DEF IInv, ElistNotDangling
<1>11. BatchStaysLive'
  BY <1>1, <1>2, <1>3, <1>7, NetworkAssumption DEF Types, IInv,
    BatchStaysLive, Registered, DispatchInv, Dispatching
<1>12. OneOwner'
  BY <1>2, <1>3 DEF IInv, OneOwner, Destroying, Building
<1>13. DestroysItsOwn'
  BY <1>2, <1>3, <1>7, NetworkAssumption DEF IInv, DestroysItsOwn, Destroying,
    DispatchInv, Dispatching, Registered, DestroyInv
<1>14. DispatchInv'
  BY <1>3 DEF IInv, DispatchInv, Dispatching, Building
<1>15. LinkInv'
  BY <1>2, <1>7, <1>8 DEF IInv, LinkInv, Registered
<1>16. ElistInv'
  BY <1>2, <1>3, <1>6 DEF IInv, ElistInv
<1>17. DestroyInv'
  BY <1>2, <1>3, <1>6, <1>7 DEF IInv, DestroyInv, Destroying, OneOwner,
    Building
<1> QED
  BY <1>9, <1>10, <1>11, <1>12, <1>13, <1>14, <1>15, <1>16, <1>17 DEF
    SafetyInv

\* INIT_LIST_HEAD on an elist that events were already added to forgets them,
\* which leaves no dangling pointer.
LEMMA InitElistSafe ==
    ASSUME IInv, NEW p \in Pollers, InitElist(p)
    PROVE  SafetyInv'
<1>1. Types
  BY TypesOK DEF IInv
<1>2. UNCHANGED <<sock, reg, alloc, ev, npc, cfd, nge, ge, batch>>
  BY DEF InitElist, poller_init_elist, netVars
<1>3. \A q \in Pollers : \/ pc'[q] = pc[q]
                         \/ {pc[q], pc'[q]} \subseteq {"elist", "wait", "exited"}
  BY DEF InitElist, Goto, IInv, TypeOK
<1>4. \/ mem' = mem
      \/ /\ mem'.next = [mem.next EXCEPT ![p] = p]
         /\ mem'.prev = [mem.prev EXCEPT ![p] = p]
  BY DEF InitElist, poller_init_elist, INIT_LIST_HEAD, IInv, TypeOK,
    PollerTypeOK
<1>5. /\ \A h \in Events : mem'.next[h] = mem.next[h] /\ mem'.prev[h] = mem.prev[h]
      /\ \A q \in Pollers : /\ mem'.next[q] \in {q, mem.next[q]}
                            /\ mem'.prev[q] \in {q, mem.prev[q]}
  BY <1>1, <1>4, NetworkAssumption DEF Types
<1>6. KernelPointersLive'
  BY <1>2 DEF IInv, KernelPointersLive, Registered, Closed
<1>7. ElistNotDangling'
  BY <1>2, <1>5 DEF IInv, ElistNotDangling
<1>8. BatchStaysLive'
  BY <1>2 DEF IInv, BatchStaysLive
<1>9. OneOwner'
  BY <1>2, <1>3 DEF IInv, OneOwner, Destroying, Building
<1>10. DestroysItsOwn'
  BY <1>2, <1>3 DEF IInv, DestroysItsOwn, Destroying
<1>11. DispatchInv'
  BY <1>1, <1>2, <1>5 DEF Types, IInv, DispatchInv, Dispatching, Building,
    Registered, Closed
<1>12. LinkInv'
  BY <1>1, <1>2, <1>3, <1>5 DEF Types, IInv, LinkInv, Registered
<1>13. ElistInv'
  BY <1>2, <1>5 DEF IInv, ElistInv
<1>14. DestroyInv'
  BY <1>2, <1>3, <1>5 DEF IInv, DestroyInv, Destroying
<1> QED
  BY <1>6, <1>7, <1>8, <1>9, <1>10, <1>11, <1>12, <1>13, <1>14 DEF SafetyInv

\* epoll_wait reports entries of its own poller.
LEMMA EpollWaitSafe ==
    ASSUME IInv, NEW p \in Pollers, EpollWait(p)
    PROVE  SafetyInv'
<1>1. Types
  BY TypesOK DEF IInv
<1>2. UNCHANGED <<sock, reg, alloc, ev, mem, npc, cfd, nge, ge>>
  BY DEF EpollWait, pollerVars, netVars
<1>3. /\ pc[p] = "wait" /\ pc'[p] = "next"
      /\ \A q \in Pollers : q # p => pc'[q] = pc[q] /\ batch'[q] = batch[q]
  BY DEF EpollWait, Goto, IInv, TypeOK
<1>4. \A g \in batch'[p] : \E f \in FDs : reg[f].ptr = g /\ reg[f].epfd = p
  BY DEF EpollWait, Watched, Ready, IInv, TypeOK
<1>5. batch'[p] \subseteq alloc
  BY <1>1, <1>4, NetworkAssumption DEF Types, IInv, KernelPointersLive,
    Registered
<1>6. KernelPointersLive'
  BY <1>2 DEF IInv, KernelPointersLive, Registered, Closed
<1>7. ElistNotDangling'
  BY <1>2 DEF IInv, ElistNotDangling
<1>8. BatchStaysLive'
  BY <1>2, <1>3, <1>4, <1>5 DEF IInv, BatchStaysLive, DestroysItsOwn,
    Destroying, KernelPointersLive
<1>9. OneOwner'
  BY <1>2, <1>3, <1>4 DEF IInv, OneOwner, Destroying, Building
<1>10. DestroysItsOwn'
  BY <1>2, <1>3 DEF IInv, DestroysItsOwn, Destroying, BatchStaysLive
<1>11. DispatchInv'
  BY <1>2 DEF IInv, DispatchInv, Dispatching, Building, Registered, Closed
<1>12. LinkInv'
  BY <1>1, <1>2, <1>3 DEF Types, IInv, LinkInv, Registered
<1>13. ElistInv'
  BY <1>2 DEF IInv, ElistInv
<1>14. DestroyInv'
  BY <1>2, <1>3 DEF IInv, DestroyInv, Destroying
<1> QED
  BY <1>6, <1>7, <1>8, <1>9, <1>10, <1>11, <1>12, <1>13, <1>14 DEF SafetyInv

\* A thread that finds its connection gone takes the event out of its batch and
\* becomes its owner.
LEMMA ReadSafe ==
    ASSUME IInv, NEW p \in Pollers, NEW g \in Events, Read(p, g)
    PROVE  SafetyInv'
<1>1. Types
  BY TypesOK, SMTT(30) DEF IInv
<1>2. UNCHANGED <<sock, reg, alloc, ev, mem, npc, cfd, nge>>
  BY DEF Read, pollerVars, netVars
<1>3. /\ pc[p] = "next" /\ pc'[p] \in {"wait", "next", "stop"}
      /\ g \in batch[p] /\ ge'[p] = g /\ batch'[p] = batch[p] \ {g}
  BY DEF Read, Goto, RestOfBatch, AfterHandler, IInv, TypeOK
<1>4. \A q \in Pollers : q # p => /\ pc'[q] = pc[q] /\ batch'[q] = batch[q]
                                  /\ ge'[q] = ge[q]
  BY DEF Read, Goto, IInv, TypeOK
<1>5. PICK f \in FDs : reg[f].ptr = g /\ reg[f].epfd = p
  BY <1>3 DEF IInv, BatchStaysLive
<1>6. g \in alloc /\ ev[g].gpoller = p
  BY <1>5, NetworkAssumption DEF IInv, KernelPointersLive, Registered
<1>7. KernelPointersLive'
  BY <1>2 DEF IInv, KernelPointersLive, Registered, Closed
<1>8. ElistNotDangling'
  BY <1>2 DEF IInv, ElistNotDangling
<1>9. BatchStaysLive'
  BY <1>2, <1>3, <1>4 DEF IInv, BatchStaysLive
<1>10. OneOwner'
  <2>1. Building => g # nge
    BY <1>3 DEF IInv, OneOwner
  <2>2. \A q \in Pollers : Destroying(q) /\ ge[q] = g => q = p
    BY <1>6 DEF IInv, DestroyInv
  <2>3. ~Destroying(p)
    BY <1>3 DEF Destroying
  <2> QED
    BY <1>2, <1>3, <1>4, <2>1, <2>2, <2>3 DEF IInv, OneOwner, Building, Destroying
<1>11. DestroysItsOwn'
  BY <1>2, <1>3, <1>4, <1>5, <1>6 DEF IInv, DestroysItsOwn, Destroying
<1>12. DispatchInv'
  BY <1>2 DEF IInv, DispatchInv, Dispatching, Building, Registered, Closed
<1>13. LinkInv'
  BY <1>1, <1>2, <1>3, <1>4 DEF Types, IInv, LinkInv, Registered
<1>14. ElistInv'
  BY <1>2 DEF IInv, ElistInv
<1>15. DestroyInv'
  BY <1>2, <1>3, <1>4, <1>6 DEF IInv, DestroyInv, Destroying
<1> QED
  BY <1>7, <1>8, <1>9, <1>10, <1>11, <1>12, <1>13, <1>14, <1>15 DEF SafetyInv

\* gt_poller_event_stop changes flags only: MOD keeps the pointer.
LEMMA StopSafe ==
    ASSUME IInv, NEW p \in Pollers, Stop(p)
    PROVE  SafetyInv'
<1>1. Types
  BY TypesOK DEF IInv
<1>2. UNCHANGED <<sock, alloc, mem, npc, cfd, nge, ge, batch>>
  BY DEF Stop, netVars
<1>3. /\ pc[p] = "stop" /\ pc'[p] = "unlink"
      /\ \A q \in Pollers : q # p => pc'[q] = pc[q]
  BY DEF Stop, Goto, IInv, TypeOK
<1>4. /\ ge[p] \in Events /\ ev[ge[p]].efd \in FDs /\ ev[ge[p]].gpoller = p
      /\ reg[ev[ge[p]].efd].ptr = ge[p] /\ reg[ev[ge[p]].efd].epfd = p
  BY <1>3, DestroyedEvent DEF Destroying
<1>5. PICK r : gt_poller_event_stop({"EPOLLIN"}, ge[p], r)
  BY DEF Stop
<1>6. \/ ev' = ev /\ reg' = reg
      \/ /\ ev' = [ev EXCEPT ![ge[p]].events = @ \ {"EPOLLIN"}]
         /\ epoll_ctl("MOD", ev[ge[p]].gpoller, ev[ge[p]].efd, ev[ge[p]].events \ {"EPOLLIN"}, ge[p], r)
  BY <1>5 DEF gt_poller_event_stop
<1>7. \A h \in Events : /\ ev'[h].efd = ev[h].efd /\ ev'[h].read = ev[h].read
                        /\ ev'[h].gpoller = ev[h].gpoller
                        /\ h # ge[p] => ev'[h] = ev[h]
  BY <1>6, SMTT(30) DEF IInv, TypeOK, PollerTypeOK
<1>8. \A h \in FDs : h # ev[ge[p]].efd => reg'[h] = reg[h]
  BY <1>6 DEF epoll_ctl, IInv, TypeOK, PollerTypeOK
<1>9. reg'[ev[ge[p]].efd].ptr = ge[p] /\ reg'[ev[ge[p]].efd].epfd = p
  BY <1>4, <1>6 DEF epoll_ctl, IInv, TypeOK, PollerTypeOK
<1>10. \A h \in FDs : reg'[h].ptr = reg[h].ptr /\ reg'[h].epfd = reg[h].epfd
  BY <1>4, <1>8, <1>9
<1>11. Building => nge # ge[p]
  BY <1>3 DEF IInv, OneOwner, Destroying
<1>12. KernelPointersLive'
  BY <1>1, <1>2, <1>7, <1>10 DEF Types, IInv, KernelPointersLive, Registered,
    Closed
<1>13. ElistNotDangling'
  BY <1>2 DEF IInv, ElistNotDangling
<1>14. BatchStaysLive'
  BY <1>2, <1>10 DEF IInv, BatchStaysLive, DestroysItsOwn
<1>15. OneOwner'
  BY <1>2, <1>3, <1>10 DEF IInv, OneOwner, Destroying, Building
<1>16. DestroysItsOwn'
  BY <1>2, <1>3, <1>10 DEF IInv, DestroysItsOwn, Destroying, BatchStaysLive
<1>17. DispatchInv'
  BY <1>1, <1>2, <1>7, <1>10, <1>11 DEF Types, IInv, DispatchInv, Dispatching,
    Building, Registered, Closed
<1>18. LinkInv'
  <2> SUFFICES ASSUME NEW f \in FDs, reg'[f].ptr # Null
               PROVE  LET g == reg'[f].ptr
                          q == reg'[f].epfd
                      IN  \/ mem'.next[g] = q /\ mem'.prev[g] = q
                          \/ pc'[q] = "close" /\ ge'[q] = g
    BY DEF LinkInv, Registered
  <2>1. /\ reg'[f].ptr = reg[f].ptr /\ reg'[f].epfd = reg[f].epfd
        /\ reg[f].ptr \in Events /\ reg[f].epfd \in Pollers
        /\ ev[reg[f].ptr].gpoller = reg[f].epfd
    BY <1>1, <1>10 DEF Types, IInv, KernelPointersLive, Registered
  <2>2. \/ mem.next[reg[f].ptr] = reg[f].epfd /\ mem.prev[reg[f].ptr] = reg[f].epfd
        \/ pc[reg[f].epfd] = "close" /\ ge[reg[f].epfd] = reg[f].ptr
    BY <2>1, NetworkAssumption DEF IInv, LinkInv, Registered
  <2> QED
    BY <2>1, <2>2, <1>2, <1>3
<1>19. ElistInv'
  BY <1>2, <1>7 DEF IInv, ElistInv
<1>20. DestroyInv'
  BY <1>2, <1>3, <1>7, <1>10 DEF IInv, DestroyInv, Destroying
<1> QED
  BY <1>12, <1>13, <1>14, <1>15, <1>16, <1>17, <1>18, <1>19, <1>20 DEF
    SafetyInv

\* The first write of list_del takes the event off the elist's prev.
LEMMA UnlinkSafe ==
    ASSUME IInv, NEW p \in Pollers, Unlink(p)
    PROVE  SafetyInv'
<1>1. Types
  BY TypesOK DEF IInv
<1>2. UNCHANGED <<sock, reg, alloc, ev, npc, cfd, nge, ge, batch>>
  BY DEF Unlink, gevent_destroy_unlink, netVars
<1>3. /\ pc[p] = "unlink" /\ pc'[p] = "unlinked"
      /\ \A q \in Pollers : q # p => pc'[q] = pc[q]
  BY DEF Unlink, Goto, IInv, TypeOK
<1>4. /\ ge[p] \in Events /\ ev[ge[p]].gpoller = p
      /\ mem.next[ge[p]] = p /\ mem.prev[ge[p]] = p
  BY <1>3, DestroyedEvent DEF Destroying
<1>5. mem'.next = mem.next /\ mem'.prev = [mem.prev EXCEPT ![p] = p]
  BY <1>4 DEF Unlink, gevent_destroy_unlink, list_del_first_half, IInv,
    TypeOK, PollerTypeOK
<1>6. /\ mem'.prev[p] = p /\ \A h \in Events : mem'.prev[h] = mem.prev[h]
      /\ \A q \in Pollers : q # p => mem'.prev[q] = mem.prev[q]
  BY <1>1, <1>5, NetworkAssumption DEF Types
<1>7. KernelPointersLive'
  BY <1>2 DEF IInv, KernelPointersLive, Registered, Closed
<1>8. ElistNotDangling'
  BY <1>2, <1>5 DEF IInv, ElistNotDangling
<1>9. BatchStaysLive'
  BY <1>2 DEF IInv, BatchStaysLive, DestroysItsOwn
<1>10. OneOwner'
  BY <1>2, <1>3 DEF IInv, OneOwner, Destroying, Building
<1>11. DestroysItsOwn'
  BY <1>2, <1>3 DEF IInv, DestroysItsOwn, Destroying
<1>12. DispatchInv'
  BY <1>1, <1>2, <1>5, <1>6 DEF Types, IInv, DispatchInv, Dispatching,
    Building, Registered, Closed
<1>13. LinkInv'
  <2> SUFFICES ASSUME NEW f \in FDs, reg'[f].ptr # Null
               PROVE  LET g == reg'[f].ptr
                          q == reg'[f].epfd
                      IN  \/ mem'.next[g] = q /\ mem'.prev[g] = q
                          \/ pc'[q] = "close" /\ ge'[q] = g
    BY DEF LinkInv, Registered
  <2>1. /\ reg'[f].ptr = reg[f].ptr /\ reg'[f].epfd = reg[f].epfd
        /\ reg[f].ptr \in Events /\ reg[f].epfd \in Pollers
        /\ ev[reg[f].ptr].gpoller = reg[f].epfd
    BY <1>1, <1>2 DEF Types, IInv, KernelPointersLive, Registered
  <2>2. \/ mem.next[reg[f].ptr] = reg[f].epfd /\ mem.prev[reg[f].ptr] = reg[f].epfd
        \/ pc[reg[f].epfd] = "close" /\ ge[reg[f].epfd] = reg[f].ptr
    BY <2>1, NetworkAssumption DEF IInv, LinkInv, Registered
  <2> QED
    BY <2>1, <2>2, <1>2, <1>3, <1>5, <1>6
<1>14. ElistInv'
  BY <1>2, <1>5, <1>6 DEF IInv, ElistInv
<1>15. DestroyInv'
  BY <1>2, <1>3, <1>5, <1>6, NetworkAssumption DEF IInv, DestroyInv,
    Destroying
<1> QED
  BY <1>7, <1>8, <1>9, <1>10, <1>11, <1>12, <1>13, <1>14, <1>15 DEF SafetyInv

\* The second write takes it off the elist's next; the event is poisoned.
LEMMA UnlinkedSafe ==
    ASSUME IInv, NEW p \in Pollers, Unlinked(p)
    PROVE  SafetyInv'
<1>1. Types
  BY TypesOK DEF IInv
<1>2. UNCHANGED <<sock, reg, alloc, ev, npc, cfd, nge, ge, batch>>
  BY DEF Unlinked, gevent_destroy_unlinked, netVars
<1>3. /\ pc[p] = "unlinked" /\ pc'[p] = "close"
      /\ \A q \in Pollers : q # p => pc'[q] = pc[q]
  BY DEF Unlinked, Goto, IInv, TypeOK
<1>4. /\ ge[p] \in Events /\ ev[ge[p]].gpoller = p
      /\ mem.next[ge[p]] = p /\ mem.prev[ge[p]] = p
  BY <1>3, DestroyedEvent DEF Destroying
<1>5. /\ mem'.next = [mem.next EXCEPT ![p] = p, ![ge[p]] = LIST_POISON1]
      /\ mem'.prev = [mem.prev EXCEPT ![ge[p]] = LIST_POISON2]
  BY <1>4 DEF Unlinked, gevent_destroy_unlinked, list_del_second_half, Poison,
    IInv, TypeOK, PollerTypeOK
<1>6. /\ \A h \in Events : h # ge[p] => mem'.next[h] = mem.next[h] /\ mem'.prev[h] = mem.prev[h]
      /\ \A q \in Pollers : q # p => mem'.next[q] = mem.next[q]
      /\ \A q \in Pollers : mem'.prev[q] = mem.prev[q]
      /\ mem'.next[p] = p
  BY <1>1, <1>4, <1>5, NetworkAssumption DEF Types
<1>7. KernelPointersLive'
  BY <1>2 DEF IInv, KernelPointersLive, Registered, Closed
<1>8. ElistNotDangling'
  BY <1>2, <1>6 DEF IInv, ElistNotDangling
<1>9. BatchStaysLive'
  BY <1>2 DEF IInv, BatchStaysLive, DestroysItsOwn, DispatchInv
<1>10. OneOwner'
  BY <1>2, <1>3 DEF IInv, OneOwner, Building, Destroying
<1>11. DestroysItsOwn'
  BY <1>2, <1>3 DEF IInv, DestroysItsOwn, Destroying
<1>12. DispatchInv'
  BY <1>1, <1>2, <1>3, <1>6 DEF Types, IInv, DispatchInv, Dispatching,
    Building, Registered, Closed, OneOwner, Destroying
<1>13. LinkInv'
  <2> SUFFICES ASSUME NEW f \in FDs, reg'[f].ptr # Null
               PROVE  LET g == reg'[f].ptr
                          q == reg'[f].epfd
                      IN  \/ mem'.next[g] = q /\ mem'.prev[g] = q
                          \/ pc'[q] = "close" /\ ge'[q] = g
    BY DEF LinkInv, Registered
  <2>1. /\ reg'[f].ptr = reg[f].ptr /\ reg'[f].epfd = reg[f].epfd
        /\ reg[f].ptr \in Events /\ reg[f].epfd \in Pollers
        /\ ev[reg[f].ptr].gpoller = reg[f].epfd
    BY <1>1, <1>2 DEF Types, IInv, KernelPointersLive, Registered
  <2>2. \/ mem.next[reg[f].ptr] = reg[f].epfd /\ mem.prev[reg[f].ptr] = reg[f].epfd
        \/ pc[reg[f].epfd] = "close" /\ ge[reg[f].epfd] = reg[f].ptr
    BY <2>1, NetworkAssumption DEF IInv, LinkInv, Registered
  <2> QED
    BY <2>1, <2>2, <1>2, <1>3, <1>4, <1>6
<1>14. ElistInv'
  BY <1>2, <1>4, <1>6 DEF IInv, ElistInv
<1>15. DestroyInv'
  BY <1>2, <1>3, <1>4, <1>6 DEF IInv, DestroyInv, Destroying
<1> QED
  BY <1>7, <1>8, <1>9, <1>10, <1>11, <1>12, <1>13, <1>14, <1>15 DEF SafetyInv

\* close takes the entry of the destroyed event out of the epoll set, and no other.
LEMMA CloseFdSafe ==
    ASSUME IInv, NEW p \in Pollers, CloseFd(p)
    PROVE  SafetyInv'
<1>1. Types
  BY TypesOK DEF IInv
<1>2. UNCHANGED <<alloc, ev, mem, npc, cfd, nge, ge, batch>>
  BY DEF CloseFd, gevent_destroy_close, netVars
<1>3. /\ pc[p] = "close" /\ pc'[p] = "free"
      /\ \A q \in Pollers : q # p => pc'[q] = pc[q]
  BY DEF CloseFd, Goto, IInv, TypeOK
<1>4. /\ ge[p] \in Events /\ ev[ge[p]].efd \in FDs /\ ev[ge[p]].gpoller = p
      /\ reg[ev[ge[p]].efd].ptr = ge[p] /\ reg[ev[ge[p]].efd].epfd = p
  BY <1>3, DestroyedEvent DEF Destroying
<1>5. /\ \A h \in FDs : h # ev[ge[p]].efd => reg'[h] = reg[h] /\ sock'[h] = sock[h]
      /\ reg'[ev[ge[p]].efd].ptr = Null
  BY <1>4 DEF CloseFd, gevent_destroy_close, close, NoReg, IInv, TypeOK,
    PollerTypeOK
<1>6. \A h \in FDs : reg'[h].ptr # ge[p]
  BY <1>4, <1>5, NetworkAssumption DEF IInv, KernelPointersLive, Registered
<1>7. KernelPointersLive'
  BY <1>2, <1>5 DEF IInv, KernelPointersLive, Registered, Closed, DispatchInv,
    Building
<1>8. ElistNotDangling'
  BY <1>2 DEF IInv, ElistNotDangling
<1>9. BatchStaysLive'
  BY <1>2, <1>3, <1>4, <1>5 DEF IInv, BatchStaysLive, DestroysItsOwn,
    Destroying
<1>10. OneOwner'
  BY <1>1, <1>2, <1>3, <1>5, NetworkAssumption DEF Types, IInv, OneOwner,
    Destroying, Building
<1>11. DestroysItsOwn'
  BY <1>2, <1>3, <1>4, <1>5 DEF IInv, DestroysItsOwn, Destroying
<1>12. DispatchInv'
  BY <1>2, <1>4, <1>5, <1>6 DEF Types, IInv, DispatchInv, Dispatching,
    Building, Registered, Closed
<1>13. LinkInv'
  BY <1>1, <1>2, <1>3, <1>5, <1>6 DEF Types, IInv, LinkInv, Registered
<1>14. ElistInv'
  BY <1>2 DEF IInv, ElistInv
<1>15. DestroyInv'
  BY <1>2, <1>3, <1>5, <1>6, NetworkAssumption DEF IInv, DestroyInv,
    Destroying
<1> QED
  BY <1>7, <1>8, <1>9, <1>10, <1>11, <1>12, <1>13, <1>14, <1>15 DEF SafetyInv

\* The freed event is in no elist, batch or kernel entry any more.
LEMMA FreeSafe ==
    ASSUME IInv, NEW p \in Pollers, Free(p)
    PROVE  SafetyInv'
<1>1. Types
  BY TypesOK DEF IInv
<1>2. UNCHANGED <<sock, reg, ev, mem, npc, cfd, nge, ge, batch>>
  BY DEF Free, gevent_destroy_free, netVars
<1>3. /\ pc[p] = "free" /\ pc'[p] \in {"wait", "next", "report"}
      /\ \A q \in Pollers : q # p => pc'[q] = pc[q]
  BY DEF Free, Goto, AfterHandler, IInv, TypeOK
<1>4. alloc' = alloc \ {ge[p]}
  BY DEF Free, gevent_destroy_free
<1>5. /\ ge[p] \in Events /\ ev[ge[p]].gpoller = p
      /\ \A f \in FDs : reg[f].ptr # ge[p]
      /\ Building => nge # ge[p]
  BY <1>3 DEF IInv, DestroyInv, Destroying, OneOwner
<1>6. \A q \in Pollers : mem.next[q] # ge[p] /\ mem.prev[q] # ge[p]
  BY <1>3, <1>5 DEF IInv, ElistInv, DestroyInv, Destroying, Building
<1>7. KernelPointersLive'
  BY <1>2, <1>4, <1>5 DEF IInv, KernelPointersLive, Registered, Closed
<1>8. ElistNotDangling'
  BY <1>2, <1>4, <1>6 DEF IInv, ElistNotDangling
<1>9. BatchStaysLive'
  BY <1>2, <1>4, <1>5 DEF IInv, BatchStaysLive, DestroysItsOwn
<1>10. OneOwner'
  BY <1>2, <1>3, <1>4 DEF IInv, OneOwner, Destroying, Building
<1>11. DestroysItsOwn'
  BY <1>2, <1>3, <1>4 DEF IInv, DestroysItsOwn, Destroying, DestroyInv
<1>12. DispatchInv'
  BY <1>2, <1>4, <1>5 DEF IInv, DispatchInv, Dispatching, Building,
    Registered, Closed
<1>13. LinkInv'
  BY <1>1, <1>2, <1>3 DEF Types, IInv, LinkInv, Registered
<1>14. ElistInv'
  BY <1>2 DEF IInv, ElistInv
<1>15. DestroyInv'
  BY <1>2, <1>3 DEF IInv, DestroyInv, Destroying
<1> QED
  BY <1>7, <1>8, <1>9, <1>10, <1>11, <1>12, <1>13, <1>14, <1>15 DEF SafetyInv

\* A new event is nobody's: no kernel entry, batch, elist or destroying thread
\* has its address.  Without memory only the dispatcher's state changes.
LEMMA CreateSafe ==
    ASSUME IInv, Create
    PROVE  SafetyInv'
<1>1. Types
  BY TypesOK DEF IInv
<1>2. UNCHANGED <<sock, reg, cfd, pc, ge, batch>>
  BY DEF Create, gevent_create_alloc, dataVars
<1>3. npc = "create" /\ cfd \in FDs /\ DispatchPoller(cfd) \in Pollers
  BY DispatchPollerType DEF Create, IInv, DispatchInv, Dispatching
<1>4. CASE npc' = "wait" /\ UNCHANGED <<alloc, ev, mem, nge>>
  BY <1>2, <1>3, <1>4 DEF IInv, SafetyInv, KernelPointersLive, ElistNotDangling,
    BatchStaysLive, OneOwner, DestroysItsOwn, DispatchInv, LinkInv, ElistInv,
    DestroyInv, Dispatching, Building, Destroying, Registered, Closed
<1>5. CASE npc' = "link" /\ \E g \in Events :
               gevent_create_alloc(cfd, DispatchPoller(cfd), g) /\ nge' = g
  <2> DEFINE p == DispatchPoller(cfd)
             g == nge'
  <2>1. g \in Events \ alloc /\ gevent_create_alloc(cfd, p, g)
    BY <1>5 DEF gevent_create_alloc
  <2>2. alloc' = alloc \cup {g}
    BY <2>1 DEF gevent_create_alloc
  <2>3. /\ ev'[g].efd = cfd /\ ev'[g].events = {} /\ ev'[g].gpoller = Null
        /\ \A h \in Events : h # g => ev'[h] = ev[h]
    BY <2>1 DEF gevent_create_alloc, NoEvent, IInv, TypeOK, PollerTypeOK
  <2>4. /\ mem'.next = [mem.next EXCEPT ![g] = g, ![p] = g]
        /\ mem'.prev = [mem.prev EXCEPT ![g] = p]
    <3> DEFINE m == INIT_LIST_HEAD(mem, g)
    <3>1. /\ m.next = [mem.next EXCEPT ![g] = g] /\ m.prev = [mem.prev EXCEPT ![g] = g]
          /\ m.next[g] = g
      BY <1>1, <2>1 DEF INIT_LIST_HEAD, IInv, TypeOK, PollerTypeOK
    <3>2. mem' = [m EXCEPT !.prev[g] = p, !.next[p] = g]
      BY <2>1, <3>1 DEF gevent_create_alloc, list_add_first_half
    <3>3. mem'.next = [m.next EXCEPT ![p] = g] /\ mem'.prev = [m.prev EXCEPT ![g] = p]
      BY <3>2 DEF INIT_LIST_HEAD, IInv, TypeOK, PollerTypeOK
    <3> QED
      BY <1>1, <1>3, <2>1, <3>1, <3>3 DEF Types
  <2>5. /\ mem'.prev[g] = p /\ mem'.next[p] = g
        /\ \A h \in Events : h # g => /\ mem'.next[h] = mem.next[h]
                                      /\ mem'.prev[h] = mem.prev[h]
        /\ \A q \in Pollers : mem'.prev[q] = mem.prev[q]
        /\ \A q \in Pollers : q # p => mem'.next[q] = mem.next[q]
    BY <1>1, <1>3, <2>1, <2>4, NetworkAssumption DEF Types
  <2>6. /\ \A f \in FDs : reg[f].ptr # g
        /\ \A q \in Pollers : g \notin batch[q]
        /\ \A q \in Pollers : Destroying(q) => ge[q] # g
        /\ \A q \in Pollers : mem.next[q] # g /\ mem.prev[q] # g
    BY <1>1, <2>1, NetworkAssumption DEF Types, IInv, KernelPointersLive,
      Registered, BatchStaysLive, DestroysItsOwn, ElistNotDangling
  <2> HIDE DEF p, g
  <2>7. KernelPointersLive'
    BY <1>1, <1>2, <2>2, <2>3, <2>6 DEF Types, IInv, KernelPointersLive, Registered,
      Closed
  <2>8. ElistNotDangling'
    BY <2>2, <2>5 DEF IInv, ElistNotDangling
  <2>9. BatchStaysLive'
    BY <1>2, <2>2 DEF IInv, BatchStaysLive
  <2>10. OneOwner'
    BY <1>2, <2>2, <2>6 DEF IInv, OneOwner, Building, Destroying, g
  <2>11. DestroysItsOwn'
    BY <1>2, <2>2 DEF IInv, DestroysItsOwn, Destroying
  <2>12. DispatchInv'
    BY <1>2, <1>3, <1>5, <2>2, <2>3, <2>5 DEF IInv, DispatchInv, Dispatching,
      Building, Registered, Closed, p, g
  <2>13. LinkInv'
    BY <1>1, <1>2, <2>5, <2>6 DEF Types, IInv, LinkInv, Registered
  <2>14. ElistInv'
    BY <1>2, <1>3, <1>5, <2>3, <2>5, <2>6 DEF IInv, ElistInv, p, g
  <2>15. DestroyInv'
    BY <1>2, <1>3, <2>3, <2>5, <2>6 DEF IInv, DestroyInv, Destroying
  <2> QED
    BY <2>7, <2>8, <2>9, <2>10, <2>11, <2>12, <2>13, <2>14, <2>15 DEF SafetyInv
<1> QED
  BY <1>4, <1>5 DEF Create

\* Static storage is zeroed and no thread has an event.
LEMMA InitIInv == Init => IInv
BY NetworkAssumption DEF Init, PollerInit, NoReg, NoEvent, IInv, TypeOK, PollerTypeOK,
  KernelPointersLive, ElistNotDangling, BatchStaysLive, OneOwner, DestroysItsOwn,
  DispatchInv, LinkInv, ElistInv, DestroyInv, Dispatching, Building, Destroying,
  Registered, Closed

\* The poller state is well typed after any step that leaves it alone.
LEMMA PollerTypeFrame ==
    ASSUME PollerTypeOK, UNCHANGED pollerVars
    PROVE  PollerTypeOK'
BY DEF PollerTypeOK, pollerVars

\* An epoll_ctl that names an event of a poller keeps the kernel's entries
\* well typed.
LEMMA EpollCtlType ==
    ASSUME PollerTypeOK, NEW op, NEW p \in Pollers, NEW f, NEW events \in SUBSET Flags,
           NEW g \in Events, NEW r, epoll_ctl(op, p, f, events, g, r)
    PROVE  /\ reg' \in [FDs -> [epfd : Pollers, events : SUBSET Flags, ptr : Events]
                              \cup {NoReg}]
           /\ fails' \in 0..MaxFail
<1>1. reg' = reg \/ reg' = [reg EXCEPT ![f] = [epfd |-> p, events |-> events, ptr |-> g]]
  BY DEF epoll_ctl
<1>2. fails' = fails \/ (fails < MaxFail /\ fails' = fails + 1)
  BY DEF epoll_ctl, Works, Breaks
<1>3. fails' \in 0..MaxFail
  BY <1>2, NetworkAssumption DEF PollerTypeOK
<1>4. reg' \in [FDs -> [epfd : Pollers, events : SUBSET Flags, ptr : Events]
                       \cup {NoReg}]
  <2>1. [epfd |-> p, events |-> events, ptr |-> g]
            \in [epfd : Pollers, events : SUBSET Flags, ptr : Events]
    OBVIOUS
  <2> QED
    BY <1>1, <2>1 DEF PollerTypeOK
<1> QED
  BY <1>3, <1>4

\* What the network thread does to the pollers keeps their state well typed.
LEMMA NetworkPollerType ==
    ASSUME IInv, NetworkThread
    PROVE  PollerTypeOK'
<1>1. Types /\ PollerTypeOK /\ fails \in 0..MaxFail
  BY TypesOK DEF IInv, TypeOK, PollerTypeOK
<1>2. Dispatching => cfd \in FDs /\ DispatchPoller(cfd) \in Pollers
  BY DispatchPollerType DEF IInv, DispatchInv
<1>3. Building => nge \in Events
  BY <1>1 DEF IInv, DispatchInv, Types
<1>4. ASSUME NEW c \in Conns, NEW f \in FDs, Accept(c, f)
      PROVE  PollerTypeOK'
  BY <1>1, <1>4 DEF PollerTypeOK, Accept
<1>5. CASE SetOptions
  <2>1. sock' \in [FDs -> Conns \cup {NoConn}]
    BY <1>1, <1>5 DEF PollerTypeOK, SetOptions, close
  <2>2. reg' \in [FDs -> [epfd : Pollers, events : SUBSET Flags, ptr : Events]
                         \cup {NoReg}]
    BY <1>1, <1>5 DEF PollerTypeOK, SetOptions, close
  <2>3. fails' \in 0..MaxFail
    BY <1>1, <1>5, NetworkAssumption DEF SetOptions, Works, Breaks
  <2> QED
    BY <1>1, <1>5, <2>1, <2>2, <2>3 DEF PollerTypeOK, SetOptions
<1>6. CASE Create
  <2>1. CASE Breaks /\ UNCHANGED <<sock, reg, epfd, alloc, ev, mem>>
    BY <1>1, <2>1, NetworkAssumption DEF PollerTypeOK, Breaks
  <2>2. ASSUME NEW g \in Events, gevent_create_alloc(cfd, DispatchPoller(cfd), g)
        PROVE  PollerTypeOK'
    <3>1. cfd \in FDs /\ DispatchPoller(cfd) \in Pollers
      BY <1>2, <1>6 DEF Create, Dispatching
    <3>2. alloc' \subseteq Events /\ UNCHANGED <<sock, reg, epfd, fails>>
      BY <1>1, <2>2 DEF gevent_create_alloc, Works, Types
    <3>3. ev' \in [Events -> [efd : FDs \cup {Null}, events : SUBSET Flags,
                              read : BOOLEAN, gpoller : Pollers \cup {Null}]]
      BY <1>1, <2>2, <3>1 DEF gevent_create_alloc, NoEvent, PollerTypeOK
    <3>4. LET Pointers == Pollers \cup Events \cup {Null, LIST_POISON1, LIST_POISON2}
          IN  mem' \in [next : [Pollers \cup Events -> Pointers],
                        prev : [Pollers \cup Events -> Pointers]]
      BY <1>1, <2>2, <3>1 DEF gevent_create_alloc, PollerTypeOK, INIT_LIST_HEAD,
        list_add_first_half
    <3> QED
      BY <1>1, <3>2, <3>3, <3>4 DEF PollerTypeOK
  <2> QED
    BY <1>6, <2>1, <2>2 DEF Create
<1>7. CASE Link
  <2>1. DispatchPoller(cfd) \in Pollers /\ nge \in Events
    BY <1>2, <1>3, <1>7 DEF Link, Dispatching, Building
  <2>2. ev' \in [Events -> [efd : FDs \cup {Null}, events : SUBSET Flags,
                            read : BOOLEAN, gpoller : Pollers \cup {Null}]]
    BY <1>1, <1>7, <2>1, SMTT(30) DEF Link, gevent_create_link, PollerTypeOK
  <2>3. LET Pointers == Pollers \cup Events \cup {Null, LIST_POISON1, LIST_POISON2}
        IN  mem' \in [next : [Pollers \cup Events -> Pointers],
                      prev : [Pollers \cup Events -> Pointers]]
    BY <1>1, <1>7, <2>1 DEF Link, gevent_create_link, PollerTypeOK, list_add_second_half
  <2> QED
    BY <1>1, <1>7, <2>2, <2>3 DEF PollerTypeOK, Link, gevent_create_link, Works
<1>8. CASE SetOps
  <2>1. nge \in Events
    BY <1>3, <1>8 DEF SetOps, Building
  <2>2. ev' \in [Events -> [efd : FDs \cup {Null}, events : SUBSET Flags,
                            read : BOOLEAN, gpoller : Pollers \cup {Null}]]
    BY <1>1, <1>8, <2>1, ZenonT(60) DEF SetOps, PollerTypeOK
  <2> QED
    BY <1>1, <1>8, <2>2 DEF PollerTypeOK, SetOps
<1>9. CASE Start
  <2>1. /\ nge \in Events /\ ev[nge].events = {} /\ ev[nge].gpoller \in Pollers
    BY <1>2, <1>3, <1>9 DEF Start, Dispatching, Building, IInv, DispatchInv
  <2>2. PICK r : gt_poller_event_start({"EPOLLIN"}, nge, r)
    BY <1>9 DEF Start
  <2>3. /\ ev' = [ev EXCEPT ![nge].events = @ \cup {"EPOLLIN"}]
        /\ epoll_ctl("ADD", ev[nge].gpoller, ev[nge].efd, {"EPOLLIN"}, nge, r)
    <3>1. ev[nge].events \cup {"EPOLLIN"} = {"EPOLLIN"}
      BY <2>1
    <3> QED
      BY <2>1, <2>2, <3>1 DEF gt_poller_event_start
  <2>4. ev' \in [Events -> [efd : FDs \cup {Null}, events : SUBSET Flags,
                            read : BOOLEAN, gpoller : Pollers \cup {Null}]]
    BY <1>1, <2>1, <2>3 DEF PollerTypeOK, Flags
  <2>5. {"EPOLLIN"} \in SUBSET Flags
    BY DEF Flags
  <2>6. /\ reg' \in [FDs -> [epfd : Pollers, events : SUBSET Flags, ptr : Events]
                            \cup {NoReg}]
        /\ fails' \in 0..MaxFail
    BY <1>1, <2>1, <2>3, <2>5, EpollCtlType
  <2> QED
    BY <1>1, <1>9, <2>4, <2>6 DEF PollerTypeOK, Start
<1> QED
  BY <1>4, <1>5, <1>6, <1>7, <1>8, <1>9 DEF NetworkThread

\* What a datanet thread does to the pollers keeps their state well typed.
LEMMA DatanetPollerType ==
    ASSUME IInv, NEW p \in Pollers, DatanetThread(p)
    PROVE  PollerTypeOK'
<1>1. Types /\ PollerTypeOK /\ fails \in 0..MaxFail
  BY TypesOK DEF IInv, TypeOK, PollerTypeOK
<1>2. CASE InitEpfd(p)
  <2>1. fails' \in 0..MaxFail
    BY <1>1, <1>2, NetworkAssumption DEF InitEpfd, poller_init_epfd, Works, Breaks
  <2> QED
    BY <1>1, <1>2, <2>1 DEF PollerTypeOK, InitEpfd, poller_init_epfd
<1>3. CASE InitElist(p)
  <2>1. fails' \in 0..MaxFail
    BY <1>1, <1>3, NetworkAssumption DEF InitElist, poller_init_elist, Works, Breaks
  <2>2. LET Pointers == Pollers \cup Events \cup {Null, LIST_POISON1, LIST_POISON2}
        IN  mem' \in [next : [Pollers \cup Events -> Pointers],
                      prev : [Pollers \cup Events -> Pointers]]
    <3>1. CASE mem' = mem
      BY <1>1, <3>1 DEF PollerTypeOK
    <3>2. CASE mem' = INIT_LIST_HEAD(mem, p)
      BY <1>1, <3>2 DEF PollerTypeOK, INIT_LIST_HEAD
    <3> QED
      BY <1>3, <3>1, <3>2 DEF InitElist, poller_init_elist
  <2> QED
    BY <1>1, <1>3, <2>1, <2>2 DEF PollerTypeOK, InitElist, poller_init_elist
<1>4. CASE EpollWait(p) \/ (\E g \in Events : Read(p, g)) \/ Report(p)
  BY <1>1, <1>4, PollerTypeFrame DEF EpollWait, Read, Report
<1>5. CASE Stop(p)
  <2>1. ge[p] \in Events /\ ev[ge[p]].gpoller = p
    BY <1>5, DestroyedEvent DEF Stop, Goto, Destroying
  <2>2. ev[ge[p]].events \in SUBSET Flags
    BY <1>1, <2>1 DEF PollerTypeOK
  <2>3. PICK r : gt_poller_event_stop({"EPOLLIN"}, ge[p], r)
    BY <1>5 DEF Stop
  <2>4. CASE UNCHANGED <<ev, reg, fails>>
    BY <1>1, <1>5, <2>4 DEF PollerTypeOK, Stop
  <2>5. CASE /\ ev' = [ev EXCEPT ![ge[p]].events = @ \ {"EPOLLIN"}]
             /\ epoll_ctl("MOD", p, ev[ge[p]].efd, ev[ge[p]].events \ {"EPOLLIN"}, ge[p], r)
    <3>1. ev' \in [Events -> [efd : FDs \cup {Null}, events : SUBSET Flags,
                              read : BOOLEAN, gpoller : Pollers \cup {Null}]]
      BY <1>1, <2>1, <2>5, SMTT(30) DEF PollerTypeOK
    <3>2. /\ reg' \in [FDs -> [epfd : Pollers, events : SUBSET Flags, ptr : Events]
                              \cup {NoReg}]
          /\ fails' \in 0..MaxFail
      <4>1. ev[ge[p]].events \ {"EPOLLIN"} \in SUBSET Flags
        BY <2>2
      <4> QED
        BY <1>1, <2>1, <2>5, <4>1, EpollCtlType
    <3> QED
      BY <1>1, <1>5, <3>1, <3>2 DEF PollerTypeOK, Stop
  <2> QED
    BY <2>1, <2>3, <2>4, <2>5 DEF gt_poller_event_stop, Works
<1>6. CASE Unlink(p) \/ Unlinked(p)
  <2>1. ge[p] \in Events /\ mem.next[ge[p]] = p /\ mem.prev[ge[p]] = p
    BY <1>6, DestroyedEvent DEF Unlink, Unlinked, Goto, Destroying
  <2>2. LET Pointers == Pollers \cup Events \cup {Null, LIST_POISON1, LIST_POISON2}
        IN  mem' \in [next : [Pollers \cup Events -> Pointers],
                      prev : [Pollers \cup Events -> Pointers]]
    <3>1. CASE Unlink(p)
      BY <1>1, <2>1, <3>1 DEF PollerTypeOK, Unlink, gevent_destroy_unlink,
        list_del_first_half
    <3>2. CASE Unlinked(p)
      BY <1>1, <2>1, <3>2 DEF PollerTypeOK, Unlinked, gevent_destroy_unlinked,
        list_del_second_half, Poison
    <3> QED
      BY <1>6, <3>1, <3>2
  <2> QED
    BY <1>1, <1>6, <2>2 DEF PollerTypeOK, Unlink, Unlinked, gevent_destroy_unlink,
      gevent_destroy_unlinked
<1>7. CASE CloseFd(p)
  BY <1>1, <1>7 DEF PollerTypeOK, CloseFd, gevent_destroy_close, close
<1>8. CASE Free(p)
  BY <1>1, <1>8 DEF PollerTypeOK, Free, gevent_destroy_free
<1> QED
  BY <1>2, <1>3, <1>4, <1>5, <1>6, <1>7, <1>8 DEF DatanetThread

\* The clients and the network thread keep their own state well typed.
LEMMA NetworkType ==
    ASSUME IInv, NetworkThread \/ \E c \in Conns : Connect(c) \/ Send(c) \/ Shutdown(c) \/ Reset(c)
    PROVE  TypeOK'
<1>1. TypeOK /\ PollerTypeOK
  BY DEF IInv, TypeOK
<1>2. CASE NetworkThread
  <2>1. PollerTypeOK'
    BY <1>2, NetworkPollerType
  <2>2. UNCHANGED <<pc, ge, batch, ret, errno, spurious, peer, unread>>
    BY <1>2 DEF NetworkThread, Accept, SetOptions, Create, Link, SetOps, Start, dataVars,
      connVars
  <2>3. /\ npc' \in {"wait", "setsockopt", "create", "link", "ops", "start"}
        /\ cfd' \in FDs \cup {Null} /\ nge' \in Events \cup {Null}
    BY <1>1, <1>2 DEF TypeOK, NetworkThread, Accept, SetOptions, Create, Link, SetOps,
      Start
  <2>4. conn' \in [Conns -> {"idle", "backlog", "open", "closed"}]
    BY <1>1, <1>2 DEF TypeOK, NetworkThread, Accept, SetOptions, Create, Link, SetOps,
      Start, connVars
  <2> QED
    BY <1>1, <2>1, <2>2, <2>3, <2>4 DEF TypeOK
<1>3. ASSUME NEW c \in Conns, Connect(c) \/ Send(c) \/ Shutdown(c) \/ Reset(c)
      PROVE  TypeOK'
  <2>1. UNCHANGED <<pollerVars, npc, cfd, nge, pc, ge, batch, ret, errno, spurious>>
    BY <1>3 DEF Connect, Send, Shutdown, Reset, netVars, dataVars
  <2>2. PollerTypeOK'
    BY <1>1, <2>1, PollerTypeFrame
  <2>3. /\ conn' \in [Conns -> {"idle", "backlog", "open", "closed"}]
        /\ peer' \in [Conns -> {"up", "fin", "rst"}]
    BY <1>1, <1>3 DEF TypeOK, Connect, Send, Shutdown, Reset
  <2>4. unread' \in [Conns -> 0..MaxData]
    BY <1>1, <1>3, NetworkAssumption DEF TypeOK, Connect, Send, Shutdown, Reset
  <2> QED
    BY <1>1, <2>1, <2>2, <2>3, <2>4 DEF TypeOK
<1> QED
  BY <1>2, <1>3

\* A datanet thread keeps its own state well typed.
LEMMA DatanetType ==
    ASSUME IInv, NEW p \in Pollers, DatanetThread(p) \/ Interrupted(p)
    PROVE  TypeOK'
<1>1. TypeOK /\ PollerTypeOK
  BY DEF IInv, TypeOK
<1>2. CASE Interrupted(p)
  <2>1. PollerTypeOK'
    BY <1>1, <1>2, PollerTypeFrame DEF Interrupted
  <2> QED
    BY <1>1, <1>2, <2>1 DEF TypeOK, Interrupted, netVars, connVars
<1>3. CASE DatanetThread(p)
  <2>1. PollerTypeOK'
    BY <1>3, DatanetPollerType
  <2>2. CASE EpollWait(p)
    <3>1. spurious' \in 0..MaxSpurious
      BY <1>1, <2>2, NetworkAssumption DEF TypeOK, EpollWait
    <3>2. batch' \in [Pollers -> SUBSET Events]
      <4>1. Types
        BY <1>1, TypesOK
      <4>2. \A f \in FDs : reg[f].epfd = p => reg[f].ptr \in Events
        BY <4>1, NetworkAssumption DEF Types
      <4>3. PICK early \in SUBSET (Watched(p) \ Ready(p)) :
              batch' = [batch EXCEPT ![p] = {reg[f].ptr : f \in early \cup Ready(p)}]
        BY <2>2 DEF EpollWait
      <4>4. {reg[f].ptr : f \in early \cup Ready(p)} \in SUBSET Events
        BY <4>2 DEF Watched, Ready
      <4> QED
        BY <1>1, <4>3, <4>4 DEF TypeOK
    <3> QED
      BY <1>1, <2>1, <2>2, <3>1, <3>2 DEF TypeOK, EpollWait, Goto, netVars, connVars
  <2>3. ASSUME NEW g \in Events, Read(p, g)
        PROVE  TypeOK'
    <3>1. /\ batch' \in [Pollers -> SUBSET Events] /\ ge' \in [Pollers -> Events \cup {Null}]
          /\ ret' \in [Pollers -> {-1, 0, 1}] /\ errno' \in [Pollers -> {"EAGAIN", "other"}]
      <4>1. /\ batch' = [batch EXCEPT ![p] = batch[p] \ {g}]
            /\ ge' = [ge EXCEPT ![p] = g]
        BY <2>3, ZenonT(30) DEF Read, RestOfBatch
      <4>2. PICK r \in {-1, 0, 1} : ret' = [ret EXCEPT ![p] = r]
        BY <2>3 DEF Read
      <4>3. PICK e \in {"EAGAIN", "other", errno[p]} : errno' = [errno EXCEPT ![p] = e]
        BY <2>3 DEF Read
      <4>4. batch' \in [Pollers -> SUBSET Events] /\ ge' \in [Pollers -> Events \cup {Null}]
        BY <1>1, <2>3, <4>1 DEF TypeOK
      <4>5. ret' \in [Pollers -> {-1, 0, 1}]
        BY <1>1, <4>2 DEF TypeOK
      <4>6. errno' \in [Pollers -> {"EAGAIN", "other"}]
        BY <1>1, <4>3 DEF TypeOK
      <4> QED
        BY <4>4, <4>5, <4>6
    <3>2. pc' \in [Pollers -> {"epoll_create", "elist", "wait", "next", "stop", "unlink",
                               "unlinked", "close", "free", "report", "exited"}]
      <4>1. PICK to \in {"stop", "next", "wait"} : pc' = [pc EXCEPT ![p] = to]
        BY <2>3 DEF Read, Goto, AfterHandler
      <4> QED
        BY <1>1, <4>1 DEF TypeOK
    <3>3. unread' \in [Conns -> 0..MaxData]
      <4>1. PICK c : \/ unread' = unread
                     \/ unread[c] > 0 /\ unread' = [unread EXCEPT ![c] = @ - 1]
        BY <2>3 DEF Read
      <4>2. \A d \in Conns : unread[d] \in 0..MaxData
        BY <1>1 DEF TypeOK
      <4>3. \A d \in Conns : unread'[d] = unread[d]
                              \/ (unread[d] > 0 /\ unread'[d] = unread[d] - 1)
        BY <1>1, <4>1 DEF TypeOK
      <4>4. \A d \in Conns : unread'[d] \in 0..MaxData
        BY <4>2, <4>3, NetworkAssumption, SMTT(30)
      <4>5. unread' = [d \in Conns |-> unread'[d]]
        BY <1>1, <4>1 DEF TypeOK
      <4> QED
        BY <4>4, <4>5, ZenonT(40)
    <3>4. UNCHANGED <<npc, cfd, nge, spurious, conn, peer>>
      BY <2>3 DEF Read, netVars
    <3> QED
      BY <1>1, <2>1, <3>1, <3>2, <3>3, <3>4, SMTT(40) DEF TypeOK
  <2>4. CASE \/ InitEpfd(p) \/ InitElist(p) \/ Stop(p) \/ Unlink(p) \/ Unlinked(p)
             \/ CloseFd(p) \/ Free(p) \/ Report(p)
    <3>1. UNCHANGED <<npc, cfd, nge, ge, batch, ret, errno, spurious, peer, unread>>
      BY <2>4 DEF InitEpfd, InitElist, Stop, Unlink, Unlinked, CloseFd, Free, Report,
        netVars, connVars
    <3>2. pc' \in [Pollers -> {"epoll_create", "elist", "wait", "next", "stop", "unlink",
                               "unlinked", "close", "free", "report", "exited"}]
      BY <1>1, <2>4 DEF TypeOK, InitEpfd, InitElist, Stop, Unlink, Unlinked, CloseFd,
        Free, Report, Goto, AfterHandler
    <3>3. conn' \in [Conns -> {"idle", "backlog", "open", "closed"}]
      BY <1>1, <2>4 DEF TypeOK, InitEpfd, InitElist, Stop, Unlink, Unlinked, CloseFd,
        Free, Report, connVars
    <3> QED
      BY <1>1, <2>1, <3>1, <3>2, <3>3 DEF TypeOK
  <2> QED
    BY <1>3, <2>2, <2>3, <2>4 DEF DatanetThread
<1> QED
  BY <1>2, <1>3

\* Every step of every thread, client and signal preserves the invariant.
LEMMA StepIInv ==
    ASSUME IInv, [Next]_vars
    PROVE  IInv'
<1>1. CASE Next
  <2>1. TypeOK'
    BY <1>1, NetworkType, DatanetType DEF Next
  <2>2. SafetyInv'
    BY <1>1, QuietSafe, AcceptSafe, SetOptionsSafe, CreateSafe, LinkSafe, SetOpsSafe,
      StartSafe, InitElistSafe, EpollWaitSafe, ReadSafe,
      StopSafe, UnlinkSafe, UnlinkedSafe, CloseFdSafe, FreeSafe
      DEF Next, NetworkThread, DatanetThread
  <2> QED
    BY <2>1, <2>2 DEF IInv, SafetyInv
<1>2. CASE UNCHANGED vars
  <2>1. PollerTypeOK'
    BY <1>2, PollerTypeFrame DEF IInv, TypeOK, vars
  <2>2. TypeOK'
    BY <1>2, <2>1 DEF IInv, TypeOK, vars, netVars, dataVars, connVars
  <2>3. SafetyInv'
    BY <1>2, QuietStep DEF vars, pollerVars, netVars, dataVars
  <2> QED
    BY <2>2, <2>3 DEF IInv, SafetyInv
<1> QED
  BY <1>1, <1>2

-----------------------------------------------------------------------------
\* The inductive invariant holds in every reachable state.
THEOREM NetworkInvariant == SafeSpec => []IInv
<1>1. Init => IInv
  BY InitIInv
<1>2. IInv /\ [Next]_vars => IInv'
  BY StepIInv
<1> QED
  BY <1>1, <1>2, PTL DEF SafeSpec

\* The state of the network engine is always well typed.
THEOREM NetworkTypeOK == SafeSpec => []TypeOK
<1>1. IInv => TypeOK
  BY DEF IInv
<1> QED
  BY <1>1, NetworkInvariant, PTL

\* Whatever pointer epoll_wait returns is a live event of an open descriptor
\* of that poller, with its read handler set (gt_poller.c:154-157).
THEOREM NetworkKernelPointersLive == SafeSpec => []KernelPointersLive
<1>1. IInv => KernelPointersLive
  BY DEF IInv
<1> QED
  BY <1>1, NetworkInvariant, PTL

\* No elist points at freed memory, although two threads write it without a
\* lock (gt_poller.c:92 and 102).
THEOREM NetworkElistNotDangling == SafeSpec => []ElistNotDangling
<1>1. IInv => ElistNotDangling
  BY DEF IInv
<1> QED
  BY <1>1, NetworkInvariant, PTL

\* The pointers of a batch stay good while earlier entries of the batch are
\* closed and freed (gt_poller.c:152-167).
THEOREM NetworkBatchStaysLive == SafeSpec => []BatchStaysLive
<1>1. IInv => BatchStaysLive
  BY DEF IInv
<1> QED
  BY <1>1, NetworkInvariant, PTL

\* An event is built, watched and destroyed by one party at a time.
THEOREM NetworkOneOwner == SafeSpec => []OneOwner
<1>1. IInv => OneOwner
  BY DEF IInv
<1> QED
  BY <1>1, NetworkInvariant, PTL

\* A thread destroys an event of its own poller that the kernel still has for
\* the descriptor, once (gt_poller.c:98-107).
THEOREM NetworkDestroysItsOwn == SafeSpec => []DestroysItsOwn
<1>1. IInv => DestroysItsOwn
  BY DEF IInv
<1> QED
  BY <1>1, NetworkInvariant, PTL
==============================================================================
