------------------------- MODULE GtPollerApiProofs -------------------------
(***************************************************************************)
(* gt_poller.c keeps its promise to a program that heeds its results: the  *)
(* functions under any sequence of calls implement GtWatch, for any number *)
(* of descriptors, events and failing calls.                               *)
(*                                                                         *)
(* The inductive invariant says how three records of the same thing agree: *)
(* the event's own flags, the kernel's entry and the descriptor table.     *)
(***************************************************************************)
EXTENDS GtPollerApi, TLAPS

\* A poller that is in use has an epoll set, one that was never initialised
\* or was cleaned has none.
ReadyInv == /\ pstate = "ready" => epfd[gpoller]
            /\ pstate = "zero" => ~epfd[gpoller]

\* The kernel's entry for a descriptor is that of the event which owns the
\* descriptor, in the poller's epoll set.
EntryInv ==
    \A f \in FDs : Registered(f) =>
        /\ reg[f].ptr \in alloc
        /\ ev[reg[f].ptr].efd = f
        /\ reg[f].epfd = gpoller
        /\ epfd[gpoller]

\* An event has an open descriptor of its own.
OwnerInv ==
    \A g \in alloc : /\ ~Closed(ev[g].efd)
                     /\ \A h \in alloc : ev[h].efd = ev[g].efd => h = g

\* What an event has noted is what the kernel watches its descriptor for, as
\* long as no call for it returned an error.
FlagsInv ==
    \A g \in alloc \ broken :
        /\ reg[ev[g].efd].events = ev[g].events
        /\ ev[g].events # {} => Registered(ev[g].efd)

\* Each event is linked between the poller and the poller, whatever else was
\* created: gt_poller_gevent_create gives list_add the poller as the entry.
\* The poller's own pointer is the last event, or itself.
ElistInv ==
    /\ \A g \in alloc : mem.next[g] = gpoller /\ mem.prev[g] = gpoller
    /\ mem.next[gpoller] \in alloc \cup {gpoller, Null}
    /\ pstate = "ready" => mem.next[gpoller] # Null

IInv == TypeOK /\ ReadyInv /\ EntryInv /\ OwnerInv /\ FlagsInv /\ ElistInv

-----------------------------------------------------------------------------
Nodes == Pollers \cup Events
Pointers == Pollers \cup Events \cup {Null, LIST_POISON1, LIST_POISON2}

\* The memory the list operations work on.
Memory == [next : [Nodes -> Pointers], prev : [Nodes -> Pointers]]

\* What INIT_LIST_HEAD leaves in memory.
LEMMA HeadIs ==
    ASSUME NEW m \in Memory, NEW n \in Nodes
    PROVE  /\ INIT_LIST_HEAD(m, n) \in Memory
           /\ INIT_LIST_HEAD(m, n).next = [m.next EXCEPT ![n] = n]
           /\ INIT_LIST_HEAD(m, n).prev = [m.prev EXCEPT ![n] = n]
  BY DEF Memory, INIT_LIST_HEAD, Nodes, Pointers

\* What list_del leaves in memory: its neighbours point at each other.
LEMMA DelIs ==
    ASSUME NEW m \in Memory, NEW n \in Nodes, NEW a \in Nodes, NEW b \in Nodes,
           m.prev[n] = a, m.next[n] = b
    PROVE  /\ list_del(m, n) \in Memory
           /\ list_del(m, n).next = [m.next EXCEPT ![a] = b, ![n] = LIST_POISON1]
           /\ list_del(m, n).prev = [m.prev EXCEPT ![b] = a, ![n] = LIST_POISON2]
  BY DEF Memory, list_del, Poison, __list_del, list_del_first_half, list_del_second_half,
     Nodes, Pointers

\* The memory of a well typed poller.
LEMMA MemType == PollerTypeOK => mem \in Memory
  BY DEF PollerTypeOK, Memory, Nodes, Pointers

\* The elist after gt_poller_gevent_create: the poller is the entry that is
\* added, behind the new event.
LEMMA CreatedElist ==
    ASSUME mem \in Memory, NEW g \in Events,
           mem' = list_add(INIT_LIST_HEAD(mem, g), gpoller, g)
    PROVE  /\ mem' \in Memory
           /\ mem'.next = [mem.next EXCEPT ![gpoller] = g, ![g] = gpoller]
           /\ mem'.prev = [mem.prev EXCEPT ![gpoller] = g, ![g] = gpoller]
<1>1. /\ gpoller \in Nodes /\ g \in Nodes /\ g # gpoller
  BY PollerApiAssumption DEF Nodes
<1>2. PICK m : m = INIT_LIST_HEAD(mem, g)
  OBVIOUS
<1>3. /\ m \in Memory
      /\ m.next = [mem.next EXCEPT ![g] = g]
      /\ m.prev = [mem.prev EXCEPT ![g] = g]
  BY <1>1, <1>2, HeadIs
<1>4. m.next[g] = g
  BY <1>1, <1>3 DEF Memory
<1>5. mem' = __list_add(m, gpoller, g, g)
  BY <1>2, <1>4 DEF list_add
<1>6. /\ mem' \in Memory
      /\ mem'.next = [m.next EXCEPT ![gpoller] = g, ![g] = gpoller]
      /\ mem'.prev = [m.prev EXCEPT ![g] = gpoller, ![gpoller] = g]
  <2>1. /\ __list_add(m, gpoller, g, g) \in Memory
        /\ __list_add(m, gpoller, g, g).next = [m.next EXCEPT ![gpoller] = g, ![g] = gpoller]
        /\ __list_add(m, gpoller, g, g).prev = [m.prev EXCEPT ![g] = gpoller, ![gpoller] = g]
    BY <1>1, <1>3 DEF Memory, __list_add, list_add_first_half, list_add_second_half,
       Nodes, Pointers
  <2> QED
    BY <1>5, <2>1, Zenon
<1>7. mem.next \in [Nodes -> Pointers] /\ mem.prev \in [Nodes -> Pointers]
  BY DEF Memory
<1>8. mem'.next = [mem.next EXCEPT ![gpoller] = g, ![g] = gpoller]
  BY <1>1, <1>3, <1>6, <1>7
<1>9. mem'.prev = [mem.prev EXCEPT ![gpoller] = g, ![g] = gpoller]
  BY <1>1, <1>3, <1>6, <1>7
<1> QED
  BY <1>6, <1>8, <1>9

\* The elist after gt_poller_gevent_destroy: the poller is alone, whatever
\* other events there are.
LEMMA DestroyedElist ==
    ASSUME mem \in Memory, NEW g \in Events,
           mem.next[g] = gpoller, mem.prev[g] = gpoller,
           mem' = list_del(mem, g)
    PROVE  /\ mem' \in Memory
           /\ mem'.next = [mem.next EXCEPT ![gpoller] = gpoller, ![g] = LIST_POISON1]
           /\ mem'.prev = [mem.prev EXCEPT ![gpoller] = gpoller, ![g] = LIST_POISON2]
<1>1. gpoller \in Nodes /\ g \in Nodes
  BY PollerApiAssumption DEF Nodes
<1> QED
  BY <1>1, DelIs

\* A closed descriptor is in no epoll set and belongs to no event.
LEMMA ClosedIsFree ==
    ASSUME IInv, NEW f \in FDs, Closed(f)
    PROVE  /\ ~Registered(f) /\ reg[f] = NoReg
           /\ \A g \in alloc : ev[g].efd # f
<1>1. \A g \in alloc : ev[g].efd # f
  BY DEF IInv, OwnerInv
<1>2. ~Registered(f)
  BY <1>1 DEF IInv, EntryInv
<1>3. \A r \in [epfd : Pollers, events : SUBSET Flags, ptr : Events] : r.ptr # Null
  BY PollerApiAssumption
<1>4. reg[f] \in [epfd : Pollers, events : SUBSET Flags, ptr : Events] \cup {NoReg}
  BY DEF IInv, TypeOK, PollerTypeOK
<1> QED
  BY <1>1, <1>2, <1>3, <1>4 DEF Registered

\* What the program is told is one of the reports.
LEMMA Reported ==
    ASSUME NEW g \in Events \cup {Null}, NEW flags \in SUBSET Flags, NEW ret \in {GT_OK, GT_ERROR}
    PROVE  \A op \in {"none", "init", "clean", "create", "destroy", "start", "stop", "handler"} :
               Report(op, g, flags, ret) \in Reports
  BY DEF Report, Reports

-----------------------------------------------------------------------------
\* The invariant holds before the first call.
LEMMA InitIInv == Init => IInv
<1> SUFFICES ASSUME Init
             PROVE  IInv
  OBVIOUS
<1> USE PollerApiAssumption
<1>1. PollerTypeOK
  BY DEF Init, PollerInit, PollerTypeOK, NoReg, NoEvent
<1>2. TypeOK
  BY <1>1, Reported DEF Init, PollerInit, TypeOK
<1>3. ReadyInv /\ EntryInv /\ OwnerInv /\ FlagsInv
  BY DEF Init, PollerInit, ReadyInv, EntryInv, OwnerInv, FlagsInv, Registered, NoReg
<1>4. ElistInv
  BY DEF Init, PollerInit, ElistInv
<1> QED
  BY <1>2, <1>3, <1>4 DEF IInv

\* gt_poller_init finds no entry in the kernel and makes the elist empty.
LEMMA InitPollerIInv ==
    ASSUME IInv, gt_poller_init
    PROVE  IInv'
<1> USE PollerApiAssumption
<1>1. UNCHANGED <<sock, reg, alloc, ev, broken, warned>>
  BY DEF gt_poller_init
<1>0. told' \in Reports
  BY Reported DEF gt_poller_init
<1>2. /\ epfd' \in [Pollers -> BOOLEAN]
      /\ epfd[gpoller] => epfd'[gpoller]
  <2>1. epfd \in [Pollers -> BOOLEAN]
    BY DEF IInv, TypeOK, PollerTypeOK
  <2>2. CASE epfd' = [epfd EXCEPT ![gpoller] = TRUE]
    BY <2>1, <2>2
  <2> QED
    BY <2>1, <2>2 DEF gt_poller_init
<1>3. /\ mem' = mem \/ mem' = INIT_LIST_HEAD(mem, gpoller)
      /\ pstate' = "ready" => epfd'[gpoller] /\ mem' = INIT_LIST_HEAD(mem, gpoller)
      /\ pstate' \in {"ready", "failed"}
  BY DEF gt_poller_init, IInv, TypeOK, PollerTypeOK
<1>4. /\ mem' \in Memory
      /\ \A g \in alloc : mem'.next[g] = mem.next[g] /\ mem'.prev[g] = mem.prev[g]
      /\ mem'.next[gpoller] \in {gpoller, mem.next[gpoller]}
      /\ mem' = INIT_LIST_HEAD(mem, gpoller) => mem'.next[gpoller] = gpoller
  <2>1. mem \in Memory /\ alloc \subseteq Events /\ gpoller \in Nodes
    BY MemType DEF IInv, TypeOK, PollerTypeOK, Nodes
  <2>2. CASE mem' = INIT_LIST_HEAD(mem, gpoller)
    <3>1. /\ mem' \in Memory
          /\ mem'.next = [mem.next EXCEPT ![gpoller] = gpoller]
          /\ mem'.prev = [mem.prev EXCEPT ![gpoller] = gpoller]
      BY <2>1, <2>2, HeadIs
    <3>2. mem.next \in [Nodes -> Pointers] /\ mem.prev \in [Nodes -> Pointers]
      BY <2>1 DEF Memory
    <3> QED
      BY <2>1, <3>1, <3>2 DEF Nodes
  <2>3. CASE mem' = mem /\ mem' # INIT_LIST_HEAD(mem, gpoller)
    BY <2>1, <2>3
  <2> QED
    BY <1>3, <2>2, <2>3
<1>5. fails' \in 0..MaxFail
  BY DEF gt_poller_init, IInv, TypeOK, PollerTypeOK, Works, Breaks
<1>6. TypeOK'
  <2>1. PollerTypeOK'
    BY <1>1, <1>2, <1>4, <1>5 DEF IInv, TypeOK, PollerTypeOK, Memory, Nodes, Pointers
  <2> QED
    BY <1>0, <1>1, <1>3, <2>1 DEF IInv, TypeOK
<1>7. ReadyInv' /\ EntryInv' /\ OwnerInv' /\ FlagsInv'
  BY <1>1, <1>2, <1>3 DEF IInv, ReadyInv, EntryInv, OwnerInv, FlagsInv, Registered, Closed
<1>8. ElistInv'
  BY <1>1, <1>3, <1>4 DEF IInv, ElistInv
<1> QED
  BY <1>6, <1>7, <1>8 DEF IInv

\* gt_poller_clean ends all entries, and all events that are left are broken.
LEMMA CleanIInv ==
    ASSUME IInv, gt_poller_clean
    PROVE  IInv'
<1> USE PollerApiAssumption
<1>0. told' \in Reports
  BY Reported DEF gt_poller_clean
<1>1. /\ UNCHANGED <<sock, alloc, ev, mem, fails>>
      /\ reg' = [f \in FDs |-> NoReg]
      /\ epfd' = [epfd EXCEPT ![gpoller] = FALSE]
      /\ pstate' = "zero" /\ broken' = alloc /\ warned' \in BOOLEAN
  BY DEF gt_poller_clean
<1>2. TypeOK'
  <2>1. PollerTypeOK'
    BY <1>1 DEF IInv, TypeOK, PollerTypeOK
  <2> QED
    BY <1>0, <1>1, <2>1 DEF IInv, TypeOK
<1>3. ReadyInv'
  BY <1>1 DEF IInv, TypeOK, PollerTypeOK, ReadyInv
<1>4. EntryInv' /\ OwnerInv' /\ FlagsInv'
  BY <1>1 DEF IInv, EntryInv, OwnerInv, FlagsInv, Registered, Closed, NoReg
<1>5. ElistInv'
  BY <1>1 DEF IInv, ElistInv
<1> QED
  BY <1>2, <1>3, <1>4, <1>5 DEF IInv

\* A new event has a descriptor that was closed, so no other event's and in no
\* epoll set.
LEMMA CreateIInv ==
    ASSUME IInv, NEW f \in FDs, NEW g \in Events, gt_poller_gevent_create(f, g)
    PROVE  IInv'
<1> USE PollerApiAssumption
<1>1. /\ Closed(f) /\ g \notin alloc
      /\ UNCHANGED <<reg, epfd, pstate, broken, warned>>
  BY DEF gt_poller_gevent_create
<1>0. told' \in Reports
  BY Reported DEF gt_poller_gevent_create
<1>2. CASE Breaks /\ UNCHANGED <<sock, alloc, ev, mem>>
  <2>1. fails' \in 0..MaxFail
    BY <1>2 DEF IInv, TypeOK, PollerTypeOK, Breaks
  <2>2. TypeOK'
    BY <1>0, <1>1, <1>2, <2>1 DEF IInv, TypeOK, PollerTypeOK
  <2>3. ReadyInv' /\ EntryInv' /\ OwnerInv' /\ FlagsInv' /\ ElistInv'
    BY <1>1, <1>2 DEF IInv, ReadyInv, EntryInv, OwnerInv, FlagsInv, ElistInv, Registered, Closed
  <2> QED
    BY <2>2, <2>3 DEF IInv
<1>3. CASE /\ \E c \in Conns : sock' = [sock EXCEPT ![f] = c]
           /\ alloc' = alloc \cup {g}
           /\ ev' = [ev EXCEPT ![g] = NewEvent(f, g)]
           /\ mem' = list_add(INIT_LIST_HEAD(mem, g), gpoller, g)
           /\ Works
  <2>1. PICK c \in Conns : sock' = [sock EXCEPT ![f] = c]
    BY <1>3
  <2>2. /\ PollerTypeOK /\ alloc \subseteq Events /\ broken \subseteq alloc
        /\ sock \in [FDs -> Conns \cup {NoConn}]
        /\ ev \in [Events -> [efd : FDs \cup {Null}, events : SUBSET Flags,
                              read : BOOLEAN, gpoller : Pollers \cup {Null}]]
        /\ \A h \in alloc : ev[h].efd \in FDs
    BY DEF IInv, TypeOK, PollerTypeOK
  <2>3. /\ NewEvent(f, g) \in [efd : FDs \cup {Null}, events : SUBSET Flags,
                               read : BOOLEAN, gpoller : Pollers \cup {Null}]
        /\ NewEvent(f, g).efd = f /\ NewEvent(f, g).events = {}
        /\ NewEvent(f, g).gpoller = gpoller
    BY DEF NewEvent, NoEvent
  <2>4. /\ ev'[g].efd = f /\ ev'[g].events = {} /\ ev'[g].gpoller = gpoller
        /\ \A h \in alloc : ev'[h] = ev[h] /\ h # g /\ ev[h].efd # f
    BY <1>1, <1>3, <2>2, <2>3, ClosedIsFree
  <2>5. /\ sock'[f] # NoConn
        /\ \A h \in FDs : h # f => sock'[h] = sock[h]
    BY <2>1, <2>2
  <2>6. /\ mem' \in Memory
        /\ mem'.next[g] = gpoller /\ mem'.prev[g] = gpoller
        /\ mem'.next[gpoller] = g
        /\ \A h \in alloc : mem'.next[h] = mem.next[h] /\ mem'.prev[h] = mem.prev[h]
    <3>1. mem \in Memory
      BY <2>2, MemType
    <3>2. /\ mem' \in Memory
          /\ mem'.next = [mem.next EXCEPT ![gpoller] = g, ![g] = gpoller]
          /\ mem'.prev = [mem.prev EXCEPT ![gpoller] = g, ![g] = gpoller]
      BY <1>3, <3>1, CreatedElist
    <3>3. mem.next \in [Nodes -> Pointers] /\ mem.prev \in [Nodes -> Pointers]
      BY <3>1 DEF Memory
    <3>4. \A h \in alloc : h # g /\ h # gpoller /\ h \in Nodes
      BY <1>1, <2>2 DEF Nodes
    <3>5. g # gpoller /\ g \in Nodes /\ gpoller \in Nodes
      BY DEF Nodes
    <3> QED
      BY <3>2, <3>3, <3>4, <3>5
  <2>7. TypeOK'
    <3>1. /\ sock' \in [FDs -> Conns \cup {NoConn}]
          /\ ev' \in [Events -> [efd : FDs \cup {Null}, events : SUBSET Flags,
                                 read : BOOLEAN, gpoller : Pollers \cup {Null}]]
      BY <1>3, <2>1, <2>2, <2>3
    <3>2. alloc' \in SUBSET Events /\ fails' = fails
      BY <1>3, <2>2 DEF Works
    <3>3. PollerTypeOK'
      BY <1>1, <2>2, <2>6, <3>1, <3>2 DEF PollerTypeOK, Memory, Nodes, Pointers
    <3>4. \A h \in alloc' : ev'[h].efd \in FDs /\ ev'[h].gpoller = gpoller
      BY <1>3, <2>4 DEF IInv, TypeOK
    <3> QED
      BY <1>0, <1>1, <1>3, <3>3, <3>4 DEF IInv, TypeOK
  <2>8. ReadyInv'
    BY <1>1 DEF IInv, ReadyInv
  <2>9. EntryInv'
    BY <1>1, <1>3, <2>4 DEF IInv, EntryInv, Registered
  <2>10. OwnerInv'
    BY <1>3, <2>2, <2>4, <2>5 DEF IInv, OwnerInv, Closed
  <2>11. FlagsInv'
    <3>1. reg[f].events = {}
      BY <1>1, ClosedIsFree DEF NoReg
    <3> QED
      BY <1>1, <1>3, <2>4, <3>1 DEF IInv, FlagsInv, Registered
  <2>12. ElistInv'
    BY <1>1, <1>3, <2>6 DEF IInv, ElistInv
  <2> QED
    BY <2>7, <2>8, <2>9, <2>10, <2>11, <2>12 DEF IInv
<1> QED
  BY <1>2, <1>3 DEF gt_poller_gevent_create

\* gt_poller_gevent_destroy closes a descriptor that only its own event had.
LEMMA DestroyIInv ==
    ASSUME IInv, NEW g \in Events, gt_poller_gevent_destroy(g)
    PROVE  IInv'
<1> USE PollerApiAssumption
<1>1. /\ g \in alloc
      /\ ev' = [ev EXCEPT ![g].events = {}]
      /\ mem' = list_del(mem, g)
      /\ alloc' = alloc \ {g} /\ broken' = broken \ {g}
      /\ UNCHANGED <<epfd, fails, pstate, warned>>
  BY DEF gt_poller_gevent_destroy
<1>0. told' \in Reports
  BY Reported DEF gt_poller_gevent_destroy
<1>2. PICK f \in FDs : f = ev[g].efd
  BY <1>1 DEF IInv, TypeOK
<1>3. /\ sock' = [sock EXCEPT ![f] = NoConn]
      /\ reg' = [reg EXCEPT ![f] = NoReg]
  BY <1>2 DEF gt_poller_gevent_destroy, close
<1>4. /\ PollerTypeOK /\ alloc \subseteq Events /\ broken \subseteq alloc
      /\ sock \in [FDs -> Conns \cup {NoConn}]
      /\ reg \in [FDs -> [epfd : Pollers, events : SUBSET Flags, ptr : Events] \cup {NoReg}]
      /\ ev \in [Events -> [efd : FDs \cup {Null}, events : SUBSET Flags,
                            read : BOOLEAN, gpoller : Pollers \cup {Null}]]
      /\ \A h \in alloc : ev[h].efd \in FDs /\ ev[h].gpoller = gpoller
  BY DEF IInv, TypeOK, PollerTypeOK
<1>5. \A h \in alloc' : /\ h \in alloc /\ h \in Events /\ h # g
                        /\ ev'[h] = ev[h] /\ ev[h].efd \in FDs /\ ev[h].efd # f
  BY <1>1, <1>2, <1>4 DEF IInv, OwnerInv
<1>6. /\ reg'[f] = NoReg
      /\ \A h \in FDs : h # f => reg'[h] = reg[h] /\ sock'[h] = sock[h]
  BY <1>3, <1>4
<1>7. /\ mem' \in Memory
      /\ mem'.next[gpoller] = gpoller
      /\ \A h \in alloc' : mem'.next[h] = mem.next[h] /\ mem'.prev[h] = mem.prev[h]
  <2>1. mem \in Memory
    BY <1>4, MemType
  <2>2. mem.next[g] = gpoller /\ mem.prev[g] = gpoller
    BY <1>1 DEF IInv, ElistInv
  <2>3. /\ mem' \in Memory
        /\ mem'.next = [mem.next EXCEPT ![gpoller] = gpoller, ![g] = LIST_POISON1]
        /\ mem'.prev = [mem.prev EXCEPT ![gpoller] = gpoller, ![g] = LIST_POISON2]
    BY <1>1, <2>1, <2>2, DestroyedElist
  <2>4. mem.next \in [Nodes -> Pointers] /\ mem.prev \in [Nodes -> Pointers]
    BY <2>1 DEF Memory
  <2>5. /\ \A h \in alloc' : h # g /\ h # gpoller /\ h \in Nodes
        /\ g # gpoller /\ gpoller \in Nodes
    BY <1>5 DEF Nodes
  <2> QED
    BY <2>3, <2>4, <2>5
<1>8. TypeOK'
  <2>1. /\ sock' \in [FDs -> Conns \cup {NoConn}]
        /\ reg' \in [FDs -> [epfd : Pollers, events : SUBSET Flags, ptr : Events] \cup {NoReg}]
    BY <1>3, <1>4
  <2>2. ev' \in [Events -> [efd : FDs \cup {Null}, events : SUBSET Flags,
                            read : BOOLEAN, gpoller : Pollers \cup {Null}]]
    BY <1>1, <1>4
  <2>3. PollerTypeOK'
    BY <1>1, <1>4, <1>7, <2>1, <2>2 DEF PollerTypeOK, Memory, Nodes, Pointers
  <2>4. \A h \in alloc' : ev'[h].efd \in FDs /\ ev'[h].gpoller = gpoller
    BY <1>4, <1>5
  <2> QED
    BY <1>0, <1>1, <1>4, <2>3, <2>4 DEF IInv, TypeOK
<1>9. ReadyInv'
  BY <1>1 DEF IInv, ReadyInv
<1>10. EntryInv'
  <2> SUFFICES ASSUME NEW h \in FDs, reg'[h].ptr # Null
               PROVE  /\ reg'[h].ptr \in alloc'
                      /\ ev'[reg'[h].ptr].efd = h
                      /\ reg'[h].epfd = gpoller
                      /\ epfd'[gpoller]
    BY DEF EntryInv, Registered
  <2>1. h # f
    BY <1>6 DEF NoReg
  <2>2. reg'[h] = reg[h]
    BY <1>6, <2>1
  <2>3. /\ reg[h].ptr \in alloc /\ ev[reg[h].ptr].efd = h
        /\ reg[h].epfd = gpoller /\ epfd[gpoller]
    BY <2>2 DEF IInv, EntryInv, Registered
  <2>4. reg[h].ptr # g
    BY <1>2, <2>1, <2>3
  <2>5. reg[h].ptr \in alloc'
    BY <1>1, <2>3, <2>4
  <2> QED
    BY <1>1, <1>5, <2>2, <2>3, <2>5
<1>11. OwnerInv'
  BY <1>5, <1>6 DEF IInv, OwnerInv, Closed
<1>12. FlagsInv'
  BY <1>1, <1>5, <1>6 DEF IInv, FlagsInv, Registered
<1>13. ElistInv'
  BY <1>1, <1>5, <1>7 DEF IInv, ElistInv
<1> QED
  BY <1>8, <1>9, <1>10, <1>11, <1>12, <1>13 DEF IInv

-----------------------------------------------------------------------------
\* What a start or stop leaves alone in any case.
CallFrame == UNCHANGED <<sock, epfd, alloc, mem, pstate, warned>>

\* The call returns GT_OK at once.
Idle == UNCHANGED <<ev, reg, fails, broken>>

\* epoll_ctl does what it is asked.
Taken(g, flags) ==
    /\ ev' = [ev EXCEPT ![g].events = flags]
    /\ reg' = [reg EXCEPT ![ev[g].efd] = [epfd |-> gpoller, events |-> flags, ptr |-> g]]
    /\ UNCHANGED <<fails, broken>>
    /\ epfd[gpoller]

\* epoll_ctl returns an error, and so does the call; the event has noted the
\* flags all the same.
Refused(g, flags) ==
    /\ ev' = [ev EXCEPT ![g].events = flags]
    /\ UNCHANGED reg
    /\ broken' = broken \cup {g}
    /\ Works \/ Breaks

\* The three ways gt_poller_event_start can go.  Without a failure of the
\* system, and for an event that had no error before, it is refused by a
\* poller that is not ready and for an event that was stopped.
LEMMA StartIs ==
    ASSUME IInv, NEW g \in Events, NEW eflag \in SUBSET Flags, EventStart(g, eflag)
    PROVE  /\ g \in alloc /\ CallFrame
           /\ \/ /\ Idle /\ told' = Report("start", g, eflag, GT_OK)
                 /\ ev[g].events \cap eflag # {}
              \/ /\ Taken(g, ev[g].events \cup eflag) /\ told' = Report("start", g, eflag, GT_OK)
                 /\ ev[g].events \cap eflag = {}
                 /\ ev[g].events = {} => ~Registered(ev[g].efd)
              \/ /\ Refused(g, ev[g].events \cup eflag)
                 /\ told' = Report("start", g, eflag, GT_ERROR)
                 /\ ev[g].events \cap eflag = {}
                 /\ \/ Breaks \/ g \in broken
                    \/ Works /\ ~epfd[gpoller]
                    \/ Works /\ ev[g].events = {} /\ Registered(ev[g].efd)
<1>1. g \in alloc /\ CallFrame
  BY DEF EventStart, CallFrame
<1>2. PICK ret \in {GT_OK, GT_ERROR} : /\ gt_poller_event_start(eflag, g, ret)
                                        /\ Heed("start", g, eflag, ret)
  BY DEF EventStart
<1>t. told' = Report("start", g, eflag, ret)
  BY <1>2 DEF Heed
<1>3. PICK f \in FDs : f = ev[g].efd
  BY <1>1 DEF IInv, TypeOK
<1>4. ev[g].gpoller = gpoller /\ ~Closed(f)
  BY <1>1, <1>3 DEF IInv, TypeOK, OwnerInv
<1>5. GT_OK # GT_ERROR
  BY DEF GT_OK, GT_ERROR
<1>6. CASE ev[g].events \cap eflag # {}
  <2>1. ret = GT_OK /\ Works /\ UNCHANGED <<ev, reg>>
    BY <1>2, <1>6 DEF gt_poller_event_start
  <2> QED
    BY <1>1, <1>2, <1>6, <1>t, <2>1 DEF Heed, Idle, Works
<1>7. CASE ev[g].events \cap eflag = {}
  <2>1. PICK op : op = IF ev[g].events = {} THEN "ADD" ELSE "MOD"
    OBVIOUS
  <2>2. /\ ev' = [ev EXCEPT ![g].events = ev[g].events \cup eflag]
        /\ epoll_ctl(op, gpoller, f, ev[g].events \cup eflag, g, ret)
    BY <1>2, <1>3, <1>4, <1>7, <2>1 DEF gt_poller_event_start, IInv, TypeOK, PollerTypeOK
  <2>3. CASE ret = GT_OK
    <3>1. /\ CtlAccepts(op, gpoller, f)
          /\ reg' = [reg EXCEPT ![f] = [epfd |-> gpoller, events |-> ev[g].events \cup eflag,
                                        ptr |-> g]]
          /\ Works
      BY <1>5, <2>2, <2>3 DEF epoll_ctl
    <3>2. epfd[gpoller] /\ (ev[g].events = {} => ~Registered(f))
      BY <2>1, <3>1 DEF CtlAccepts
    <3>3. Taken(g, ev[g].events \cup eflag)
      BY <1>2, <1>3, <2>2, <2>3, <3>1, <3>2 DEF Taken, Heed, Works
    <3> QED
      BY <1>1, <1>3, <1>7, <1>t, <2>3, <3>2, <3>3
  <2>4. CASE ret = GT_ERROR
    <3>1. /\ IF CtlAccepts(op, gpoller, f) THEN Breaks ELSE Works
          /\ UNCHANGED reg
      BY <1>5, <2>2, <2>4 DEF epoll_ctl
    <3>2. broken' = broken \cup {g}
      BY <1>2, <1>5, <2>4 DEF Heed
    <3>3. Refused(g, ev[g].events \cup eflag)
      BY <2>2, <3>1, <3>2 DEF Refused
    <3>4. CASE ~CtlAccepts(op, gpoller, f) /\ epfd[gpoller] /\ g \notin broken
      <4>1. ev[g].events = {}
        <5> SUFFICES ASSUME ev[g].events # {}
                     PROVE  FALSE
          OBVIOUS
        <5>1. reg[f].epfd = gpoller
          BY <1>1, <1>3, <3>4 DEF IInv, FlagsInv, EntryInv
        <5> QED
          BY <1>4, <2>1, <3>4, <5>1 DEF CtlAccepts
      <4>2. Registered(f)
        BY <1>4, <2>1, <3>4, <4>1 DEF CtlAccepts
      <4> QED
        BY <1>1, <1>3, <1>7, <1>t, <2>4, <3>1, <3>3, <3>4, <4>1, <4>2
    <3> QED
      BY <1>1, <1>7, <1>t, <2>4, <3>1, <3>3, <3>4
  <2> QED
    BY <2>3, <2>4
<1> QED
  BY <1>6, <1>7

\* The three ways gt_poller_event_stop can go.
LEMMA StopIs ==
    ASSUME IInv, NEW g \in Events, NEW eflag \in SUBSET Flags, EventStop(g, eflag)
    PROVE  /\ g \in alloc /\ CallFrame
           /\ \/ /\ Idle /\ told' = Report("stop", g, eflag, GT_OK)
                 /\ ev[g].events \cap eflag = {}
              \/ /\ Taken(g, ev[g].events \ eflag) /\ told' = Report("stop", g, eflag, GT_OK)
                 /\ ev[g].events \cap eflag # {}
              \/ /\ Refused(g, ev[g].events \ eflag)
                 /\ told' = Report("stop", g, eflag, GT_ERROR)
                 /\ ev[g].events \cap eflag # {}
                 /\ Breaks \/ g \in broken
<1>1. g \in alloc /\ CallFrame
  BY DEF EventStop, CallFrame
<1>2. PICK ret \in {GT_OK, GT_ERROR} : /\ gt_poller_event_stop(eflag, g, ret)
                                        /\ Heed("stop", g, eflag, ret)
  BY DEF EventStop
<1>t. told' = Report("stop", g, eflag, ret)
  BY <1>2 DEF Heed
<1>3. PICK f \in FDs : f = ev[g].efd
  BY <1>1 DEF IInv, TypeOK
<1>4. ev[g].gpoller = gpoller /\ ~Closed(f)
  BY <1>1, <1>3 DEF IInv, TypeOK, OwnerInv
<1>5. GT_OK # GT_ERROR
  BY DEF GT_OK, GT_ERROR
<1>6. CASE ev[g].events \cap eflag = {}
  <2>1. ret = GT_OK /\ Works /\ UNCHANGED <<ev, reg>>
    BY <1>2, <1>6 DEF gt_poller_event_stop
  <2> QED
    BY <1>1, <1>2, <1>6, <1>t, <2>1 DEF Heed, Idle, Works
<1>7. CASE ev[g].events \cap eflag # {}
  <2>1. ev[g].events # {}
    BY <1>7
  <2>2. /\ ev' = [ev EXCEPT ![g].events = ev[g].events \ eflag]
        /\ epoll_ctl("MOD", gpoller, f, ev[g].events \ eflag, g, ret)
    BY <1>2, <1>3, <1>4, <1>7 DEF gt_poller_event_stop, IInv, TypeOK, PollerTypeOK
  <2>3. CASE ret = GT_OK
    <3>1. /\ CtlAccepts("MOD", gpoller, f)
          /\ reg' = [reg EXCEPT ![f] = [epfd |-> gpoller, events |-> ev[g].events \ eflag,
                                        ptr |-> g]]
          /\ Works
      BY <1>5, <2>2, <2>3 DEF epoll_ctl
    <3>2. epfd[gpoller]
      BY <3>1 DEF CtlAccepts
    <3>3. Taken(g, ev[g].events \ eflag)
      BY <1>2, <1>3, <2>2, <2>3, <3>1, <3>2 DEF Taken, Heed, Works
    <3> QED
      BY <1>1, <1>7, <1>t, <2>3, <3>3
  <2>4. CASE ret = GT_ERROR
    <3>1. /\ IF CtlAccepts("MOD", gpoller, f) THEN Breaks ELSE Works
          /\ UNCHANGED reg
      BY <1>5, <2>2, <2>4 DEF epoll_ctl
    <3>2. broken' = broken \cup {g}
      BY <1>2, <1>5, <2>4 DEF Heed
    <3>3. Refused(g, ev[g].events \ eflag)
      BY <2>2, <3>1, <3>2 DEF Refused
    <3>4. CASE g \notin broken
      <4>1. reg[f].epfd = gpoller /\ epfd[gpoller]
        BY <1>1, <1>3, <2>1, <3>4 DEF IInv, FlagsInv, EntryInv
      <4>2. CtlAccepts("MOD", gpoller, f)
        BY <1>4, <4>1 DEF CtlAccepts
      <4> QED
        BY <1>1, <1>7, <1>t, <2>4, <3>1, <3>3, <4>2
    <3> QED
      BY <1>1, <1>7, <1>t, <2>4, <3>3, <3>4
  <2> QED
    BY <2>3, <2>4
<1> QED
  BY <1>6, <1>7

\* What a call that reaches epoll_ctl does to the event it is about, and what
\* it leaves of the others.
LEMMA NotedIs ==
    ASSUME IInv, NEW g \in alloc, NEW flags \in SUBSET Flags,
           ev' = [ev EXCEPT ![g].events = flags]
    PROVE  /\ ev' \in [Events -> [efd : FDs \cup {Null}, events : SUBSET Flags,
                                  read : BOOLEAN, gpoller : Pollers \cup {Null}]]
           /\ ev'[g].efd = ev[g].efd /\ ev'[g].gpoller = ev[g].gpoller
           /\ ev'[g].events = flags
           /\ \A h \in alloc : h # g => ev'[h] = ev[h]
  BY DEF IInv, TypeOK, PollerTypeOK

\* After an error the event's flags and the kernel's entry may differ, which
\* is why it counts as broken.
LEMMA RefusedIInv ==
    ASSUME IInv, NEW g \in alloc, NEW flags \in SUBSET Flags, CallFrame, Refused(g, flags),
           told' \in Reports
    PROVE  IInv'
<1> USE PollerApiAssumption
<1>1. /\ UNCHANGED <<sock, epfd, alloc, mem, pstate, warned, reg>>
      /\ broken' = broken \cup {g}
      /\ ev' = [ev EXCEPT ![g].events = flags]
  BY DEF CallFrame, Refused
<1>2. /\ ev' \in [Events -> [efd : FDs \cup {Null}, events : SUBSET Flags,
                             read : BOOLEAN, gpoller : Pollers \cup {Null}]]
      /\ \A h \in alloc : /\ ev'[h].efd = ev[h].efd /\ ev'[h].gpoller = ev[h].gpoller
                          /\ h # g => ev'[h] = ev[h]
  BY <1>1, NotedIs
<1>3. fails' \in 0..MaxFail
  BY DEF Refused, IInv, TypeOK, PollerTypeOK, Works, Breaks
<1>4. TypeOK'
  <2>1. PollerTypeOK'
    BY <1>1, <1>2, <1>3 DEF IInv, TypeOK, PollerTypeOK
  <2> QED
    BY <1>1, <1>2, <2>1 DEF IInv, TypeOK
<1>5. ReadyInv' /\ ElistInv'
  BY <1>1 DEF IInv, ReadyInv, ElistInv
<1>6. EntryInv'
  BY <1>1, <1>2 DEF IInv, EntryInv, Registered
<1>7. OwnerInv'
  BY <1>1, <1>2 DEF IInv, OwnerInv, Closed
<1>8. FlagsInv'
  BY <1>1, <1>2 DEF IInv, FlagsInv, Registered
<1> QED
  BY <1>4, <1>5, <1>6, <1>7, <1>8 DEF IInv

\* A call that is accepted keeps the flags and the kernel's entry in step.
LEMMA TakenIInv ==
    ASSUME IInv, NEW g \in alloc, NEW flags \in SUBSET Flags, CallFrame, Taken(g, flags),
           told' \in Reports
    PROVE  IInv'
<1> USE PollerApiAssumption
<1>1. /\ UNCHANGED <<sock, epfd, alloc, mem, pstate, warned, fails, broken>>
      /\ ev' = [ev EXCEPT ![g].events = flags]
      /\ epfd[gpoller]
  BY DEF CallFrame, Taken
<1>2. PICK f \in FDs : f = ev[g].efd
  BY DEF IInv, TypeOK
<1>3. PICK r : r = [epfd |-> gpoller, events |-> flags, ptr |-> g]
  OBVIOUS
<1>4. /\ r \in [epfd : Pollers, events : SUBSET Flags, ptr : Events]
      /\ r.epfd = gpoller /\ r.events = flags /\ r.ptr = g /\ r.ptr # Null
  BY <1>3 DEF IInv, TypeOK, PollerTypeOK
<1>5. reg' = [reg EXCEPT ![f] = r]
  BY <1>2, <1>3 DEF Taken
<1>6. /\ reg' \in [FDs -> [epfd : Pollers, events : SUBSET Flags, ptr : Events] \cup {NoReg}]
      /\ reg'[f] = r
      /\ \A h \in FDs : h # f => reg'[h] = reg[h]
  BY <1>4, <1>5 DEF IInv, TypeOK, PollerTypeOK
<1>7. /\ ev' \in [Events -> [efd : FDs \cup {Null}, events : SUBSET Flags,
                             read : BOOLEAN, gpoller : Pollers \cup {Null}]]
      /\ ev'[g].efd = f /\ ev'[g].events = flags
      /\ \A h \in alloc : /\ ev'[h].efd = ev[h].efd /\ ev'[h].gpoller = ev[h].gpoller
                          /\ h # g => ev'[h] = ev[h] /\ ev[h].efd # f
                          /\ ev[h].efd \in FDs
  <2>1. \A h \in alloc : (h # g => ev[h].efd # f) /\ ev[h].efd \in FDs
    BY <1>2 DEF IInv, OwnerInv, TypeOK
  <2> QED
    BY <1>1, <1>2, <2>1, NotedIs
<1>8. TypeOK'
  <2>1. PollerTypeOK'
    BY <1>1, <1>6, <1>7 DEF IInv, TypeOK, PollerTypeOK
  <2> QED
    BY <1>1, <1>7, <2>1 DEF IInv, TypeOK
<1>9. ReadyInv' /\ ElistInv'
  BY <1>1 DEF IInv, ReadyInv, ElistInv
<1>10. EntryInv'
  BY <1>1, <1>4, <1>6, <1>7 DEF IInv, EntryInv, Registered
<1>11. OwnerInv'
  BY <1>1, <1>7 DEF IInv, OwnerInv, Closed
<1>12. FlagsInv'
  BY <1>1, <1>4, <1>6, <1>7 DEF IInv, FlagsInv, Registered
<1> QED
  BY <1>8, <1>9, <1>10, <1>11, <1>12 DEF IInv

\* A step that leaves the poller alone.
LEMMA IdleIInv ==
    ASSUME IInv, UNCHANGED <<pollerVars, pstate, broken>>,
           told' \in Reports, warned' \in BOOLEAN
    PROVE  IInv'
<1>1. TypeOK'
  BY DEF IInv, TypeOK, PollerTypeOK, pollerVars
<1>2. ReadyInv' /\ EntryInv' /\ OwnerInv' /\ FlagsInv' /\ ElistInv'
  BY DEF IInv, pollerVars, ReadyInv, EntryInv, OwnerInv, FlagsInv, ElistInv, Registered, Closed
<1> QED
  BY <1>1, <1>2 DEF IInv

\* A report of the kernel is for an event that is there and has the
\* descriptor, and for a flag it is watched for.
LEMMA ReportIs ==
    ASSUME IInv, gt_poller_epoll_wait
    PROVE  \E g \in alloc, flag \in Flags :
               /\ told' = Report("handler", g, {flag}, GT_OK)
               /\ flag \in reg[ev[g].efd].events
<1> PICK f \in FDs : \E events \in (SUBSET reg[f].events) \ {{}} :
          told' = Report("handler", reg[f].ptr, {HandlerFor(events)}, GT_OK)
  BY DEF gt_poller_epoll_wait
<1>1. PICK events \in (SUBSET reg[f].events) \ {{}} :
          told' = Report("handler", reg[f].ptr, {HandlerFor(events)}, GT_OK)
  OBVIOUS
<1>2. reg[f] \in [epfd : Pollers, events : SUBSET Flags, ptr : Events] \cup {NoReg}
  BY DEF IInv, TypeOK, PollerTypeOK
<1>3. reg[f] # NoReg
  BY <1>1 DEF NoReg
<1>4. reg[f].ptr \in Events /\ reg[f].events \subseteq Flags
  BY <1>2, <1>3
<1>5. Registered(f)
  BY <1>4, PollerApiAssumption DEF Registered
<1>6. reg[f].ptr \in alloc /\ ev[reg[f].ptr].efd = f
  BY <1>5 DEF IInv, EntryInv
<1>7. HandlerFor(events) \in events
  BY <1>1, <1>4 DEF HandlerFor, Flags
<1> QED
  BY <1>1, <1>4, <1>6, <1>7

\* The invariant survives every call.
LEMMA StepIInv ==
    ASSUME IInv, [Next]_vars
    PROVE  IInv'
<1>1. alloc \subseteq Events /\ \A g \in Events : ev[g].events \in SUBSET Flags
  BY DEF IInv, TypeOK, PollerTypeOK
<1>2. told \in Reports /\ warned \in BOOLEAN
  BY DEF IInv, TypeOK
<1>3. CASE gt_poller_epoll_wait
  <2>1. told' \in Reports
    BY <1>1, <1>3, ReportIs, Reported
  <2>2. UNCHANGED <<pollerVars, pstate, broken, warned>>
    BY <1>3 DEF gt_poller_epoll_wait
  <2> QED
    BY <1>2, <2>1, <2>2, IdleIInv
<1>4. ASSUME NEW g \in Events, NEW eflag \in SUBSET Flags, EventStart(g, eflag)
      PROVE  IInv'
  <2>1. ev[g].events \cup eflag \in SUBSET Flags
    BY <1>1
  <2>2. told' \in Reports
    <3>1. \A ret \in {GT_OK, GT_ERROR} : Report("start", g, eflag, ret) \in Reports
      BY <1>4, Reported
    <3>2. \E ret \in {GT_OK, GT_ERROR} : told' = Report("start", g, eflag, ret)
      BY <1>4 DEF EventStart, Heed
    <3> QED
      BY <3>1, <3>2
  <2>3. ASSUME CallFrame, Idle
        PROVE  IInv'
    BY <1>2, <2>2, <2>3, IdleIInv DEF CallFrame, Idle, pollerVars
  <2> QED
    BY <1>4, <2>1, <2>2, <2>3, StartIs, TakenIInv, RefusedIInv
<1>5. ASSUME NEW g \in Events, NEW eflag \in SUBSET Flags, EventStop(g, eflag)
      PROVE  IInv'
  <2>1. ev[g].events \ eflag \in SUBSET Flags
    BY <1>1
  <2>2. told' \in Reports
    <3>1. \A ret \in {GT_OK, GT_ERROR} : Report("stop", g, eflag, ret) \in Reports
      BY <1>5, Reported
    <3>2. \E ret \in {GT_OK, GT_ERROR} : told' = Report("stop", g, eflag, ret)
      BY <1>5 DEF EventStop, Heed
    <3> QED
      BY <3>1, <3>2
  <2>3. ASSUME CallFrame, Idle
        PROVE  IInv'
    BY <1>2, <2>2, <2>3, IdleIInv DEF CallFrame, Idle, pollerVars
  <2> QED
    BY <1>5, <2>1, <2>2, <2>3, StopIs, TakenIInv, RefusedIInv
<1>6. CASE UNCHANGED vars
  BY <1>2, <1>6, IdleIInv DEF vars
<1> QED
  BY <1>3, <1>4, <1>5, <1>6, InitPollerIInv, CleanIInv, CreateIInv, DestroyIInv DEF Next

\* The invariant of the poller's functions under any sequence of calls.
THEOREM PollerInvariant == Spec => []IInv
<1>1. Init => IInv
  BY InitIInv
<1>2. IInv /\ [Next]_vars => IInv'
  BY StepIInv
<1> QED
  BY <1>1, <1>2, PTL DEF Spec

\* The poller, its events and the kernel's entries are well typed under any
\* sequence of calls: no handler is ever called with anything but an event
\* and a flag.
THEOREM PollerTyped == Spec => []TypeOK
<1>1. IInv => TypeOK
  BY DEF IInv
<1> QED
  BY <1>1, PollerInvariant, PTL

\* gt_poller_clean never warns of an event that is left when there is none,
\* although gt_poller_gevent_create hands list_add its arguments in the wrong
\* order and every event is linked with the poller alone.
THEOREM PollerNoFalseAlarm == Spec => NoFalseAlarm
<1>1. IInv /\ [Next]_vars => [gt_poller_clean /\ warned' => alloc # {}]_vars
  <2> SUFFICES ASSUME IInv, gt_poller_clean, warned'
               PROVE  alloc # {}
    OBVIOUS
  <2>1. mem.next[gpoller] # gpoller /\ pstate = "ready"
    BY DEF gt_poller_clean, list_empty
  <2> QED
    BY <2>1 DEF IInv, ElistInv
<1> QED
  BY <1>1, PollerInvariant, PTL DEF Spec, NoFalseAlarm

-----------------------------------------------------------------------------
(* The refinement mapping, and how it moves.                               *)

\* How an event stands, case by case.
LifeTable ==
    \A g \in Events :
        /\ g \notin alloc => Life(g) = "none" /\ WatchedFor(g) = {}
        /\ g \in alloc => WatchedFor(g) = reg[ev[g].efd].events
        /\ g \in broken => Life(g) = "broken"
        /\ g \in alloc \ broken =>
               /\ ev[g].events # {} => Life(g) = "on"
               /\ ev[g].events = {} =>
                      Life(g) = IF Registered(ev[g].efd) THEN "stopped" ELSE "fresh"

\* The table follows from the definitions.
LEMMA LifeCases == IInv => LifeTable
<1> SUFFICES ASSUME IInv, NEW g \in Events
             PROVE  /\ g \notin alloc => Life(g) = "none" /\ WatchedFor(g) = {}
                    /\ g \in alloc => WatchedFor(g) = reg[ev[g].efd].events
                    /\ g \in broken => Life(g) = "broken"
                    /\ g \in alloc \ broken =>
                           /\ ev[g].events # {} => Life(g) = "on"
                           /\ ev[g].events = {} =>
                                  Life(g) = IF Registered(ev[g].efd) THEN "stopped" ELSE "fresh"
  BY DEF LifeTable
<1>1. broken \subseteq alloc
  BY DEF IInv, TypeOK
<1> QED
  BY <1>1 DEF Life, WatchedFor

\* An event about which nothing changes.
Kept(h) == Life(h)' = Life(h) /\ WatchedFor(h)' = WatchedFor(h)

\* An event whose record and whose kernel entry stay the same is kept.
LEMMA KeptFrame ==
    ASSUME NEW h \in Events, h \in alloc' <=> h \in alloc, h \in broken' <=> h \in broken,
           h \in alloc => ev'[h] = ev[h] /\ reg'[ev[h].efd] = reg[ev[h].efd]
    PROVE  Kept(h)
<1>1. CASE h \notin alloc
  BY <1>1 DEF Kept, Life, WatchedFor
<1>2. CASE h \in alloc
  BY <1>2 DEF Kept, Life, WatchedFor, Registered
<1> QED
  BY <1>1, <1>2

\* The abstract state after a step that moves one event, or none.
LEMMA OneMoves ==
    ASSUME NEW g \in Events, NEW to, NEW flags,
           Life(g)' = to, WatchedFor(g)' = flags,
           \A h \in Events \ {g} : Kept(h)
    PROVE  /\ [h \in Events |-> Life(h)]' = [[h \in Events |-> Life(h)] EXCEPT ![g] = to]
           /\ [h \in Events |-> WatchedFor(h)]' =
                  [[h \in Events |-> WatchedFor(h)] EXCEPT ![g] = flags]
  BY DEF Kept

\* One event changes how it stands, and none what it is watched for.
LEMMA WatchKept ==
    ASSUME NEW g \in Events, WatchedFor(g)' = WatchedFor(g), \A h \in Events \ {g} : Kept(h)
    PROVE  UNCHANGED [h \in Events |-> WatchedFor(h)]
  BY DEF Kept

\* One event changes what it is watched for, and none how it stands.
LEMMA LifeKept ==
    ASSUME NEW g \in Events, Life(g)' = Life(g), \A h \in Events \ {g} : Kept(h)
    PROVE  UNCHANGED [h \in Events |-> Life(h)]
  BY DEF Kept

\* No event moves.
LEMMA NoneMoves ==
    ASSUME \A h \in Events : Kept(h)
    PROVE  UNCHANGED <<[h \in Events |-> Life(h)], [h \in Events |-> WatchedFor(h)]>>
  BY DEF Kept

\* Both modules report alike.
LEMMA ReportSame ==
    ASSUME NEW op, NEW g, NEW flags, NEW ret
    PROVE  Watch!Report(op, g, flags, ret) = Report(op, g, flags, ret)
  BY DEF Watch!Report, Report

\* The poller becomes ready, or the call fails.
LEMMA InitPollerWatch ==
    ASSUME IInv, gt_poller_init
    PROVE  Watch!Next
<1>1. UNCHANGED <<sock, reg, alloc, ev, broken, warned>>
  BY DEF gt_poller_init
<1>2. \A h \in Events : Kept(h)
  BY <1>1, KeptFrame
<1>3. UNCHANGED <<[h \in Events |-> Life(h)], [h \in Events |-> WatchedFor(h)]>>
  BY <1>2, NoneMoves
<1>4. epfd' = [epfd EXCEPT ![gpoller] = TRUE] => epfd'[gpoller] = TRUE
  BY PollerApiAssumption DEF IInv, TypeOK, PollerTypeOK
<1>5. CASE epfd' = [epfd EXCEPT ![gpoller] = TRUE] /\ Works /\ told' = Report("init", Null, {}, GT_OK)
  <2>1. Watch!GetReady
    BY <1>3, <1>4, <1>5, ReportSame DEF Watch!GetReady, Works
  <2> QED
    BY <2>1 DEF Watch!Next
<1>6. CASE /\ epfd' = [epfd EXCEPT ![gpoller] = TRUE] \/ epfd' = epfd
           /\ Breaks /\ told' = Report("init", Null, {}, GT_ERROR)
  <2>1. epfd'[gpoller] \in {epfd[gpoller], TRUE}
    BY <1>4, <1>6
  <2>2. Watch!GetReady
    BY <1>3, <1>6, <2>1, ReportSame DEF Watch!GetReady, Watch!Fails, Breaks
  <2> QED
    BY <2>2 DEF Watch!Next
<1> QED
  BY <1>5, <1>6 DEF gt_poller_init

\* gt_poller_clean breaks all events and ends all watching.
LEMMA CleanWatch ==
    ASSUME IInv, IInv', gt_poller_clean
    PROVE  Watch!Next
<1>1. /\ UNCHANGED <<alloc, ev, fails>> /\ broken' = alloc
      /\ told' = Report("clean", Null, {}, GT_OK)
      /\ reg' = [f \in FDs |-> NoReg]
      /\ epfd' = [epfd EXCEPT ![gpoller] = FALSE]
  BY DEF gt_poller_clean
<1>2. LifeTable /\ LifeTable'
  BY LifeCases, PTL
<1>3. epfd'[gpoller] = FALSE
  BY <1>1, PollerApiAssumption DEF IInv, TypeOK, PollerTypeOK
<1>4. \A g \in Events : WatchedFor(g)' = {}
  <2>1. \A g \in alloc : ev[g].efd \in FDs
    BY DEF IInv, TypeOK
  <2> QED
    BY <1>1, <1>2, <2>1 DEF LifeTable, NoReg
<1>5. \A g \in Events : Life(g)' = IF Life(g) = "none" THEN "none" ELSE "broken"
  <2>1. \A g \in Events : g \notin alloc => Life(g)' = "none" /\ Life(g) = "none"
    BY <1>1, <1>2 DEF LifeTable
  <2>2. \A g \in Events : g \in alloc => Life(g)' = "broken" /\ Life(g) # "none"
    BY <1>1, <1>2 DEF LifeTable
  <2> QED
    BY <2>1, <2>2
<1>6. Watch!Clean
  BY <1>1, <1>3, <1>4, <1>5, ReportSame DEF Watch!Clean
<1> QED
  BY <1>6 DEF Watch!Next

\* A new event is fresh: its descriptor is in no epoll set.
LEMMA CreateWatch ==
    ASSUME IInv, IInv', NEW f \in FDs, NEW g \in Events, gt_poller_gevent_create(f, g)
    PROVE  Watch!Next
<1>1. /\ Closed(f) /\ g \notin alloc
      /\ UNCHANGED <<reg, epfd, broken>>
  BY DEF gt_poller_gevent_create
<1>2. LifeTable /\ LifeTable'
  BY LifeCases, PTL
<1>3. CASE /\ Breaks /\ UNCHANGED <<sock, alloc, ev, mem>>
           /\ told' = Report("create", g, {}, GT_ERROR)
  <2>1. UNCHANGED <<[h \in Events |-> Life(h)], [h \in Events |-> WatchedFor(h)]>>
    BY <1>1, <1>3, KeptFrame, NoneMoves
  <2>2. Life(g) = "none"
    BY <1>1, <1>2 DEF LifeTable
  <2>3. Watch!Create(g)
    BY <1>1, <1>3, <2>1, <2>2, ReportSame DEF Watch!Create, Watch!Fails, Breaks
  <2> QED
    BY <2>3 DEF Watch!Next
<1>4. CASE /\ alloc' = alloc \cup {g}
           /\ ev' = [ev EXCEPT ![g] = NewEvent(f, g)]
           /\ Works /\ told' = Report("create", g, {}, GT_OK)
  <2>1. /\ ev'[g].efd = f /\ ev'[g].events = {}
        /\ \A h \in Events \ {g} : ev'[h] = ev[h]
    BY <1>4 DEF IInv, TypeOK, PollerTypeOK, NewEvent, NoEvent
  <2>2. \A h \in Events \ {g} : Kept(h)
    BY <1>1, <1>4, <2>1, KeptFrame
  <2>3. reg[f].events = {} /\ ~Registered(f) /\ reg'[f].ptr = reg[f].ptr
    BY <1>1, ClosedIsFree DEF NoReg
  <2>4. g \in alloc' \ broken'
    BY <1>1, <1>4 DEF IInv, TypeOK
  <2>5. Life(g) = "none" /\ WatchedFor(g) = {}
    BY <1>1, <1>2 DEF LifeTable
  <2>6. Life(g)' = "fresh" /\ WatchedFor(g)' = {}
    BY <1>1, <1>2, <2>1, <2>3, <2>4 DEF LifeTable, Registered
  <2>7. [h \in Events |-> Life(h)]' = [[h \in Events |-> Life(h)] EXCEPT ![g] = "fresh"]
    BY <2>2, <2>6, OneMoves
  <2>8. UNCHANGED [h \in Events |-> WatchedFor(h)]
    BY <2>2, <2>5, <2>6, WatchKept
  <2>9. Watch!Create(g)
    BY <1>1, <1>4, <2>5, <2>7, <2>8, ReportSame DEF Watch!Create, Works
  <2> QED
    BY <2>9 DEF Watch!Next
<1> QED
  BY <1>3, <1>4 DEF gt_poller_gevent_create

\* gt_poller_gevent_destroy ends the watching of its event and of no other.
LEMMA DestroyWatch ==
    ASSUME IInv, IInv', NEW g \in Events, gt_poller_gevent_destroy(g)
    PROVE  Watch!Next
<1>1. /\ g \in alloc
      /\ ev' = [ev EXCEPT ![g].events = {}]
      /\ alloc' = alloc \ {g} /\ broken' = broken \ {g}
      /\ reg' = [reg EXCEPT ![ev[g].efd] = NoReg]
      /\ UNCHANGED <<epfd, fails>>
      /\ told' = Report("destroy", g, {}, GT_OK)
  BY DEF gt_poller_gevent_destroy, close
<1>2. LifeTable /\ LifeTable'
  BY LifeCases, PTL
<1>3. \A h \in Events \ {g} :
          /\ ev'[h] = ev[h]
          /\ h \in alloc => reg'[ev[h].efd] = reg[ev[h].efd]
  BY <1>1 DEF IInv, TypeOK, PollerTypeOK, OwnerInv
<1>4. \A h \in Events \ {g} : Kept(h)
  BY <1>1, <1>3, KeptFrame
<1>5. Life(g)' = "none" /\ WatchedFor(g)' = {}
  BY <1>1, <1>2 DEF LifeTable
<1>6. Life(g) # "none"
  BY <1>1, <1>2 DEF LifeTable
<1>7. /\ [h \in Events |-> Life(h)]' = [[h \in Events |-> Life(h)] EXCEPT ![g] = "none"]
      /\ [h \in Events |-> WatchedFor(h)]' = [[h \in Events |-> WatchedFor(h)] EXCEPT ![g] = {}]
  BY <1>4, <1>5, OneMoves
<1>8. Watch!Destroy(g)
  BY <1>1, <1>6, <1>7, ReportSame DEF Watch!Destroy
<1> QED
  BY <1>8 DEF Watch!Next

\* gt_poller_epoll_wait calls handlers for what is watched.
LEMMA WaitWatch ==
    ASSUME IInv, IInv', gt_poller_epoll_wait
    PROVE  Watch!Next
<1>1. PICK g \in alloc, flag \in Flags :
          /\ told' = Report("handler", g, {flag}, GT_OK)
          /\ flag \in reg[ev[g].efd].events
  BY ReportIs
<1>2. /\ UNCHANGED <<reg, epfd, alloc, ev, fails, broken>>
      /\ epfd[gpoller] /\ g \in Events
  BY DEF gt_poller_epoll_wait, pollerVars, IInv, ReadyInv, TypeOK, PollerTypeOK
<1>3. flag \in WatchedFor(g)
  BY <1>1, <1>2, LifeCases DEF LifeTable
<1>4. UNCHANGED <<[h \in Events |-> Life(h)], [h \in Events |-> WatchedFor(h)]>>
  BY <1>2, KeptFrame, NoneMoves
<1>5. Watch!Handle(g, flag)
  BY <1>1, <1>2, <1>3, <1>4, ReportSame DEF Watch!Handle
<1> QED
  BY <1>2, <1>5 DEF Watch!Next

\* A call for a broken event may do anything to what is watched for it, and
\* return anything.
LEMMA BrokenWatch ==
    ASSUME NEW g \in Events, Life(g) = "broken", Life(g)' = "broken",
           \A h \in Events \ {g} : Kept(h), WatchedFor(g)' \in SUBSET Flags,
           UNCHANGED epfd, Works \/ Breaks,
           NEW op \in {"start", "stop"}, NEW eflag \in SUBSET Flags, NEW ret \in {GT_OK, GT_ERROR},
           told' = Report(op, g, eflag, ret)
    PROVE  Watch!Next
<1>1. UNCHANGED [h \in Events |-> Life(h)]
  BY LifeKept
<1>2. PICK now \in SUBSET Flags : now = WatchedFor(g)'
  OBVIOUS
<1>3. [h \in Events |-> WatchedFor(h)]' = [[h \in Events |-> WatchedFor(h)] EXCEPT ![g] = now]
  BY <1>2, OneMoves
<1>4. told' = Watch!Report(op, g, eflag, ret)
  BY ReportSame
<1>5. Watch!Drift(g, op, eflag)
  BY <1>1, <1>3, <1>4 DEF Watch!Drift, Watch!Fails, Breaks, Works
<1> QED
  BY <1>5 DEF Watch!Next

\* What is watched for an event is a set of flags.
LEMMA WatchedIs ==
    ASSUME IInv, NEW g \in Events
    PROVE  WatchedFor(g) \in SUBSET Flags
<1>1. g \in alloc => reg[ev[g].efd] \in [epfd : Pollers, events : SUBSET Flags, ptr : Events]
                                        \cup {NoReg}
  BY DEF IInv, TypeOK, PollerTypeOK
<1> QED
  BY <1>1 DEF WatchedFor, NoReg

\* A call that epoll_ctl refuses breaks the event.
LEMMA RefusedWatch ==
    ASSUME IInv, IInv', NEW g \in alloc, NEW flags \in SUBSET Flags, CallFrame,
           Refused(g, flags),
           NEW op \in {"start", "stop"}, NEW eflag \in SUBSET Flags,
           told' = Report(op, g, eflag, GT_ERROR),
           \/ g \in broken
           \/ /\ op = "start" /\ ev[g].events \cap eflag = {}
              /\ \/ Breaks
                 \/ Works /\ ~epfd[gpoller]
                 \/ Works /\ ev[g].events = {} /\ Registered(ev[g].efd)
           \/ op = "stop" /\ ev[g].events \cap eflag # {} /\ Breaks
    PROVE  Watch!Next
<1>1. /\ UNCHANGED <<epfd, alloc, reg>>
      /\ broken' = broken \cup {g}
      /\ ev' = [ev EXCEPT ![g].events = flags]
      /\ Works \/ Breaks
  BY DEF CallFrame, Refused
<1>2. LifeTable /\ LifeTable'
  BY LifeCases, PTL
<1>3. g \in Events /\ \A h \in Events \ {g} : ev'[h] = ev[h]
  BY <1>1 DEF IInv, TypeOK, PollerTypeOK
<1>4. \A h \in Events \ {g} : Kept(h)
  BY <1>1, <1>3, KeptFrame
<1>5. ev'[g].efd = ev[g].efd
  BY <1>1, NotedIs
<1>6. Life(g)' = "broken" /\ WatchedFor(g)' = WatchedFor(g)
  BY <1>1, <1>2, <1>3, <1>5 DEF LifeTable
<1>7. UNCHANGED [h \in Events |-> WatchedFor(h)]
  BY <1>3, <1>4, <1>6, WatchKept
<1>8. CASE g \in broken
  <2>1. Life(g) = "broken"
    BY <1>2, <1>3, <1>8 DEF LifeTable
  <2>2. WatchedFor(g)' \in SUBSET Flags
    BY <1>3, <1>6, WatchedIs
  <2> QED
    BY <1>1, <1>3, <1>4, <1>6, <2>1, <2>2, BrokenWatch
<1>9. CASE g \notin broken
  <2>1. Life(g) \in {"fresh", "on", "stopped"} /\ WatchedFor(g) = ev[g].events
    BY <1>2, <1>3, <1>9 DEF LifeTable, IInv, FlagsInv
  <2>2. [h \in Events |-> Life(h)]' = [[h \in Events |-> Life(h)] EXCEPT ![g] = "broken"]
    BY <1>3, <1>4, <1>6, OneMoves
  <2>3. told' = Watch!Report(op, g, eflag, GT_ERROR)
    BY ReportSame
  <2>4. \/ /\ op = "start" /\ eflag \cap WatchedFor(g) = {}
           /\ Breaks \/ (Works /\ (~epfd[gpoller] \/ Life(g) = "stopped"))
        \/ op = "stop" /\ eflag \cap WatchedFor(g) # {} /\ Breaks
    BY <1>2, <1>3, <1>9, <2>1 DEF LifeTable
  <2>5. Watch!Refuse(g, op, eflag)
    BY <1>1, <1>3, <1>7, <2>1, <2>2, <2>3, <2>4 DEF Watch!Refuse, Watch!Fails, Breaks, Works
  <2> QED
    BY <1>3, <2>5 DEF Watch!Next
<1> QED
  BY <1>8, <1>9

\* What a call that epoll_ctl accepts does to the abstract state.
LEMMA TakenMoves ==
    ASSUME IInv, IInv', NEW g \in alloc, NEW flags \in SUBSET Flags, CallFrame,
           Taken(g, flags)
    PROVE  /\ \A h \in Events \ {g} : Kept(h)
           /\ WatchedFor(g)' = flags
           /\ g \in broken => Life(g)' = "broken"
           /\ g \notin broken => Life(g)' = IF flags = {} THEN "stopped" ELSE "on"
<1>1. /\ UNCHANGED <<alloc, broken>>
      /\ ev' = [ev EXCEPT ![g].events = flags]
      /\ reg' = [reg EXCEPT ![ev[g].efd] = [epfd |-> gpoller, events |-> flags, ptr |-> g]]
  BY DEF CallFrame, Taken
<1>2. LifeTable'
  BY LifeCases, PTL
<1>3. /\ g \in Events /\ ev[g].efd \in FDs
      /\ \A h \in Events \ {g} : ev'[h] = ev[h]
      /\ \A h \in alloc : h # g => reg'[ev[h].efd] = reg[ev[h].efd]
  BY <1>1 DEF IInv, TypeOK, PollerTypeOK, OwnerInv
<1>4. \A h \in Events \ {g} : Kept(h)
  BY <1>1, <1>3, KeptFrame
<1>5. ev'[g].efd = ev[g].efd /\ ev'[g].events = flags
  BY <1>1, NotedIs
<1>6. /\ reg'[ev'[g].efd].events = flags
      /\ reg'[ev'[g].efd].ptr = g /\ g # Null
  <2>1. reg'[ev[g].efd] = [epfd |-> gpoller, events |-> flags, ptr |-> g]
    BY <1>1, <1>3 DEF IInv, TypeOK, PollerTypeOK
  <2> QED
    BY <1>3, <1>5, <2>1, PollerApiAssumption
<1> QED
  BY <1>1, <1>2, <1>3, <1>4, <1>5, <1>6 DEF LifeTable, Registered

\* Such a call for a broken event.
LEMMA TakenDrifts ==
    ASSUME IInv, IInv', NEW g \in alloc, NEW flags \in SUBSET Flags, CallFrame,
           Taken(g, flags), g \in broken,
           NEW op \in {"start", "stop"}, NEW eflag \in SUBSET Flags,
           told' = Report(op, g, eflag, GT_OK)
    PROVE  Watch!Next
<1>1. /\ \A h \in Events \ {g} : Kept(h)
      /\ WatchedFor(g)' = flags /\ Life(g)' = "broken"
  BY TakenMoves
<1>2. g \in Events /\ UNCHANGED epfd /\ Works
  BY DEF IInv, TypeOK, PollerTypeOK, CallFrame, Taken, Works
<1>3. Life(g) = "broken"
  BY <1>2, LifeCases DEF LifeTable
<1> QED
  BY <1>1, <1>2, <1>3, BrokenWatch

\* A call for a broken event that returns GT_OK at once.
LEMMA IdleDrifts ==
    ASSUME IInv, NEW g \in alloc, CallFrame, Idle, g \in broken,
           NEW op \in {"start", "stop"}, NEW eflag \in SUBSET Flags,
           told' = Report(op, g, eflag, GT_OK)
    PROVE  Watch!Next
<1>1. \A h \in Events : Kept(h)
  BY KeptFrame DEF CallFrame, Idle
<1>2. g \in Events /\ UNCHANGED epfd /\ Works
  BY DEF IInv, TypeOK, PollerTypeOK, CallFrame, Idle, Works
<1>3. Life(g) = "broken"
  BY <1>2, LifeCases DEF LifeTable
<1>4. Life(g)' = "broken" /\ WatchedFor(g)' \in SUBSET Flags
  BY <1>1, <1>2, <1>3, WatchedIs DEF Kept
<1> QED
  BY <1>1, <1>2, <1>3, <1>4, BrokenWatch

\* gt_poller_event_start is a start or a refusal: when it returns GT_OK at
\* once, the event is watched for one of its flags and stays as it is.
LEMMA StartWatch ==
    ASSUME IInv, IInv', NEW g \in Events, NEW eflag \in SUBSET Flags, EventStart(g, eflag)
    PROVE  Watch!Next
<1>1. PICK flags \in SUBSET Flags : flags = ev[g].events \cup eflag
  BY DEF IInv, TypeOK, PollerTypeOK
<1>2. g \in alloc /\ CallFrame
  BY StartIs
<1>3. CASE Idle /\ told' = Report("start", g, eflag, GT_OK) /\ g \in broken
  BY <1>2, <1>3, IdleDrifts
<1>4. CASE Taken(g, flags) /\ told' = Report("start", g, eflag, GT_OK) /\ g \in broken
  BY <1>2, <1>4, TakenDrifts
<1>5. CASE /\ Refused(g, flags) /\ told' = Report("start", g, eflag, GT_ERROR)
           /\ ev[g].events \cap eflag = {}
           /\ \/ Breaks \/ g \in broken
              \/ Works /\ ~epfd[gpoller]
              \/ Works /\ ev[g].events = {} /\ Registered(ev[g].efd)
  BY <1>2, <1>5, RefusedWatch
<1>6. ASSUME NEW now \in SUBSET Flags,
             now = IF eflag \cap ev[g].events = {} THEN flags ELSE ev[g].events,
             epfd[gpoller], UNCHANGED <<epfd, fails>>, g \notin broken,
             ev[g].events = {} => ~Registered(ev[g].efd),
             \A h \in Events \ {g} : Kept(h), WatchedFor(g)' = now,
             Life(g)' = IF now = {} THEN "stopped" ELSE "on",
             told' = Report("start", g, eflag, GT_OK)
      PROVE  Watch!Next
  <2>1. Life(g) \in {"fresh", "on"} /\ WatchedFor(g) = ev[g].events
    BY <1>2, <1>6, LifeCases DEF LifeTable, IInv, FlagsInv
  <2>2. PICK to : to = IF now = {} THEN "stopped" ELSE "on"
    OBVIOUS
  <2>3. /\ [h \in Events |-> Life(h)]' = [[h \in Events |-> Life(h)] EXCEPT ![g] = to]
        /\ [h \in Events |-> WatchedFor(h)]' =
               [[h \in Events |-> WatchedFor(h)] EXCEPT ![g] = now]
    BY <1>6, <2>2, OneMoves
  <2>4. now = Watch!Started(g, eflag)
    BY <1>1, <1>6, <2>1 DEF Watch!Started
  <2>5. told' = Watch!Report("start", g, eflag, GT_OK)
    BY <1>6, ReportSame
  <2>6. Watch!Start(g, eflag)
    BY <1>6, <2>1, <2>2, <2>3, <2>4, <2>5 DEF Watch!Start
  <2> QED
    BY <2>6 DEF Watch!Next
<1>7. CASE /\ Taken(g, flags) /\ told' = Report("start", g, eflag, GT_OK) /\ g \notin broken
           /\ ev[g].events \cap eflag = {}
           /\ ev[g].events = {} => ~Registered(ev[g].efd)
  <2>1. /\ \A h \in Events \ {g} : Kept(h)
        /\ WatchedFor(g)' = flags /\ Life(g)' = IF flags = {} THEN "stopped" ELSE "on"
    BY <1>2, <1>7, TakenMoves
  <2>2. UNCHANGED <<epfd, fails>> /\ epfd[gpoller]
    BY <1>2, <1>7 DEF CallFrame, Taken
  <2>3. flags = IF eflag \cap ev[g].events = {} THEN flags ELSE ev[g].events
    BY <1>7
  <2> QED
    BY <1>6, <1>7, <2>1, <2>2, <2>3
<1>8. CASE /\ Idle /\ told' = Report("start", g, eflag, GT_OK) /\ g \notin broken
           /\ ev[g].events \cap eflag # {}
  <2>1. \A h \in Events : Kept(h)
    BY <1>2, <1>8, KeptFrame DEF CallFrame, Idle
  <2>2. UNCHANGED <<epfd, fails>> /\ ev[g].events # {}
    BY <1>2, <1>8 DEF CallFrame, Idle
  <2>3. epfd[gpoller]
    BY <1>2, <1>8, <2>2 DEF IInv, TypeOK, FlagsInv, EntryInv
  <2>4. Life(g) = "on" /\ WatchedFor(g) = ev[g].events
    BY <1>2, <1>8, <2>2, LifeCases DEF LifeTable, IInv, FlagsInv
  <2>5. PICK now \in SUBSET Flags : now = ev[g].events
    BY DEF IInv, TypeOK, PollerTypeOK
  <2>6. now = IF eflag \cap ev[g].events = {} THEN flags ELSE ev[g].events
    BY <1>8, <2>5
  <2>7. WatchedFor(g)' = now /\ Life(g)' = IF now = {} THEN "stopped" ELSE "on"
    BY <2>1, <2>2, <2>4, <2>5 DEF Kept
  <2> QED
    BY <1>6, <1>8, <2>1, <2>2, <2>3, <2>6, <2>7
<1> QED
  BY <1>1, <1>3, <1>4, <1>5, <1>7, <1>8, StartIs

\* gt_poller_event_stop is a stop or a refusal.
LEMMA StopWatch ==
    ASSUME IInv, IInv', NEW g \in Events, NEW eflag \in SUBSET Flags, EventStop(g, eflag)
    PROVE  Watch!Next
<1>1. PICK flags \in SUBSET Flags : flags = ev[g].events \ eflag
  BY DEF IInv, TypeOK, PollerTypeOK
<1>2. g \in alloc /\ CallFrame
  BY StopIs
<1>3. CASE Idle /\ told' = Report("stop", g, eflag, GT_OK) /\ g \in broken
  BY <1>2, <1>3, IdleDrifts
<1>4. CASE Taken(g, flags) /\ told' = Report("stop", g, eflag, GT_OK) /\ g \in broken
  BY <1>2, <1>4, TakenDrifts
<1>5. CASE /\ Refused(g, flags) /\ told' = Report("stop", g, eflag, GT_ERROR)
           /\ ev[g].events \cap eflag # {}
           /\ Breaks \/ g \in broken
  BY <1>2, <1>5, RefusedWatch
<1>6. ASSUME UNCHANGED <<epfd, fails>>, g \notin broken,
             \A h \in Events \ {g} : Kept(h), WatchedFor(g)' = flags,
             NEW to, to = (IF Life(g) = "on" /\ ev[g].events \subseteq eflag
                           THEN "stopped" ELSE Life(g)),
             Life(g)' = to, told' = Report("stop", g, eflag, GT_OK)
      PROVE  Watch!Next
  <2>1. Life(g) \in {"fresh", "on", "stopped"} /\ WatchedFor(g) = ev[g].events
    BY <1>2, <1>6, LifeCases DEF LifeTable, IInv, FlagsInv
  <2>2. /\ [h \in Events |-> Life(h)]' = [[h \in Events |-> Life(h)] EXCEPT ![g] = to]
        /\ [h \in Events |-> WatchedFor(h)]' =
               [[h \in Events |-> WatchedFor(h)] EXCEPT ![g] = flags]
    BY <1>6, OneMoves
  <2>3. [h \in Events |-> WatchedFor(h)]' =
            [[h \in Events |-> WatchedFor(h)] EXCEPT ![g] = @ \ eflag]
    BY <1>1, <2>1, <2>2
  <2>4. [h \in Events |-> Life(h)]' =
            [[h \in Events |-> Life(h)] EXCEPT ![g] =
                IF @ = "on" /\ [h \in Events |-> WatchedFor(h)][g] \subseteq eflag
                THEN "stopped" ELSE @]
    BY <1>6, <2>1, <2>2
  <2>5. told' = Watch!Report("stop", g, eflag, GT_OK)
    BY <1>6, ReportSame
  <2>6. Watch!Stop(g, eflag)
    BY <1>6, <2>1, <2>3, <2>4, <2>5 DEF Watch!Stop
  <2> QED
    BY <2>6 DEF Watch!Next
<1>7. CASE /\ Taken(g, flags) /\ told' = Report("stop", g, eflag, GT_OK) /\ g \notin broken
           /\ ev[g].events \cap eflag # {}
  <2>1. /\ \A h \in Events \ {g} : Kept(h)
        /\ WatchedFor(g)' = flags /\ Life(g)' = IF flags = {} THEN "stopped" ELSE "on"
    BY <1>2, <1>7, TakenMoves
  <2>2. UNCHANGED <<epfd, fails>>
    BY <1>2, <1>7 DEF CallFrame, Taken
  <2>3. Life(g) = "on"
    BY <1>2, <1>7, LifeCases DEF LifeTable
  <2>4. flags = {} <=> ev[g].events \subseteq eflag
    BY <1>1
  <2>5. Life(g)' = IF Life(g) = "on" /\ ev[g].events \subseteq eflag THEN "stopped" ELSE Life(g)
    BY <2>1, <2>3, <2>4
  <2> QED
    BY <1>6, <1>7, <2>1, <2>2, <2>5
<1>8. CASE /\ Idle /\ told' = Report("stop", g, eflag, GT_OK) /\ g \notin broken
           /\ ev[g].events \cap eflag = {}
  <2>1. \A h \in Events : Kept(h)
    BY <1>2, <1>8, KeptFrame DEF CallFrame, Idle
  <2>2. UNCHANGED <<epfd, fails>> /\ flags = ev[g].events
    BY <1>1, <1>2, <1>8 DEF CallFrame, Idle
  <2>3. WatchedFor(g) = ev[g].events /\ (Life(g) = "on" => ev[g].events # {})
    BY <1>2, <1>8, LifeCases DEF LifeTable, IInv, FlagsInv
  <2>4. WatchedFor(g)' = flags
    BY <2>1, <2>2, <2>3 DEF Kept
  <2>5. Life(g) = "on" => ~(ev[g].events \subseteq eflag)
    BY <1>8, <2>3
  <2>6. Life(g)' = IF Life(g) = "on" /\ ev[g].events \subseteq eflag THEN "stopped" ELSE Life(g)
    BY <2>1, <2>5 DEF Kept
  <2> QED
    BY <1>6, <1>8, <2>1, <2>2, <2>4, <2>6
<1> QED
  BY <1>1, <1>3, <1>4, <1>5, <1>7, <1>8, StopIs

\* Every step of the poller is a step of the promise, or none.
LEMMA StepWatch ==
    ASSUME IInv, IInv', [Next]_vars
    PROVE  [Watch!Next]_(Watch!vars)
<1>1. CASE UNCHANGED vars
  <2>1. UNCHANGED <<[h \in Events |-> Life(h)], [h \in Events |-> WatchedFor(h)]>>
    BY <1>1, KeptFrame, NoneMoves DEF vars, pollerVars
  <2> QED
    BY <1>1, <2>1 DEF vars, pollerVars, Watch!vars
<1> QED
  BY <1>1, InitPollerWatch, CleanWatch, WaitWatch, CreateWatch, DestroyWatch,
     StartWatch, StopWatch DEF Next

\* The functions of gt_poller.c implement the promise of GtWatch under any
\* sequence of calls with any flags, the results included: a start that
\* returns GT_OK has its flags watched unless one of them was before, in which
\* case nothing changes; a stop that returns GT_OK ends the watching for its
\* flags; handlers are called for what is watched only; and without a failure
\* of the system an error comes only from the start of an event whose poller
\* is not ready or which was stopped.
THEOREM PollerWatchesAsTold == Spec => WatchesAsTold
<1>1. Init => Watch!Init
  <2> SUFFICES ASSUME Init
               PROVE  Watch!Init
    OBVIOUS
  <2>1. LifeTable
    BY InitIInv, LifeCases
  <2>2. \A g \in Events : Life(g) = "none" /\ WatchedFor(g) = {}
    BY <2>1 DEF LifeTable, Init, PollerInit
  <2>3. epfd[gpoller] = FALSE
    BY PollerApiAssumption DEF Init, PollerInit
  <2> QED
    BY <2>2, <2>3, ReportSame DEF Init, PollerInit, Watch!Init
<1>2. IInv /\ IInv' /\ [Next]_vars => [Watch!Next]_(Watch!vars)
  BY StepWatch
<1> QED
  BY <1>1, <1>2, PollerInvariant, PTL DEF Spec, WatchesAsTold, Watch!Spec
=============================================================================
