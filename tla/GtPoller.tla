------------------------------ MODULE GtPoller ------------------------------
(***************************************************************************)
(* user/core/gt_poller.c: the pollers, the gt_events registered with them, *)
(* and what they share: the heap, the descriptor table, the kernel's epoll *)
(* sets and the elist every poller keeps its events on.                    *)
(*                                                                         *)
(* The functions are actions that other modules put together.  Where two   *)
(* threads can be in a function at once (the list updates), the function   *)
(* is split between its writes to shared memory; where only the caller can *)
(* tell, it is one action.  A function that returns a code takes it as the *)
(* parameter ret.                                                          *)
(***************************************************************************)
EXTENDS GtListOps, Integers

CONSTANTS FDs,        \* descriptor numbers
          Pollers,    \* struct gt_poller objects, and the elist heads in them
          Events,     \* heap addresses malloc may return for a gt_event
          Conns,      \* what a descriptor can be open on
          NoConn,     \* the descriptor is closed
          Null,
          MaxFail     \* bound: failures of malloc and of system calls

GT_OK == 0
GT_ERROR == -1

Flags == {"EPOLLIN", "EPOLLOUT"}

VARIABLES sock,       \* descriptor -> what it is open on
          reg,        \* descriptor -> its entry in the kernel's epoll set
          epfd,       \* poller -> has epoll_create been called for it?
          alloc,      \* the gt_events malloc gave out and free did not get
          ev,         \* contents of the gt_event at an address
          mem,        \* the list_head in each poller and each gt_event
          fails       \* failures so far

pollerVars == <<sock, reg, epfd, alloc, ev, mem, fails>>

Closed(f) == sock[f] = NoConn
Registered(f) == reg[f].ptr # Null
NoReg == [epfd |-> Null, events |-> {}, ptr |-> Null]
NoEvent == [efd |-> Null, events |-> {}, read |-> FALSE, gpoller |-> Null]

Works == UNCHANGED fails
Breaks == fails < MaxFail /\ fails' = fails + 1

\* Static storage is zeroed: no poller has an epoll set, no elist is a list.
PollerInit ==
    /\ sock = [f \in FDs |-> NoConn]
    /\ reg = [f \in FDs |-> NoReg]
    /\ epfd = [p \in Pollers |-> FALSE]
    /\ alloc = {}
    /\ ev = [g \in Events |-> NoEvent]
    /\ mem = [next |-> [n \in Pollers \cup Events |-> Null],
              prev |-> [n \in Pollers \cup Events |-> Null]]
    /\ fails = 0

-----------------------------------------------------------------------------
\* epoll_ctl: ADD wants a descriptor the set does not hold, MOD one it does,
\* and both a poller with an epoll set; the kernel may be out of memory.
CtlAccepts(op, p, f) == /\ epfd[p] /\ ~Closed(f)
                        /\ CASE op = "ADD" -> ~Registered(f)
                             [] op = "MOD" -> reg[f].epfd = p

epoll_ctl(op, p, f, events, ptr, ret) ==
    \/ /\ ret = GT_OK
       /\ CtlAccepts(op, p, f)
       /\ reg' = [reg EXCEPT ![f] = [epfd |-> p, events |-> events, ptr |-> ptr]]
       /\ Works
    \/ /\ ret = GT_ERROR
       /\ IF CtlAccepts(op, p, f) THEN Breaks ELSE Works
       /\ UNCHANGED reg

\* close(2): the last descriptor of a file also leaves its epoll set.
close(f) == /\ sock' = [sock EXCEPT ![f] = NoConn]
            /\ reg' = [reg EXCEPT ![f] = NoReg]

-----------------------------------------------------------------------------
\* Mutant: the operation is always EPOLL_CTL_ADD.
MUT_AlwaysAdd(eflag, g, ret) ==
    IF ev[g].events \cap eflag # {}
    THEN ret = GT_OK /\ Works /\ UNCHANGED <<ev, reg>>
    ELSE /\ ev' = [ev EXCEPT ![g].events = @ \cup eflag]
         /\ epoll_ctl("ADD", ev[g].gpoller, ev[g].efd, ev[g].events \cup eflag, g, ret)

\* e.events is updated before epoll_ctl is asked, and stays updated when
\* epoll_ctl refuses.
gt_poller_event_start(eflag, g, ret) ==
    IF ev[g].events \cap eflag # {}
    THEN ret = GT_OK /\ Works /\ UNCHANGED <<ev, reg>>
    ELSE /\ ev' = [ev EXCEPT ![g].events = @ \cup eflag]
         /\ epoll_ctl(IF ev[g].events = {} THEN "ADD" ELSE "MOD",
                      ev[g].gpoller, ev[g].efd, ev[g].events \cup eflag, g, ret)

\* The operation is MOD whenever the function gets as far as epoll_ctl: DEL
\* is chosen only for an event without flags, which returns early.
gt_poller_event_stop(eflag, g, ret) ==
    IF ev[g].events \cap eflag = {}
    THEN ret = GT_OK /\ Works /\ UNCHANGED <<ev, reg>>
    ELSE /\ ev' = [ev EXCEPT ![g].events = @ \ eflag]
         /\ epoll_ctl("MOD", ev[g].gpoller, ev[g].efd, ev[g].events \ eflag, g, ret)

\* gt_poller_gevent_create up to the first writes of list_add, whose
\* arguments are the poller's elist as the new entry and the event's own,
\* just initialised, list_head as the head.
gevent_create_alloc(f, p, g) ==
    LET m == INIT_LIST_HEAD(mem, g)
    IN  /\ g \in Events \ alloc
        /\ alloc' = alloc \cup {g}
        /\ ev' = [ev EXCEPT ![g] = [NoEvent EXCEPT !.efd = f]]
        /\ mem' = list_add_first_half(m, p, g, m.next[g])
        /\ Works
        /\ UNCHANGED <<sock, reg, epfd>>

\* The rest of list_add, and ge->gpoller = gpoller.
gevent_create_link(p, g) ==
    /\ mem' = list_add_second_half(mem, p, g, g)
    /\ ev' = [ev EXCEPT ![g].gpoller = p]
    /\ Works
    /\ UNCHANGED <<sock, reg, epfd, alloc>>

\* gt_poller_gevent_destroy, one shared write at a time: list_del, close,
\* gt_free_mem.  Its gt_poller_event_stop(e.events) comes first.
gevent_destroy_unlink(g) ==
    /\ mem' = list_del_first_half(mem, mem.prev[g], mem.next[g])
    /\ UNCHANGED <<sock, reg, epfd, alloc, ev, fails>>

\* Mutant: the second write of list_del is missing.
MUT_HalfUnlinked(g) ==
    /\ mem' = Poison(mem, g)
    /\ UNCHANGED <<sock, reg, epfd, alloc, ev, fails>>

gevent_destroy_unlinked(g) ==
    /\ mem' = Poison(list_del_second_half(mem, mem.prev[g], mem.next[g]), g)
    /\ UNCHANGED <<sock, reg, epfd, alloc, ev, fails>>

\* Mutant: the descriptor is not closed before the event is freed.
MUT_NotClosed(g) == UNCHANGED <<sock, reg, epfd, alloc, ev, mem, fails>>

gevent_destroy_close(g) ==
    /\ close(ev[g].efd)
    /\ UNCHANGED <<epfd, alloc, ev, mem, fails>>

gevent_destroy_free(g) ==
    /\ alloc' = alloc \ {g}
    /\ UNCHANGED <<sock, reg, epfd, ev, mem, fails>>

\* gt_poller_init: epoll_create, then the event array, then the elist.
poller_init_epfd(p) ==
    /\ epfd' = [epfd EXCEPT ![p] = TRUE]
    /\ Works
    /\ UNCHANGED <<sock, reg, alloc, ev, mem>>

poller_init_elist(p) ==
    /\ mem' = INIT_LIST_HEAD(mem, p)
    /\ Works
    /\ UNCHANGED <<sock, reg, epfd, alloc, ev>>

-----------------------------------------------------------------------------
PollerTypeOK ==
    /\ sock \in [FDs -> Conns \cup {NoConn}]
    /\ reg \in [FDs -> [epfd : Pollers, events : SUBSET Flags, ptr : Events]
                       \cup {NoReg}]
    /\ epfd \in [Pollers -> BOOLEAN]
    /\ alloc \in SUBSET Events
    /\ ev \in [Events -> [efd : FDs \cup {Null}, events : SUBSET Flags,
                          read : BOOLEAN, gpoller : Pollers \cup {Null}]]
    /\ LET Pointers == Pollers \cup Events \cup {Null, LIST_POISON1, LIST_POISON2}
       IN  mem \in [next : [Pollers \cup Events -> Pointers],
                    prev : [Pollers \cup Events -> Pointers]]
    /\ fails \in 0..MaxFail

\* The pointer the kernel hands back for a descriptor is a live event of that
\* descriptor and that poller with its read handler set: whatever epoll_wait
\* returns may be called.  The event outlives the registration because
\* gt_poller_gevent_destroy closes before it frees.
KernelPointersLive ==
    \A f \in FDs : Registered(f) =>
        LET g == reg[f].ptr
        IN  /\ g \in alloc /\ ~Closed(f)
            /\ ev[g].efd = f /\ ev[g].read
            /\ ev[g].gpoller = reg[f].epfd

\* An elist never points at a freed event, although a poller's events are
\* created and destroyed by different threads without a lock.
ElistNotDangling ==
    \A p \in Pollers : {mem.next[p], mem.prev[p]} \subseteq alloc \cup {p, Null}
=============================================================================
