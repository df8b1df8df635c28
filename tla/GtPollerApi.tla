---------------------------- MODULE GtPollerApi ----------------------------
(***************************************************************************)
(* The functions of user/core/gt_poller.c under any sequence of calls that *)
(* one thread can make: events are started, stopped, started again and     *)
(* destroyed, also before the poller is initialised and after it was       *)
(* cleaned, from handlers and from outside.  GtNetwork has the sequences   *)
(* the network engine makes, on several threads; here every function is    *)
(* one action, and gt_poller_clean, the flag EPOLLOUT and the write        *)
(* handler, which the network engine does not use, are there too.          *)
(***************************************************************************)
EXTENDS GtPoller

CONSTANT gpoller   \* the poller

ASSUME PollerApiAssumption ==
    /\ Pollers = {gpoller} /\ gpoller \notin Events
    /\ Null \notin Events \cup Pollers \cup FDs
    /\ NoConn \notin Conns /\ MaxFail \in Nat

VARIABLES pstate,   \* "zero", "ready", or "failed" in gt_poller_init
          broken,   \* events for which a call returned an error, or that
                    \* were there when their poller was cleaned
          told,     \* what the program was told last: the result of its call,
                    \* or a call of one of its handlers
          warned    \* the calls of gt_poller_clean that gave the warning

vars == <<pollerVars, pstate, broken, told, warned>>

Report(op, g, flags, ret) == [op |-> op, event |-> g, flags |-> flags, ret |-> ret]

Init == /\ PollerInit /\ pstate = "zero" /\ broken = {} /\ warned = FALSE
        /\ told = Report("none", Null, {}, GT_OK)

-----------------------------------------------------------------------------
\* gt_poller_init: without the event array the epoll set stays.  A program
\* whose gt_poller_init failed does not call it again.
gt_poller_init ==
    /\ pstate = "zero"
    /\ \/ /\ epfd' = [epfd EXCEPT ![gpoller] = TRUE]
          /\ mem' = INIT_LIST_HEAD(mem, gpoller)
          /\ pstate' = "ready" /\ Works
          /\ told' = Report("init", Null, {}, GT_OK)
       \/ /\ epfd' = [epfd EXCEPT ![gpoller] = TRUE]
          /\ pstate' = "failed" /\ Breaks /\ UNCHANGED mem
          /\ told' = Report("init", Null, {}, GT_ERROR)
       \/ /\ pstate' = "failed" /\ Breaks /\ UNCHANGED <<epfd, mem>>
          /\ told' = Report("init", Null, {}, GT_ERROR)
    /\ UNCHANGED <<sock, reg, alloc, ev, broken, warned>>

\* Mutant: ge->gpoller is not set.
MUT_NoPoller(f, g) == [NoEvent EXCEPT !.efd = f, !.read = TRUE]

\* The gt_event after gt_poller_gevent_create; the caller sets its handlers.
NewEvent(f, g) == [NoEvent EXCEPT !.efd = f, !.read = TRUE, !.gpoller = gpoller]

\* The caller opens a descriptor and makes an event for it; without memory it
\* gives the descriptor up.
gt_poller_gevent_create(f, g) ==
    /\ Closed(f) /\ g \in Events \ alloc
    /\ \/ /\ \E c \in Conns : sock' = [sock EXCEPT ![f] = c]
          /\ alloc' = alloc \cup {g}
          /\ ev' = [ev EXCEPT ![g] = NewEvent(f, g)]
          /\ mem' = list_add(INIT_LIST_HEAD(mem, g), gpoller, g)
          /\ told' = Report("create", g, {}, GT_OK) /\ Works
       \/ /\ told' = Report("create", g, {}, GT_ERROR)
          /\ Breaks /\ UNCHANGED <<sock, alloc, ev, mem>>
    /\ UNCHANGED <<reg, epfd, pstate, broken, warned>>

\* The caller remembers the events for which an error was returned.
Heed(op, g, eflag, ret) ==
    /\ broken' = IF ret = GT_OK THEN broken ELSE broken \cup {g}
    /\ told' = Report(op, g, eflag, ret)

EventStart(g, eflag) ==
    /\ g \in alloc
    /\ \E ret \in {GT_OK, GT_ERROR} : /\ gt_poller_event_start(eflag, g, ret)
                                      /\ Heed("start", g, eflag, ret)
    /\ UNCHANGED <<sock, epfd, alloc, mem, pstate, warned>>

EventStop(g, eflag) ==
    /\ g \in alloc
    /\ \E ret \in {GT_OK, GT_ERROR} : /\ gt_poller_event_stop(eflag, g, ret)
                                      /\ Heed("stop", g, eflag, ret)
    /\ UNCHANGED <<sock, epfd, alloc, mem, pstate, warned>>

\* Mutant: the event stays on the elist.
MUT_KeepsLinked(g) ==
    /\ g \in alloc
    /\ ev' = [ev EXCEPT ![g].events = {}]
    /\ close(ev[g].efd)
    /\ alloc' = alloc \ {g} /\ broken' = broken \ {g}
    /\ told' = Report("destroy", g, {}, GT_OK)
    /\ UNCHANGED <<mem, epfd, fails, pstate, warned>>

\* Its gt_poller_event_stop may fail: close takes the entry away anyway.
gt_poller_gevent_destroy(g) ==
    /\ g \in alloc
    /\ ev' = [ev EXCEPT ![g].events = {}]
    /\ mem' = list_del(mem, g)
    /\ close(ev[g].efd)
    /\ alloc' = alloc \ {g} /\ broken' = broken \ {g}
    /\ told' = Report("destroy", g, {}, GT_OK)
    /\ UNCHANGED <<epfd, fails, pstate, warned>>

\* gt_poller_clean closes the epoll set, which ends all its entries.
gt_poller_clean ==
    /\ pstate = "ready"
    /\ warned' = ~list_empty(mem, gpoller)
    /\ epfd' = [epfd EXCEPT ![gpoller] = FALSE]
    /\ reg' = [f \in FDs |-> NoReg]
    /\ pstate' = "zero" /\ broken' = alloc
    /\ told' = Report("clean", Null, {}, GT_OK)
    /\ UNCHANGED <<sock, alloc, ev, mem, fails>>

\* The handler a report asks for: read before write.
HandlerFor(events) == IF "EPOLLIN" \in events THEN "EPOLLIN" ELSE "EPOLLOUT"

\* gt_poller_epoll_wait with maxe = 1: one event per call, for some of the
\* flags the kernel watches it for.  A report with neither flag (an error of
\* a descriptor that is watched for none) calls no handler.
gt_poller_epoll_wait ==
    /\ pstate = "ready"
    /\ \E f \in FDs : \E events \in (SUBSET reg[f].events) \ {{}} :
           told' = Report("handler", reg[f].ptr, {HandlerFor(events)}, GT_OK)
    /\ UNCHANGED <<pollerVars, pstate, broken, warned>>

Next == \/ gt_poller_init \/ gt_poller_clean \/ gt_poller_epoll_wait
        \/ \E f \in FDs, g \in Events : gt_poller_gevent_create(f, g)
        \/ \E g \in Events : \/ gt_poller_gevent_destroy(g)
                             \/ \E eflag \in SUBSET Flags :
                                    EventStart(g, eflag) \/ EventStop(g, eflag)

Spec == Init /\ [][Next]_vars

-----------------------------------------------------------------------------
Reports == [op : {"none", "init", "clean", "create", "destroy", "start", "stop", "handler"},
            event : Events \cup {Null}, flags : SUBSET Flags, ret : {GT_OK, GT_ERROR}]

TypeOK == /\ PollerTypeOK
          /\ \A g \in alloc : ev[g].efd \in FDs /\ ev[g].gpoller = gpoller
          /\ pstate \in {"zero", "ready", "failed"}
          /\ broken \in SUBSET alloc
          /\ told \in Reports
          /\ warned \in BOOLEAN

\* How an event stands with the kernel, and what it is watched for.
Life(g) == IF g \notin alloc THEN "none"
           ELSE IF g \in broken THEN "broken"
           ELSE IF ev[g].events # {} THEN "on"
           ELSE IF Registered(ev[g].efd) THEN "stopped" ELSE "fresh"

WatchedFor(g) == IF g \in alloc THEN reg[ev[g].efd].events ELSE {}

Watch == INSTANCE GtWatch WITH life <- [g \in Events |-> Life(g)],
                               watched <- [g \in Events |-> WatchedFor(g)],
                               ready <- epfd[gpoller]

\* The flags an event keeps and the choice between EPOLL_CTL_ADD and MOD
\* that is made from them stay in step with the kernel.  A start that returns
\* GT_OK has all its flags watched if none of them was before, and changes
\* nothing otherwise; a stop that returns GT_OK ends the watching for its
\* flags; handlers are called for what is watched only; and without a failure
\* of the system an error is returned only by the start of an event whose
\* poller is not ready or which was stopped for all its flags.  The comment
\* "events have been registered" at the early return of gt_poller_event_start
\* says more than this: when one of several flags was set before, the others
\* are not registered.
WatchesAsTold == Watch!Spec

\* A warning of gt_poller_clean is true: the poller still has an event.  (The
\* converse does not hold: ElistListsEvents of GtNetwork.)
NoFalseAlarm == [][gt_poller_clean /\ warned' => alloc # {}]_vars
=============================================================================
