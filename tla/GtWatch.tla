------------------------------ MODULE GtWatch ------------------------------
(***************************************************************************)
(* What a poller promises to a program that heeds its results, without     *)
(* epoll, descriptors or lists: an event is watched for the flags that     *)
(* were started and not stopped, and its handler is called for those only. *)
(* What the program is told, by the result of each call and by the calls   *)
(* of handlers, is part of the state, so that a call that returns GT_OK    *)
(* without doing what it should is a step that this module does not have.  *)
(* GtPollerApi implements it.                                              *)
(*                                                                         *)
(* The promise has limits.  A start that names a flag the event is watched *)
(* for already returns GT_OK and does nothing, also when it names others   *)
(* that are not watched.  An event that was stopped for all its flags, or  *)
(* started for none, cannot be started again.  And after a call that       *)
(* returned an error, or when the poller is cleaned, all bets on the event *)
(* are off until it is destroyed.                                          *)
(***************************************************************************)
EXTENDS Integers

CONSTANTS Events, Flags, GT_OK, GT_ERROR, Null,
          MaxFail    \* bound: failing calls

VARIABLES life,     \* event -> "none" | "fresh" | "on" | "stopped" | "broken"
          watched,  \* event -> the flags it is watched for
          ready,    \* can the poller watch at all?
          told,     \* the last call and its result, or the last handler call
          fails     \* failing calls so far

vars == <<life, watched, ready, told, fails>>

Report(op, g, flags, ret) == [op |-> op, event |-> g, flags |-> flags, ret |-> ret]

Init == /\ life = [g \in Events |-> "none"]
        /\ watched = [g \in Events |-> {}]
        /\ ready = FALSE
        /\ told = Report("none", Null, {}, GT_OK)
        /\ fails = 0

Fails == fails < MaxFail /\ fails' = fails + 1

\* A new event, or none because memory is short.
Create(g) == /\ life[g] = "none"
             /\ \/ /\ life' = [life EXCEPT ![g] = "fresh"]
                   /\ told' = Report("create", g, {}, GT_OK)
                   /\ UNCHANGED fails
                \/ /\ told' = Report("create", g, {}, GT_ERROR)
                   /\ Fails /\ UNCHANGED life
             /\ UNCHANGED <<watched, ready>>

\* The flags an event is watched for after a start.
Started(g, eflag) == IF eflag \cap watched[g] = {} THEN watched[g] \cup eflag ELSE watched[g]

Start(g, eflag) ==
    /\ ready /\ life[g] \in {"fresh", "on"}
    /\ watched' = [watched EXCEPT ![g] = Started(g, eflag)]
    /\ life' = [life EXCEPT ![g] = IF Started(g, eflag) = {} THEN "stopped" ELSE "on"]
    /\ told' = Report("start", g, eflag, GT_OK)
    /\ UNCHANGED <<ready, fails>>

Stop(g, eflag) ==
    /\ life[g] \in {"fresh", "on", "stopped"}
    /\ watched' = [watched EXCEPT ![g] = @ \ eflag]
    /\ life' = [life EXCEPT ![g] = IF @ = "on" /\ watched[g] \subseteq eflag
                                   THEN "stopped" ELSE @]
    /\ told' = Report("stop", g, eflag, GT_OK)
    /\ UNCHANGED <<ready, fails>>

\* A call returns an error and leaves what is watched alone.  It had
\* something to do.  Without a failure of the system only a start is refused,
\* by a poller that is not ready or of a stopped event.
Refuse(g, op, eflag) ==
    /\ life[g] \in {"fresh", "on", "stopped"}
    /\ \/ /\ op = "start" /\ eflag \cap watched[g] = {}
          /\ Fails \/ (UNCHANGED fails /\ (~ready \/ life[g] = "stopped"))
       \/ op = "stop" /\ eflag \cap watched[g] # {} /\ Fails
    /\ life' = [life EXCEPT ![g] = "broken"]
    /\ told' = Report(op, g, eflag, GT_ERROR)
    /\ UNCHANGED <<watched, ready>>

\* Later calls on such an event: nothing is promised.
Drift(g, op, eflag) ==
    /\ life[g] = "broken" /\ op \in {"start", "stop"}
    /\ \E flags \in SUBSET Flags : watched' = [watched EXCEPT ![g] = flags]
    /\ Fails \/ UNCHANGED fails
    /\ \E ret \in {GT_OK, GT_ERROR} : told' = Report(op, g, eflag, ret)
    /\ UNCHANGED <<life, ready>>

Destroy(g) == /\ life[g] # "none"
              /\ life' = [life EXCEPT ![g] = "none"]
              /\ watched' = [watched EXCEPT ![g] = {}]
              /\ told' = Report("destroy", g, {}, GT_OK)
              /\ UNCHANGED <<ready, fails>>

Handle(g, flag) == /\ ready /\ flag \in watched[g]
                   /\ told' = Report("handler", g, {flag}, GT_OK)
                   /\ UNCHANGED <<life, watched, ready, fails>>

\* The initialisation that fails may leave a poller that can watch.
GetReady == /\ \/ /\ ready' = TRUE /\ UNCHANGED fails
                  /\ told' = Report("init", Null, {}, GT_OK)
               \/ /\ ready' \in {ready, TRUE} /\ Fails
                  /\ told' = Report("init", Null, {}, GT_ERROR)
            /\ UNCHANGED <<life, watched>>

Clean == /\ ready' = FALSE
         /\ life' = [g \in Events |-> IF life[g] = "none" THEN "none" ELSE "broken"]
         /\ watched' = [g \in Events |-> {}]
         /\ told' = Report("clean", Null, {}, GT_OK)
         /\ UNCHANGED fails

Next == \/ \E g \in Events :
              \/ Create(g) \/ Destroy(g)
              \/ \E eflag \in SUBSET Flags :
                    \/ Start(g, eflag) \/ Stop(g, eflag)
                    \/ \E op \in {"start", "stop"} : Refuse(g, op, eflag) \/ Drift(g, op, eflag)
              \/ \E flag \in Flags : Handle(g, flag)
        \/ GetReady \/ Clean

Spec == Init /\ [][Next]_vars
=============================================================================
