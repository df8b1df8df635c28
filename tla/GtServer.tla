------------------------------ MODULE GtServer ------------------------------
(***************************************************************************)
(* What the network engine promises to its clients, without threads,       *)
(* descriptors, events or epoll sets: a connection is accepted, served     *)
(* until its client has gone and all it sent was read, and then closed.    *)
(* GtNetwork implements it.                                                *)
(*                                                                         *)
(* Two things go wrong and are part of the promise.  A call that fails     *)
(* right after accept closes the connection or makes the server lose it,   *)
(* and until every datanet poller is ready a connection may be lost        *)
(* without any failure.  A connection that is being served is neither      *)
(* dropped nor lost.                                                       *)
(***************************************************************************)
EXTENDS Integers

CONSTANTS Conns,
          MaxData,   \* bound: unread chunks of a connection
          MaxFail    \* bound: failing calls

VARIABLES state,   \* "idle" | "backlog" | "accepted" | "serving" | "lost" | "closed"
          peer,    \* what the client did: "up" | "fin" | "rst"
          unread,  \* chunks the server has not read
          ready,   \* are all datanet pollers ready?
          fails    \* failing calls so far

vars == <<state, peer, unread, ready, fails>>

Init == /\ state = [c \in Conns |-> "idle"]
        /\ peer = [c \in Conns |-> "up"]
        /\ unread = [c \in Conns |-> 0]
        /\ ready = FALSE
        /\ fails = 0

Becomes(c, from, to) == state[c] = from /\ state' = [state EXCEPT ![c] = to]

AtClient(c) == state[c] \notin {"idle", "closed"}

-----------------------------------------------------------------------------
(* The client.                                                             *)

Connect(c) == Becomes(c, "idle", "backlog") /\ UNCHANGED <<peer, unread, ready, fails>>

Send(c) == /\ AtClient(c) /\ peer[c] = "up" /\ unread[c] < MaxData
           /\ unread' = [unread EXCEPT ![c] = @ + 1]
           /\ UNCHANGED <<state, peer, ready, fails>>

Shutdown(c) == /\ AtClient(c) /\ peer[c] = "up"
               /\ peer' = [peer EXCEPT ![c] = "fin"]
               /\ UNCHANGED <<state, unread, ready, fails>>

Reset(c) == /\ AtClient(c) /\ peer[c] # "rst"
            /\ peer' = [peer EXCEPT ![c] = "rst"]
            /\ unread' = [unread EXCEPT ![c] = 0]
            /\ UNCHANGED <<state, ready, fails>>

-----------------------------------------------------------------------------
(* The server.                                                             *)

Fails == fails < MaxFail /\ fails' = fails + 1

Accept(c) == Becomes(c, "backlog", "accepted") /\ UNCHANGED <<peer, unread, ready, fails>>

Serve(c) == Becomes(c, "accepted", "serving") /\ UNCHANGED <<peer, unread, ready, fails>>

\* A failing call between accept and the epoll set.
Refuse(c) == Becomes(c, "accepted", "closed") /\ Fails /\ UNCHANGED <<peer, unread, ready>>

Lose(c) == /\ Becomes(c, "accepted", "lost")
           /\ Fails \/ (~ready /\ UNCHANGED fails)
           /\ UNCHANGED <<peer, unread, ready>>

Read(c) == /\ state[c] = "serving" /\ unread[c] > 0
           /\ unread' = [unread EXCEPT ![c] = @ - 1]
           /\ UNCHANGED <<state, peer, ready, fails>>

\* The client has gone and nothing it sent is left unread.
Close(c) == /\ Becomes(c, "serving", "closed")
            /\ peer[c] # "up" /\ unread[c] = 0
            /\ UNCHANGED <<peer, unread, ready, fails>>

\* The last datanet thread gets its poller ready.
GetReady == ready' = TRUE /\ UNCHANGED <<state, peer, unread, fails>>

\* Any other call fails, with no effect on a connection.
Endure == Fails /\ UNCHANGED <<state, peer, unread, ready>>

Next == \/ \E c \in Conns : \/ Connect(c) \/ Send(c) \/ Shutdown(c) \/ Reset(c)
                            \/ Accept(c) \/ Serve(c) \/ Refuse(c) \/ Lose(c)
                            \/ Read(c) \/ Close(c)
        \/ GetReady \/ Endure

Spec == Init /\ [][Next]_vars
=============================================================================
