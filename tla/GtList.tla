------------------------------- MODULE GtList -------------------------------
(***************************************************************************)
(* The doubly linked lists of user/comm/gt_list.h as an abstract data      *)
(* type: next to the memory the operations write, the machine keeps the    *)
(* sequence every list stands for, updated by what the comment of each     *)
(* operation promises.  The invariants say that the pointers always spell  *)
(* that sequence, forwards and backwards, and that the iteration macros    *)
(* visit what they should although the loop body takes entries away.       *)
(*                                                                         *)
(* Operations are called as their comments demand: an entry is added only  *)
(* when it is on no list, deleted only when it is on one, and a head whose *)
(* contents were spliced or moved away without _init is not used again     *)
(* before INIT_LIST_HEAD.                                                  *)
(***************************************************************************)
EXTENDS GtListOps, Integers, Sequences, SequencesExt

CONSTANTS Heads, Entries,   \* the list_head structs of lists and of entries
          Null,             \* the value of a pointer that was never set
          Stale             \* the contents of a head that may not be used

ASSUME ListAssumption ==
    /\ Heads \cap Entries = {}
    /\ {Null, LIST_POISON1, LIST_POISON2} \cap (Heads \cup Entries) = {}
    /\ Stale \notin Seq(Entries)

VARIABLES mem,     \* [next, prev]
          list,    \* head -> the entries it holds, or Stale
          cursor   \* the running loop, if any: its macro, head, pos and n,
                   \* and the entries it still has to visit

vars == <<mem, list, cursor>>

Nodes == Heads \cup Entries

NoLoop == [head |-> Null]

Usable(h) == list[h] # Stale

OnList(e, h) == Usable(h) /\ e \in ToSet(list[h])

OffList(e) == \A h \in Heads : ~OnList(e, h)

\* Outside a loop any operation may be called.
Call(m, l) == cursor = NoLoop /\ mem' = m /\ list' = l /\ UNCHANGED cursor

\* The place of e in the sequence l.
Place(l, e) == SelectInSeq(l, LAMBDA x : x = e)

\* Memory is zeroed; the heads have been through INIT_LIST_HEAD.
Init == /\ mem = [next |-> [n \in Nodes |-> IF n \in Heads THEN n ELSE Null],
                  prev |-> [n \in Nodes |-> IF n \in Heads THEN n ELSE Null]]
        /\ list = [h \in Heads |-> <<>>]
        /\ cursor = NoLoop

-----------------------------------------------------------------------------
\* INIT_LIST_HEAD on a head that may not be used as it is.
Reinit(h) == /\ ~Usable(h)
             /\ Call(INIT_LIST_HEAD(mem, h), [list EXCEPT ![h] = <<>>])

Add(e, h) == /\ OffList(e) /\ Usable(h)
             /\ \/ Call(list_add(mem, e, h), [list EXCEPT ![h] = <<e>> \o @])
                \/ Call(list_add_tail(mem, e, h), [list EXCEPT ![h] = Append(@, e)])

Delete(e, h) == /\ OnList(e, h)
                /\ \/ Call(list_del(mem, e), [list EXCEPT ![h] = RemoveFirst(@, e)])
                   \/ Call(list_del_init(mem, e), [list EXCEPT ![h] = RemoveFirst(@, e)])

\* An entry takes the place of another one.
ReplaceEntry(e, f, h) ==
    LET l == [list EXCEPT ![h][Place(list[h], e)] = f]
    IN  /\ OnList(e, h) /\ OffList(f)
        /\ Call(list_replace(mem, e, f), l) \/ Call(list_replace_init(mem, e, f), l)

\* A head takes over the list of another one.
ReplaceHead(h, g) ==
    /\ h # g /\ Usable(h) /\ (Usable(g) => list[g] = <<>>)
    /\ \/ Call(list_replace(mem, h, g), [list EXCEPT ![g] = list[h], ![h] = Stale])
       \/ Call(list_replace_init(mem, h, g), [list EXCEPT ![g] = list[h], ![h] = <<>>])

Move(e, h, g) ==
    LET without == [list EXCEPT ![h] = RemoveFirst(@, e)]
    IN  /\ OnList(e, h) /\ Usable(g)
        /\ \/ Call(list_move(mem, e, g), [without EXCEPT ![g] = <<e>> \o @])
           \/ Call(list_move_tail(mem, e, g), [without EXCEPT ![g] = Append(@, e)])

\* Without _init the emptied head keeps pointers into the other list, except
\* when there was nothing to splice.
Splice(h, g) ==
    LET rest == IF list[h] = <<>> THEN <<>> ELSE Stale
        front == list[h] \o list[g]
        back == list[g] \o list[h]
    IN  /\ h # g /\ Usable(h) /\ Usable(g)
        /\ \/ Call(list_splice(mem, h, g), [list EXCEPT ![g] = front, ![h] = rest])
           \/ Call(list_splice_tail(mem, h, g), [list EXCEPT ![g] = back, ![h] = rest])
           \/ Call(list_splice_init(mem, h, g), [list EXCEPT ![g] = front, ![h] = <<>>])
           \/ Call(list_splice_tail_init(mem, h, g), [list EXCEPT ![g] = back, ![h] = <<>>])

-----------------------------------------------------------------------------
(* The iteration macros.  They differ in where they begin ("first": at the *)
(* end of the list, "after" or "at" a given pos), in the direction, and in *)
(* whether n saves the entry that comes next.  The _entry variants do the  *)
(* same through list_entry, whose pos stands for &pos->member here.        *)

Macro(from, dir, safe) == [from |-> from, dir |-> dir, safe |-> safe]

Macros == {Macro("first", "next", FALSE),  \* list_for_each, __list_for_each, _entry
           Macro("first", "prev", FALSE),  \* list_for_each_prev, _entry_reverse
           Macro("first", "next", TRUE),   \* list_for_each_safe, _entry_safe
           Macro("first", "prev", TRUE),   \* _entry_safe_reverse
           Macro("after", "next", FALSE),  \* _entry_continue
           Macro("after", "next", TRUE),   \* _entry_safe_continue
           Macro("at", "next", FALSE),     \* _entry_from
           Macro("at", "next", TRUE)}      \* _entry_safe_from

Step(m, dir, n) == IF dir = "next" THEN m.next[n] ELSE m.prev[n]

\* The entries of list h from e on, in the direction of the loop; after the
\* head, which list_prepare_entry makes of a NULL, comes the whole list.
Ahead(h, e, dir) ==
    LET l == IF dir = "next" THEN list[h] ELSE Reverse(list[h])
    IN  IF e = h THEN l ELSE SubSeq(l, Place(l, e), Len(l))

for_each_start(h, e, k) ==
    LET pos == IF k.from = "at" THEN e ELSE Step(mem, k.dir, e)
        beyond == Ahead(h, e, k.dir)
    IN  /\ cursor = NoLoop /\ Usable(h) /\ (e = h \/ OnList(e, h))
        /\ k.from = "first" => e = h
        /\ cursor' = [head |-> h, macro |-> k, pos |-> pos,
                      n |-> IF k.safe THEN Step(mem, k.dir, pos) ELSE Null,
                      rest |-> CASE k.from = "at" /\ e = h -> <<>>
                                 [] k.from = "after" /\ e # h -> Tail(beyond)
                                 [] OTHER -> beyond]
        /\ UNCHANGED <<mem, list>>

\* Mutant: a safe loop, too, goes on from what pos points at after the body.
MUT_ReadsAfterBody(m, rest) ==
    cursor' = [cursor EXCEPT !.rest = rest, !.pos = Step(m, cursor.macro.dir, cursor.pos)]

\* pos = n and n = pos->next, or pos = pos->next, after a body that left
\* memory m behind.
for_each_advance(m, rest) ==
    LET dir == cursor.macro.dir
        pos == IF cursor.macro.safe THEN cursor.n ELSE Step(m, dir, cursor.pos)
    IN  cursor' = [cursor EXCEPT !.rest = rest, !.pos = pos,
                                 !.n = IF cursor.macro.safe THEN Step(m, dir, pos) ELSE @]

\* The loop body does nothing, deletes the entry it is at or moves it to
\* another list (in a safe loop), or deletes another entry (in a safe loop
\* not the one that comes next).
for_each_body ==
    LET h == cursor.head
        here == cursor.pos
    IN  /\ cursor # NoLoop /\ here # h
        /\ \/ /\ UNCHANGED <<mem, list>>
              /\ for_each_advance(mem, Tail(cursor.rest))
           \/ /\ cursor.macro.safe
              /\ \/ /\ mem' = list_del(mem, here) \/ mem' = list_del_init(mem, here)
                    /\ list' = [list EXCEPT ![h] = RemoveFirst(@, here)]
                 \/ \E g \in Heads \ {h} :
                       /\ Usable(g)
                       /\ mem' = list_move_tail(mem, here, g)
                       /\ list' = [list EXCEPT ![h] = RemoveFirst(@, here), ![g] = Append(@, here)]
              /\ for_each_advance(mem', Tail(cursor.rest))
           \/ \E e \in ToSet(list[h]) \ {here, cursor.n} :
                 /\ mem' = list_del(mem, e)
                 /\ list' = [list EXCEPT ![h] = RemoveFirst(@, e)]
                 /\ for_each_advance(mem', RemoveFirst(Tail(cursor.rest), e))

for_each_end == /\ cursor # NoLoop /\ cursor.pos = cursor.head
                /\ cursor' = NoLoop
                /\ UNCHANGED <<mem, list>>

Next == \/ \E h \in Heads : Reinit(h)
        \/ \E e \in Entries, h \in Heads : Add(e, h) \/ Delete(e, h)
        \/ \E e, f \in Entries, h \in Heads : ReplaceEntry(e, f, h)
        \/ \E e \in Entries, h, g \in Heads : Move(e, h, g)
        \/ \E h, g \in Heads : ReplaceHead(h, g) \/ Splice(h, g)
        \/ \E h \in Heads, e \in Nodes, k \in Macros : for_each_start(h, e, k)
        \/ for_each_body
        \/ for_each_end

Spec == Init /\ [][Next]_vars
-----------------------------------------------------------------------------
TypeOK == /\ mem \in [next : [Nodes -> Nodes \cup {Null, LIST_POISON1}],
                      prev : [Nodes -> Nodes \cup {Null, LIST_POISON2}]]
          /\ \A h \in Heads : Usable(h) => list[h] \in Seq(Entries)

\* Starting at a head, next visits the list in order and prev in reverse, and
\* both come back to the head: every operation of gt_list.h leaves behind
\* the list its comment promises, for every aliasing of its arguments, and
\* list_empty, list_empty_careful and list_is_last answer what it says.
PointersSpellList ==
    \A h \in Heads : Usable(h) =>
        LET ring == <<h>> \o list[h]
            succ(i) == IF i = Len(ring) THEN 1 ELSE i + 1
        IN  /\ \A i \in 1..Len(ring) : /\ mem.next[ring[i]] = ring[succ(i)]
                                       /\ mem.prev[ring[succ(i)]] = ring[i]
            /\ list_empty(mem, h) <=> list[h] = <<>>
            /\ list_empty_careful(mem, h) <=> list[h] = <<>>
            /\ \A e \in ToSet(list[h]) : list_is_last(mem, e, h) <=> e = Last(list[h])

\* Every iteration macro is where it should be: at the next entry, in its
\* direction, of those that were ahead when the loop began and that the body
\* has not taken away, and at the head when none is left.  So it visits each
\* of them once, and ends.
LoopOnCourse ==
    cursor # NoLoop =>
        cursor.pos = IF cursor.rest = <<>> THEN cursor.head ELSE Head(cursor.rest)
=============================================================================
