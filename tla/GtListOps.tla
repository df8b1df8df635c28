----------------------------- MODULE GtListOps -----------------------------
(***************************************************************************)
(* The pointer operations of user/comm/gt_list.h.  A memory m is a pair of *)
(* functions m.next and m.prev from the addresses of the list_head structs *)
(* to addresses; every operator returns the memory its writes leave, in    *)
(* the order of the code, so that aliased arguments (an empty list, one    *)
(* entry, neighbours) behave as they do in C.                              *)
(***************************************************************************)
CONSTANTS LIST_POISON1, LIST_POISON2   \* what list_del leaves in an entry

INIT_LIST_HEAD(m, list) ==
    [m EXCEPT !.next[list] = list, !.prev[list] = list]

\* The four writes of __list_add, in two halves.
list_add_first_half(m, xnew, prev, next) ==
    [m EXCEPT !.prev[next] = xnew, !.next[xnew] = next]

list_add_second_half(m, xnew, prev, next) ==
    [m EXCEPT !.prev[xnew] = prev, !.next[prev] = xnew]

__list_add(m, xnew, prev, next) ==
    list_add_second_half(list_add_first_half(m, xnew, prev, next), xnew, prev, next)

list_add(m, xnew, head) == __list_add(m, xnew, head, m.next[head])

list_add_tail(m, xnew, head) == __list_add(m, xnew, m.prev[head], head)

\* The two writes of __list_del, one at a time.
list_del_first_half(m, prev, next) == [m EXCEPT !.prev[next] = prev]

list_del_second_half(m, prev, next) == [m EXCEPT !.next[prev] = next]

__list_del(m, prev, next) ==
    list_del_second_half(list_del_first_half(m, prev, next), prev, next)

\* Mutant: the two poison values change places.
MUT_PoisonsSwapped(m, entry) ==
    [m EXCEPT !.next[entry] = LIST_POISON2, !.prev[entry] = LIST_POISON1]

Poison(m, entry) ==
    [m EXCEPT !.next[entry] = LIST_POISON1, !.prev[entry] = LIST_POISON2]

list_del(m, entry) ==
    Poison(__list_del(m, m.prev[entry], m.next[entry]), entry)

list_del_init(m, entry) ==
    INIT_LIST_HEAD(__list_del(m, m.prev[entry], m.next[entry]), entry)

\* Mutant: all four pointers of old are read before the first write.
MUT_ReadsOldFirst(m, old, xnew) ==
    [m EXCEPT !.next[xnew] = m.next[old], !.prev[m.next[old]] = xnew,
              !.prev[xnew] = m.prev[old], !.next[m.prev[old]] = xnew]

\* Each of the four writes reads what the earlier ones wrote: with an empty
\* `old` the second one redirects old->prev, which the third one reads.
list_replace(m, old, xnew) ==
    LET m1 == [m EXCEPT !.next[xnew] = m.next[old]]
        m2 == [m1 EXCEPT !.prev[m1.next[xnew]] = xnew]
        m3 == [m2 EXCEPT !.prev[xnew] = m2.prev[old]]
    IN  [m3 EXCEPT !.next[m3.prev[xnew]] = xnew]

list_replace_init(m, old, xnew) == INIT_LIST_HEAD(list_replace(m, old, xnew), old)

list_move(m, list, head) ==
    list_add(__list_del(m, m.prev[list], m.next[list]), list, head)

list_move_tail(m, list, head) ==
    list_add_tail(__list_del(m, m.prev[list], m.next[list]), list, head)

list_is_last(m, list, head) == m.next[list] = head

list_empty(m, head) == m.next[head] = head

list_empty_careful(m, head) == m.next[head] = head /\ m.next[head] = m.prev[head]

__list_splice(m, list, prev, next) ==
    LET first == m.next[list]
        last  == m.prev[list]
    IN  [m EXCEPT !.prev[first] = prev, !.next[prev] = first,
                  !.next[last] = next, !.prev[next] = last]

list_splice(m, list, head) ==
    IF list_empty(m, list) THEN m ELSE __list_splice(m, list, head, m.next[head])

list_splice_tail(m, list, head) ==
    IF list_empty(m, list) THEN m ELSE __list_splice(m, list, m.prev[head], head)

list_splice_init(m, list, head) ==
    IF list_empty(m, list) THEN m
    ELSE INIT_LIST_HEAD(__list_splice(m, list, head, m.next[head]), list)

list_splice_tail_init(m, list, head) ==
    IF list_empty(m, list) THEN m
    ELSE INIT_LIST_HEAD(__list_splice(m, list, m.prev[head], head), list)
=============================================================================
