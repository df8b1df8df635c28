---------------------------- MODULE GtListProofs ----------------------------
(***************************************************************************)
(* Proofs about GtList: for any sets of heads and entries, the pointers    *)
(* always spell the lists and every iteration macro is on course.          *)
(*                                                                         *)
(* A list of n entries is a ring of n + 1 different nodes c[0], ..., c[n]  *)
(* with the head at position 0.  The proof goes up in four layers: what    *)
(* the pointer writes of an operation make of a ring; which ring the       *)
(* sequence of the abstract list stands for; what an operation makes of    *)
(* the memory of one list, or of two, and which nodes it leaves alone; and *)
(* what that means for all the lists at once.  ListInv adds the place of a *)
(* running loop.                                                           *)
(***************************************************************************)
EXTENDS GtList, TLAPS

-----------------------------------------------------------------------------
(* Rings: the nodes c[0], ..., c[n] of a list, its head first.             *)

Succ(n, i) == IF i = n THEN 0 ELSE i + 1
Pred(n, i) == IF i = 0 THEN n ELSE i - 1

\* n + 1 different nodes.
Cycle(c, n) ==
    /\ n \in Nat /\ c \in [0..n -> Nodes]
    /\ \A i, j \in 0..n : c[i] = c[j] => i = j

\* The pointers nx and pv lead around the nodes of c.
Ring(nx, pv, c, n) ==
    \A i \in 0..n : nx[c[i]] = c[Succ(n, i)] /\ pv[c[i]] = c[Pred(n, i)]

\* An entry has been put between position k and its successor.
Inserted(c, n, k, e) ==
    [i \in 0..n + 1 |-> IF i <= k THEN c[i] ELSE IF i = k + 1 THEN e ELSE c[i - 1]]

\* The node at position k has been taken out.
Dropped(c, n, k) == [i \in 0..n - 1 |-> IF i < k THEN c[i] ELSE c[i + 1]]

\* The pointers p after a write of v to that of x.
Write(p, x, v) == [p EXCEPT ![x] = v]

\* Pointers of nodes.
Pointers == [Nodes -> Nodes \cup {Null, LIST_POISON1, LIST_POISON2}]

\* Joining the neighbours of position k, as __list_del does, leaves a ring
\* without the node there.
LEMMA DroppedRing ==
    ASSUME NEW nx \in Pointers, NEW pv \in Pointers, NEW c, NEW n, Cycle(c, n),
           Ring(nx, pv, c, n), NEW k \in 1..n,
           NEW a, a = c[k - 1], NEW b, b = c[Succ(n, k)]
    PROVE  Ring(Write(nx, a, b), Write(pv, b, a), Dropped(c, n, k), n - 1)
<1> DEFINE d == Dropped(c, n, k)
           nx1 == Write(nx, a, b)
           pv1 == Write(pv, b, a)
<1>1. n \in Nat /\ k \in Nat /\ 1 <= k /\ k <= n
  BY DEF Cycle
<1>2. a \in Nodes /\ b \in Nodes
  BY <1>1 DEF Cycle, Succ
<1>3. /\ \A x \in Nodes : nx1[x] = IF x = a THEN b ELSE nx[x]
      /\ \A x \in Nodes : pv1[x] = IF x = b THEN a ELSE pv[x]
  BY <1>2 DEF Pointers, Write
<1>4. \A i \in 0..n - 1 : d[i] = IF i < k THEN c[i] ELSE c[i + 1]
  BY DEF Dropped
<1> HIDE DEF d, nx1, pv1
<1> SUFFICES ASSUME NEW i \in 0..n - 1
             PROVE  nx1[d[i]] = d[Succ(n - 1, i)] /\ pv1[d[i]] = d[Pred(n - 1, i)]
  BY DEF Ring, d, nx1, pv1
<1>5. nx1[d[i]] = d[Succ(n - 1, i)]
  <2>1. CASE i < k - 1
    BY <1>1, <1>3, <1>4, <2>1 DEF Ring, Cycle, Succ
  <2>2. CASE i = k - 1
    BY <1>1, <1>3, <1>4, <2>2 DEF Ring, Cycle, Succ
  <2>3. CASE i > k - 1
    BY <1>1, <1>3, <1>4, <2>3, SMTT(30) DEF Ring, Cycle, Succ
  <2> QED BY <1>1, <2>1, <2>2, <2>3
<1>6. pv1[d[i]] = d[Pred(n - 1, i)]
  <2>1. CASE i < k /\ i # 0
    <3>1. i \in 0..n /\ i - 1 \in 0..n - 1 /\ i - 1 < k /\ i # Succ(n, k) /\ Succ(n, k) \in 0..n
      BY <1>1, <2>1 DEF Succ
    <3>2. d[i] = c[i] /\ d[i - 1] = c[i - 1] /\ c[i] # b /\ c[i] \in Nodes
      BY <1>1, <1>4, <2>1, <3>1 DEF Cycle
    <3>3. pv[c[i]] = c[i - 1]
      BY <2>1, <3>1 DEF Ring, Pred
    <3> QED BY <1>3, <2>1, <3>2, <3>3 DEF Pred
  <2>2. CASE i = k /\ i # 0
    BY <1>1, <1>3, <1>4, <2>2 DEF Ring, Cycle, Succ, Pred
  <2>3. CASE i > k /\ i # 0
    <3>1. /\ i + 1 \in 0..n /\ i - 1 \in 0..n - 1 /\ ~(i - 1 < k) /\ i + 1 # Succ(n, k)
          /\ Succ(n, k) \in 0..n /\ i - 1 + 1 = i /\ i + 1 - 1 = i /\ i + 1 # 0
      BY <1>1, <2>3 DEF Succ
    <3>2. /\ d[i] = c[i + 1] /\ d[i - 1] = c[i] /\ c[i + 1] # b /\ c[i + 1] \in Nodes
      <4>1. d[i] = c[i + 1]
        BY <1>1, <1>4, <2>3
      <4>2. d[i - 1] = c[i]
        BY <1>4, <3>1
      <4>3. c[i + 1] # b /\ c[i + 1] \in Nodes
        BY <3>1 DEF Cycle
      <4> QED BY <4>1, <4>2, <4>3
    <3>3. pv[c[i + 1]] = c[i]
      BY <2>3, <3>1 DEF Ring, Pred
    <3> QED BY <1>3, <2>3, <3>2, <3>3 DEF Pred
  <2>4. CASE i = 0
    BY <1>1, <1>3, <1>4, <2>4 DEF Ring, Cycle, Succ, Pred
  <2> QED BY <1>1, <2>1, <2>2, <2>3, <2>4
<1> QED BY <1>5, <1>6

\* The four writes of __list_add between two neighbours make a ring with the
\* new node between them.
LEMMA InsertedRing ==
    ASSUME NEW nx \in Pointers, NEW pv \in Pointers, NEW c, NEW n, Cycle(c, n),
           Ring(nx, pv, c, n), NEW k \in 0..n, NEW e \in Nodes, \A i \in 0..n : c[i] # e,
           NEW a, a = c[k], NEW b, b = c[Succ(n, k)]
    PROVE  Ring(Write(Write(nx, e, b), a, e), Write(Write(pv, b, e), e, a),
                Inserted(c, n, k, e), n + 1)
<1> DEFINE d == Inserted(c, n, k, e)
           nx1 == Write(Write(nx, e, b), a, e)
           pv1 == Write(Write(pv, b, e), e, a)
<1>1. n \in Nat /\ k \in Nat /\ k <= n
  BY DEF Cycle
<1>2. a \in Nodes /\ b \in Nodes /\ a # e /\ b # e
  BY <1>1 DEF Cycle, Succ
<1>3. /\ \A x \in Nodes : nx1[x] = IF x = a THEN e ELSE IF x = e THEN b ELSE nx[x]
      /\ \A x \in Nodes : pv1[x] = IF x = e THEN a ELSE IF x = b THEN e ELSE pv[x]
  BY <1>2 DEF Pointers, Write
<1>4. /\ \A i \in 0..n : i <= k => d[i] = c[i]
      /\ d[k + 1] = e
      /\ \A i \in 0..n : i > k => d[i + 1] = c[i]
  <2>1. \A i \in 0..n + 1 : d[i] = IF i <= k THEN c[i] ELSE IF i = k + 1 THEN e ELSE c[i - 1]
    BY DEF Inserted
  <2> HIDE DEF d
  <2> QED BY <1>1, <2>1
<1> HIDE DEF d, nx1, pv1
<1>5. \A i \in 0..n : i <= k => nx1[c[i]] = d[i + 1]
  <2> SUFFICES ASSUME NEW i \in 0..n, i <= k PROVE nx1[c[i]] = d[i + 1]
    OBVIOUS
  <2>1. CASE i = k
    BY <1>2, <1>3, <1>4, <2>1
  <2>2. CASE i < k
    <3>1. i # n /\ i + 1 \in 0..n /\ i + 1 <= k /\ i # k
      BY <1>1, <2>2
    <3>2. c[i] # a /\ c[i] # e /\ c[i] \in Nodes
      BY <3>1 DEF Cycle
    <3>3. nx[c[i]] = c[i + 1]
      BY <3>1 DEF Ring, Succ
    <3> QED BY <1>3, <1>4, <3>1, <3>2, <3>3
  <2> QED BY <1>1, <2>1, <2>2
<1>6. nx1[e] = d[Succ(n + 1, k + 1)]
  <2>1. CASE k = n
    BY <1>1, <1>2, <1>3, <1>4, <2>1 DEF Succ
  <2>2. CASE k # n
    <3>1. k + 1 \in 0..n /\ k + 1 > k /\ k + 1 # n + 1
      BY <1>1, <2>2
    <3>2. nx1[e] = c[k + 1]
      BY <1>2, <1>3, <2>2 DEF Succ
    <3> QED BY <1>4, <3>1, <3>2 DEF Succ
  <2> QED BY <2>1, <2>2
<1>7. \A i \in 0..n : i > k => nx1[c[i]] = d[Succ(n + 1, i + 1)]
  <2> SUFFICES ASSUME NEW i \in 0..n, i > k PROVE nx1[c[i]] = d[Succ(n + 1, i + 1)]
    OBVIOUS
  <2>1. nx1[c[i]] = c[Succ(n, i)]
    <3>1. i # k
      BY <1>1
    <3>2. c[i] # a /\ c[i] # e /\ c[i] \in Nodes
      BY <3>1 DEF Cycle
    <3> QED BY <1>3, <3>2 DEF Ring
  <2>2. CASE i = n
    BY <1>1, <1>4, <2>1, <2>2 DEF Succ
  <2>3. CASE i # n
    <3>1. i + 1 \in 0..n /\ i + 1 > k /\ i + 1 # n + 1
      BY <1>1, <2>3
    <3> QED BY <1>4, <2>1, <2>3, <3>1 DEF Succ
  <2> QED BY <2>2, <2>3
<1>8. pv1[c[0]] = d[n + 1]
  <2>0. c[0] \in Nodes /\ c[0] # e /\ 0 \in 0..n /\ pv[c[0]] = c[n] /\ n \in 0..n
    BY <1>1 DEF Cycle, Ring, Pred
  <2>1. CASE k = n
    BY <1>1, <1>3, <1>4, <2>0, <2>1 DEF Succ
  <2>2. CASE k # n
    <3>1. k + 1 \in 0..n /\ k + 1 # 0 /\ n > k
      BY <1>1, <2>2
    <3>2. c[0] # b
      BY <2>0, <2>2, <3>1 DEF Succ, Cycle
    <3> QED BY <1>3, <1>4, <2>0, <3>1, <3>2
  <2> QED BY <2>1, <2>2
<1>9. \A i \in 1..n : i <= k => pv1[c[i]] = d[i - 1]
  <2> SUFFICES ASSUME NEW i \in 1..n, i <= k PROVE pv1[c[i]] = d[i - 1]
    OBVIOUS
  <2>1. i \in 0..n /\ i - 1 \in 0..n /\ i - 1 <= k /\ i # 0 /\ i # Succ(n, k) /\ Succ(n, k) \in 0..n
    BY <1>1 DEF Succ
  <2>2. c[i] # b /\ c[i] # e /\ c[i] \in Nodes
    BY <2>1 DEF Cycle
  <2>3. pv[c[i]] = c[i - 1]
    BY <2>1 DEF Ring, Pred
  <2> QED BY <1>3, <1>4, <2>1, <2>2, <2>3
<1>10. pv1[e] = d[k]
  BY <1>3, <1>4
<1>11. \A i \in 1..n : i > k => pv1[c[i]] = d[i]
  <2> SUFFICES ASSUME NEW i \in 1..n, i > k PROVE pv1[c[i]] = d[i]
    OBVIOUS
  <2>1. CASE i = k + 1
    <3>1. c[i] = b /\ i \in 0..n
      BY <1>1, <2>1 DEF Succ
    <3> QED BY <1>2, <1>3, <1>4, <2>1, <3>1
  <2>2. CASE i # k + 1
    <3>1. /\ i \in 0..n /\ i - 1 \in 0..n /\ i - 1 > k /\ i # 0 /\ i # Succ(n, k)
          /\ Succ(n, k) \in 0..n /\ i - 1 + 1 = i
      BY <1>1, <2>2 DEF Succ
    <3>2. c[i] # b /\ c[i] # e /\ c[i] \in Nodes
      BY <3>1 DEF Cycle
    <3>3. pv[c[i]] = c[i - 1]
      BY <3>1 DEF Ring, Pred
    <3>4. d[i - 1 + 1] = c[i - 1]
      BY <1>4, <3>1
    <3> QED BY <1>3, <3>1, <3>2, <3>3, <3>4
  <2> QED BY <2>1, <2>2
<1> SUFFICES ASSUME NEW i \in 0..n + 1
             PROVE  nx1[d[i]] = d[Succ(n + 1, i)] /\ pv1[d[i]] = d[Pred(n + 1, i)]
  BY DEF Ring, d, nx1, pv1
<1>12. CASE i = 0
  BY <1>1, <1>4, <1>5, <1>8, <1>12 DEF Succ, Pred
<1>13. CASE i # 0 /\ i <= k
  BY <1>1, <1>4, <1>5, <1>9, <1>13 DEF Succ, Pred
<1>14. CASE i = k + 1
  BY <1>1, <1>4, <1>6, <1>10, <1>14 DEF Pred
<1>15. CASE i > k + 1
  <2>1. i - 1 \in 0..n /\ i - 1 \in 1..n /\ i - 1 > k /\ i - 1 + 1 = i /\ i # 0
    BY <1>1, <1>15
  <2> QED BY <1>4, <1>7, <1>11, <2>1 DEF Pred
<1> QED BY <1>1, <1>12, <1>13, <1>14, <1>15

\* The nodes of c up to position k, those of s without its head, and the
\* rest of c.
Spliced(c, n, k, s, p) ==
    [i \in 0..n + p |-> IF i <= k THEN c[i] ELSE IF i <= k + p THEN s[i - k] ELSE c[i - p]]

\* The four writes of list_replace make a ring with f where c[k] was, unless
\* c[k] is alone on it.
LEMMA ReplacedRing ==
    ASSUME NEW nx \in Pointers, NEW pv \in Pointers, NEW c, NEW n, Cycle(c, n), n # 0,
           Ring(nx, pv, c, n), NEW k \in 0..n, NEW f \in Nodes, \A i \in 0..n : c[i] # f,
           NEW a, a = c[Pred(n, k)], NEW b, b = c[Succ(n, k)]
    PROVE  Ring(Write(Write(nx, f, b), a, f), Write(Write(pv, b, f), f, a),
                Write(c, k, f), n)
<1> DEFINE d == Write(c, k, f)
           nx1 == Write(Write(nx, f, b), a, f)
           pv1 == Write(Write(pv, b, f), f, a)
<1>1. n \in Nat /\ k \in Nat /\ k <= n /\ n # 0
  BY DEF Cycle
<1>2. Pred(n, k) \in 0..n /\ Succ(n, k) \in 0..n /\ Pred(n, k) # k /\ Succ(n, k) # k
  BY <1>1 DEF Pred, Succ
<1>3. a \in Nodes /\ b \in Nodes /\ a # f /\ b # f
  BY <1>2 DEF Cycle
<1>4. /\ \A x \in Nodes : nx1[x] = IF x = a THEN f ELSE IF x = f THEN b ELSE nx[x]
      /\ \A x \in Nodes : pv1[x] = IF x = f THEN a ELSE IF x = b THEN f ELSE pv[x]
  BY <1>3 DEF Pointers, Write
<1>5. d[k] = f /\ \A i \in 0..n : i # k => d[i] = c[i]
  BY DEF Cycle, Write
<1> HIDE DEF d, nx1, pv1
<1> SUFFICES ASSUME NEW i \in 0..n
             PROVE  nx1[d[i]] = d[Succ(n, i)] /\ pv1[d[i]] = d[Pred(n, i)]
  BY DEF Ring, d, nx1, pv1
<1>6. Succ(n, i) \in 0..n /\ Pred(n, i) \in 0..n
  BY <1>1 DEF Succ, Pred
<1>7. CASE i = k
  BY <1>2, <1>3, <1>4, <1>5, <1>7
<1>8. CASE i # k
  <2>1. c[i] \in Nodes /\ c[i] # f /\ d[i] = c[i]
    BY <1>5, <1>8 DEF Cycle
  <2>2. nx[c[i]] = c[Succ(n, i)] /\ pv[c[i]] = c[Pred(n, i)]
    BY DEF Ring
  <2>3. /\ i = Pred(n, k) <=> Succ(n, i) = k
        /\ i = Succ(n, k) <=> Pred(n, i) = k
    BY <1>1 DEF Succ, Pred
  <2>4. /\ c[i] = a <=> i = Pred(n, k)
        /\ c[i] = b <=> i = Succ(n, k)
    BY <1>2 DEF Cycle
  <2>5. nx1[d[i]] = d[Succ(n, i)]
    <3>1. CASE c[i] = a
      BY <1>4, <1>5, <2>1, <2>3, <2>4, <3>1
    <3>2. CASE c[i] # a
      BY <1>4, <1>5, <1>6, <2>1, <2>2, <2>3, <2>4, <3>2
    <3> QED BY <3>1, <3>2
  <2>6. pv1[d[i]] = d[Pred(n, i)]
    <3>1. CASE c[i] = b
      BY <1>4, <1>5, <2>1, <2>3, <2>4, <3>1
    <3>2. CASE c[i] # b
      BY <1>4, <1>5, <1>6, <2>1, <2>2, <2>3, <2>4, <3>2
    <3> QED BY <3>1, <3>2
  <2> QED BY <2>5, <2>6
<1> QED BY <1>7, <1>8

\* The four writes of __list_splice make one ring of two.
LEMMA SplicedRing ==
    ASSUME NEW nx \in Pointers, NEW pv \in Pointers, NEW c, NEW n, Cycle(c, n),
           Ring(nx, pv, c, n), NEW k \in 0..n,
           NEW s, NEW p, Cycle(s, p), Ring(nx, pv, s, p), p # 0,
           \A i \in 0..n, j \in 0..p : c[i] # s[j],
           NEW a, a = c[k], NEW b, b = c[Succ(n, k)]
    PROVE  Ring(Write(Write(nx, a, s[1]), s[p], b), Write(Write(pv, s[1], a), b, s[p]),
                Spliced(c, n, k, s, p), n + p)
<1> DEFINE d == Spliced(c, n, k, s, p)
           nx1 == Write(Write(nx, a, s[1]), s[p], b)
           pv1 == Write(Write(pv, s[1], a), b, s[p])
<1>1. /\ n \in Nat /\ k \in Nat /\ k <= n /\ p \in Nat /\ p >= 1
      /\ 1 \in 0..p /\ p \in 0..p /\ Succ(n, k) \in 0..n
  BY DEF Cycle, Succ
<1>2. /\ a \in Nodes /\ b \in Nodes /\ s[1] \in Nodes /\ s[p] \in Nodes
      /\ a # s[p] /\ b # s[1]
  BY <1>1 DEF Cycle
<1>3. /\ \A x \in Nodes : nx1[x] = IF x = a THEN s[1] ELSE IF x = s[p] THEN b ELSE nx[x]
      /\ \A x \in Nodes : pv1[x] = IF x = s[1] THEN a ELSE IF x = b THEN s[p] ELSE pv[x]
  BY <1>2 DEF Pointers, Write
<1>4. /\ \A i \in 0..n : i <= k => d[i] = c[i]
      /\ \A i \in 1..p : d[k + i] = s[i]
      /\ \A i \in 0..n : i > k => d[i + p] = c[i]
  <2>1. \A i \in 0..n + p : d[i] = IF i <= k THEN c[i] ELSE IF i <= k + p THEN s[i - k]
                                                                   ELSE c[i - p]
    BY DEF Spliced
  <2> HIDE DEF d
  <2>2. \A i \in 0..n : i <= k => d[i] = c[i]
    BY <1>1, <2>1
  <2>3. \A i \in 1..p : d[k + i] = s[i]
    <3> TAKE i \in 1..p
    <3>1. k + i \in 0..n + p /\ ~(k + i <= k) /\ k + i <= k + p /\ (k + i) - k = i
      BY <1>1
    <3>2. d[k + i] = s[(k + i) - k]
      BY <2>1, <3>1, Zenon
    <3> QED BY <3>1, <3>2, Zenon
  <2>4. \A i \in 0..n : i > k => d[i + p] = c[i]
    <3> SUFFICES ASSUME NEW i \in 0..n, i > k PROVE d[i + p] = c[i]
      OBVIOUS
    <3>1. i + p \in 0..n + p /\ ~(i + p <= k) /\ ~(i + p <= k + p) /\ (i + p) - p = i
      BY <1>1
    <3>2. d[i + p] = c[(i + p) - p]
      BY <2>1, <3>1, Zenon
    <3> QED BY <3>1, <3>2, Zenon
  <2> QED BY <2>2, <2>3, <2>4
<1> HIDE DEF d, nx1, pv1
\* The nodes of c.
<1>5. ASSUME NEW i \in 0..n
      PROVE  /\ c[i] \in Nodes /\ c[i] # s[1] /\ c[i] # s[p]
             /\ c[i] = a <=> i = k
             /\ c[i] = b <=> i = Succ(n, k)
             /\ nx[c[i]] = c[Succ(n, i)] /\ pv[c[i]] = c[Pred(n, i)]
  BY <1>1, <1>5 DEF Cycle, Ring
<1>6. ASSUME NEW i \in 0..p
      PROVE  /\ s[i] \in Nodes /\ s[i] # a /\ s[i] # b
             /\ s[i] = s[1] <=> i = 1
             /\ s[i] = s[p] <=> i = p
             /\ nx[s[i]] = s[Succ(p, i)] /\ pv[s[i]] = s[Pred(p, i)]
  BY <1>1, <1>6 DEF Cycle, Ring
<1> SUFFICES ASSUME NEW i \in 0..n + p
             PROVE  nx1[d[i]] = d[Succ(n + p, i)] /\ pv1[d[i]] = d[Pred(n + p, i)]
  BY DEF Ring, d, nx1, pv1
<1>7. CASE i <= k
  <2>1. i \in 0..n /\ d[i] = c[i] /\ i # n + p
    BY <1>1, <1>4, <1>7
  <2>2. nx1[d[i]] = d[Succ(n + p, i)]
    <3>1. Succ(n + p, i) = i + 1
      BY <2>1 DEF Succ
    <3>2. CASE i = k
      <4>1. nx1[d[i]] = s[1] /\ 1 \in 1..p
        BY <1>1, <1>3, <1>5, <2>1, <3>2
      <4> QED BY <1>4, <3>1, <3>2, <4>1
    <3>3. CASE i # k
      <4>1. i # n /\ i + 1 \in 0..n /\ i + 1 <= k
        BY <1>1, <1>7, <3>3
      <4>2. nx1[d[i]] = c[i + 1]
        BY <1>3, <1>5, <2>1, <3>3, <4>1 DEF Succ
      <4> QED BY <1>4, <3>1, <4>1, <4>2
    <3> QED BY <3>2, <3>3
  <2>3. pv1[d[i]] = d[Pred(n + p, i)]
    <3>1. CASE i # 0
      <4>1. i - 1 \in 0..n /\ i - 1 <= k /\ i # Succ(n, k)
        BY <1>1, <1>7, <3>1 DEF Succ
      <4>2. pv1[d[i]] = c[i - 1]
        BY <1>3, <1>5, <2>1, <3>1, <4>1 DEF Pred
      <4> QED BY <1>4, <3>1, <4>1, <4>2 DEF Pred
    <3>2. CASE i = 0 /\ k = n
      <4>1. Succ(n, k) = 0 /\ Pred(n + p, i) = k + p /\ p \in 1..p
        BY <1>1, <3>2 DEF Succ, Pred
      <4>2. pv1[d[i]] = s[p]
        BY <1>3, <1>5, <2>1, <3>2, <4>1
      <4> QED BY <1>4, <4>1, <4>2
    <3>3. CASE i = 0 /\ k # n
      <4>1. Succ(n, k) # 0 /\ Pred(n + p, i) = n + p /\ n \in 0..n /\ n > k
        BY <1>1, <3>3 DEF Succ, Pred
      <4>2. pv1[d[i]] = c[n]
        BY <1>3, <1>5, <2>1, <3>3, <4>1 DEF Pred
      <4> QED BY <1>4, <4>1, <4>2
    <3> QED BY <3>1, <3>2, <3>3
  <2> QED BY <2>2, <2>3
<1>8. CASE i > k /\ i <= k + p
  <2>1. PICK j \in 1..p : i = k + j
    <3>1. i - k \in 1..p /\ i = k + (i - k)
      BY <1>1, <1>8
    <3> QED BY <3>1
  <2>2. j \in 0..p /\ j # 0 /\ d[i] = s[j] /\ i # 0
    BY <1>1, <1>4, <2>1
  <2>3. nx1[d[i]] = d[Succ(n + p, i)]
    <3>1. CASE j # p
      <4>1. j + 1 \in 1..p /\ Succ(n + p, i) = k + (j + 1)
        BY <1>1, <2>1, <3>1 DEF Succ
      <4>2. nx1[d[i]] = s[j + 1]
        BY <1>3, <1>6, <2>2, <3>1 DEF Succ
      <4> QED BY <1>4, <4>1, <4>2
    <3>2. CASE j = p /\ k = n
      <4>1. Succ(n + p, i) = 0 /\ Succ(n, k) = 0 /\ 0 \in 0..n /\ 0 <= k
        BY <1>1, <2>1, <3>2 DEF Succ
      <4>2. nx1[d[i]] = b
        BY <1>3, <1>6, <2>2, <3>2
      <4> QED BY <1>4, <4>1, <4>2
    <3>3. CASE j = p /\ k # n
      <4>1. Succ(n + p, i) = (k + 1) + p /\ Succ(n, k) = k + 1 /\ k + 1 \in 0..n /\ k + 1 > k
        BY <1>1, <2>1, <3>3 DEF Succ
      <4>2. nx1[d[i]] = b
        BY <1>3, <1>6, <2>2, <3>3
      <4> QED BY <1>4, <4>1, <4>2
    <3> QED BY <3>1, <3>2, <3>3
  <2>4. pv1[d[i]] = d[Pred(n + p, i)]
    <3>1. CASE j = 1
      <4>1. Pred(n + p, i) = k /\ k \in 0..n /\ k <= k
        BY <1>1, <2>1, <2>2, <3>1 DEF Pred
      <4>2. pv1[d[i]] = a
        BY <1>3, <1>6, <2>2, <3>1
      <4> QED BY <1>4, <4>1, <4>2
    <3>2. CASE j # 1
      <4>1. j - 1 \in 1..p /\ Pred(n + p, i) = k + (j - 1)
        BY <1>1, <2>1, <2>2, <3>2 DEF Pred
      <4>2. pv1[d[i]] = s[j - 1]
        BY <1>3, <1>6, <2>2, <3>2 DEF Pred
      <4> QED BY <1>4, <4>1, <4>2
    <3> QED BY <3>1, <3>2
  <2> QED BY <2>3, <2>4
<1>9. CASE i > k + p
  <2>1. PICK j \in 0..n : i = j + p /\ j > k
    <3>1. i - p \in 0..n /\ i = (i - p) + p /\ i - p > k
      BY <1>1, <1>9
    <3> QED BY <3>1
  <2>2. d[i] = c[j] /\ j # 0 /\ i # 0
    BY <1>1, <1>4, <2>1
  <2>3. nx1[d[i]] = d[Succ(n + p, i)]
    <3>1. nx1[d[i]] = c[Succ(n, j)]
      BY <1>1, <1>3, <1>5, <2>1, <2>2
    <3>2. CASE j = n
      <4>1. Succ(n, j) = 0 /\ Succ(n + p, i) = 0 /\ 0 \in 0..n /\ 0 <= k
        BY <1>1, <2>1, <3>2 DEF Succ
      <4> QED BY <1>4, <3>1, <4>1
    <3>3. CASE j # n
      <4>1. Succ(n, j) = j + 1 /\ Succ(n + p, i) = (j + 1) + p /\ j + 1 \in 0..n /\ j + 1 > k
        BY <1>1, <2>1, <3>3 DEF Succ
      <4> QED BY <1>4, <3>1, <4>1
    <3> QED BY <3>2, <3>3
  <2>4. pv1[d[i]] = d[Pred(n + p, i)]
    <3>1. CASE j = k + 1
      <4>1. Succ(n, k) = j /\ Pred(n + p, i) = k + p /\ p \in 1..p
        BY <1>1, <2>1, <2>2, <3>1 DEF Succ, Pred
      <4>2. pv1[d[i]] = s[p]
        BY <1>3, <1>5, <2>2, <4>1
      <4> QED BY <1>4, <4>1, <4>2
    <3>2. CASE j # k + 1
      <4>1. Succ(n, k) # j /\ Pred(n + p, i) = (j - 1) + p /\ j - 1 \in 0..n /\ j - 1 > k
        BY <1>1, <2>1, <2>2, <3>2 DEF Succ, Pred
      <4>2. pv1[d[i]] = c[j - 1]
        BY <1>3, <1>5, <2>2, <4>1 DEF Pred
      <4> QED BY <1>4, <4>1, <4>2
    <3> QED BY <3>1, <3>2
  <2> QED BY <2>3, <2>4
<1> QED BY <1>1, <1>7, <1>8, <1>9

-----------------------------------------------------------------------------
(* The sequences of GtList and the rings they stand for.                   *)

\* The nodes of a list, its head first.
Chain(h, l) == [i \in 0..Len(l) |-> IF i = 0 THEN h ELSE l[i]]

\* No entry is on a list twice.
Uniq(l) == \A i, j \in 1..Len(l) : l[i] = l[j] => i = j

\* A list of different entries.
Proper(l) == l \in Seq(Entries) /\ Uniq(l)

\* The nodes of a list are different: a head is no entry.
LEMMA ChainCycle ==
    ASSUME NEW h \in Heads, NEW l, Proper(l)
    PROVE  /\ Cycle(Chain(h, l), Len(l)) /\ Len(l) \in Nat
           /\ Chain(h, l)[0] = h /\ \A i \in 1..Len(l) : Chain(h, l)[i] = l[i]
           /\ \A x : (\A i \in 0..Len(l) : Chain(h, l)[i] # x) <=> x # h /\ x \notin ToSet(l)
<1> DEFINE c == Chain(h, l)
           n == Len(l)
<1>1. n \in Nat /\ \A i \in 1..n : l[i] \in Entries /\ l[i] \in Nodes /\ l[i] # h
  BY ListAssumption DEF Proper, Nodes
<1>2. /\ c[0] = h /\ \A i \in 1..n : c[i] = l[i]
      /\ c \in [0..n -> Nodes]
  BY <1>1 DEF Chain, Nodes
<1>3. \A i \in 0..n : i = 0 \/ i \in 1..n
  BY <1>1
<1>4. \A i \in 1..n : i \in 0..n /\ 0 \in 0..n
  BY <1>1
<1> HIDE DEF c
<1>5. \A i, j \in 0..n : c[i] = c[j] => i = j
  BY <1>1, <1>2, <1>3 DEF Proper, Uniq
<1>6. \A x : x \in ToSet(l) <=> \E i \in 1..n : l[i] = x
  BY DEF Proper, ToSet
<1>7. 0 \in 0..n
  BY <1>1
<1>8. \A x : (\A i \in 0..n : c[i] # x) <=> x # h /\ x \notin ToSet(l)
  BY <1>2, <1>3, <1>4, <1>6, <1>7
<1> QED BY <1>1, <1>2, <1>5, <1>8 DEF Cycle, c

\* What an entry in front of a list does to its ring.
LEMMA FrontIs ==
    ASSUME NEW h \in Heads, NEW l, Proper(l), NEW e \in Entries, e \notin ToSet(l)
    PROVE  /\ Proper(<<e>> \o l) /\ Len(<<e>> \o l) = Len(l) + 1
           /\ ToSet(<<e>> \o l) = ToSet(l) \cup {e}
           /\ Chain(h, <<e>> \o l) = Inserted(Chain(h, l), Len(l), 0, e)
<1> DEFINE n == Len(l)
           s == <<e>> \o l
<1>1. n \in Nat /\ l \in Seq(Entries) /\ \A i \in 1..n : l[i] \in Entries /\ l[i] # e
  BY DEF Proper, ToSet
<1>2. s \in Seq(Entries) /\ Len(s) = n + 1 /\ s[1] = e /\ \A i \in 1..n : s[i + 1] = l[i]
  BY <1>1
<1> HIDE DEF s
<1>3. \A i \in 1..n + 1 : i # 1 => i - 1 \in 1..n /\ (i - 1) + 1 = i
  BY <1>1
<1>4. \A i \in 1..n + 1 : i # 1 => s[i] = l[i - 1]
  <2> SUFFICES ASSUME NEW i \in 1..n + 1, i # 1 PROVE s[i] = l[i - 1]
    OBVIOUS
  <2>1. s[(i - 1) + 1] = l[i - 1]
    BY <1>2, <1>3
  <2> QED BY <1>3, <2>1
<1>5. Uniq(s)
  <2> SUFFICES ASSUME NEW i \in 1..n + 1, NEW j \in 1..n + 1, s[i] = s[j] PROVE i = j
    BY <1>2 DEF Uniq
  <2>1. CASE i = 1
    BY <1>1, <1>2, <1>3, <1>4, <2>1
  <2>2. CASE j = 1
    BY <1>1, <1>2, <1>3, <1>4, <2>2
  <2>3. CASE i # 1 /\ j # 1
    <3>1. i - 1 = j - 1
      BY <1>3, <1>4, <2>3 DEF Proper, Uniq
    <3> QED BY <1>1, <3>1
  <2> QED BY <2>1, <2>2, <2>3
<1>6. ToSet(s) = ToSet(l) \cup {e}
  <2>1. \A x : x \in ToSet(l) <=> \E i \in 1..n : l[i] = x
    BY <1>1 DEF ToSet
  <2>2. \A x : x \in ToSet(s) <=> \E i \in 1..n + 1 : s[i] = x
    BY <1>2 DEF ToSet
  <2>3. \A i \in 1..n : i + 1 \in 1..n + 1
    BY <1>1
  <2>4. 1 \in 1..n + 1
    BY <1>1
  <2>5. \A x : x \in ToSet(s) => x \in ToSet(l) \cup {e}
    BY <1>2, <1>3, <1>4, <2>1, <2>2
  <2>6. \A x : x \in ToSet(l) \cup {e} => x \in ToSet(s)
    BY <1>2, <2>1, <2>2, <2>3, <2>4
  <2> QED BY <2>5, <2>6
<1>7. Chain(h, s) = Inserted(Chain(h, l), n, 0, e)
  <2>1. ASSUME NEW i \in 0..n + 1
        PROVE  (IF i = 0 THEN h ELSE s[i]) =
               (IF i <= 0 THEN Chain(h, l)[i] ELSE IF i = 0 + 1 THEN e ELSE Chain(h, l)[i - 1])
    <3>1. CASE i = 0
      BY <1>1, <3>1, ChainCycle
    <3>2. CASE i = 1
      BY <1>1, <1>2, <3>2
    <3>3. CASE i # 0 /\ i # 1
      <4>1. i \in 1..n + 1 /\ i - 1 \in 1..n
        BY <1>1, <3>3
      <4>2. Chain(h, l)[i - 1] = l[i - 1] /\ s[i] = l[i - 1]
        BY <1>4, <3>3, <4>1, ChainCycle
      <4> QED BY <1>1, <3>3, <4>2
    <3> QED BY <3>1, <3>2, <3>3
  <2> QED BY <1>2, <2>1 DEF Chain, Inserted
<1> QED BY <1>2, <1>5, <1>6, <1>7 DEF Proper, s

\* What an entry behind a list does to its ring.
LEMMA BackIs ==
    ASSUME NEW h \in Heads, NEW l, Proper(l), NEW e \in Entries, e \notin ToSet(l)
    PROVE  /\ Proper(Append(l, e)) /\ Len(Append(l, e)) = Len(l) + 1
           /\ ToSet(Append(l, e)) = ToSet(l) \cup {e}
           /\ Chain(h, Append(l, e)) = Inserted(Chain(h, l), Len(l), Len(l), e)
<1> DEFINE n == Len(l)
           s == Append(l, e)
<1>1. n \in Nat /\ l \in Seq(Entries) /\ \A i \in 1..n : l[i] \in Entries /\ l[i] # e
  BY DEF Proper, ToSet
<1>2. s \in Seq(Entries) /\ Len(s) = n + 1 /\ s[n + 1] = e /\ \A i \in 1..n : s[i] = l[i]
  BY <1>1
<1> HIDE DEF s
<1>3. \A i \in 1..n + 1 : i = n + 1 \/ i \in 1..n
  BY <1>1
<1>4. n + 1 \in 1..n + 1 /\ \A i \in 1..n : i \in 1..n + 1 /\ i # n + 1
  BY <1>1
<1>5. Uniq(s)
  BY <1>1, <1>2, <1>3, <1>4 DEF Uniq, Proper
<1>6. ToSet(s) = ToSet(l) \cup {e}
  <2>1. \A x : x \in ToSet(l) <=> \E i \in 1..n : l[i] = x
    BY <1>1 DEF ToSet
  <2>2. \A x : x \in ToSet(s) <=> \E i \in 1..n + 1 : s[i] = x
    BY <1>2 DEF ToSet
  <2>3. \A x : x \in ToSet(s) => x \in ToSet(l) \cup {e}
    BY <1>2, <1>3, <2>1, <2>2
  <2>4. \A x : x \in ToSet(l) \cup {e} => x \in ToSet(s)
    BY <1>2, <1>4, <2>1, <2>2
  <2> QED BY <2>3, <2>4
<1>7. Chain(h, s) = Inserted(Chain(h, l), n, n, e)
  <2>1. ASSUME NEW i \in 0..n + 1
        PROVE  (IF i = 0 THEN h ELSE s[i]) =
               (IF i <= n THEN Chain(h, l)[i] ELSE IF i = n + 1 THEN e ELSE Chain(h, l)[i - 1])
    <3>1. CASE i = 0
      BY <1>1, <3>1, ChainCycle
    <3>2. CASE i = n + 1
      BY <1>1, <1>2, <3>2
    <3>3. CASE i \in 1..n
      BY <1>1, <1>2, <3>3, ChainCycle
    <3> QED BY <1>1, <3>1, <3>2, <3>3
  <2> QED BY <1>2, <2>1 DEF Chain, Inserted
<1> QED BY <1>2, <1>5, <1>6, <1>7 DEF Proper, s

\* Place and RemoveFirst where the entry is at position k.
LEMMA RemoveFirstIs ==
    ASSUME NEW l, Proper(l), NEW k \in 1..Len(l)
    PROVE  /\ Place(l, l[k]) = k
           /\ RemoveFirst(l, l[k]) = SubSeq(l, 1, k - 1) \o SubSeq(l, k + 1, Len(l))
<1> DEFINE I == {i \in 1..Len(l) : l[i] = l[k]}
<1>1. I = {k}
  BY DEF Proper, Uniq
<1>2. k \in Int
  BY DEF Proper
<1>3. Min(I) = k
  BY <1>1, <1>2 DEF Min
<1>4. SelectInSeq(l, LAMBDA x : x = l[k]) = k
  BY <1>1, <1>3 DEF SelectInSeq
<1>5. Place(l, l[k]) = k
  BY <1>4 DEF Place
<1>6. RemoveFirst(l, l[k]) = RemoveAt(l, SelectInSeq(l, LAMBDA x : x = l[k]))
  BY DEF RemoveFirst
<1> QED BY <1>4, <1>5, <1>6 DEF RemoveAt

\* What taking an entry off a list does to its ring.
LEMMA RemoveIs ==
    ASSUME NEW h \in Heads, NEW l, Proper(l), NEW k \in 1..Len(l)
    PROVE  /\ Proper(RemoveFirst(l, l[k])) /\ Len(RemoveFirst(l, l[k])) = Len(l) - 1
           /\ ToSet(RemoveFirst(l, l[k])) = ToSet(l) \ {l[k]}
           /\ Chain(h, RemoveFirst(l, l[k])) = Dropped(Chain(h, l), Len(l), k)
           /\ \A i \in 1..Len(l) - 1 :
                  RemoveFirst(l, l[k])[i] = IF i < k THEN l[i] ELSE l[i + 1]
<1> DEFINE n == Len(l)
           s == RemoveFirst(l, l[k])
           u == SubSeq(l, 1, k - 1)
           v == SubSeq(l, k + 1, n)
<1>1. n \in Nat /\ l \in Seq(Entries) /\ k \in Nat /\ 1 <= k /\ k <= n
      /\ \A i \in 1..n : l[i] \in Entries
  BY DEF Proper
<1>2. u \in Seq(Entries) /\ Len(u) = k - 1 /\ \A i \in 1..k - 1 : u[i] = l[i]
  BY <1>1
<1>3. v \in Seq(Entries) /\ Len(v) = n - k /\ \A i \in 1..n - k : v[i] = l[k + i]
  BY <1>1
<1>4. s = u \o v
  BY RemoveFirstIs
<1> HIDE DEF u, v, s
<1>5. s \in Seq(Entries) /\ Len(s) = n - 1
  BY <1>1, <1>2, <1>3, <1>4
<1>6. \A i \in 1..n - 1 : s[i] = IF i < k THEN l[i] ELSE l[i + 1]
  <2> SUFFICES ASSUME NEW i \in 1..n - 1 PROVE s[i] = IF i < k THEN l[i] ELSE l[i + 1]
    OBVIOUS
  <2>1. CASE i < k
    <3>1. i \in 1..Len(u) /\ i \in 1..k - 1
      BY <1>1, <1>2, <2>1
    <3> QED BY <1>2, <1>3, <1>4, <2>1, <3>1
  <2>2. CASE ~(i < k)
    <3>1. i - (k - 1) \in 1..n - k /\ k + (i - (k - 1)) = i + 1 /\ ~(i <= Len(u))
          /\ i \in 1..Len(u) + Len(v)
      BY <1>1, <1>2, <1>3, <2>2
    <3>2. s[i] = v[i - Len(u)]
      BY <1>2, <1>3, <1>4, <3>1, SMTT(60)
    <3>3. v[i - (k - 1)] = l[i + 1]
      BY <1>3, <3>1
    <3> QED BY <1>2, <2>2, <3>2, <3>3
  <2> QED BY <2>1, <2>2
<1>7. Uniq(s)
  <2> SUFFICES ASSUME NEW i \in 1..n - 1, NEW j \in 1..n - 1, s[i] = s[j] PROVE i = j
    BY <1>5 DEF Uniq
  <2>1. i \in 1..n /\ i + 1 \in 1..n /\ j \in 1..n /\ j + 1 \in 1..n
    BY <1>1
  <2>2. \A x, y \in 1..n : l[x] = l[y] => x = y
    BY DEF Proper, Uniq
  <2>3. CASE i < k /\ j < k
    BY <1>6, <2>1, <2>2, <2>3
  <2>4. CASE ~(i < k) /\ ~(j < k)
    <3>1. i + 1 = j + 1
      BY <1>6, <2>1, <2>2, <2>4
    <3> QED BY <2>1, <3>1
  <2>5. CASE i < k /\ ~(j < k)
    <3>1. i = j + 1
      BY <1>6, <2>1, <2>2, <2>5
    <3> QED BY <1>1, <2>1, <2>5, <3>1
  <2>6. CASE ~(i < k) /\ j < k
    <3>1. i + 1 = j
      BY <1>6, <2>1, <2>2, <2>6
    <3> QED BY <1>1, <2>1, <2>6, <3>1
  <2> QED BY <2>3, <2>4, <2>5, <2>6
<1>8. ToSet(s) = ToSet(l) \ {l[k]}
  <2>1. \A x : x \in ToSet(l) <=> \E i \in 1..n : l[i] = x
    BY <1>1 DEF ToSet
  <2>2. \A x : x \in ToSet(s) <=> \E i \in 1..n - 1 : s[i] = x
    BY <1>5 DEF ToSet
  <2>3. ASSUME NEW x, x \in ToSet(s) PROVE x \in ToSet(l) /\ x # l[k]
    <3>1. PICK i \in 1..n - 1 : s[i] = x
      BY <2>2, <2>3
    <3>2. i \in 1..n /\ i + 1 \in 1..n /\ (i < k => i # k) /\ (~(i < k) => i + 1 # k)
      BY <1>1
    <3> QED BY <1>6, <2>1, <3>1, <3>2 DEF Proper, Uniq
  <2>4. ASSUME NEW x \in ToSet(l), x # l[k] PROVE x \in ToSet(s)
    <3>1. PICK i \in 1..n : l[i] = x
      BY <2>1
    <3>2. i # k
      BY <2>4, <3>1
    <3>3. CASE i < k
      <4>1. i \in 1..n - 1
        BY <1>1, <3>3
      <4> QED BY <1>6, <2>2, <3>1, <3>3, <4>1
    <3>4. CASE ~(i < k)
      <4>1. i - 1 \in 1..n - 1 /\ ~(i - 1 < k) /\ (i - 1) + 1 = i
        BY <1>1, <3>2, <3>4
      <4>2. s[i - 1] = l[(i - 1) + 1]
        BY <1>6, <4>1
      <4> QED BY <2>2, <3>1, <4>1, <4>2
    <3> QED BY <3>3, <3>4
  <2> QED BY <2>3, <2>4
<1>9. Chain(h, s) = Dropped(Chain(h, l), n, k)
  <2>1. ASSUME NEW i \in 0..n - 1
        PROVE  (IF i = 0 THEN h ELSE s[i]) =
               (IF i < k THEN Chain(h, l)[i] ELSE Chain(h, l)[i + 1])
    <3>1. CASE i = 0
      BY <1>1, <3>1, ChainCycle
    <3>2. CASE i # 0
      <4>1. i \in 1..n - 1 /\ i \in 1..n /\ i + 1 \in 1..n
        BY <1>1, <3>2
      <4>2. Chain(h, l)[i] = l[i] /\ Chain(h, l)[i + 1] = l[i + 1]
        BY <4>1, ChainCycle
      <4> QED BY <1>6, <3>2, <4>1, <4>2
    <3> QED BY <3>1, <3>2
  <2> QED BY <1>5, <2>1 DEF Chain, Dropped
<1> QED BY <1>5, <1>6, <1>7, <1>8, <1>9 DEF Proper, s

\* What a new entry at place k of a list does to its ring.
LEMMA ReplaceIs ==
    ASSUME NEW h \in Heads, NEW l, Proper(l), NEW k \in 1..Len(l),
           NEW f \in Entries, f \notin ToSet(l)
    PROVE  /\ Proper(Write(l, k, f)) /\ Len(Write(l, k, f)) = Len(l)
           /\ ToSet(Write(l, k, f)) = (ToSet(l) \ {l[k]}) \cup {f}
           /\ Chain(h, Write(l, k, f)) = Write(Chain(h, l), k, f)
<1> DEFINE n == Len(l)
           s == Write(l, k, f)
<1>1. n \in Nat /\ l \in Seq(Entries) /\ \A i \in 1..n : l[i] \in Entries /\ l[i] # f
  BY DEF Proper, ToSet
<1>2. s \in Seq(Entries) /\ Len(s) = n /\ s[k] = f /\ \A i \in 1..n : i # k => s[i] = l[i]
  BY <1>1 DEF Write
<1> HIDE DEF s
<1>3. Uniq(s)
  BY <1>1, <1>2 DEF Uniq, Proper
<1>4. ToSet(s) = (ToSet(l) \ {l[k]}) \cup {f}
  <2>1. \A x : x \in ToSet(l) <=> \E i \in 1..n : l[i] = x
    BY <1>1 DEF ToSet
  <2>2. \A x : x \in ToSet(s) <=> \E i \in 1..n : s[i] = x
    BY <1>2 DEF ToSet
  <2>3. \A i \in 1..n : i # k => l[i] # l[k]
    BY DEF Proper, Uniq
  <2> QED BY <1>2, <2>1, <2>2, <2>3
<1>5. Chain(h, s) = Write(Chain(h, l), k, f)
  <2>1. k # 0 /\ k \in 0..n /\ \A i \in 0..n : i # 0 => i \in 1..n
    BY <1>1
  <2>2. Chain(h, s) = [i \in 0..n |-> IF i = 0 THEN h ELSE s[i]]
    BY <1>2 DEF Chain
  <2>3. Chain(h, l) = [i \in 0..n |-> IF i = 0 THEN h ELSE l[i]]
    BY DEF Chain
  <2> QED BY <1>2, <2>1, <2>2, <2>3, ZenonT(90) DEF Write
<1> QED BY <1>2, <1>3, <1>4, <1>5 DEF Proper, s

\* The ring of the same list under another head.
LEMMA OtherHeadIs ==
    ASSUME NEW h \in Heads, NEW g \in Heads, NEW l, Proper(l)
    PROVE  Chain(g, l) = Write(Chain(h, l), 0, g)
<1>1. Len(l) \in Nat /\ 0 \in 0..Len(l)
  BY DEF Proper
<1> QED BY <1>1 DEF Chain, Write

\* One list after another, as seen from the head of either.
LEMMA ConcatIs ==
    ASSUME NEW h \in Heads, NEW g \in Heads, NEW l, Proper(l), NEW s, Proper(s),
           ToSet(l) \cap ToSet(s) = {}
    PROVE  /\ Proper(s \o l) /\ Len(s \o l) = Len(l) + Len(s)
           /\ ToSet(s \o l) = ToSet(s) \cup ToSet(l)
           /\ Chain(g, s \o l) = Spliced(Chain(g, l), Len(l), 0, Chain(h, s), Len(s))
           /\ Chain(g, s \o l) = Spliced(Chain(g, s), Len(s), Len(s), Chain(h, l), Len(l))
<1> DEFINE n == Len(l)
           p == Len(s)
           t == s \o l
<1>1. /\ n \in Nat /\ l \in Seq(Entries) /\ p \in Nat /\ s \in Seq(Entries)
      /\ \A i \in 1..p, j \in 1..n : s[i] # l[j]
  BY DEF Proper, ToSet
<1>2. t \in Seq(Entries) /\ Len(t) = n + p
  BY <1>1
<1>3. \A i \in 1..p : t[i] = s[i]
  BY <1>1
<1>4. \A i \in 1..n + p : i > p => t[i] = l[i - p]
  BY <1>1
<1> HIDE DEF t
<1>5. \A i \in 1..n + p : IF i <= p THEN i \in 1..p ELSE i - p \in 1..n /\ i > p
  BY <1>1
<1>6. Uniq(t)
  <2> SUFFICES ASSUME NEW i \in 1..n + p, NEW j \in 1..n + p, t[i] = t[j] PROVE i = j
    BY <1>2 DEF Uniq
  <2>1. CASE i <= p /\ j <= p
    BY <1>3, <1>5, <2>1 DEF Proper, Uniq
  <2>2. CASE ~(i <= p) /\ ~(j <= p)
    <3>1. i - p = j - p
      BY <1>4, <1>5, <2>2 DEF Proper, Uniq
    <3> QED BY <1>1, <3>1
  <2>3. CASE i <= p /\ ~(j <= p)
    BY <1>1, <1>3, <1>4, <1>5, <2>3
  <2>4. CASE ~(i <= p) /\ j <= p
    BY <1>1, <1>3, <1>4, <1>5, <2>4
  <2> QED BY <2>1, <2>2, <2>3, <2>4
<1>7. ToSet(t) = ToSet(s) \cup ToSet(l)
  <2>1. \A x : x \in ToSet(l) <=> \E i \in 1..n : l[i] = x
    BY <1>1 DEF ToSet
  <2>2. \A x : x \in ToSet(t) <=> \E i \in 1..n + p : t[i] = x
    BY <1>2 DEF ToSet
  <2>3. \A x : x \in ToSet(s) <=> \E i \in 1..p : s[i] = x
    BY <1>1 DEF ToSet
  <2>4. ASSUME NEW x, x \in ToSet(t) PROVE x \in ToSet(s) \cup ToSet(l)
    <3>1. PICK i \in 1..n + p : t[i] = x
      BY <2>2, <2>4
    <3> QED BY <1>3, <1>4, <1>5, <2>1, <2>3, <3>1
  <2>5. ASSUME NEW x \in ToSet(s) PROVE x \in ToSet(t)
    <3>1. PICK i \in 1..p : s[i] = x
      BY <2>3
    <3>2. i \in 1..n + p
      BY <1>1
    <3> QED BY <1>3, <2>2, <3>1, <3>2
  <2>6. ASSUME NEW x \in ToSet(l) PROVE x \in ToSet(t)
    <3>1. PICK i \in 1..n : l[i] = x
      BY <2>1
    <3>2. i + p \in 1..n + p /\ i + p > p /\ (i + p) - p = i
      BY <1>1
    <3>3. t[i + p] = l[(i + p) - p]
      BY <1>4, <3>2
    <3> QED BY <2>2, <3>1, <3>2, <3>3
  <2> QED BY <2>4, <2>5, <2>6
<1>8. Chain(g, t) = Spliced(Chain(g, l), n, 0, Chain(h, s), p)
  <2>1. ASSUME NEW i \in 0..n + p
        PROVE  (IF i = 0 THEN g ELSE t[i]) =
               (IF i <= 0 THEN Chain(g, l)[i] ELSE IF i <= 0 + p THEN Chain(h, s)[i - 0]
                                                   ELSE Chain(g, l)[i - p])
    <3>1. CASE i = 0
      BY <3>1, ChainCycle
    <3>2. CASE i \in 1..p
      BY <1>1, <1>3, <3>2, ChainCycle
    <3>3. CASE i > p /\ i # 0
      <4>1. i \in 1..n + p /\ i - p \in 1..n /\ ~(i <= 0) /\ ~(i <= 0 + p)
        BY <1>1, <3>3
      <4>2. t[i] = l[i - p] /\ Chain(g, l)[i - p] = l[i - p]
        BY <1>4, <3>3, <4>1, ChainCycle
      <4> QED BY <3>3, <4>1, <4>2
    <3> QED BY <1>1, <3>1, <3>2, <3>3
  <2>2. Chain(g, t) = [i \in 0..n + p |-> IF i = 0 THEN g ELSE t[i]]
    BY <1>2 DEF Chain
  <2> QED BY <2>1, <2>2, Zenon DEF Spliced
<1>9. Chain(g, t) = Spliced(Chain(g, s), p, p, Chain(h, l), n)
  <2>1. ASSUME NEW i \in 0..n + p
        PROVE  (IF i = 0 THEN g ELSE t[i]) =
               (IF i <= p THEN Chain(g, s)[i] ELSE IF i <= p + n THEN Chain(h, l)[i - p]
                                                   ELSE Chain(g, s)[i - n])
    <3>1. CASE i = 0
      BY <1>1, <3>1, ChainCycle
    <3>2. CASE i \in 1..p
      BY <1>1, <1>3, <3>2, ChainCycle
    <3>3. CASE i > p /\ i # 0
      <4>1. i \in 1..n + p /\ i - p \in 1..n /\ ~(i <= p) /\ i <= p + n
        BY <1>1, <3>3
      <4>2. t[i] = l[i - p] /\ Chain(h, l)[i - p] = l[i - p]
        BY <1>4, <3>3, <4>1, ChainCycle
      <4> QED BY <3>3, <4>1, <4>2
    <3> QED BY <1>1, <3>1, <3>2, <3>3
  <2>2. Chain(g, t) = [i \in 0..n + p |-> IF i = 0 THEN g ELSE t[i]]
    BY <1>2 DEF Chain
  <2>3. n + p = p + n
    BY <1>1
  <2> QED BY <2>1, <2>2, <2>3, Zenon DEF Spliced
<1> QED BY <1>2, <1>6, <1>7, <1>8, <1>9 DEF Proper, t

-----------------------------------------------------------------------------
(* The operations of GtListOps on the memory of one list or of two.        *)

\* The memory of TypeOK.
Memory == [next : [Nodes -> Nodes \cup {Null, LIST_POISON1}],
           prev : [Nodes -> Nodes \cup {Null, LIST_POISON2}]]

\* In memory m the head h leads around the list l.
Well(m, h, l) == Proper(l) /\ Ring(m.next, m.prev, Chain(h, l), Len(l))

\* The nodes of the list l of head h.
In(h, l) == {h} \cup ToSet(l)

\* Only the pointers of nodes in T differ.
Same(m, w, T) == \A x \in Nodes \ T : w.next[x] = m.next[x] /\ w.prev[x] = m.prev[x]

\* The two fields of the memory.
LEMMA MemoryIs ==
    ASSUME NEW m \in Memory
    PROVE  /\ m = [next |-> m.next, prev |-> m.prev]
           /\ m.next \in [Nodes -> Nodes \cup {Null, LIST_POISON1}]
           /\ m.prev \in [Nodes -> Nodes \cup {Null, LIST_POISON2}]
           /\ m.next \in Pointers /\ m.prev \in Pointers
<1>1. /\ m = [next |-> m.next, prev |-> m.prev]
      /\ m.next \in [Nodes -> Nodes \cup {Null, LIST_POISON1}]
      /\ m.prev \in [Nodes -> Nodes \cup {Null, LIST_POISON2}]
  BY DEF Memory
<1>2. m.next \in Pointers
  BY <1>1 DEF Pointers
<1>3. m.prev \in Pointers
  BY <1>1 DEF Pointers
<1> QED BY <1>1, <1>2, <1>3

\* A list none of whose nodes is written stays as it is.
LEMMA Frame ==
    ASSUME NEW m, NEW w, NEW T, Same(m, w, T), NEW h \in Heads, NEW l, Well(m, h, l),
           In(h, l) \cap T = {}
    PROVE  Well(w, h, l)
<1> DEFINE c == Chain(h, l)
<1>1. /\ Cycle(c, Len(l)) /\ Len(l) \in Nat
      /\ c[0] = h /\ \A i \in 1..Len(l) : c[i] = l[i]
  BY ChainCycle DEF Well
<1>2. \A i \in 0..Len(l) : c[i] \in Nodes
  BY <1>1 DEF Cycle
<1>3. \A i \in 1..Len(l) : l[i] \in ToSet(l)
  BY DEF ToSet
<1>4. \A i \in 0..Len(l) : i = 0 \/ i \in 1..Len(l)
  BY <1>1
<1> HIDE DEF c
<1>5. \A i \in 0..Len(l) : c[i] \in Nodes \ T
  BY <1>1, <1>2, <1>3, <1>4 DEF In
<1> QED BY <1>5 DEF Well, Ring, Same, c

\* What __list_add writes.
LEMMA ListAddIs ==
    ASSUME NEW m \in Memory, NEW e \in Nodes, NEW a \in Nodes, NEW b \in Nodes, a # e, b # e
    PROVE  /\ __list_add(m, e, a, b) \in Memory
           /\ __list_add(m, e, a, b).next = Write(Write(m.next, e, b), a, e)
           /\ __list_add(m, e, a, b).prev = Write(Write(m.prev, b, e), e, a)
           /\ Same(m, __list_add(m, e, a, b), {e, a, b})
<1> DEFINE w == __list_add(m, e, a, b)
<1>1. w = [next |-> Write(Write(m.next, e, b), a, e),
           prev |-> Write(Write(m.prev, b, e), e, a)]
  <2>1. PICK u : u = list_add_first_half(m, e, a, b)
    OBVIOUS
  <2>2. u = [next |-> Write(m.next, e, b), prev |-> Write(m.prev, b, e)]
    BY <2>1 DEF Memory, Write, list_add_first_half, Write
  <2>3. w = [u EXCEPT !.prev[e] = a, !.next[a] = e]
    BY <2>1 DEF __list_add, list_add_second_half
  <2> QED BY <2>2, <2>3 DEF Write
<1> HIDE DEF w
<1>2. w.next = Write(Write(m.next, e, b), a, e) /\ w.prev = Write(Write(m.prev, b, e), e, a)
  BY <1>1
<1>3. w.next \in [Nodes -> Nodes \cup {Null, LIST_POISON1}]
  BY <1>2, MemoryIs DEF Write
<1>4. w.prev \in [Nodes -> Nodes \cup {Null, LIST_POISON2}]
  BY <1>2, MemoryIs DEF Write
<1>5. w \in Memory
  BY <1>1, <1>2, <1>3, <1>4 DEF Memory
<1>6. Same(m, w, {e, a, b})
  BY <1>2, MemoryIs DEF Same, Write
<1> QED BY <1>2, <1>5, <1>6 DEF w

\* What __list_del writes.
LEMMA ListDelIs ==
    ASSUME NEW m \in Memory, NEW a \in Nodes, NEW b \in Nodes,
           NEW w, w = __list_del(m, a, b)
    PROVE  /\ w \in Memory
           /\ w.next = Write(m.next, a, b)
           /\ w.prev = Write(m.prev, b, a)
           /\ Same(m, w, {a, b})
<1>1. w = [next |-> Write(m.next, a, b), prev |-> Write(m.prev, b, a)]
  <2>1. PICK u : u = list_del_first_half(m, a, b)
    OBVIOUS
  <2>2. u = [next |-> m.next, prev |-> Write(m.prev, b, a)]
    BY <2>1 DEF Memory, Write, list_del_first_half, Write
  <2>3. w = [u EXCEPT !.next[a] = b]
    BY <2>1 DEF __list_del, list_del_second_half
  <2> QED BY <2>2, <2>3 DEF Write
<1>2. w.next = Write(m.next, a, b) /\ w.prev = Write(m.prev, b, a)
  BY <1>1
<1>3. w.next \in [Nodes -> Nodes \cup {Null, LIST_POISON1}]
  BY <1>2, MemoryIs DEF Write
<1>4. w.prev \in [Nodes -> Nodes \cup {Null, LIST_POISON2}]
  BY <1>2, MemoryIs DEF Write
<1>5. w \in Memory
  BY <1>1, <1>2, <1>3, <1>4 DEF Memory
<1>6. Same(m, w, {a, b})
  BY <1>2, MemoryIs DEF Same, Write
<1> QED BY <1>2, <1>5, <1>6

\* What INIT_LIST_HEAD and the poison of list_del write.
LEMMA ListInitIs ==
    ASSUME NEW m \in Memory, NEW x \in Nodes
    PROVE  /\ INIT_LIST_HEAD(m, x) \in Memory /\ Poison(m, x) \in Memory
           /\ INIT_LIST_HEAD(m, x).next[x] = x /\ INIT_LIST_HEAD(m, x).prev[x] = x
           /\ Same(m, INIT_LIST_HEAD(m, x), {x}) /\ Same(m, Poison(m, x), {x})
<1>1. ASSUME NEW y \in Nodes \cup {Null, LIST_POISON1}, NEW z \in Nodes \cup {Null, LIST_POISON2},
             NEW w, w = [m EXCEPT !.next[x] = y, !.prev[x] = z]
      PROVE  w \in Memory /\ w.next[x] = y /\ w.prev[x] = z /\ Same(m, w, {x})
  <2>1. w = [next |-> Write(m.next, x, y), prev |-> Write(m.prev, x, z)]
    BY <1>1 DEF Memory, Write
  <2>2. w.next = Write(m.next, x, y) /\ w.prev = Write(m.prev, x, z)
    BY <2>1
  <2>3. w.next \in [Nodes -> Nodes \cup {Null, LIST_POISON1}]
    BY <2>2, MemoryIs DEF Write
  <2>4. w.prev \in [Nodes -> Nodes \cup {Null, LIST_POISON2}]
    BY <2>2, MemoryIs DEF Write
  <2>5. w \in Memory
    BY <2>1, <2>2, <2>3, <2>4 DEF Memory
  <2>6. Same(m, w, {x})
    BY <2>2, MemoryIs DEF Same, Write
  <2> QED BY <2>2, <2>5, <2>6, MemoryIs DEF Write
<1>2. INIT_LIST_HEAD(m, x) = [m EXCEPT !.next[x] = x, !.prev[x] = x]
  BY DEF INIT_LIST_HEAD
<1>3. Poison(m, x) = [m EXCEPT !.next[x] = LIST_POISON1, !.prev[x] = LIST_POISON2]
  BY DEF Poison
<1> QED BY <1>1, <1>2, <1>3

\* What list_replace writes: the third write reads old->prev after the second
\* one, which is old->prev itself when old is alone.
LEMMA ListReplaceIs ==
    ASSUME NEW m \in Memory, NEW old \in Nodes, NEW f \in Nodes, old # f,
           m.next[old] \in Nodes, m.next[old] # f, m.prev[old] \in Nodes, m.prev[old] # f
    PROVE  /\ list_replace(m, old, f) \in Memory
           /\ m.next[old] # old =>
                /\ list_replace(m, old, f).next = Write(Write(m.next, f, m.next[old]), m.prev[old], f)
                /\ list_replace(m, old, f).prev = Write(Write(m.prev, m.next[old], f), f, m.prev[old])
           /\ m.next[old] = old =>
                /\ list_replace(m, old, f).next[f] = f
                /\ list_replace(m, old, f).prev[f] = f
           /\ Same(m, list_replace(m, old, f), {f, m.prev[old], m.next[old]})
<1>a. PICK a : a = m.prev[old]
  OBVIOUS
<1>b. PICK b : b = m.next[old]
  OBVIOUS
<1>c. a \in Nodes /\ b \in Nodes /\ a # f /\ b # f
  BY <1>a, <1>b
<1> DEFINE w == list_replace(m, old, f)
<1>0. /\ m.next \in [Nodes -> Nodes \cup {Null, LIST_POISON1}]
      /\ m.prev \in [Nodes -> Nodes \cup {Null, LIST_POISON2}]
  BY MemoryIs
<1>1. PICK nx : nx = Write(m.next, f, b)
  OBVIOUS
<1>2. PICK pv : pv = Write(m.prev, b, f)
  OBVIOUS
<1>3. PICK z : z = IF b = old THEN f ELSE a
  OBVIOUS
<1>4. /\ nx \in [Nodes -> Nodes \cup {Null, LIST_POISON1}] /\ nx[f] = b
      /\ \A x \in Nodes : x # f => nx[x] = m.next[x]
  BY <1>c, <1>0, <1>1 DEF Write
<1>5. /\ pv \in [Nodes -> Nodes \cup {Null, LIST_POISON2}] /\ pv[old] = z
      /\ \A x \in Nodes : x # b => pv[x] = m.prev[x]
  BY <1>a, <1>c, <1>0, <1>2, <1>3 DEF Write
<1>6. w = [next |-> Write(nx, z, f), prev |-> Write(pv, f, z)]
  <2>1. PICK m1 : m1 = [m EXCEPT !.next[f] = m.next[old]]
    OBVIOUS
  <2>2. m1 = [next |-> nx, prev |-> m.prev]
    BY <1>b, <1>1, <2>1 DEF Memory, Write
  <2>3. PICK m2 : m2 = [m1 EXCEPT !.prev[m1.next[f]] = f]
    OBVIOUS
  <2>4. m2 = [next |-> nx, prev |-> pv]
    BY <1>2, <1>4, <2>2, <2>3 DEF Write
  <2>5. PICK m3 : m3 = [m2 EXCEPT !.prev[f] = m2.prev[old]]
    OBVIOUS
  <2>6. m3 = [next |-> nx, prev |-> Write(pv, f, z)]
    BY <1>5, <2>4, <2>5 DEF Write
  <2>7. m3.prev[f] = z
    BY <1>5, <2>6 DEF Write
  <2>8. w = [m3 EXCEPT !.next[m3.prev[f]] = f]
    BY <2>1, <2>3, <2>5 DEF list_replace
  <2> QED BY <2>6, <2>7, <2>8 DEF Write
<1> HIDE DEF w
<1>7. w.next = Write(nx, z, f) /\ w.prev = Write(pv, f, z) /\ z \in Nodes
  BY <1>c, <1>3, <1>6
<1>8. w.next \in [Nodes -> Nodes \cup {Null, LIST_POISON1}]
  BY <1>c, <1>4, <1>7 DEF Write
<1>9. w.prev \in [Nodes -> Nodes \cup {Null, LIST_POISON2}]
  BY <1>c, <1>5, <1>7 DEF Write
<1>10. w \in Memory
  BY <1>6, <1>7, <1>8, <1>9 DEF Memory
<1>11. b # old => w.next = Write(Write(m.next, f, b), a, f)
                  /\ w.prev = Write(Write(m.prev, b, f), f, a)
  BY <1>1, <1>2, <1>3, <1>7 DEF Write
<1>12. b = old => w.next[f] = f /\ w.prev[f] = f
  BY <1>c, <1>3, <1>4, <1>5, <1>7 DEF Write
<1>13. Same(m, w, {f, a, b})
  <2>1. \A x \in Nodes : x # f /\ x # z => w.next[x] = m.next[x]
    BY <1>c, <1>4, <1>7 DEF Write
  <2>2. \A x \in Nodes : x # f /\ x # b => w.prev[x] = m.prev[x]
    BY <1>c, <1>5, <1>7 DEF Write
  <2> QED BY <1>3, <2>1, <2>2 DEF Same
<1> QED BY <1>a, <1>b, <1>10, <1>11, <1>12, <1>13 DEF w

\* What __list_splice writes.
LEMMA ListSpliceIs ==
    ASSUME NEW m \in Memory, NEW h \in Nodes, NEW a \in Nodes, NEW b \in Nodes,
           m.next[h] \in Nodes, m.prev[h] \in Nodes
    PROVE  /\ __list_splice(m, h, a, b) \in Memory
           /\ __list_splice(m, h, a, b).next = Write(Write(m.next, a, m.next[h]), m.prev[h], b)
           /\ __list_splice(m, h, a, b).prev = Write(Write(m.prev, m.next[h], a), b, m.prev[h])
           /\ Same(m, __list_splice(m, h, a, b), {a, b, m.next[h], m.prev[h]})
<1>a. PICK first : first = m.next[h] /\ first \in Nodes
  OBVIOUS
<1>b. PICK last : last = m.prev[h] /\ last \in Nodes
  OBVIOUS
<1> DEFINE w == __list_splice(m, h, a, b)
<1>1. w = [next |-> Write(Write(m.next, a, first), last, b),
           prev |-> Write(Write(m.prev, first, a), b, last)]
  <2>1. w = [m EXCEPT !.prev[first] = a, !.next[a] = first, !.next[last] = b, !.prev[b] = last]
    BY <1>a, <1>b DEF __list_splice
  <2> QED BY <2>1 DEF Memory, Write
<1> HIDE DEF w
<1>2. /\ w.next = Write(Write(m.next, a, first), last, b)
      /\ w.prev = Write(Write(m.prev, first, a), b, last)
  BY <1>1
<1>3. w.next \in [Nodes -> Nodes \cup {Null, LIST_POISON1}]
  BY <1>a, <1>b, <1>2, MemoryIs DEF Write
<1>4. w.prev \in [Nodes -> Nodes \cup {Null, LIST_POISON2}]
  BY <1>a, <1>b, <1>2, MemoryIs DEF Write
<1>5. w \in Memory
  BY <1>1, <1>2, <1>3, <1>4 DEF Memory
<1>6. Same(m, w, {a, b, first, last})
  BY <1>a, <1>b, <1>2, MemoryIs DEF Same, Write
<1> QED BY <1>a, <1>b, <1>2, <1>5, <1>6 DEF w

\* The nodes of a well formed list and where their pointers lead.
LEMMA WellIs ==
    ASSUME NEW m \in Memory, NEW h \in Heads, NEW l, Well(m, h, l)
    PROVE  /\ Proper(l) /\ Len(l) \in Nat
           /\ Cycle(Chain(h, l), Len(l)) /\ Ring(m.next, m.prev, Chain(h, l), Len(l))
           /\ \A i \in 0..Len(l) :
                 /\ Chain(h, l)[i] \in In(h, l) /\ Chain(h, l)[i] \in Nodes
                 /\ m.next[Chain(h, l)[i]] = Chain(h, l)[Succ(Len(l), i)]
                 /\ m.prev[Chain(h, l)[i]] = Chain(h, l)[Pred(Len(l), i)]
                 /\ Succ(Len(l), i) \in 0..Len(l) /\ Pred(Len(l), i) \in 0..Len(l)
           /\ 0 \in 0..Len(l) /\ Len(l) \in 0..Len(l) /\ Chain(h, l)[0] = h
           /\ \A i \in 1..Len(l) : i \in 0..Len(l) /\ Chain(h, l)[i] = l[i]
           /\ In(h, l) \subseteq Nodes
<1> DEFINE c == Chain(h, l)
           n == Len(l)
<1>1. /\ Proper(l) /\ Cycle(c, n) /\ n \in Nat /\ c[0] = h /\ \A i \in 1..n : c[i] = l[i]
  BY ChainCycle DEF Well
<1>2. Ring(m.next, m.prev, c, n)
  BY DEF Well
<1> HIDE DEF c
<1>3. \A i \in 0..n : Succ(n, i) \in 0..n /\ Pred(n, i) \in 0..n
  BY <1>1 DEF Succ, Pred
<1>4. \A i \in 0..n : c[i] \in Nodes
  BY <1>1 DEF Cycle
<1>5. \A i \in 1..n : l[i] \in ToSet(l)
  BY DEF ToSet
<1>6. \A i \in 0..n : i = 0 \/ i \in 1..n
  BY <1>1
<1>7. \A i \in 0..n : c[i] \in In(h, l)
  BY <1>1, <1>5, <1>6 DEF In
<1>8. In(h, l) \subseteq Nodes
  <2>1. ToSet(l) \subseteq Entries
    BY <1>1 DEF Proper, ToSet
  <2> QED BY <2>1 DEF In, Nodes
<1>9. 0 \in 0..n /\ n \in 0..n /\ \A i \in 1..n : i \in 0..n
  BY <1>1
<1> QED BY <1>1, <1>2, <1>3, <1>4, <1>7, <1>8, <1>9 DEF Ring, c

\* A head that points at itself leads around the empty list.
LEMMA WellEmpty ==
    ASSUME NEW m, NEW h \in Heads, m.next[h] = h, m.prev[h] = h
    PROVE  Well(m, h, <<>>)
<1>1. Proper(<<>>) /\ Len(<<>>) = 0
  BY DEF Proper, Uniq
<1>2. \A i \in 0..0 : i = 0
  OBVIOUS
<1>3. Chain(h, <<>>)[0] = h
  BY <1>1, ChainCycle
<1>4. \A i \in 0..0 : Succ(0, i) = 0 /\ Pred(0, i) = 0
  BY DEF Succ, Pred
<1>5. Ring(m.next, m.prev, Chain(h, <<>>), 0)
  BY <1>2, <1>3, <1>4 DEF Ring
<1> QED BY <1>1, <1>5 DEF Well

\* list_add puts a new entry first.
LEMMA AddedFront ==
    ASSUME NEW m \in Memory, NEW h \in Heads, NEW l, Well(m, h, l),
           NEW e \in Entries, e \notin ToSet(l)
    PROVE  /\ list_add(m, e, h) \in Memory /\ Well(list_add(m, e, h), h, <<e>> \o l)
           /\ Same(m, list_add(m, e, h), In(h, l) \cup {e})
<1> DEFINE c == Chain(h, l)
           n == Len(l)
<1>0. PICK b : b = c[Succ(n, 0)]
  OBVIOUS
<1>1. e \in Nodes /\ e # h
  BY ListAssumption DEF Nodes
<1>2. /\ h \in Nodes /\ b \in Nodes /\ h \in In(h, l) /\ b \in In(h, l)
      /\ m.next[h] = b /\ c[0] = h /\ 0 \in 0..n /\ Succ(n, 0) \in 0..n
  BY <1>0, WellIs
<1>3. \A i \in 0..n : c[i] # e
  BY <1>1, ChainCycle DEF Well
<1>4. b # e
  BY <1>0, <1>2, <1>3
<1>5. list_add(m, e, h) = __list_add(m, e, h, b)
  BY <1>2 DEF list_add
<1>6. PICK w : w = list_add(m, e, h)
  OBVIOUS
<1>7. /\ w \in Memory /\ w.next = Write(Write(m.next, e, b), h, e)
      /\ w.prev = Write(Write(m.prev, b, e), e, h) /\ Same(m, w, {e, h, b})
  <2>1. b \in Nodes /\ h \in Nodes
    BY <1>2
  <2> QED BY <1>1, <1>4, <1>5, <1>6, <2>1, ListAddIs
<1>8. Same(m, w, In(h, l) \cup {e})
  BY <1>2, <1>7 DEF Same
<1>9. Ring(w.next, w.prev, Inserted(c, n, 0, e), n + 1)
  <2>1. m.next \in Pointers /\ m.prev \in Pointers
    BY MemoryIs
  <2>2. Cycle(c, n) /\ Ring(m.next, m.prev, c, n)
    BY WellIs
  <2> HIDE DEF c
  <2>3. Ring(Write(Write(m.next, e, b), h, e), Write(Write(m.prev, b, e), e, h),
             Inserted(c, n, 0, e), n + 1)
    BY <1>0, <1>1, <1>2, <1>3, <2>1, <2>2, InsertedRing, Zenon
  <2> QED BY <1>7, <2>3, Zenon
<1>10. Well(w, h, <<e>> \o l)
  BY <1>9, FrontIs DEF Well
<1> QED BY <1>6, <1>7, <1>8, <1>10

\* list_add_tail puts a new entry last.
LEMMA AddedBack ==
    ASSUME NEW m \in Memory, NEW h \in Heads, NEW l, Well(m, h, l),
           NEW e \in Entries, e \notin ToSet(l)
    PROVE  /\ list_add_tail(m, e, h) \in Memory /\ Well(list_add_tail(m, e, h), h, Append(l, e))
           /\ Same(m, list_add_tail(m, e, h), In(h, l) \cup {e})
<1> DEFINE c == Chain(h, l)
           n == Len(l)
<1>0. PICK a : a = c[n]
  OBVIOUS
<1>1. e \in Nodes /\ e # h
  BY ListAssumption DEF Nodes
<1>2. /\ h \in Nodes /\ a \in Nodes /\ h \in In(h, l) /\ a \in In(h, l)
      /\ c[0] = h /\ 0 \in 0..n /\ n \in 0..n
  BY <1>0, WellIs, SMTT(30)
<1>3. Pred(n, 0) = n /\ Succ(n, n) = 0
  BY DEF Pred, Succ
<1>4. m.prev[h] = a
  BY <1>0, <1>3, WellIs
<1>5. \A i \in 0..n : c[i] # e
  BY <1>1, ChainCycle DEF Well
<1>6. a # e
  BY <1>0, <1>2, <1>5
<1>7. list_add_tail(m, e, h) = __list_add(m, e, a, h)
  BY <1>4 DEF list_add_tail
<1>8. PICK w : w = list_add_tail(m, e, h)
  OBVIOUS
<1>9. /\ w \in Memory /\ w.next = Write(Write(m.next, e, h), a, e)
      /\ w.prev = Write(Write(m.prev, h, e), e, a) /\ Same(m, w, {e, a, h})
  <2>1. a \in Nodes /\ h \in Nodes /\ w = __list_add(m, e, a, h)
    BY <1>2, <1>7, <1>8
  <2> QED BY <1>1, <1>6, <2>1, ListAddIs, SMTT(30)
<1>10. Same(m, w, In(h, l) \cup {e})
  BY <1>2, <1>9 DEF Same
<1>11. Ring(w.next, w.prev, Inserted(c, n, n, e), n + 1)
  <2>1. m.next \in Pointers /\ m.prev \in Pointers
    BY MemoryIs
  <2>2. Cycle(c, n) /\ Ring(m.next, m.prev, c, n) /\ h = c[Succ(n, n)]
    BY <1>2, <1>3, WellIs
  <2> HIDE DEF c
  <2>3. Ring(Write(Write(m.next, e, h), a, e), Write(Write(m.prev, h, e), e, a),
             Inserted(c, n, n, e), n + 1)
    BY <1>0, <1>1, <1>2, <1>5, <2>1, <2>2, InsertedRing, Zenon
  <2> QED BY <1>9, <2>3, Zenon
<1>12. Well(w, h, Append(l, e))
  BY <1>11, BackIs DEF Well
<1> QED BY <1>8, <1>9, <1>10, <1>12

\* __list_del of an entry: it keeps its own pointers.
LEMMA Unlinked ==
    ASSUME NEW m \in Memory, NEW h \in Heads, NEW l, Well(m, h, l), NEW e \in ToSet(l)
    PROVE  /\ __list_del(m, m.prev[e], m.next[e]) \in Memory
           /\ Well(__list_del(m, m.prev[e], m.next[e]), h, RemoveFirst(l, e))
           /\ Same(m, __list_del(m, m.prev[e], m.next[e]), In(h, RemoveFirst(l, e)))
           /\ ToSet(RemoveFirst(l, e)) = ToSet(l) \ {e}
<1> DEFINE c == Chain(h, l)
           n == Len(l)
<1>w. PICK w : w = __list_del(m, m.prev[e], m.next[e])
  OBVIOUS
<1>1. PICK k \in 1..n : e = l[k]
  BY DEF ToSet
<1>a. PICK a : a = c[Pred(n, k)]
  OBVIOUS
<1>b. PICK b : b = c[Succ(n, k)]
  OBVIOUS
<1>2. n \in Nat /\ Proper(l) /\ Cycle(c, n) /\ Ring(m.next, m.prev, c, n) /\ k \in 0..n /\ c[k] = e
  BY <1>1, WellIs
<1>3. /\ Pred(n, k) = k - 1 /\ Pred(n, k) \in 0..n /\ Succ(n, k) \in 0..n
      /\ Pred(n, k) # k /\ Succ(n, k) # k
  BY <1>2 DEF Pred, Succ
<1>4. /\ m.prev[e] = a /\ m.next[e] = b /\ a \in In(h, l) /\ b \in In(h, l)
      /\ a \in Nodes /\ b \in Nodes
  <2>1. /\ c[k] \in In(h, l) /\ m.next[c[k]] = b /\ m.prev[c[k]] = a
    BY <1>a, <1>b, <1>2, WellIs, SMTT(30)
  <2>2. a \in In(h, l) /\ b \in In(h, l)
    BY <1>a, <1>b, <1>3, WellIs
  <2> QED BY <1>2, <2>1, <2>2, WellIs
<1>5. a # e /\ b # e
  BY <1>a, <1>b, <1>2, <1>3 DEF Cycle
<1>6. ToSet(RemoveFirst(l, e)) = ToSet(l) \ {e}
  BY <1>1, <1>2, RemoveIs
<1>7. a \in In(h, RemoveFirst(l, e)) /\ b \in In(h, RemoveFirst(l, e))
  BY <1>4, <1>5, <1>6 DEF In
<1>8. /\ w \in Memory /\ w.next = Write(m.next, a, b) /\ w.prev = Write(m.prev, b, a)
      /\ Same(m, w, {a, b})
  <2>1. a \in Nodes /\ b \in Nodes
    BY <1>4
  <2>2. w = __list_del(m, a, b)
    BY <1>w, <1>4
  <2> QED BY <2>1, <2>2, ListDelIs
<1>9. Same(m, w, In(h, RemoveFirst(l, e)))
  BY <1>7, <1>8 DEF Same
<1>10. Ring(w.next, w.prev, Dropped(c, n, k), n - 1)
  <2>1. m.next \in Pointers /\ m.prev \in Pointers
    BY MemoryIs
  <2>2. a = c[k - 1]
    BY <1>a, <1>3
  <2> HIDE DEF c
  <2>3. Ring(Write(m.next, a, b), Write(m.prev, b, a), Dropped(c, n, k), n - 1)
    BY <1>b, <1>2, <2>1, <2>2, DroppedRing, Zenon
  <2> QED BY <1>8, <2>3, Zenon
<1>11. Well(w, h, RemoveFirst(l, e))
  <2>1. /\ Proper(RemoveFirst(l, e)) /\ Len(RemoveFirst(l, e)) = n - 1
        /\ Chain(h, RemoveFirst(l, e)) = Dropped(c, n, k)
    BY <1>1, <1>2, RemoveIs
  <2> QED BY <1>10, <2>1 DEF Well
<1> QED BY <1>w, <1>6, <1>8, <1>9, <1>11

\* list_replace of an entry gives its place to another one.
LEMMA ReplacedEntry ==
    ASSUME NEW m \in Memory, NEW h \in Heads, NEW l, Well(m, h, l), NEW e \in ToSet(l),
           NEW f \in Entries, f \notin ToSet(l)
    PROVE  /\ list_replace(m, e, f) \in Memory
           /\ Well(list_replace(m, e, f), h, Write(l, Place(l, e), f))
           /\ Same(m, list_replace(m, e, f), In(h, l) \cup {f})
           /\ ToSet(Write(l, Place(l, e), f)) = (ToSet(l) \ {e}) \cup {f}
<1> DEFINE c == Chain(h, l)
           n == Len(l)
<1>w. PICK w : w = list_replace(m, e, f)
  OBVIOUS
<1>1. PICK k \in 1..n : e = l[k]
  BY DEF ToSet
<1>a. PICK a : a = c[Pred(n, k)]
  OBVIOUS
<1>b. PICK b : b = c[Succ(n, k)]
  OBVIOUS
<1>2. n \in Nat /\ Proper(l) /\ Cycle(c, n) /\ Ring(m.next, m.prev, c, n) /\ k \in 0..n /\ c[k] = e
  BY <1>1, WellIs
<1>3. /\ n # 0 /\ Pred(n, k) \in 0..n /\ Succ(n, k) \in 0..n /\ Succ(n, k) # k
  BY <1>2 DEF Pred, Succ
<1>4. Place(l, e) = k
  BY <1>1, <1>2, RemoveFirstIs
<1>5. m.prev[e] = a /\ m.next[e] = b
  BY <1>a, <1>b, <1>2, WellIs, SMTT(30)
<1>6. a \in In(h, l) /\ b \in In(h, l) /\ a \in Nodes /\ b \in Nodes /\ e \in Nodes
  BY <1>a, <1>b, <1>2, <1>3, WellIs
<1>7. b # e
  BY <1>b, <1>2, <1>3 DEF Cycle
<1>8. f \in Nodes /\ f # h
  BY ListAssumption DEF Nodes
<1>9. \A i \in 0..n : c[i] # f
  BY <1>2, <1>8, ChainCycle
<1>10. a # f /\ b # f /\ e # f
  BY <1>a, <1>b, <1>3, <1>9
<1>11. /\ w \in Memory /\ w.next = Write(Write(m.next, f, b), a, f)
       /\ w.prev = Write(Write(m.prev, b, f), f, a) /\ Same(m, w, {f, a, b})
  <2>1. f \in Nodes
    BY <1>8
  <2>2. /\ w \in Memory /\ Same(m, w, {f, a, b})
        /\ b # e => w.next = Write(Write(m.next, f, b), a, f)
                    /\ w.prev = Write(Write(m.prev, b, f), f, a)
    BY <1>w, <1>5, <1>6, <1>10, <2>1, ListReplaceIs, ZenonT(90)
  <2> QED BY <1>7, <2>2
<1>12. Same(m, w, In(h, l) \cup {f})
  BY <1>6, <1>11 DEF Same
<1>13. Ring(w.next, w.prev, Write(c, k, f), n)
  <2>1. m.next \in Pointers /\ m.prev \in Pointers
    BY MemoryIs
  <2> HIDE DEF c
  <2>2. Ring(Write(Write(m.next, f, b), a, f), Write(Write(m.prev, b, f), f, a),
             Write(c, k, f), n)
    BY <1>a, <1>b, <1>2, <1>3, <1>8, <1>9, <2>1, ReplacedRing, Zenon
  <2> QED BY <1>11, <2>2, Zenon
<1>14. /\ Proper(Write(l, k, f)) /\ Len(Write(l, k, f)) = n
       /\ ToSet(Write(l, k, f)) = (ToSet(l) \ {e}) \cup {f}
       /\ Chain(h, Write(l, k, f)) = Write(c, k, f)
  BY <1>1, <1>2, ReplaceIs
<1>15. Well(w, h, Write(l, k, f))
  BY <1>13, <1>14 DEF Well
<1> QED BY <1>w, <1>4, <1>11, <1>12, <1>14, <1>15

\* list_replace of a head gives its list to another one, which points at
\* itself afterwards when the list is empty.
LEMMA ReplacedHead ==
    ASSUME NEW m \in Memory, NEW h \in Heads, NEW g \in Heads, g # h, NEW l, Well(m, h, l)
    PROVE  /\ list_replace(m, h, g) \in Memory /\ Well(list_replace(m, h, g), g, l)
           /\ Same(m, list_replace(m, h, g), In(h, l) \cup {g})
<1> DEFINE c == Chain(h, l)
           n == Len(l)
<1>w. PICK w : w = list_replace(m, h, g)
  OBVIOUS
<1>a. PICK a : a = c[Pred(n, 0)]
  OBVIOUS
<1>b. PICK b : b = c[Succ(n, 0)]
  OBVIOUS
<1>2. n \in Nat /\ Proper(l) /\ Cycle(c, n) /\ Ring(m.next, m.prev, c, n) /\ 0 \in 0..n /\ c[0] = h
  BY WellIs
<1>3. /\ Pred(n, 0) \in 0..n /\ Succ(n, 0) \in 0..n
      /\ Succ(n, 0) = 0 <=> n = 0
  BY <1>2 DEF Pred, Succ
<1>5. m.prev[h] = a /\ m.next[h] = b
  BY <1>a, <1>b, <1>2, WellIs
<1>6. a \in In(h, l) /\ b \in In(h, l) /\ a \in Nodes /\ b \in Nodes /\ h \in Nodes /\ g \in Nodes
  BY <1>a, <1>b, <1>2, <1>3, WellIs DEF Nodes
<1>7. b = h <=> n = 0
  BY <1>b, <1>2, <1>3 DEF Cycle
<1>8. g \notin ToSet(l)
  BY <1>2, ListAssumption DEF Proper, ToSet
<1>9. \A i \in 0..n : c[i] # g
  BY <1>2, <1>8, ChainCycle
<1>10. a # g /\ b # g
  BY <1>a, <1>b, <1>3, <1>9
<1>11. /\ w \in Memory /\ Same(m, w, {g, a, b})
       /\ b # h => w.next = Write(Write(m.next, g, b), a, g)
                   /\ w.prev = Write(Write(m.prev, b, g), g, a)
       /\ b = h => w.next[g] = g /\ w.prev[g] = g
  BY <1>w, <1>5, <1>6, <1>10, ListReplaceIs
<1>12. Same(m, w, In(h, l) \cup {g})
  BY <1>6, <1>11 DEF Same
<1>13. CASE n # 0
  <2>1. m.next \in Pointers /\ m.prev \in Pointers
    BY MemoryIs
  <2>2. Chain(g, l) = Write(c, 0, g)
    BY <1>2, OtherHeadIs
  <2> HIDE DEF c
  <2>3. Ring(Write(Write(m.next, g, b), a, g), Write(Write(m.prev, b, g), g, a),
             Write(c, 0, g), n)
    BY <1>a, <1>b, <1>2, <1>6, <1>9, <1>13, <2>1, ReplacedRing, Zenon
  <2>4. Ring(w.next, w.prev, Write(c, 0, g), n)
    BY <1>7, <1>11, <1>13, <2>3, Zenon
  <2>5. Well(w, g, l)
    BY <1>2, <2>2, <2>4 DEF Well
  <2> QED BY <1>w, <1>11, <1>12, <2>5
<1>14. CASE n = 0
  <2>1. l = <<>>
    BY <1>2, <1>14 DEF Proper
  <2>2. Well(w, g, <<>>)
    BY <1>7, <1>11, <1>14, WellEmpty
  <2> QED BY <1>w, <1>11, <1>12, <2>1, <2>2
<1> QED BY <1>13, <1>14

\* h is where the ring d begins, a and b are neighbours in the ring c.
Begins(d, h) == d[0] = h
Neighbours(c, n, k, a, b) == a = c[k] /\ b = c[Succ(n, k)]

\* __list_splice between two neighbours of a ring.
LEMMA SplicedMemory ==
    ASSUME NEW m \in Memory, NEW h \in Nodes, NEW c, NEW n, NEW d, NEW p,
           Cycle(c, n), Ring(m.next, m.prev, c, n), Cycle(d, p), Ring(m.next, m.prev, d, p),
           p # 0, Begins(d, h), \A i \in 0..n, j \in 0..p : c[i] # d[j],
           NEW k \in 0..n, NEW a, NEW b, Neighbours(c, n, k, a, b)
    PROVE  /\ __list_splice(m, h, a, b) \in Memory
           /\ Ring(__list_splice(m, h, a, b).next, __list_splice(m, h, a, b).prev,
                   Spliced(c, n, k, d, p), n + p)
           /\ Same(m, __list_splice(m, h, a, b), {a, b, d[1], d[p]})
<1>1. n \in Nat /\ p \in Nat /\ k \in Nat /\ k <= n
  BY DEF Cycle
<1>2. /\ Succ(p, 0) = 1 /\ Pred(p, 0) = p /\ 0 \in 0..p /\ 1 \in 0..p /\ p \in 0..p
      /\ Succ(n, k) \in 0..n
  BY <1>1 DEF Succ, Pred
<1>3. m.next[h] = d[1] /\ m.prev[h] = d[p]
  BY <1>2 DEF Ring, Begins
<1>4. d[1] \in Nodes /\ d[p] \in Nodes /\ a \in Nodes /\ b \in Nodes
  BY <1>2 DEF Cycle, Neighbours
<1>5. PICK w : w = __list_splice(m, h, a, b)
  OBVIOUS
<1>6. /\ w \in Memory /\ Same(m, w, {a, b, d[1], d[p]})
      /\ w.next = Write(Write(m.next, a, d[1]), d[p], b)
      /\ w.prev = Write(Write(m.prev, d[1], a), b, d[p])
  BY <1>3, <1>4, <1>5, ListSpliceIs
<1>7. m.next \in Pointers /\ m.prev \in Pointers
  BY MemoryIs
<1>8. Ring(Write(Write(m.next, a, d[1]), d[p], b), Write(Write(m.prev, d[1], a), b, d[p]),
           Spliced(c, n, k, d, p), n + p)
  BY <1>7, SplicedRing, Zenon DEF Neighbours
<1> QED BY <1>5, <1>6, <1>8, Zenon


\* A list that is not empty, spliced in before or behind another one.
LEMMA SplicedLists ==
    ASSUME NEW m \in Memory, NEW h \in Heads, NEW g \in Heads, g # h, NEW l, Well(m, g, l),
           NEW s, Well(m, h, s), s # <<>>, ToSet(l) \cap ToSet(s) = {}
    PROVE  /\ __list_splice(m, h, g, m.next[g]) \in Memory
           /\ Well(__list_splice(m, h, g, m.next[g]), g, s \o l)
           /\ Same(m, __list_splice(m, h, g, m.next[g]), In(g, l) \cup ToSet(s))
           /\ __list_splice(m, h, m.prev[g], g) \in Memory
           /\ Well(__list_splice(m, h, m.prev[g], g), g, l \o s)
           /\ Same(m, __list_splice(m, h, m.prev[g], g), In(g, l) \cup ToSet(s))
           /\ ~list_empty(m, h)
<1> DEFINE c == Chain(g, l)
           n == Len(l)
           d == Chain(h, s)
           p == Len(s)
<1>1. /\ n \in Nat /\ Proper(l) /\ Cycle(c, n) /\ Ring(m.next, m.prev, c, n)
      /\ c[0] = g /\ 0 \in 0..n /\ n \in 0..n
      /\ \A i \in 0..n : c[i] \in In(g, l) /\ Succ(n, i) \in 0..n
      /\ \A i \in 0..n : m.next[c[i]] = c[Succ(n, i)] /\ m.prev[c[i]] = c[Pred(n, i)]
  <2>1. /\ n \in Nat /\ Proper(l) /\ Cycle(c, n) /\ Ring(m.next, m.prev, c, n)
        /\ c[0] = g /\ 0 \in 0..n /\ n \in 0..n
    BY WellIs
  <2>2. \A i \in 0..n : c[i] \in In(g, l) /\ Succ(n, i) \in 0..n
    BY WellIs
  <2> HIDE DEF c
  <2> QED BY <2>1, <2>2 DEF Ring
<1>2. /\ p \in Nat /\ Proper(s) /\ Cycle(d, p) /\ Ring(m.next, m.prev, d, p) /\ d[0] = h
      /\ \A i \in 1..p : d[i] = s[i]
  BY WellIs
<1>3. p # 0
  BY <1>2 DEF Proper
<1>4. /\ Succ(p, 0) = 1 /\ 1 \in 1..p /\ p \in 1..p /\ 0 \in 0..p /\ 1 \in 0..p
      /\ Pred(n, 0) = n /\ Succ(n, n) = 0
  BY <1>2, <1>3 DEF Succ, Pred
<1>5. d[1] \in ToSet(s) /\ d[p] \in ToSet(s)
  BY <1>2, <1>4 DEF ToSet
<1>6. \A i \in 0..n, j \in 0..p : c[i] # d[j]
  <2>1. /\ \A i \in 0..n : i = 0 \/ i \in 1..n
        /\ \A i \in 0..p : i = 0 \/ i \in 1..p
    BY <1>1, <1>2
  <2>2. (\A i \in 1..n : c[i] = l[i])
    BY <1>1, ChainCycle
  <2>3. (\A i \in 1..n : l[i] \in ToSet(l)) /\ (\A i \in 1..p : s[i] \in ToSet(s))
    BY DEF ToSet
  <2>4. ToSet(l) \cap Heads = {} /\ ToSet(s) \cap Heads = {}
    <3>1. ToSet(l) \subseteq Entries /\ ToSet(s) \subseteq Entries
      BY <1>1, <1>2 DEF Proper, ToSet
    <3> QED BY <3>1, ListAssumption
  <2> HIDE DEF c, d
  <2> QED BY <1>1, <1>2, <2>1, <2>2, <2>3, <2>4
<1>7. Begins(d, h) /\ h \in Nodes
  BY <1>2 DEF Begins, Nodes
<1> HIDE DEF c, d
<1>8. ASSUME NEW k \in 0..n, NEW a, NEW b, Neighbours(c, n, k, a, b)
      PROVE  /\ __list_splice(m, h, a, b) \in Memory
             /\ Ring(__list_splice(m, h, a, b).next, __list_splice(m, h, a, b).prev,
                     Spliced(c, n, k, d, p), n + p)
             /\ Same(m, __list_splice(m, h, a, b), In(g, l) \cup ToSet(s))
  <2>1. /\ __list_splice(m, h, a, b) \in Memory
        /\ Ring(__list_splice(m, h, a, b).next, __list_splice(m, h, a, b).prev,
                     Spliced(c, n, k, d, p), n + p)
        /\ Same(m, __list_splice(m, h, a, b), {a, b, d[1], d[p]})
    BY <1>1, <1>2, <1>3, <1>6, <1>7, <1>8, SplicedMemory, Zenon
  <2>2. a \in In(g, l) /\ b \in In(g, l)
    BY <1>1, <1>8 DEF Neighbours
  <2>3. Same(m, __list_splice(m, h, a, b), In(g, l) \cup ToSet(s))
    BY <1>5, <2>1, <2>2 DEF Same
  <2> QED BY <2>1, <2>3
<1>9. Neighbours(c, n, 0, g, m.next[g]) /\ Neighbours(c, n, n, m.prev[g], g)
  BY <1>1, <1>4 DEF Neighbours
<1>10. /\ Proper(s \o l) /\ Len(s \o l) = n + p /\ Chain(g, s \o l) = Spliced(c, n, 0, d, p)
  BY <1>1, <1>2, ConcatIs DEF c, d
<1>11. /\ Proper(l \o s) /\ Len(l \o s) = n + p /\ Chain(g, l \o s) = Spliced(c, n, n, d, p)
  <2>1. p + n = n + p /\ ToSet(s) \cap ToSet(l) = {}
    BY <1>1, <1>2
  <2> QED BY <1>1, <1>2, <2>1, ConcatIs DEF c, d
<1>12. PICK w : w = __list_splice(m, h, g, m.next[g])
  OBVIOUS
<1>13. w \in Memory /\ Well(w, g, s \o l) /\ Same(m, w, In(g, l) \cup ToSet(s))
  <2>1. w \in Memory /\ Ring(w.next, w.prev, Spliced(c, n, 0, d, p), n + p)
        /\ Same(m, w, In(g, l) \cup ToSet(s))
    BY <1>1, <1>8, <1>9, <1>12, Zenon
  <2> QED BY <1>10, <2>1 DEF Well
<1>14. PICK u : u = __list_splice(m, h, m.prev[g], g)
  OBVIOUS
<1>15. u \in Memory /\ Well(u, g, l \o s) /\ Same(m, u, In(g, l) \cup ToSet(s))
  <2>1. u \in Memory /\ Ring(u.next, u.prev, Spliced(c, n, n, d, p), n + p)
        /\ Same(m, u, In(g, l) \cup ToSet(s))
    BY <1>1, <1>8, <1>9, <1>14, Zenon
  <2> QED BY <1>11, <2>1 DEF Well
<1>16. ~list_empty(m, h)
  <2>1. m.next[d[0]] = d[1]
    BY <1>2, <1>4 DEF Ring
  <2>2. d[1] # d[0]
    BY <1>2, <1>4 DEF Cycle
  <2> QED BY <1>2, <2>1, <2>2 DEF list_empty
<1> QED BY <1>12, <1>13, <1>14, <1>15, <1>16

\* list_empty answers for a list without entries.
LEMMA EmptyIs ==
    ASSUME NEW m \in Memory, NEW h \in Heads, NEW l, Well(m, h, l)
    PROVE  list_empty(m, h) <=> l = <<>>
<1> DEFINE c == Chain(h, l)
           n == Len(l)
<1>1. n \in Nat /\ Proper(l) /\ Cycle(c, n) /\ 0 \in 0..n /\ c[0] = h /\ Ring(m.next, m.prev, c, n)
  BY WellIs
<1>2. m.next[h] = c[Succ(n, 0)] /\ Succ(n, 0) \in 0..n /\ (Succ(n, 0) = 0 <=> n = 0)
  BY <1>1 DEF Ring, Succ
<1>3. n = 0 <=> l = <<>>
  BY <1>1 DEF Proper
<1> HIDE DEF c
<1> QED BY <1>1, <1>2, <1>3 DEF Cycle, list_empty

-----------------------------------------------------------------------------
(* The lists of all heads.                                                 *)

Lists == [Heads -> Seq(Entries) \cup {Stale}]

\* Every usable head leads around its list, and no entry is on two of them.
Shape(m, ls) ==
    /\ m \in Memory /\ ls \in Lists
    /\ \A h \in Heads : ls[h] # Stale => Well(m, h, ls[h])
    /\ \A h, g \in Heads : h # g /\ ls[h] # Stale /\ ls[g] # Stale
                               => ToSet(ls[h]) \cap ToSet(ls[g]) = {}

\* x is a node of no usable list.
Free(ls, x) == \A h \in Heads : ls[h] # Stale => x \notin In(h, ls[h])

\* The entries that a head holds.
Held(ls, h) == IF ls[h] = Stale THEN {} ELSE ToSet(ls[h])

\* The contents of a usable head.
LEMMA EntriesOf ==
    ASSUME NEW l, Proper(l)
    PROVE  l \in Seq(Entries) /\ l # Stale /\ ToSet(l) \subseteq Entries /\ ToSet(l) \cap Heads = {}
<1>1. l \in Seq(Entries) /\ ToSet(l) \subseteq Entries
  BY DEF Proper, ToSet
<1> QED BY <1>1, ListAssumption

\* An operation that gives one head a new list out of its own entries and
\* free nodes leaves the other lists as they are.
LEMMA LiftOne ==
    ASSUME NEW m, NEW ls, Shape(m, ls), NEW h \in Heads, NEW F, \A x \in F : Free(ls, x),
           NEW w \in Memory, NEW v, Well(w, h, v), ToSet(v) \subseteq Held(ls, h) \cup F,
           Same(m, w, {h} \cup Held(ls, h) \cup F)
    PROVE  Shape(w, Write(ls, h, v))
<1>1. PICK us : us = Write(ls, h, v)
  OBVIOUS
<1>2. v \in Seq(Entries) /\ v # Stale
  BY EntriesOf DEF Well
<1>3. ls \in Lists
  BY DEF Shape
<1>4. us \in Lists
  BY <1>1, <1>2, <1>3 DEF Lists, Write
<1>5. us[h] = v /\ \A g \in Heads : g # h => us[g] = ls[g]
  BY <1>1, <1>3 DEF Lists, Write
<1>6. ASSUME NEW g \in Heads, g # h, ls[g] # Stale
      PROVE  /\ In(g, ls[g]) \cap ({h} \cup Held(ls, h) \cup F) = {}
             /\ ToSet(ls[g]) \cap ToSet(v) = {}
  <2>1. Well(m, g, ls[g])
    BY <1>6 DEF Shape
  <2>2. ToSet(ls[g]) \cap Heads = {}
    BY <2>1, EntriesOf DEF Well
  <2>3. ToSet(ls[g]) \cap Held(ls, h) = {} /\ Held(ls, h) \cap Heads = {}
    <3>1. CASE ls[h] = Stale
      BY <3>1 DEF Held
    <3>2. CASE ls[h] # Stale
      <4>1. Well(m, h, ls[h])
        BY <3>2 DEF Shape
      <4>2. ToSet(ls[h]) \cap Heads = {}
        BY <4>1, EntriesOf DEF Well
      <4>3. ToSet(ls[h]) \cap ToSet(ls[g]) = {}
        BY <1>6, <3>2 DEF Shape
      <4> QED BY <3>2, <4>2, <4>3 DEF Held
    <3> QED BY <3>1, <3>2
  <2>4. In(g, ls[g]) \cap F = {}
    BY <1>6 DEF Free
  <2> QED BY <1>6, <2>2, <2>3, <2>4 DEF In
<1>7. ASSUME NEW g \in Heads, us[g] # Stale PROVE Well(w, g, us[g])
  <2>1. CASE g = h
    BY <1>5, <2>1
  <2>2. CASE g # h
    <3>1. us[g] = ls[g] /\ Well(m, g, ls[g])
      BY <1>5, <1>7, <2>2 DEF Shape
    <3>2. In(g, ls[g]) \cap ({h} \cup Held(ls, h) \cup F) = {}
      BY <1>6, <1>7, <2>2, <3>1
    <3>3. Well(w, g, ls[g])
      BY <3>1, <3>2, Frame
    <3> QED BY <3>1, <3>3
  <2> QED BY <2>1, <2>2
<1>8. ASSUME NEW f \in Heads, NEW g \in Heads, f # g, us[f] # Stale, us[g] # Stale
      PROVE  ToSet(us[f]) \cap ToSet(us[g]) = {}
  <2>1. CASE f = h
    BY <1>5, <1>6, <1>8, <2>1
  <2>2. CASE g = h
    BY <1>5, <1>6, <1>8, <2>2
  <2>3. CASE f # h /\ g # h
    BY <1>5, <1>8, <2>3 DEF Shape
  <2> QED BY <2>1, <2>2, <2>3
<1>9. Shape(w, us)
  BY <1>4, <1>7, <1>8 DEF Shape
<1> QED BY <1>1, <1>9

\* A write to a free node changes no list.
LEMMA FreeWrite ==
    ASSUME NEW m, NEW ls, Shape(m, ls), NEW x, Free(ls, x), NEW w \in Memory, Same(m, w, {x})
    PROVE  Shape(w, ls)
<1>1. ASSUME NEW h \in Heads, ls[h] # Stale PROVE Well(w, h, ls[h])
  <2>1. Well(m, h, ls[h]) /\ In(h, ls[h]) \cap {x} = {}
    BY <1>1 DEF Shape, Free
  <2> QED BY <2>1, Frame
<1> QED BY <1>1 DEF Shape

\* A head that is given up: its entries and itself are free.
LEMMA GivenUp ==
    ASSUME NEW m, NEW ls, Shape(m, ls), NEW h \in Heads, ls[h] # Stale
    PROVE  /\ Shape(m, Write(ls, h, Stale))
           /\ \A x \in In(h, ls[h]) : Free(Write(ls, h, Stale), x)
<1>1. PICK us : us = Write(ls, h, Stale)
  OBVIOUS
<1>2. ls \in Lists
  BY DEF Shape
<1>3. us \in Lists /\ us[h] = Stale /\ \A g \in Heads : g # h => us[g] = ls[g]
  BY <1>1, <1>2 DEF Lists, Write
<1>4. Shape(m, us)
  BY <1>3 DEF Shape
<1>5. ASSUME NEW g \in Heads, us[g] # Stale PROVE In(h, ls[h]) \cap In(g, us[g]) = {}
  <2>1. g # h /\ us[g] = ls[g]
    BY <1>3, <1>5
  <2>2. Well(m, h, ls[h]) /\ Well(m, g, ls[g]) /\ ToSet(ls[h]) \cap ToSet(ls[g]) = {}
    BY <1>5, <2>1 DEF Shape
  <2>3. ToSet(ls[h]) \cap Heads = {} /\ ToSet(ls[g]) \cap Heads = {}
    BY <2>2, EntriesOf DEF Well
  <2> QED BY <2>1, <2>2, <2>3 DEF In
<1>6. \A x \in In(h, ls[h]) : Free(us, x)
  BY <1>5 DEF Free
<1> QED BY <1>1, <1>4, <1>6

\* INIT_LIST_HEAD makes an unusable head an empty list.
LEMMA ReinitShape ==
    ASSUME NEW m, NEW ls, Shape(m, ls), NEW h \in Heads, ls[h] = Stale
    PROVE  Shape(INIT_LIST_HEAD(m, h), Write(ls, h, <<>>))
<1>1. PICK w : w = INIT_LIST_HEAD(m, h)
  OBVIOUS
<1>2. m \in Memory /\ h \in Nodes
  BY DEF Shape, Nodes
<1>3. w \in Memory /\ w.next[h] = h /\ w.prev[h] = h /\ Same(m, w, {h})
  BY <1>1, <1>2, ListInitIs
<1>4. Well(w, h, <<>>)
  BY <1>3, WellEmpty
<1>5. ToSet(<<>>) = {}
  BY DEF ToSet
<1>6. Held(ls, h) = {}
  BY DEF Held
<1>7. Same(m, w, {h} \cup Held(ls, h) \cup {})
  BY <1>3, <1>6
<1>8. ToSet(<<>>) \subseteq Held(ls, h) \cup {}
  BY <1>5
<1>9. \A x \in {} : Free(ls, x)
  OBVIOUS
<1> QED BY <1>1, <1>3, <1>4, <1>7, <1>8, <1>9, LiftOne

\* A usable head and its list.
LEMMA UsableIs ==
    ASSUME NEW m, NEW ls, Shape(m, ls), NEW h \in Heads, ls[h] # Stale
    PROVE  /\ m \in Memory /\ Well(m, h, ls[h]) /\ Proper(ls[h]) /\ Held(ls, h) = ToSet(ls[h])
           /\ {h} \cup Held(ls, h) = In(h, ls[h])
  BY DEF Shape, Well, Held, In

\* list_add and list_add_tail of a free entry.
LEMMA AddShape ==
    ASSUME NEW m, NEW ls, Shape(m, ls), NEW h \in Heads, ls[h] # Stale,
           NEW e \in Entries, Free(ls, e)
    PROVE  /\ Shape(list_add(m, e, h), Write(ls, h, <<e>> \o ls[h]))
           /\ Shape(list_add_tail(m, e, h), Write(ls, h, Append(ls[h], e)))
<1>1. /\ m \in Memory /\ Well(m, h, ls[h]) /\ Proper(ls[h]) /\ Held(ls, h) = ToSet(ls[h])
      /\ {h} \cup Held(ls, h) = In(h, ls[h])
  BY UsableIs
<1>2. e \notin ToSet(ls[h])
  BY DEF Free, In
<1>3. \A x \in {e} : Free(ls, x)
  OBVIOUS
<1>4. Shape(list_add(m, e, h), Write(ls, h, <<e>> \o ls[h]))
  <2>1. PICK w : w = list_add(m, e, h)
    OBVIOUS
  <2>2. PICK v : v = <<e>> \o ls[h]
    OBVIOUS
  <2>3. w \in Memory /\ Well(w, h, v) /\ Same(m, w, In(h, ls[h]) \cup {e})
    BY <1>1, <1>2, <2>1, <2>2, AddedFront
  <2>4. ToSet(v) = ToSet(ls[h]) \cup {e}
    BY <1>1, <1>2, <2>2, FrontIs
  <2>5. Same(m, w, {h} \cup Held(ls, h) \cup {e}) /\ ToSet(v) \subseteq Held(ls, h) \cup {e}
    BY <1>1, <2>3, <2>4
  <2> QED BY <1>3, <2>1, <2>2, <2>3, <2>5, LiftOne
<1>5. Shape(list_add_tail(m, e, h), Write(ls, h, Append(ls[h], e)))
  <2>1. PICK w : w = list_add_tail(m, e, h)
    OBVIOUS
  <2>2. PICK v : v = Append(ls[h], e)
    OBVIOUS
  <2>3. w \in Memory /\ Well(w, h, v) /\ Same(m, w, In(h, ls[h]) \cup {e})
    BY <1>1, <1>2, <2>1, <2>2, AddedBack
  <2>4. ToSet(v) = ToSet(ls[h]) \cup {e}
    BY <1>1, <1>2, <2>2, BackIs
  <2>5. Same(m, w, {h} \cup Held(ls, h) \cup {e}) /\ ToSet(v) \subseteq Held(ls, h) \cup {e}
    BY <1>1, <2>3, <2>4
  <2> QED BY <1>3, <2>1, <2>2, <2>3, <2>5, LiftOne
<1> QED BY <1>4, <1>5

\* __list_del takes an entry off its list; it is free then.
LEMMA UnlinkShape ==
    ASSUME NEW m, NEW ls, Shape(m, ls), NEW h \in Heads, ls[h] # Stale, NEW e \in ToSet(ls[h])
    PROVE  /\ Shape(__list_del(m, m.prev[e], m.next[e]), Write(ls, h, RemoveFirst(ls[h], e)))
           /\ Free(Write(ls, h, RemoveFirst(ls[h], e)), e) /\ e \in Entries
           /\ Write(ls, h, RemoveFirst(ls[h], e))[h] # Stale
           /\ \A g \in Heads : ls[g] # Stale => Write(ls, h, RemoveFirst(ls[h], e))[g] # Stale
<1>1. /\ m \in Memory /\ Well(m, h, ls[h]) /\ Proper(ls[h]) /\ Held(ls, h) = ToSet(ls[h])
      /\ {h} \cup Held(ls, h) = In(h, ls[h])
  BY UsableIs
<1>2. PICK w : w = __list_del(m, m.prev[e], m.next[e])
  OBVIOUS
<1>3. PICK v : v = RemoveFirst(ls[h], e)
  OBVIOUS
<1>4. w \in Memory /\ Well(w, h, v) /\ Same(m, w, In(h, v)) /\ ToSet(v) = ToSet(ls[h]) \ {e}
  BY <1>1, <1>2, <1>3, Unlinked
<1>5. Same(m, w, {h} \cup Held(ls, h) \cup {}) /\ ToSet(v) \subseteq Held(ls, h) \cup {}
  BY <1>1, <1>4 DEF Same, In
<1>6. \A x \in {} : Free(ls, x)
  OBVIOUS
<1>7. PICK us : us = Write(ls, h, v)
  OBVIOUS
<1>8. Shape(w, us)
  BY <1>4, <1>5, <1>6, <1>7, LiftOne
<1>9. e \in Entries /\ e \notin Heads
  BY <1>1, EntriesOf
<1>10. us[h] = v /\ \A g \in Heads : g # h => us[g] = ls[g]
  BY <1>7 DEF Shape, Lists, Write
<1>11. v # Stale
  BY <1>4, EntriesOf DEF Well
<1>12. Free(us, e)
  <2> SUFFICES ASSUME NEW g \in Heads, us[g] # Stale PROVE e \notin In(g, us[g])
    BY DEF Free
  <2>1. CASE g = h
    BY <1>4, <1>9, <1>10, <2>1 DEF In
  <2>2. CASE g # h
    <3>1. ToSet(ls[h]) \cap ToSet(ls[g]) = {}
      BY <1>10, <2>2 DEF Shape
    <3> QED BY <1>9, <1>10, <2>2, <3>1 DEF In
  <2> QED BY <2>1, <2>2
<1> QED BY <1>2, <1>3, <1>7, <1>8, <1>9, <1>10, <1>11, <1>12

\* list_del and list_del_init: the entry's own pointers are overwritten.
LEMMA DelShape ==
    ASSUME NEW m, NEW ls, Shape(m, ls), NEW h \in Heads, ls[h] # Stale, NEW e \in ToSet(ls[h])
    PROVE  /\ Shape(list_del(m, e), Write(ls, h, RemoveFirst(ls[h], e)))
           /\ Shape(list_del_init(m, e), Write(ls, h, RemoveFirst(ls[h], e)))
<1>1. PICK us : us = Write(ls, h, RemoveFirst(ls[h], e))
  OBVIOUS
<1>2. PICK u : u = __list_del(m, m.prev[e], m.next[e])
  OBVIOUS
<1>3. Shape(u, us) /\ Free(us, e) /\ e \in Nodes
  BY <1>1, <1>2, UnlinkShape DEF Nodes
<1>4. u \in Memory
  BY <1>3 DEF Shape
<1>5. /\ Poison(u, e) \in Memory /\ Same(u, Poison(u, e), {e})
      /\ INIT_LIST_HEAD(u, e) \in Memory /\ Same(u, INIT_LIST_HEAD(u, e), {e})
  BY <1>3, <1>4, ListInitIs
<1>6. Shape(Poison(u, e), us) /\ Shape(INIT_LIST_HEAD(u, e), us)
  BY <1>3, <1>5, FreeWrite
<1> QED BY <1>1, <1>2, <1>6 DEF list_del, list_del_init

\* list_move and list_move_tail, also within one list.
LEMMA MoveShape ==
    ASSUME NEW m, NEW ls, Shape(m, ls), NEW h \in Heads, ls[h] # Stale, NEW e \in ToSet(ls[h]),
           NEW g \in Heads, ls[g] # Stale, NEW us, us = Write(ls, h, RemoveFirst(ls[h], e))
    PROVE  /\ Shape(list_move(m, e, g), Write(us, g, <<e>> \o us[g]))
           /\ Shape(list_move_tail(m, e, g), Write(us, g, Append(us[g], e)))
<1>1. PICK u : u = __list_del(m, m.prev[e], m.next[e])
  OBVIOUS
<1>2. Shape(u, us) /\ Free(us, e) /\ e \in Entries /\ us[g] # Stale
  BY <1>1, UnlinkShape
<1>3. /\ Shape(list_add(u, e, g), Write(us, g, <<e>> \o us[g]))
      /\ Shape(list_add_tail(u, e, g), Write(us, g, Append(us[g], e)))
  BY <1>2, AddShape
<1> QED BY <1>1, <1>3 DEF list_move, list_move_tail

\* list_replace and list_replace_init of an entry.
LEMMA ReplaceEntryShape ==
    ASSUME NEW m, NEW ls, Shape(m, ls), NEW h \in Heads, ls[h] # Stale, NEW e \in ToSet(ls[h]),
           NEW f \in Entries, Free(ls, f)
    PROVE  /\ Shape(list_replace(m, e, f), Write(ls, h, Write(ls[h], Place(ls[h], e), f)))
           /\ Shape(list_replace_init(m, e, f), Write(ls, h, Write(ls[h], Place(ls[h], e), f)))
<1>1. /\ m \in Memory /\ Well(m, h, ls[h]) /\ Proper(ls[h]) /\ Held(ls, h) = ToSet(ls[h])
      /\ {h} \cup Held(ls, h) = In(h, ls[h])
  BY UsableIs
<1>2. PICK w : w = list_replace(m, e, f)
  OBVIOUS
<1>3. PICK v : v = Write(ls[h], Place(ls[h], e), f)
  OBVIOUS
<1>4. PICK us : us = Write(ls, h, v)
  OBVIOUS
<1>5. f \notin ToSet(ls[h]) /\ e # f
  BY DEF Free, In
<1>6. /\ w \in Memory /\ Well(w, h, v) /\ Same(m, w, In(h, ls[h]) \cup {f})
      /\ ToSet(v) = (ToSet(ls[h]) \ {e}) \cup {f}
  BY <1>1, <1>2, <1>3, <1>5, ReplacedEntry
<1>7. Same(m, w, {h} \cup Held(ls, h) \cup {f}) /\ ToSet(v) \subseteq Held(ls, h) \cup {f}
  BY <1>1, <1>6
<1>8. \A x \in {f} : Free(ls, x)
  OBVIOUS
<1>9. Shape(w, us)
  BY <1>4, <1>6, <1>7, <1>8, LiftOne
<1>10. e \in Entries /\ e \notin Heads /\ e \in Nodes
  BY <1>1, EntriesOf DEF Nodes
<1>11. us[h] = v /\ \A g \in Heads : g # h => us[g] = ls[g]
  BY <1>4 DEF Shape, Lists, Write
<1>12. Free(us, e)
  <2> SUFFICES ASSUME NEW g \in Heads, us[g] # Stale PROVE e \notin In(g, us[g])
    BY DEF Free
  <2>1. CASE g = h
    BY <1>5, <1>6, <1>10, <1>11, <2>1 DEF In
  <2>2. CASE g # h
    <3>1. ToSet(ls[h]) \cap ToSet(ls[g]) = {}
      BY <1>11, <2>2 DEF Shape
    <3> QED BY <1>10, <1>11, <2>2, <3>1 DEF In
  <2> QED BY <2>1, <2>2
<1>13. INIT_LIST_HEAD(w, e) \in Memory /\ Same(w, INIT_LIST_HEAD(w, e), {e})
  BY <1>6, <1>10, ListInitIs
<1>14. Shape(INIT_LIST_HEAD(w, e), us)
  BY <1>9, <1>12, <1>13, FreeWrite
<1> QED BY <1>2, <1>3, <1>4, <1>9, <1>14 DEF list_replace_init

\* Writes to two heads in either order, and to one head twice.
LEMMA WriteTwo ==
    ASSUME NEW ls \in Lists, NEW g \in Heads, NEW h \in Heads, g # h, NEW a, NEW b, NEW c
    PROVE  /\ Write(Write(ls, g, a), h, b) = Write(Write(ls, h, b), g, a)
           /\ Write(Write(Write(ls, g, a), h, b), h, c) = Write(Write(ls, g, a), h, c)
           /\ Write(Write(ls, g, a), h, b)[h] = b
  BY DEF Lists, Write

\* list_replace and list_replace_init of a head by one that holds nothing.
LEMMA ReplaceHeadShape ==
    ASSUME NEW m, NEW ls, Shape(m, ls), NEW h \in Heads, ls[h] # Stale, NEW g \in Heads, h # g,
           ls[g] # Stale => ls[g] = <<>>
    PROVE  /\ Shape(list_replace(m, h, g), Write(Write(ls, g, ls[h]), h, Stale))
           /\ Shape(list_replace_init(m, h, g), Write(Write(ls, g, ls[h]), h, <<>>))
<1>0. ls \in Lists
  BY DEF Shape
<1>1. /\ m \in Memory /\ Well(m, h, ls[h]) /\ Proper(ls[h])
  BY UsableIs
<1>2. PICK l : l = ls[h]
  OBVIOUS
<1>3. PICK w : w = list_replace(m, h, g)
  OBVIOUS
<1>4. w \in Memory /\ Well(w, g, l) /\ Same(m, w, In(h, l) \cup {g})
  BY <1>1, <1>2, <1>3, ReplacedHead
<1>5. PICK us : us = Write(ls, h, Stale)
  OBVIOUS
<1>6. Shape(m, us) /\ \A x \in In(h, l) : Free(us, x)
  BY <1>2, <1>5, GivenUp
<1>7. us[g] = ls[g]
  BY <1>0, <1>5 DEF Lists, Write
<1>8. Held(us, g) = {}
  <2>1. ToSet(<<>>) = {}
    BY DEF ToSet
  <2> QED BY <1>7, <2>1 DEF Held
<1>9. /\ Same(m, w, {g} \cup Held(us, g) \cup In(h, l))
      /\ ToSet(l) \subseteq Held(us, g) \cup In(h, l)
  BY <1>4, <1>8 DEF Same, In
<1>10. Shape(w, Write(us, g, l))
  BY <1>4, <1>6, <1>9, LiftOne
<1>11. PICK vs : vs = Write(Write(ls, g, l), h, Stale)
  OBVIOUS
<1>12. vs = Write(us, g, l) /\ vs[h] = Stale /\ Write(vs, h, <<>>) = Write(Write(ls, g, l), h, <<>>)
  BY <1>0, <1>5, <1>11, WriteTwo
<1>13. Shape(w, vs)
  BY <1>10, <1>12
<1>14. Shape(INIT_LIST_HEAD(w, h), Write(vs, h, <<>>))
  BY <1>12, <1>13, ReinitShape
<1> QED BY <1>2, <1>3, <1>11, <1>12, <1>13, <1>14 DEF list_replace_init

\* A list that is not empty, spliced in with or without _init.
LEMMA SpliceShape ==
    ASSUME NEW m, NEW ls, Shape(m, ls), NEW h \in Heads, ls[h] # Stale, NEW g \in Heads, h # g,
           ls[g] # Stale, ls[h] # <<>>
    PROVE  /\ Shape(list_splice(m, h, g), Write(Write(ls, g, ls[h] \o ls[g]), h, Stale))
           /\ Shape(list_splice_init(m, h, g), Write(Write(ls, g, ls[h] \o ls[g]), h, <<>>))
           /\ Shape(list_splice_tail(m, h, g), Write(Write(ls, g, ls[g] \o ls[h]), h, Stale))
           /\ Shape(list_splice_tail_init(m, h, g), Write(Write(ls, g, ls[g] \o ls[h]), h, <<>>))
<1>0. ls \in Lists
  BY DEF Shape
<1>1. m \in Memory /\ Well(m, h, ls[h]) /\ Proper(ls[h]) /\ Well(m, g, ls[g]) /\ Proper(ls[g])
  BY UsableIs
<1>2. PICK s : s = ls[h]
  OBVIOUS
<1>3. PICK l : l = ls[g]
  OBVIOUS
<1>4. ToSet(l) \cap ToSet(s) = {} /\ s # <<>>
  BY <1>2, <1>3 DEF Shape
<1>5. PICK us : us = Write(ls, h, Stale)
  OBVIOUS
<1>6. Shape(m, us) /\ \A x \in ToSet(s) : Free(us, x)
  BY <1>2, <1>5, GivenUp DEF In
<1>7. us[g] = l /\ l # Stale
  BY <1>0, <1>3, <1>5 DEF Lists, Write
<1>8. Held(us, g) = ToSet(l) /\ {g} \cup Held(us, g) = In(g, l)
  BY <1>7 DEF Held, In
<1>9. ASSUME NEW w, NEW v, w \in Memory, Well(w, g, v), Same(m, w, In(g, l) \cup ToSet(s)),
             ToSet(v) = ToSet(l) \cup ToSet(s)
      PROVE  /\ Shape(w, Write(Write(ls, g, v), h, Stale))
             /\ Shape(INIT_LIST_HEAD(w, h), Write(Write(ls, g, v), h, <<>>))
  <2>1. /\ Same(m, w, {g} \cup Held(us, g) \cup ToSet(s))
        /\ ToSet(v) \subseteq Held(us, g) \cup ToSet(s)
    BY <1>8, <1>9
  <2>2. Shape(w, Write(us, g, v))
    BY <1>6, <1>9, <2>1, LiftOne
  <2>3. PICK vs : vs = Write(Write(ls, g, v), h, Stale)
    OBVIOUS
  <2>4. vs = Write(us, g, v) /\ vs[h] = Stale
        /\ Write(vs, h, <<>>) = Write(Write(ls, g, v), h, <<>>)
    BY <1>0, <1>5, <2>3, WriteTwo
  <2>5. Shape(w, vs)
    BY <2>2, <2>4
  <2>6. Shape(INIT_LIST_HEAD(w, h), Write(vs, h, <<>>))
    BY <2>4, <2>5, ReinitShape
  <2> QED BY <2>3, <2>4, <2>5, <2>6
<1>10. PICK u : u = __list_splice(m, h, g, m.next[g])
  OBVIOUS
<1>11. PICK w : w = __list_splice(m, h, m.prev[g], g)
  OBVIOUS
<1>12. /\ u \in Memory /\ Well(u, g, s \o l) /\ Same(m, u, In(g, l) \cup ToSet(s))
       /\ w \in Memory /\ Well(w, g, l \o s) /\ Same(m, w, In(g, l) \cup ToSet(s))
       /\ ~list_empty(m, h)
  BY <1>1, <1>2, <1>3, <1>4, <1>10, <1>11, SplicedLists
<1>13. ToSet(s \o l) = ToSet(l) \cup ToSet(s) /\ ToSet(l \o s) = ToSet(l) \cup ToSet(s)
  <2>1. ToSet(s \o l) = ToSet(s) \cup ToSet(l)
    BY <1>1, <1>2, <1>3, <1>4, ConcatIs
  <2>2. ToSet(s) \cap ToSet(l) = {}
    BY <1>4
  <2>3. ToSet(l \o s) = ToSet(l) \cup ToSet(s)
    BY <1>1, <1>2, <1>3, <2>2, ConcatIs
  <2> QED BY <2>1, <2>3
<1>14. /\ Shape(u, Write(Write(ls, g, s \o l), h, Stale))
       /\ Shape(INIT_LIST_HEAD(u, h), Write(Write(ls, g, s \o l), h, <<>>))
  BY <1>9, <1>12, <1>13
<1>15. /\ Shape(w, Write(Write(ls, g, l \o s), h, Stale))
       /\ Shape(INIT_LIST_HEAD(w, h), Write(Write(ls, g, l \o s), h, <<>>))
  BY <1>9, <1>12, <1>13
<1>16. /\ list_splice(m, h, g) = u /\ list_splice_init(m, h, g) = INIT_LIST_HEAD(u, h)
       /\ list_splice_tail(m, h, g) = w /\ list_splice_tail_init(m, h, g) = INIT_LIST_HEAD(w, h)
  BY <1>10, <1>11, <1>12 DEF list_splice, list_splice_init, list_splice_tail, list_splice_tail_init
<1> QED BY <1>2, <1>3, <1>14, <1>15, <1>16

-----------------------------------------------------------------------------
(* The loops: a list in the direction of the loop, and its places.         *)

Dirs == {"next", "prev"}

\* The list as a loop in direction dir meets it.
Facing(l, dir) == IF dir = "next" THEN l ELSE Reverse(l)

\* The place j of a loop over o: an entry, or the head behind the last one.
Spot(h, o, j) == IF j = Len(o) + 1 THEN h ELSE o[j]

\* A list backwards.
LEMMA ReverseIs ==
    ASSUME NEW l, Proper(l)
    PROVE  /\ Proper(Reverse(l)) /\ Len(Reverse(l)) = Len(l) /\ ToSet(Reverse(l)) = ToSet(l)
           /\ \A i \in 1..Len(l) : Reverse(l)[i] = l[(Len(l) - i) + 1]
<1> DEFINE n == Len(l)
           r == Reverse(l)
<1>1. n \in Nat /\ l \in Seq(Entries) /\ \A i \in 1..n : l[i] \in Entries
  BY DEF Proper
<1>2. \A i \in 1..n : (n - i) + 1 \in 1..n /\ (n - ((n - i) + 1)) + 1 = i
  BY <1>1
<1>3. r = [i \in 1..n |-> l[(n - i) + 1]]
  BY DEF Reverse
<1> HIDE DEF r
<1>4. r \in Seq(Entries) /\ Len(r) = n /\ \A i \in 1..n : r[i] = l[(n - i) + 1]
  <2>1. \A i \in 1..n : l[(n - i) + 1] \in Entries
    BY <1>1, <1>2
  <2>2. r \in [1..n -> Entries]
    BY <1>3, <2>1
  <2> QED BY <1>1, <1>3, <2>2
<1>5. Uniq(r)
  <2> SUFFICES ASSUME NEW i \in 1..n, NEW j \in 1..n, r[i] = r[j] PROVE i = j
    BY <1>4 DEF Uniq
  <2>1. (n - i) + 1 = (n - j) + 1
    BY <1>2, <1>4 DEF Proper, Uniq
  <2> QED BY <1>1, <2>1
<1>6. ToSet(r) = ToSet(l)
  <2>1. \A x : x \in ToSet(l) <=> \E i \in 1..n : l[i] = x
    BY <1>1 DEF ToSet
  <2>2. \A x : x \in ToSet(r) <=> \E i \in 1..n : r[i] = x
    BY <1>4 DEF ToSet
  <2>3. ASSUME NEW x \in ToSet(r) PROVE x \in ToSet(l)
    <3>1. PICK i \in 1..n : r[i] = x
      BY <2>2
    <3> QED BY <1>2, <1>4, <2>1, <3>1
  <2>4. ASSUME NEW x \in ToSet(l) PROVE x \in ToSet(r)
    <3>1. PICK i \in 1..n : l[i] = x
      BY <2>1
    <3>2. (n - i) + 1 \in 1..n
      BY <1>2
    <3>3. r[(n - i) + 1] = l[(n - ((n - i) + 1)) + 1]
      BY <1>4, <3>2
    <3> QED BY <1>2, <2>2, <3>1, <3>2, <3>3
  <2> QED BY <2>3, <2>4
<1> QED BY <1>4, <1>5, <1>6 DEF Proper, r

\* Taking an entry off a list takes it off the reversed one.
LEMMA ReverseRemoved ==
    ASSUME NEW h \in Heads, NEW l, Proper(l), NEW e \in ToSet(l)
    PROVE  Reverse(RemoveFirst(l, e)) = RemoveFirst(Reverse(l), e)
<1> DEFINE n == Len(l)
<1>1. PICK k \in 1..n : e = l[k]
  BY DEF ToSet
<1>2. PICK r : r = Reverse(l)
  OBVIOUS
<1>3. PICK p : p = RemoveFirst(l, e)
  OBVIOUS
<1>4. n \in Nat /\ k \in Nat /\ 1 <= k /\ k <= n
  BY DEF Proper
<1>5. PICK j : j = (n - k) + 1
  OBVIOUS
<1>6. j \in 1..n /\ (n - j) + 1 = k /\ j \in Nat /\ 1 <= j /\ j <= n /\ j + k = n + 1
  BY <1>4, <1>5
<1>7. Proper(r) /\ Len(r) = n /\ \A i \in 1..n : r[i] = l[(n - i) + 1]
  BY <1>2, ReverseIs
<1>8. r[j] = e
  BY <1>1, <1>6, <1>7
<1>10. PICK q : q = RemoveFirst(r, e)
  OBVIOUS
<1>11. /\ Proper(p) /\ Len(p) = n - 1
       /\ \A i \in 1..n - 1 : p[i] = IF i < k THEN l[i] ELSE l[i + 1]
  BY <1>1, <1>3, RemoveIs
<1>12. /\ Proper(q) /\ Len(q) = n - 1
       /\ \A i \in 1..n - 1 : q[i] = IF i < j THEN r[i] ELSE r[i + 1]
  <2>1. Proper(r) /\ Len(r) = n /\ j \in 1..Len(r) /\ q = RemoveFirst(r, r[j])
    BY <1>6, <1>7, <1>8, <1>10
  <2>2. /\ Proper(q) /\ Len(q) = Len(r) - 1
        /\ \A i \in 1..Len(r) - 1 : q[i] = IF i < j THEN r[i] ELSE r[i + 1]
    BY <2>1, RemoveIs
  <2> QED BY <2>1, <2>2
<1>13. Proper(Reverse(p)) /\ Len(Reverse(p)) = n - 1
       /\ \A i \in 1..n - 1 : Reverse(p)[i] = p[((n - 1) - i) + 1]
  <2>1. Proper(p) /\ Len(p) = n - 1
    BY <1>11
  <2>2. /\ Proper(Reverse(p)) /\ Len(Reverse(p)) = Len(p)
        /\ \A i \in 1..Len(p) : Reverse(p)[i] = p[(Len(p) - i) + 1]
    BY <2>1, ReverseIs
  <2> QED BY <2>1, <2>2
<1>14. ASSUME NEW i \in 1..n - 1 PROVE Reverse(p)[i] = q[i]
  <2>1. ((n - 1) - i) + 1 = n - i /\ n - i \in 1..n - 1 /\ i \in 1..n /\ i + 1 \in 1..n
        /\ (n - i) + 1 \in 1..n /\ (n - (i + 1)) + 1 = n - i
    BY <1>4
  <2>2. Reverse(p)[i] = p[n - i]
    BY <1>13, <2>1
  <2>3. CASE i < j
    <3>1. ~(n - i < k)
      BY <1>4, <1>6, <2>3
    <3>2. p[n - i] = l[(n - i) + 1]
      BY <1>11, <2>1, <3>1
    <3>3. q[i] = r[i] /\ r[i] = l[(n - i) + 1]
      BY <1>7, <1>12, <2>1, <2>3
    <3> QED BY <2>2, <3>2, <3>3
  <2>4. CASE ~(i < j)
    <3>1. n - i < k
      BY <1>4, <1>6, <2>4
    <3>2. p[n - i] = l[n - i]
      BY <1>11, <2>1, <3>1
    <3>3. q[i] = r[i + 1] /\ r[i + 1] = l[(n - (i + 1)) + 1]
      BY <1>7, <1>12, <2>1, <2>4
    <3> QED BY <2>1, <2>2, <3>2, <3>3
  <2> QED BY <2>3, <2>4
<1>15. Reverse(p) = q
  <2>1. Reverse(p) \in Seq(Entries) /\ q \in Seq(Entries)
    BY <1>12, <1>13 DEF Proper
  <2> QED BY <1>12, <1>13, <1>14, <2>1
<1> QED BY <1>2, <1>3, <1>10, <1>15

\* A list as a loop sees it has the same entries, and loses the same ones.
LEMMA FacingIs ==
    ASSUME NEW h \in Heads, NEW l, Proper(l), NEW dir \in Dirs
    PROVE  /\ Proper(Facing(l, dir)) /\ Len(Facing(l, dir)) = Len(l)
           /\ ToSet(Facing(l, dir)) = ToSet(l)
           /\ \A e \in ToSet(l) : Facing(RemoveFirst(l, e), dir) = RemoveFirst(Facing(l, dir), e)
<1>1. CASE dir = "next"
  BY <1>1 DEF Facing
<1>2. CASE dir # "next"
  BY <1>2, ReverseIs, ReverseRemoved DEF Facing
<1> QED BY <1>1, <1>2

\* One step of a loop goes from each place to the next one.
LEMMA CourseIs ==
    ASSUME NEW m \in Memory, NEW h \in Heads, NEW l, Well(m, h, l), NEW dir \in Dirs
    PROVE  /\ Step(m, dir, h) = Spot(h, Facing(l, dir), 1)
           /\ \A i \in 1..Len(l) :
                 Step(m, dir, Facing(l, dir)[i]) = Spot(h, Facing(l, dir), i + 1)
<1> DEFINE c == Chain(h, l)
           n == Len(l)
<1>1. /\ n \in Nat /\ Proper(l) /\ Ring(m.next, m.prev, c, n) /\ c[0] = h
      /\ \A i \in 1..n : c[i] = l[i]
  BY WellIs
<1> HIDE DEF c
<1>2. \A i \in 0..n : m.next[c[i]] = c[Succ(n, i)] /\ m.prev[c[i]] = c[Pred(n, i)]
  BY <1>1 DEF Ring
<1>3. 0 \in 0..n /\ \A i \in 1..n : i \in 0..n /\ i # 0
  BY <1>1
<1>4. CASE dir = "next"
  <2>1. Facing(l, dir) = l /\ \A x : Step(m, dir, x) = m.next[x]
    BY <1>4 DEF Facing, Step
  <2>2. m.next[h] = Spot(h, l, 1)
    <3>1. CASE n = 0
      BY <1>1, <1>2, <1>3, <3>1 DEF Succ, Spot
    <3>2. CASE n # 0
      <4>1. 1 \in 1..n /\ Succ(n, 0) = 1 /\ 1 # n + 1
        BY <1>1, <3>2 DEF Succ
      <4> QED BY <1>1, <1>2, <1>3, <4>1 DEF Spot
    <3> QED BY <3>1, <3>2
  <2>3. ASSUME NEW i \in 1..n PROVE m.next[l[i]] = Spot(h, l, i + 1)
    <3>1. m.next[l[i]] = c[Succ(n, i)]
      BY <1>1, <1>2, <1>3
    <3>2. CASE i = n
      BY <1>1, <3>1, <3>2 DEF Succ, Spot
    <3>3. CASE i # n
      <4>1. i + 1 \in 1..n /\ Succ(n, i) = i + 1 /\ i + 1 # n + 1
        BY <1>1, <3>3 DEF Succ
      <4> QED BY <1>1, <3>1, <4>1 DEF Spot
    <3> QED BY <3>2, <3>3
  <2> QED BY <2>1, <2>2, <2>3
<1>5. CASE dir # "next"
  <2>1. PICK r : r = Reverse(l)
    OBVIOUS
  <2>2. Facing(l, dir) = r /\ \A x : Step(m, dir, x) = m.prev[x]
    BY <1>5, <2>1 DEF Facing, Step
  <2>3. Len(r) = n /\ \A i \in 1..n : r[i] = l[(n - i) + 1]
    BY <1>1, <2>1, ReverseIs
  <2>4. m.prev[h] = Spot(h, r, 1)
    <3>1. m.prev[h] = c[n]
      BY <1>1, <1>2, <1>3 DEF Pred
    <3>2. CASE n = 0
      BY <1>1, <2>3, <3>1, <3>2 DEF Spot
    <3>3. CASE n # 0
      <4>1. 1 \in 1..n /\ (n - 1) + 1 = n /\ n \in 1..n /\ 1 # n + 1
        BY <1>1, <3>3
      <4>2. r[1] = l[n]
        BY <2>3, <4>1
      <4> QED BY <1>1, <2>3, <3>1, <4>1, <4>2 DEF Spot
    <3> QED BY <3>2, <3>3
  <2>5. ASSUME NEW i \in 1..n PROVE m.prev[r[i]] = Spot(h, r, i + 1)
    <3>1. (n - i) + 1 \in 1..n /\ (n - i) + 1 # 0
      BY <1>1
    <3>2. m.prev[r[i]] = c[Pred(n, (n - i) + 1)]
      BY <1>1, <1>2, <1>3, <2>3, <3>1
    <3>3. Pred(n, (n - i) + 1) = n - i
      BY <1>1, <3>1 DEF Pred
    <3>4. CASE i = n
      <4>1. n - i = 0
        BY <1>1, <3>4
      <4> QED BY <1>1, <2>3, <3>2, <3>3, <3>4, <4>1 DEF Spot
    <3>5. CASE i # n
      <4>1. i + 1 \in 1..n /\ n - i \in 1..n /\ (n - (i + 1)) + 1 = n - i /\ i + 1 # n + 1
        BY <1>1, <3>5
      <4>2. r[i + 1] = l[(n - (i + 1)) + 1]
        BY <2>3, <4>1
      <4>3. r[i + 1] = l[n - i]
        BY <4>1, <4>2, Zenon
      <4> QED BY <1>1, <2>3, <3>2, <3>3, <4>1, <4>3 DEF Spot
    <3> QED BY <3>4, <3>5
  <2> QED BY <2>2, <2>4, <2>5
<1> QED BY <1>4, <1>5

\* What is left of a list from place j on.
LEMMA RestIs ==
    ASSUME NEW o, Proper(o), NEW j \in 1..Len(o)
    PROVE  /\ SubSeq(o, j, Len(o)) # <<>> /\ Head(SubSeq(o, j, Len(o))) = o[j]
           /\ Tail(SubSeq(o, j, Len(o))) = SubSeq(o, j + 1, Len(o))
<1> DEFINE n == Len(o)
<1>1. n \in Nat /\ o \in Seq(Entries) /\ j \in Nat /\ 1 <= j /\ j <= n
  BY DEF Proper
<1>2. PICK t : t = SubSeq(o, j, n)
  OBVIOUS
<1>3. t \in Seq(Entries) /\ Len(t) = (n - j) + 1 /\ \A i \in 1..(n - j) + 1 : t[i] = o[(j + i) - 1]
  BY <1>1, <1>2
<1>4. t # <<>> /\ Head(t) = o[j]
  BY <1>1, <1>3
<1>5. PICK u : u = SubSeq(o, j + 1, n)
  OBVIOUS
<1>6. u \in Seq(Entries) /\ Len(u) = n - j /\ \A i \in 1..n - j : u[i] = o[j + i]
  BY <1>1, <1>5
<1>7. Tail(t) \in Seq(Entries) /\ Len(Tail(t)) = n - j /\ \A i \in 1..n - j : Tail(t)[i] = t[i + 1]
  BY <1>1, <1>3, <1>4
<1>8. ASSUME NEW i \in 1..n - j PROVE Tail(t)[i] = u[i]
  <2>1. i + 1 \in 1..(n - j) + 1 /\ (j + (i + 1)) - 1 = j + i
    BY <1>1
  <2>2. t[i + 1] = o[j + i]
    BY <1>3, <2>1
  <2> QED BY <1>6, <1>7, <2>2
<1>9. Tail(t) = u
  BY <1>6, <1>7, <1>8
<1> QED BY <1>2, <1>4, <1>5, <1>9

\* A list from place j on.
LEMMA SuffixIs ==
    ASSUME NEW o, Proper(o), NEW j \in 1..Len(o) + 1
    PROVE  /\ Proper(SubSeq(o, j, Len(o))) /\ Len(SubSeq(o, j, Len(o))) = (Len(o) - j) + 1
           /\ \A i \in 1..(Len(o) - j) + 1 : SubSeq(o, j, Len(o))[i] = o[(j + i) - 1]
<1> DEFINE n == Len(o)
<1>1. n \in Nat /\ o \in Seq(Entries) /\ j \in Nat /\ 1 <= j /\ j <= n + 1
  BY DEF Proper
<1>2. PICK t : t = SubSeq(o, j, n)
  OBVIOUS
<1>3. t \in Seq(Entries) /\ Len(t) = (n - j) + 1 /\ \A i \in 1..(n - j) + 1 : t[i] = o[(j + i) - 1]
  BY <1>1, <1>2
<1>4. Uniq(t)
  <2> SUFFICES ASSUME NEW i \in 1..(n - j) + 1, NEW k \in 1..(n - j) + 1, t[i] = t[k] PROVE i = k
    BY <1>3 DEF Uniq
  <2>1. (j + i) - 1 \in 1..n /\ (j + k) - 1 \in 1..n
    BY <1>1
  <2>2. (j + i) - 1 = (j + k) - 1
    BY <1>3, <2>1 DEF Proper, Uniq
  <2> QED BY <1>1, <2>2
<1> QED BY <1>2, <1>3, <1>4 DEF Proper

\* Two suffixes of the same length and with the same entries.
LEMMA SuffixEq ==
    ASSUME NEW o, Proper(o), NEW j \in 1..Len(o) + 1, NEW q, Proper(q), NEW k \in 1..Len(q) + 1,
           Len(o) - j = Len(q) - k,
           \A i \in 1..(Len(o) - j) + 1 : o[(j + i) - 1] = q[(k + i) - 1]
    PROVE  SubSeq(o, j, Len(o)) = SubSeq(q, k, Len(q))
<1>1. PICK t : t = SubSeq(o, j, Len(o))
  OBVIOUS
<1>2. PICK u : u = SubSeq(q, k, Len(q))
  OBVIOUS
<1>3. PICK n : n = (Len(o) - j) + 1
  OBVIOUS
<1>4. Proper(t) /\ Len(t) = n /\ \A i \in 1..n : t[i] = o[(j + i) - 1]
  BY <1>1, <1>3, SuffixIs
<1>5. n = (Len(q) - k) + 1
  BY <1>3
<1>6. Proper(u) /\ Len(u) = n /\ \A i \in 1..n : u[i] = q[(k + i) - 1]
  BY <1>2, <1>5, SuffixIs
<1>7. \A i \in 1..n : t[i] = u[i]
  BY <1>3, <1>4, <1>6
<1>8. t \in Seq(Entries) /\ u \in Seq(Entries)
  BY <1>4, <1>6 DEF Proper
<1>9. t = u
  BY <1>4, <1>6, <1>7, <1>8
<1> QED BY <1>1, <1>2, <1>9

\* The loop deletes the entry it is at.
LEMMA HereDropped ==
    ASSUME NEW h \in Heads, NEW o, Proper(o), NEW j \in 1..Len(o),
           NEW q, q = RemoveFirst(o, o[j])
    PROVE  /\ Len(q) = Len(o) - 1 /\ j \in 1..Len(q) + 1 /\ Spot(h, o, j + 1) = Spot(h, q, j)
           /\ SubSeq(o, j + 1, Len(o)) = SubSeq(q, j, Len(q))
<1>1. Len(o) \in Nat /\ j \in Nat /\ 1 <= j /\ j <= Len(o)
  BY DEF Proper
<1>2. PICK n : n = Len(o)
  OBVIOUS
<1>3. /\ Proper(q) /\ Len(q) = n - 1
      /\ \A i \in 1..n - 1 : q[i] = IF i < j THEN o[i] ELSE o[i + 1]
  BY <1>2, RemoveIs
<1>4. j \in 1..Len(q) + 1 /\ j + 1 \in 1..Len(o) + 1 /\ Len(o) - (j + 1) = Len(q) - j
  BY <1>1, <1>2, <1>3
<1>5. Spot(h, o, j + 1) = Spot(h, q, j)
  <2>1. CASE j = n
    BY <1>1, <1>2, <1>3, <2>1 DEF Spot
  <2>2. CASE j # n
    <3>1. j \in 1..n - 1 /\ ~(j < j) /\ j # Len(q) + 1 /\ j + 1 # n + 1
      BY <1>1, <1>2, <1>3, <2>2
    <3> QED BY <1>2, <1>3, <3>1 DEF Spot
  <2> QED BY <2>1, <2>2
<1>6. ASSUME NEW i \in 1..(Len(o) - (j + 1)) + 1 PROVE o[((j + 1) + i) - 1] = q[(j + i) - 1]
  <2>1. (j + i) - 1 \in 1..n - 1 /\ ~((j + i) - 1 < j) /\ ((j + i) - 1) + 1 = ((j + 1) + i) - 1
    BY <1>1, <1>2
  <2>2. q[(j + i) - 1] = o[((j + i) - 1) + 1]
    BY <1>3, <2>1
  <2> QED BY <2>1, <2>2
<1>7. SubSeq(o, j + 1, Len(o)) = SubSeq(q, j, Len(q))
  BY <1>3, <1>4, <1>6, SuffixEq
<1> QED BY <1>2, <1>3, <1>4, <1>5, <1>7

\* The loop at place j of o goes on in q, which lacks the entry at place k,
\* from the place behind the one its entry has there.
Resumes(h, o, j, k, q) ==
    \E i \in 1..Len(q) :
       /\ i + 1 \in 1..Len(q) + 1 /\ q[i] = o[j]
       /\ k # j + 1 => Spot(h, o, j + 1) = Spot(h, q, i + 1)
       /\ RemoveFirst(SubSeq(o, j + 1, Len(o)), o[k]) = SubSeq(q, i + 1, Len(q))

\* A loop whose body deletes another entry resumes.
LEMMA OtherDropped ==
    ASSUME NEW h \in Heads, NEW o, Proper(o), NEW j \in 1..Len(o), NEW k \in 1..Len(o), k # j,
           NEW q, q = RemoveFirst(o, o[k])
    PROVE  Resumes(h, o, j, k, q)
<1> SUFFICES \E i \in 1..Len(q) :
                /\ i + 1 \in 1..Len(q) + 1 /\ q[i] = o[j]
                /\ k # j + 1 => Spot(h, o, j + 1) = Spot(h, q, i + 1)
                /\ RemoveFirst(SubSeq(o, j + 1, Len(o)), o[k]) = SubSeq(q, i + 1, Len(q))
  BY Zenon DEF Resumes
<1>1. /\ Len(o) \in Nat /\ j \in Nat /\ 1 <= j /\ j <= Len(o) /\ k \in Nat /\ 1 <= k /\ k <= Len(o)
      /\ j + 1 \in 1..Len(o) + 1
  BY DEF Proper
<1>2. PICK n : n = Len(o)
  OBVIOUS
<1>3. /\ Proper(q) /\ Len(q) = n - 1
      /\ \A i \in 1..n - 1 : q[i] = IF i < k THEN o[i] ELSE o[i + 1]
  BY <1>2, RemoveIs
<1>4. PICK t : t = SubSeq(o, j + 1, Len(o))
  OBVIOUS
<1>5. /\ Proper(t) /\ Len(t) = n - j
      /\ \A i \in 1..n - j : t[i] = o[j + i]
  <2>1. /\ Proper(t) /\ Len(t) = (Len(o) - (j + 1)) + 1
        /\ \A i \in 1..(Len(o) - (j + 1)) + 1 : t[i] = o[((j + 1) + i) - 1]
    BY <1>1, <1>4, SuffixIs
  <2>2. (Len(o) - (j + 1)) + 1 = n - j
    BY <1>1, <1>2
  <2>3. \A i \in 1..n - j : ((j + 1) + i) - 1 = j + i
    BY <1>1, <1>2
  <2> QED BY <2>1, <2>2, <2>3
<1>6. CASE k < j
  <2>1. PICK i : i = j - 1
    OBVIOUS
  <2>2. i \in 1..Len(q) /\ i + 1 \in 1..Len(q) + 1 /\ i + 1 = j /\ i \in 1..n - 1 /\ ~(i < k)
    BY <1>1, <1>2, <1>3, <1>6, <2>1
  <2>3. q[i] = o[j]
    BY <1>3, <2>2
  <2>4. Spot(h, o, j + 1) = Spot(h, q, i + 1)
    <3>1. CASE j = n
      BY <1>1, <1>2, <1>3, <2>2, <3>1 DEF Spot
    <3>2. CASE j # n
      <4>1. j \in 1..n - 1 /\ ~(j < k) /\ j # Len(q) + 1 /\ j + 1 # n + 1
        BY <1>1, <1>2, <1>3, <1>6, <3>2
      <4> QED BY <1>2, <1>3, <2>2, <4>1 DEF Spot
    <3> QED BY <3>1, <3>2
  <2>5. SubSeq(o, j + 1, Len(o)) = SubSeq(q, i + 1, Len(q))
    <3>1. Len(o) - (j + 1) = Len(q) - j /\ j \in 1..Len(q) + 1
      BY <1>1, <1>2, <1>3, <2>2
    <3>2. ASSUME NEW x \in 1..(Len(o) - (j + 1)) + 1 PROVE o[((j + 1) + x) - 1] = q[(j + x) - 1]
      <4>1. (j + x) - 1 \in 1..n - 1 /\ ~((j + x) - 1 < k) /\ ((j + x) - 1) + 1 = ((j + 1) + x) - 1
        BY <1>1, <1>2, <1>6
      <4>2. q[(j + x) - 1] = o[((j + x) - 1) + 1]
        BY <1>3, <4>1
      <4> QED BY <4>1, <4>2
    <3>3. SubSeq(o, j + 1, Len(o)) = SubSeq(q, j, Len(q))
      BY <1>1, <1>3, <3>1, <3>2, SuffixEq
    <3> QED BY <2>2, <3>3
  <2>6. \A x \in 1..Len(t) : t[x] # o[k]
    <3> TAKE x \in 1..Len(t)
    <3>1. j + x \in 1..n /\ j + x # k /\ x \in 1..n - j
      BY <1>1, <1>2, <1>5, <1>6
    <3> QED BY <1>2, <1>5, <3>1 DEF Proper, Uniq
  <2>7. RemoveFirst(t, o[k]) = t
    BY <2>6 DEF RemoveFirst
  <2> QED BY <1>4, <2>2, <2>3, <2>4, <2>5, <2>7
<1>7. CASE k > j
  <2>1. j \in 1..Len(q) /\ j + 1 \in 1..Len(q) + 1 /\ j \in 1..n - 1 /\ j < k
    BY <1>1, <1>2, <1>3, <1>7
  <2>2. q[j] = o[j]
    BY <1>3, <2>1
  <2>3. ASSUME k # j + 1 PROVE Spot(h, o, j + 1) = Spot(h, q, j + 1)
    <3>1. j + 1 \in 1..n - 1 /\ j + 1 < k /\ j + 1 # Len(q) + 1 /\ j + 1 # n + 1
      BY <1>1, <1>2, <1>3, <1>7, <2>3
    <3> QED BY <1>2, <1>3, <3>1 DEF Spot
  <2>4. PICK x : x = k - j
    OBVIOUS
  <2>5. x \in 1..Len(t) /\ j + x = k /\ x \in Nat
    BY <1>1, <1>2, <1>5, <1>7, <2>4
  <2>6. t[x] = o[k]
    BY <1>5, <2>5
  <2>7. PICK u : u = RemoveFirst(t, o[k])
    OBVIOUS
  <2>8. /\ Proper(u) /\ Len(u) = (n - j) - 1
        /\ \A i \in 1..(n - j) - 1 : u[i] = IF i < x THEN t[i] ELSE t[i + 1]
    <3>1. u = RemoveFirst(t, t[x])
      BY <2>6, <2>7
    <3>2. /\ Proper(u) /\ Len(u) = Len(t) - 1
          /\ \A i \in 1..Len(t) - 1 : u[i] = IF i < x THEN t[i] ELSE t[i + 1]
      BY <1>5, <2>5, <3>1, RemoveIs
    <3> QED BY <1>5, <3>2
  <2>9. PICK v : v = SubSeq(q, j + 1, Len(q))
    OBVIOUS
  <2>10. /\ Proper(v) /\ Len(v) = (n - j) - 1
         /\ \A i \in 1..(n - j) - 1 : v[i] = q[j + i]
    <3>1. /\ Proper(v) /\ Len(v) = (Len(q) - (j + 1)) + 1
          /\ \A i \in 1..(Len(q) - (j + 1)) + 1 : v[i] = q[((j + 1) + i) - 1]
      BY <1>3, <2>1, <2>9, SuffixIs
    <3>2. (Len(q) - (j + 1)) + 1 = (n - j) - 1
      BY <1>1, <1>2, <1>3
    <3>3. \A i \in 1..(n - j) - 1 : ((j + 1) + i) - 1 = j + i
      BY <1>1, <1>2
    <3> QED BY <3>1, <3>2, <3>3
  <2>11. ASSUME NEW i \in 1..(n - j) - 1 PROVE u[i] = v[i]
    <3>1. /\ i \in 1..n - j /\ i + 1 \in 1..n - j /\ j + i \in 1..n - 1
          /\ (i < x <=> j + i < k) /\ j + (i + 1) = (j + i) + 1
      BY <1>1, <1>2, <2>5
    <3>2. CASE i < x
      <4>1. u[i] = o[j + i]
        BY <1>5, <2>8, <3>1, <3>2
      <4>2. v[i] = o[j + i]
        BY <1>3, <2>10, <3>1, <3>2
      <4> QED BY <4>1, <4>2
    <3>3. CASE ~(i < x)
      <4>1. u[i] = o[(j + i) + 1]
        BY <1>5, <2>8, <3>1, <3>3
      <4>2. v[i] = o[(j + i) + 1]
        BY <1>3, <2>10, <3>1, <3>3
      <4> QED BY <4>1, <4>2
    <3> QED BY <3>2, <3>3
  <2>12. u = v
    <3>1. u \in Seq(Entries) /\ v \in Seq(Entries)
      BY <2>8, <2>10 DEF Proper
    <3> QED BY <2>8, <2>10, <2>11, <3>1
  <2> QED BY <1>4, <2>1, <2>2, <2>3, <2>7, <2>9, <2>12
<1> QED BY <1>1, <1>6, <1>7

-----------------------------------------------------------------------------
(* The inductive invariant.                                                *)

\* The loop cu over the lists ls in memory m is at a place j of its list, has
\* to visit the entries from there on, and its n, if it keeps one, is what
\* pos points at.
OnCourse(m, ls, cu) ==
    /\ cu = [head |-> cu.head, macro |-> cu.macro, pos |-> cu.pos, n |-> cu.n, rest |-> cu.rest]
    /\ cu.head \in Heads /\ ls[cu.head] # Stale
    /\ cu.macro.dir \in Dirs /\ cu.macro.safe \in BOOLEAN
    /\ cu.macro.safe => cu.n = Step(m, cu.macro.dir, cu.pos)
    /\ \E j \in 1..Len(ls[cu.head]) + 1 :
          /\ cu.pos = Spot(cu.head, Facing(ls[cu.head], cu.macro.dir), j)
          /\ cu.rest = SubSeq(Facing(ls[cu.head], cu.macro.dir), j, Len(ls[cu.head]))

\* The inductive invariant.
ListInv == Shape(mem, list) /\ (cursor # NoLoop => OnCourse(mem, list, cursor))

\* After INIT_LIST_HEAD every head leads around the empty list.
LEMMA InitInv == Init => ListInv
<1> SUFFICES ASSUME Init PROVE ListInv
  OBVIOUS
<1>1. mem \in Memory
  BY DEF Init, Memory, Nodes
<1>2. list \in Lists /\ \A h \in Heads : list[h] = <<>>
  BY DEF Init, Lists
<1>3. ASSUME NEW h \in Heads PROVE Well(mem, h, list[h])
  <2>1. mem.next[h] = h /\ mem.prev[h] = h
    BY DEF Init, Nodes
  <2> QED BY <1>2, <2>1, WellEmpty
<1>4. ToSet(<<>>) = {}
  BY DEF ToSet
<1>5. Shape(mem, list)
  BY <1>1, <1>2, <1>3, <1>4 DEF Shape
<1> QED BY <1>5 DEF ListInv, Init

\* An entry on no list is on no ring.
LEMMA OffListFree ==
    ASSUME Shape(mem, list), NEW e \in Entries, OffList(e)
    PROVE  Free(list, e)
  BY ListAssumption DEF OffList, OnList, Usable, Free, In

\* One lemma per operation: it preserves ListInv.
LEMMA ReinitInv == ASSUME ListInv, NEW h \in Heads, Reinit(h) PROVE ListInv'
<1>1. Shape(mem, list) /\ list[h] = Stale
  BY DEF ListInv, Reinit, Usable
<1>2. mem' = INIT_LIST_HEAD(mem, h) /\ list' = Write(list, h, <<>>)
  BY DEF Reinit, Call, Write
<1>3. Shape(mem', list')
  BY <1>1, <1>2, ReinitShape
<1>4. cursor' = NoLoop
  BY DEF Reinit, Call
<1> QED BY <1>3, <1>4 DEF ListInv, NoLoop

\* list_add, list_add_tail.
LEMMA AddInv == ASSUME ListInv, NEW e \in Entries, NEW h \in Heads, Add(e, h) PROVE ListInv'
<1>1. Shape(mem, list) /\ list[h] # Stale /\ OffList(e)
  BY DEF ListInv, Add, Usable
<1>2. Free(list, e)
  BY <1>1, OffListFree
<1>3. /\ Shape(list_add(mem, e, h), Write(list, h, <<e>> \o list[h]))
      /\ Shape(list_add_tail(mem, e, h), Write(list, h, Append(list[h], e)))
  BY <1>1, <1>2, AddShape
<1>4. \/ mem' = list_add(mem, e, h) /\ list' = Write(list, h, <<e>> \o list[h])
      \/ mem' = list_add_tail(mem, e, h) /\ list' = Write(list, h, Append(list[h], e))
  BY DEF Add, Call, Write
<1>5. Shape(mem', list')
  BY <1>3, <1>4
<1>6. cursor' = NoLoop
  BY DEF Add, Call
<1> QED BY <1>5, <1>6 DEF ListInv, NoLoop

\* list_del, list_del_init.
LEMMA DeleteInv == ASSUME ListInv, NEW e \in Entries, NEW h \in Heads, Delete(e, h) PROVE ListInv'
<1>1. Shape(mem, list) /\ list[h] # Stale /\ e \in ToSet(list[h])
  BY DEF ListInv, Delete, OnList, Usable
<1>2. /\ Shape(list_del(mem, e), Write(list, h, RemoveFirst(list[h], e)))
      /\ Shape(list_del_init(mem, e), Write(list, h, RemoveFirst(list[h], e)))
  BY <1>1, DelShape
<1>3. /\ mem' = list_del(mem, e) \/ mem' = list_del_init(mem, e)
      /\ list' = Write(list, h, RemoveFirst(list[h], e))
  BY DEF Delete, Call, Write
<1>4. Shape(mem', list')
  BY <1>2, <1>3
<1>5. cursor' = NoLoop
  BY DEF Delete, Call
<1> QED BY <1>4, <1>5 DEF ListInv, NoLoop

\* list_replace, list_replace_init of an entry.
LEMMA ReplaceEntryInv ==
    ASSUME ListInv, NEW e \in Entries, NEW f \in Entries, NEW h \in Heads, ReplaceEntry(e, f, h)
    PROVE  ListInv'
<1>1. Shape(mem, list) /\ list[h] # Stale /\ e \in ToSet(list[h]) /\ OffList(f)
  BY DEF ListInv, ReplaceEntry, OnList, Usable
<1>2. Free(list, f)
  BY <1>1, OffListFree
<1>3. PICK v : v = Write(list, h, Write(list[h], Place(list[h], e), f))
  OBVIOUS
<1>4. Shape(list_replace(mem, e, f), v) /\ Shape(list_replace_init(mem, e, f), v)
  BY <1>1, <1>2, <1>3, ReplaceEntryShape
<1>5. [list EXCEPT ![h][Place(list[h], e)] = f] = v
  BY <1>3 DEF Write
<1>6. (mem' = list_replace(mem, e, f) \/ mem' = list_replace_init(mem, e, f)) /\ list' = v
  BY <1>5 DEF ReplaceEntry, Call
<1>7. Shape(mem', list')
  BY <1>4, <1>6
<1>8. cursor' = NoLoop
  BY DEF ReplaceEntry, Call
<1> QED BY <1>7, <1>8 DEF ListInv, NoLoop

\* list_replace, list_replace_init of a head.
LEMMA ReplaceHeadInv ==
    ASSUME ListInv, NEW h \in Heads, NEW g \in Heads, ReplaceHead(h, g)
    PROVE  ListInv'
<1>1. Shape(mem, list) /\ list[h] # Stale /\ h # g /\ (list[g] # Stale => list[g] = <<>>)
  BY DEF ListInv, ReplaceHead, Usable
<1>2. /\ Shape(list_replace(mem, h, g), Write(Write(list, g, list[h]), h, Stale))
      /\ Shape(list_replace_init(mem, h, g), Write(Write(list, g, list[h]), h, <<>>))
  BY <1>1, ReplaceHeadShape
<1>3. \/ /\ mem' = list_replace(mem, h, g)
         /\ list' = Write(Write(list, g, list[h]), h, Stale)
      \/ /\ mem' = list_replace_init(mem, h, g)
         /\ list' = Write(Write(list, g, list[h]), h, <<>>)
  BY DEF ReplaceHead, Call, Write
<1>4. Shape(mem', list')
  BY <1>2, <1>3
<1>5. cursor' = NoLoop
  BY DEF ReplaceHead, Call
<1> QED BY <1>4, <1>5 DEF ListInv, NoLoop

\* list_move, list_move_tail, to the same list or another.
LEMMA MoveInv ==
    ASSUME ListInv, NEW e \in Entries, NEW h \in Heads, NEW g \in Heads, Move(e, h, g)
    PROVE  ListInv'
<1>1. Shape(mem, list) /\ list[h] # Stale /\ e \in ToSet(list[h]) /\ list[g] # Stale
  BY DEF ListInv, Move, OnList, Usable
<1>2. PICK us : us = Write(list, h, RemoveFirst(list[h], e))
  OBVIOUS
<1>3. /\ Shape(list_move(mem, e, g), Write(us, g, <<e>> \o us[g]))
      /\ Shape(list_move_tail(mem, e, g), Write(us, g, Append(us[g], e)))
  BY <1>1, <1>2, MoveShape
<1>4. \/ mem' = list_move(mem, e, g) /\ list' = Write(us, g, <<e>> \o us[g])
      \/ mem' = list_move_tail(mem, e, g) /\ list' = Write(us, g, Append(us[g], e))
  BY <1>2 DEF Move, Call, Write
<1>5. Shape(mem', list')
  BY <1>3, <1>4
<1>6. cursor' = NoLoop
  BY DEF Move, Call
<1> QED BY <1>5, <1>6 DEF ListInv, NoLoop

\* The four list_splice operations.
LEMMA SpliceInv ==
    ASSUME ListInv, NEW h \in Heads, NEW g \in Heads, Splice(h, g)
    PROVE  ListInv'
<1>0. Shape(mem, list) /\ list[h] # Stale /\ h # g /\ list[g] # Stale /\ list \in Lists
  BY DEF ListInv, Splice, Usable, Shape
<1>1. cursor' = NoLoop
  BY DEF Splice, Call
<1>2. PICK r : r = IF list[h] = <<>> THEN <<>> ELSE Stale
  OBVIOUS
<1>3. PICK v : v = list[h] \o list[g]
  OBVIOUS
<1>4. PICK z : z = list[g] \o list[h]
  OBVIOUS
<1>5. \/ mem' = list_splice(mem, h, g) /\ list' = Write(Write(list, g, v), h, r)
      \/ mem' = list_splice_tail(mem, h, g) /\ list' = Write(Write(list, g, z), h, r)
      \/ mem' = list_splice_init(mem, h, g) /\ list' = Write(Write(list, g, v), h, <<>>)
      \/ mem' = list_splice_tail_init(mem, h, g) /\ list' = Write(Write(list, g, z), h, <<>>)
  BY <1>2, <1>3, <1>4 DEF Splice, Call, Write
<1>6. CASE list[h] = <<>>
  <2>1. mem \in Memory /\ Well(mem, h, list[h]) /\ Well(mem, g, list[g])
    BY <1>0, UsableIs
  <2>2. list_empty(mem, h)
    BY <1>6, <2>1, EmptyIs
  <2>3. mem' = mem
    BY <1>5, <2>2 DEF list_splice, list_splice_tail, list_splice_init, list_splice_tail_init
  <2>4. list[g] \in Seq(Entries)
    BY <2>1 DEF Well, Proper
  <2>5. v = list[g] /\ z = list[g] /\ r = <<>>
    BY <1>2, <1>3, <1>4, <1>6, <2>4
  <2>6. Write(Write(list, g, list[g]), h, <<>>) = list
    BY <1>0, <1>6 DEF Lists, Write
  <2>7. list' = list
    BY <1>5, <2>5, <2>6
  <2> QED BY <1>0, <1>1, <2>3, <2>7 DEF ListInv, NoLoop
<1>7. CASE list[h] # <<>>
  <2>1. r = Stale
    BY <1>2, <1>7
  <2>2. /\ Shape(list_splice(mem, h, g), Write(Write(list, g, v), h, Stale))
        /\ Shape(list_splice_init(mem, h, g), Write(Write(list, g, v), h, <<>>))
        /\ Shape(list_splice_tail(mem, h, g), Write(Write(list, g, z), h, Stale))
        /\ Shape(list_splice_tail_init(mem, h, g), Write(Write(list, g, z), h, <<>>))
    BY <1>0, <1>3, <1>4, <1>7, SpliceShape
  <2>3. Shape(mem', list')
    BY <1>5, <2>1, <2>2
  <2> QED BY <1>1, <2>3 DEF ListInv, NoLoop
<1> QED BY <1>6, <1>7

\* The parameters of an iteration macro.
LEMMA MacroIs ==
    ASSUME NEW k \in Macros
    PROVE  k.dir \in Dirs /\ k.safe \in BOOLEAN /\ k.from \in {"first", "after", "at"}
<1>1. \E f \in {"first", "after", "at"}, d \in Dirs, s \in BOOLEAN : k = Macro(f, d, s)
  BY Zenon DEF Macros, Dirs
<1> QED BY <1>1 DEF Macro

\* The cursor of a loop that is at place j.
LEMMA CourseHeld ==
    ASSUME NEW w, NEW us, NEW h \in Heads, us[h] # Stale,
           NEW mac, mac.dir \in Dirs, mac.safe \in BOOLEAN, NEW pos, NEW nn, NEW rest,
           mac.safe => nn = Step(w, mac.dir, pos),
           \E j \in 1..Len(us[h]) + 1 :
              /\ pos = Spot(h, Facing(us[h], mac.dir), j)
              /\ rest = SubSeq(Facing(us[h], mac.dir), j, Len(us[h]))
    PROVE  OnCourse(w, us, [head |-> h, macro |-> mac, pos |-> pos, n |-> nn, rest |-> rest])
<1>1. PICK cu : cu = [head |-> h, macro |-> mac, pos |-> pos, n |-> nn, rest |-> rest]
  OBVIOUS
<1>2. /\ cu.head = h /\ cu.macro = mac /\ cu.pos = pos /\ cu.n = nn /\ cu.rest = rest
      /\ cu = [head |-> cu.head, macro |-> cu.macro, pos |-> cu.pos, n |-> cu.n, rest |-> cu.rest]
  BY <1>1
<1>3. OnCourse(w, us, cu)
  BY <1>2 DEF OnCourse
<1> QED BY <1>1, <1>3

\* A loop begins at a place of its list.
LEMMA StartInv ==
    ASSUME ListInv, NEW h \in Heads, NEW e \in Nodes, NEW k \in Macros, for_each_start(h, e, k)
    PROVE  ListInv'
<1>0. /\ Shape(mem, list) /\ list[h] # Stale /\ mem' = mem /\ list' = list
      /\ (e = h \/ e \in ToSet(list[h])) /\ (k.from = "first" => e = h)
  BY DEF ListInv, for_each_start, Usable, OnList
<1>1. k.dir \in Dirs /\ k.safe \in BOOLEAN /\ k.from \in {"first", "after", "at"}
  BY MacroIs
<1>2. PICK l : l = list[h]
  OBVIOUS
<1>3. mem \in Memory /\ Well(mem, h, l) /\ Proper(l)
  BY <1>0, <1>2, UsableIs
<1>4. PICK o : o = Facing(l, k.dir)
  OBVIOUS
<1>5. PICK n : n = Len(l)
  OBVIOUS
<1>6. Proper(o) /\ Len(o) = n /\ ToSet(o) = ToSet(l) /\ n \in Nat /\ o \in Seq(Entries)
  BY <1>1, <1>3, <1>4, <1>5, FacingIs DEF Proper
<1>7. /\ Step(mem, k.dir, h) = Spot(h, o, 1)
      /\ \A i \in 1..n : Step(mem, k.dir, o[i]) = Spot(h, o, i + 1)
  BY <1>1, <1>3, <1>4, <1>5, CourseIs
<1>8. PICK pos : pos = IF k.from = "at" THEN e ELSE Step(mem, k.dir, e)
  OBVIOUS
<1>9. PICK beyond : beyond = IF e = h THEN o ELSE SubSeq(o, Place(o, e), Len(o))
  OBVIOUS
<1>10. Ahead(h, e, k.dir) = beyond
  BY <1>2, <1>4, <1>9 DEF Ahead, Facing
<1>11. PICK rest : rest = CASE k.from = "at" /\ e = h -> <<>>
                            [] k.from = "after" /\ e # h -> Tail(beyond)
                            [] OTHER -> beyond
  OBVIOUS
<1>12. PICK nn : nn = IF k.safe THEN Step(mem, k.dir, pos) ELSE Null
  OBVIOUS
<1>13. cursor' = [head |-> h, macro |-> k, pos |-> pos, n |-> nn, rest |-> rest]
  BY <1>8, <1>10, <1>11, <1>12 DEF for_each_start
<1>14. \E j \in 1..n + 1 : pos = Spot(h, o, j) /\ rest = SubSeq(o, j, n)
  <2>1. CASE e = h /\ k.from = "at"
    <3>1. pos = h /\ rest = <<>>
      BY <1>8, <1>11, <2>1
    <3>2. n + 1 \in 1..n + 1 /\ SubSeq(o, n + 1, n) = <<>>
      BY <1>6
    <3> QED BY <1>6, <3>1, <3>2 DEF Spot
  <2>2. CASE e = h /\ k.from # "at"
    <3>1. pos = Spot(h, o, 1) /\ rest = o
      BY <1>7, <1>8, <1>9, <1>11, <2>2
    <3>2. 1 \in 1..n + 1 /\ SubSeq(o, 1, n) = o
      BY <1>6, SMTT(60)
    <3> QED BY <3>1, <3>2
  <2>3. CASE e # h
    <3>1. PICK i \in 1..n : e = o[i]
      BY <1>0, <1>2, <1>6, <2>3, SMTT(60) DEF ToSet
    <3>2. Place(o, e) = i
      BY <1>6, <3>1, RemoveFirstIs
    <3>3. beyond = SubSeq(o, i, n) /\ i \in 1..n + 1 /\ i + 1 \in 1..n + 1 /\ i # n + 1
      BY <1>6, <1>9, <2>3, <3>2
    <3>4. CASE k.from = "at"
      <4>1. pos = o[i] /\ rest = beyond
        BY <1>8, <1>11, <2>3, <3>1, <3>4
      <4> QED BY <1>6, <3>3, <4>1 DEF Spot
    <3>5. CASE k.from = "after"
      <4>1. pos = Spot(h, o, i + 1) /\ rest = Tail(beyond)
        BY <1>7, <1>8, <1>11, <2>3, <3>1, <3>5
      <4>2. Tail(beyond) = SubSeq(o, i + 1, n)
        BY <1>6, <3>3, RestIs
      <4> QED BY <3>3, <4>1, <4>2
    <3> QED BY <1>0, <1>1, <2>3, <3>4, <3>5
  <2> QED BY <2>1, <2>2, <2>3
<1>15. OnCourse(mem, list, [head |-> h, macro |-> k, pos |-> pos, n |-> nn, rest |-> rest])
  <2>1. k.safe => nn = Step(mem, k.dir, pos)
    BY <1>12
  <2>2. \E j \in 1..Len(list[h]) + 1 :
           /\ pos = Spot(h, Facing(list[h], k.dir), j)
           /\ rest = SubSeq(Facing(list[h], k.dir), j, Len(list[h]))
    BY <1>2, <1>4, <1>5, <1>14
  <2> QED BY <1>0, <1>1, <2>1, <2>2, CourseHeld
<1> QED BY <1>0, <1>13, <1>15 DEF ListInv, NoLoop

\* A loop that ends.
LEMMA EndInv == ASSUME ListInv, for_each_end PROVE ListInv'
  BY DEF ListInv, for_each_end, NoLoop

\* for_each_advance brings the loop to place j of the list the body left.
LEMMA Advanced ==
    ASSUME Shape(mem', list'), NEW h \in Heads, list'[h] # Stale,
           NEW mac, mac.dir \in Dirs, mac.safe \in BOOLEAN, NEW here, NEW x, NEW r,
           cursor = [head |-> h, macro |-> mac, pos |-> here, n |-> x, rest |-> r],
           NEW rest, for_each_advance(mem', rest),
           \E j \in 1..Len(list'[h]) + 1 :
              /\ (IF mac.safe THEN x ELSE Step(mem', mac.dir, here))
                     = Spot(h, Facing(list'[h], mac.dir), j)
              /\ rest = SubSeq(Facing(list'[h], mac.dir), j, Len(list'[h]))
    PROVE  ListInv'
<1>1. PICK pos : pos = IF mac.safe THEN x ELSE Step(mem', mac.dir, here)
  OBVIOUS
<1>2. PICK nn : nn = IF mac.safe THEN Step(mem', mac.dir, pos) ELSE x
  OBVIOUS
<1>3. cursor.macro = mac /\ cursor.n = x /\ cursor.pos = here
  OBVIOUS
<1>4. cursor' = [cursor EXCEPT !.rest = rest, !.pos = pos, !.n = nn]
  BY <1>1, <1>2, <1>3 DEF for_each_advance
<1>5. cursor' = [head |-> h, macro |-> mac, pos |-> pos, n |-> nn, rest |-> rest]
  BY <1>4
<1>6. OnCourse(mem', list', [head |-> h, macro |-> mac, pos |-> pos, n |-> nn, rest |-> rest])
  BY <1>1, <1>2, CourseHeld
<1> QED BY <1>5, <1>6 DEF ListInv, NoLoop

\* A body that leaves the lists alone, takes the loop's own entry away or
\* deletes another one.
LEMMA BodyInv == ASSUME ListInv, for_each_body PROVE ListInv'
<1>1. Shape(mem, list) /\ OnCourse(mem, list, cursor) /\ cursor # NoLoop /\ list \in Lists
  BY DEF ListInv, for_each_body, Shape
<1>2. PICK h : h = cursor.head
  OBVIOUS
<1>3. PICK mac : mac = cursor.macro
  OBVIOUS
<1>4. PICK here : here = cursor.pos
  OBVIOUS
<1>5. PICK x : x = cursor.n
  OBVIOUS
<1>6. PICK r : r = cursor.rest
  OBVIOUS
<1>7. cursor = [head |-> h, macro |-> mac, pos |-> here, n |-> x, rest |-> r]
  BY <1>1, <1>2, <1>3, <1>4, <1>5, <1>6 DEF OnCourse
<1>8. /\ h \in Heads /\ list[h] # Stale /\ mac.dir \in Dirs /\ mac.safe \in BOOLEAN
      /\ mac.safe => x = Step(mem, mac.dir, here)
  BY <1>1, <1>2, <1>3, <1>4, <1>5 DEF OnCourse
<1>9. PICK l : l = list[h]
  OBVIOUS
<1>10. mem \in Memory /\ Well(mem, h, l) /\ Proper(l) /\ l # Stale
  BY <1>1, <1>8, <1>9, UsableIs
<1>11. PICK dir : dir = mac.dir
  OBVIOUS
<1>12. PICK o : o = Facing(l, dir)
  OBVIOUS
<1>13. PICK n : n = Len(l)
  OBVIOUS
<1>14. /\ Proper(o) /\ Len(o) = n /\ ToSet(o) = ToSet(l) /\ n \in Nat
       /\ \A e \in ToSet(l) : Facing(RemoveFirst(l, e), dir) = RemoveFirst(o, e)
  <2>1. n \in Nat
    BY <1>10, <1>13 DEF Proper
  <2> QED BY <1>8, <1>10, <1>11, <1>12, <1>13, <2>1, FacingIs
<1>15. PICK j \in 1..n + 1 : here = Spot(h, o, j) /\ r = SubSeq(o, j, n)
  BY <1>1, <1>2, <1>3, <1>4, <1>6, <1>9, <1>11, <1>12, <1>13 DEF OnCourse
<1>16. here # h
  BY <1>2, <1>4 DEF for_each_body
<1>17. j \in 1..n /\ here = o[j] /\ j + 1 \in 1..n + 1
  BY <1>14, <1>15, <1>16 DEF Spot
<1>18. here \in ToSet(l)
  <2>1. j \in 1..Len(o)
    BY <1>14, <1>17
  <2>2. o[j] \in ToSet(o)
    BY <2>1, <1>14 DEF ToSet, Proper
  <2> QED BY <1>14, <1>17, <2>2
<1>19. Tail(r) = SubSeq(o, j + 1, n)
  BY <1>14, <1>15, <1>17, RestIs
<1>20. Step(mem, dir, here) = Spot(h, o, j + 1)
  BY <1>8, <1>10, <1>11, <1>12, <1>13, <1>17, CourseIs
\* The body does nothing.
<1>21. CASE mem' = mem /\ list' = list /\ for_each_advance(mem, Tail(r))
  <2>1. Shape(mem', list') /\ list'[h] = l /\ list'[h] # Stale
    BY <1>1, <1>9, <1>10, <1>21
  <2>2. for_each_advance(mem', Tail(r))
    BY <1>21
  <2>3. (IF mac.safe THEN x ELSE Step(mem', mac.dir, here)) = Spot(h, o, j + 1)
    BY <1>8, <1>11, <1>20, <1>21
  <2>4. \E i \in 1..Len(list'[h]) + 1 :
           /\ (IF mac.safe THEN x ELSE Step(mem', mac.dir, here))
                  = Spot(h, Facing(list'[h], mac.dir), i)
           /\ Tail(r) = SubSeq(Facing(list'[h], mac.dir), i, Len(list'[h]))
    BY <1>11, <1>12, <1>13, <1>17, <1>19, <2>1, <2>3
  <2> QED BY <1>7, <1>8, <2>1, <2>2, <2>4, Advanced
\* The body takes the entry the loop is at off its list.
<1>22. ASSUME mac.safe, Shape(mem', list'), list'[h] = RemoveFirst(l, here),
              for_each_advance(mem', Tail(r))
       PROVE  ListInv'
  <2>1. PICK q : q = RemoveFirst(o, here)
    OBVIOUS
  <2>2. /\ Len(q) = n - 1 /\ j \in 1..Len(q) + 1 /\ Spot(h, o, j + 1) = Spot(h, q, j)
        /\ SubSeq(o, j + 1, n) = SubSeq(q, j, Len(q))
    <3>1. j \in 1..Len(o) /\ Proper(o) /\ q = RemoveFirst(o, o[j])
      BY <1>14, <1>17, <2>1
    <3>2. /\ Len(q) = Len(o) - 1 /\ j \in 1..Len(q) + 1 /\ Spot(h, o, j + 1) = Spot(h, q, j)
          /\ SubSeq(o, j + 1, Len(o)) = SubSeq(q, j, Len(q))
      BY <1>8, <3>1, HereDropped, ZenonT(60)
    <3> QED BY <1>14, <3>2
  <2>3. Facing(list'[h], dir) = q
    BY <1>14, <1>18, <1>22, <2>1
  <2>4. list'[h] # Stale /\ Len(list'[h]) = Len(q)
    <3>1. PICK k \in 1..n : here = l[k]
      BY <1>13, <1>18 DEF ToSet
    <3>2. Proper(list'[h]) /\ Len(list'[h]) = n - 1
      BY <1>8, <1>10, <1>13, <1>22, <3>1, RemoveIs
    <3> QED BY <2>2, <3>2, EntriesOf
  <2>5. (IF mac.safe THEN x ELSE Step(mem', mac.dir, here)) = Spot(h, q, j)
    BY <1>8, <1>11, <1>20, <1>22, <2>2
  <2>6. \E i \in 1..Len(list'[h]) + 1 :
           /\ (IF mac.safe THEN x ELSE Step(mem', mac.dir, here))
                  = Spot(h, Facing(list'[h], mac.dir), i)
           /\ Tail(r) = SubSeq(Facing(list'[h], mac.dir), i, Len(list'[h]))
    BY <1>11, <1>19, <2>2, <2>3, <2>4, <2>5
  <2> QED BY <1>7, <1>8, <1>22, <2>4, <2>6, Advanced
\* The body deletes another entry.
<1>23. ASSUME NEW e \in ToSet(l) \ {here, x}, mem' = list_del(mem, e),
              list' = Write(list, h, RemoveFirst(l, e)),
              for_each_advance(mem', RemoveFirst(Tail(r), e))
       PROVE  ListInv'
  <2>1. Shape(mem', list')
    BY <1>1, <1>8, <1>9, <1>23, DelShape
  <2>2. PICK k \in 1..n : e = o[k]
    BY <1>14, <1>23 DEF ToSet
  <2>3. k # j
    BY <1>17, <1>23, <2>2
  <2>4. PICK q : q = RemoveFirst(o, e)
    OBVIOUS
  <2>5. PICK i \in 1..Len(q) :
           /\ i + 1 \in 1..Len(q) + 1 /\ q[i] = here
           /\ k # j + 1 => Spot(h, o, j + 1) = Spot(h, q, i + 1)
           /\ RemoveFirst(SubSeq(o, j + 1, n), e) = SubSeq(q, i + 1, Len(q))
    <3>1. j \in 1..Len(o) /\ k \in 1..Len(o)
      BY <1>14, <1>17
    <3>2. q = RemoveFirst(o, o[k]) /\ Proper(o)
      BY <1>14, <2>2, <2>4
    <3>3. Resumes(h, o, j, k, q)
      BY <1>8, <2>3, <3>1, <3>2, OtherDropped
    <3> QED BY <1>14, <1>17, <2>2, <3>3 DEF Resumes
  <2>6. list'[h] = RemoveFirst(l, e)
    BY <1>1, <1>8, <1>23 DEF Lists, Write
  <2>7. Facing(list'[h], dir) = q
    BY <1>14, <1>23, <2>4, <2>6
  <2>8. Proper(list'[h]) /\ list'[h] # Stale
    <3>1. PICK y \in 1..n : e = l[y]
      BY <1>13, <1>23 DEF ToSet
    <3>2. y \in 1..Len(l)
      BY <1>13
    <3>3. Proper(RemoveFirst(l, l[y]))
      BY <1>8, <1>10, <3>2, RemoveIs
    <3>4. Proper(list'[h])
      BY <2>6, <3>1, <3>3
    <3> QED BY <3>4, EntriesOf
  <2>9. Len(list'[h]) = Len(q)
    BY <1>8, <1>11, <2>7, <2>8, FacingIs
  <2>10. mem' \in Memory /\ Well(mem', h, list'[h])
    BY <1>8, <2>1, <2>8, UsableIs
  <2>11. Step(mem', dir, here) = Spot(h, q, i + 1)
    <3>1. \A y \in 1..Len(list'[h]) : Step(mem', dir, q[y]) = Spot(h, q, y + 1)
      BY <1>8, <1>11, <2>7, <2>10, CourseIs
    <3> QED BY <2>5, <2>9, <3>1
  <2>12. mac.safe => k # j + 1
    <3> SUFFICES ASSUME mac.safe, k = j + 1 PROVE FALSE
      OBVIOUS
    <3>1. x = Spot(h, o, j + 1)
      BY <1>8, <1>11, <1>20
    <3>2. j + 1 # n + 1
      BY <1>14
    <3>3. x = e
      BY <1>14, <2>2, <3>1, <3>2 DEF Spot
    <3> QED BY <1>23, <3>3
  <2>13. (IF mac.safe THEN x ELSE Step(mem', mac.dir, here)) = Spot(h, q, i + 1)
    BY <1>8, <1>11, <1>20, <2>5, <2>11, <2>12
  <2>14. RemoveFirst(Tail(r), e) = SubSeq(q, i + 1, Len(q))
    BY <1>19, <2>5
  <2>15. \E y \in 1..Len(list'[h]) + 1 :
           /\ (IF mac.safe THEN x ELSE Step(mem', mac.dir, here))
                  = Spot(h, Facing(list'[h], mac.dir), y)
           /\ RemoveFirst(Tail(r), e) = SubSeq(Facing(list'[h], mac.dir), y, Len(list'[h]))
    BY <1>11, <2>5, <2>7, <2>9, <2>13, <2>14
  <2> QED BY <1>7, <1>8, <1>23, <2>1, <2>8, <2>15, Advanced
\* The three kinds of body.
<1>24. CASE /\ mac.safe
            /\ mem' = list_del(mem, here) \/ mem' = list_del_init(mem, here)
            /\ list' = [list EXCEPT ![h] = RemoveFirst(@, here)]
            /\ for_each_advance(mem', Tail(r))
  <2>1. list' = Write(list, h, RemoveFirst(l, here))
    BY <1>9, <1>24 DEF Write
  <2>2. Shape(mem', list')
    <3>1. here \in ToSet(list[h])
      BY <1>9, <1>18
    <3>2. /\ Shape(list_del(mem, here), Write(list, h, RemoveFirst(list[h], here)))
          /\ Shape(list_del_init(mem, here), Write(list, h, RemoveFirst(list[h], here)))
      BY <1>1, <1>8, <3>1, DelShape
    <3> QED BY <1>9, <1>24, <2>1, <3>2
  <2>3. list'[h] = RemoveFirst(l, here)
    BY <1>1, <1>8, <2>1 DEF Lists, Write
  <2> QED BY <1>22, <1>24, <2>2, <2>3
<1>25. ASSUME NEW g \in Heads \ {h}, mac.safe, Usable(g),
              mem' = list_move_tail(mem, here, g),
              list' = [list EXCEPT ![h] = RemoveFirst(@, here), ![g] = Append(@, here)],
              for_each_advance(mem', Tail(r))
       PROVE  ListInv'
  <2>1. PICK us : us = Write(list, h, RemoveFirst(list[h], here))
    OBVIOUS
  <2>2. list' = Write(us, g, Append(us[g], here))
    BY <1>25, <2>1 DEF Write
  <2>3. Shape(mem', list')
    <3>1. here \in ToSet(list[h]) /\ g \in Heads /\ list[g] # Stale
      BY <1>9, <1>18, <1>25 DEF Usable
    <3>2. Shape(list_move_tail(mem, here, g), Write(us, g, Append(us[g], here)))
      BY <1>1, <1>8, <2>1, <3>1, MoveShape
    <3> QED BY <1>25, <2>2, <3>2
  <2>4. us \in [Heads -> Seq(Entries) \cup {Stale, RemoveFirst(l, here)}] /\ us[h] = RemoveFirst(l, here)
    BY <1>1, <1>8, <1>9, <2>1 DEF Lists, Write
  <2>5. list'[h] = RemoveFirst(l, here)
    BY <1>8, <1>25, <2>2, <2>4 DEF Write
  <2> QED BY <1>22, <1>25, <2>3, <2>5
<1>26. ASSUME NEW e \in ToSet(l) \ {here, x}, mem' = list_del(mem, e),
              list' = [list EXCEPT ![h] = RemoveFirst(@, e)],
              for_each_advance(mem', RemoveFirst(Tail(r), e))
       PROVE  ListInv'
  <2>1. list' = Write(list, h, RemoveFirst(l, e))
    BY <1>9, <1>26 DEF Write
  <2> QED BY <1>23, <1>26, <2>1
<1> QED BY <1>2, <1>3, <1>4, <1>5, <1>6, <1>9, <1>21, <1>24, <1>25, <1>26 DEF for_each_body

\* Every operation of gt_list.h and every step of a loop preserves ListInv.
LEMMA NextInv == ListInv /\ [Next]_vars => ListInv'
<1> SUFFICES ASSUME ListInv, [Next]_vars PROVE ListInv'
  OBVIOUS
<1>1. ASSUME NEW h \in Heads, Reinit(h) PROVE ListInv'
  BY <1>1, ReinitInv
<1>2. ASSUME NEW e \in Entries, NEW h \in Heads, Add(e, h) PROVE ListInv'
  BY <1>2, AddInv
<1>3. ASSUME NEW e \in Entries, NEW h \in Heads, Delete(e, h) PROVE ListInv'
  BY <1>3, DeleteInv
<1>4. ASSUME NEW e \in Entries, NEW f \in Entries, NEW h \in Heads, ReplaceEntry(e, f, h)
      PROVE  ListInv'
  BY <1>4, ReplaceEntryInv
<1>5. ASSUME NEW e \in Entries, NEW h \in Heads, NEW g \in Heads, Move(e, h, g) PROVE ListInv'
  BY <1>5, MoveInv
<1>6. ASSUME NEW h \in Heads, NEW g \in Heads, ReplaceHead(h, g) PROVE ListInv'
  BY <1>6, ReplaceHeadInv
<1>7. ASSUME NEW h \in Heads, NEW g \in Heads, Splice(h, g) PROVE ListInv'
  BY <1>7, SpliceInv
<1>8. ASSUME NEW h \in Heads, NEW e \in Nodes, NEW k \in Macros, for_each_start(h, e, k)
      PROVE  ListInv'
  BY <1>8, StartInv
<1>9. CASE for_each_body
  BY <1>9, BodyInv
<1>10. CASE for_each_end
  BY <1>10, EndInv
<1>11. CASE UNCHANGED vars
  BY <1>11 DEF ListInv, vars, NoLoop
<1> QED BY <1>1, <1>2, <1>3, <1>4, <1>5, <1>6, <1>7, <1>8, <1>9, <1>10, <1>11 DEF Next

\* ListInv implies that the pointers spell the lists.
LEMMA Spelled == ListInv => PointersSpellList
<1> SUFFICES ASSUME ListInv, NEW h \in Heads, list[h] # Stale
             PROVE  LET ring == <<h>> \o list[h]
                        succ(i) == IF i = Len(ring) THEN 1 ELSE i + 1
                    IN  /\ \A i \in 1..Len(ring) : /\ mem.next[ring[i]] = ring[succ(i)]
                                                   /\ mem.prev[ring[succ(i)]] = ring[i]
                        /\ list_empty(mem, h) <=> list[h] = <<>>
                        /\ list_empty_careful(mem, h) <=> list[h] = <<>>
                        /\ \A e \in ToSet(list[h]) :
                              list_is_last(mem, e, h) <=> e = Last(list[h])
  BY DEF PointersSpellList, Usable
<1>1. mem \in Memory /\ Well(mem, h, list[h])
  BY UsableIs DEF ListInv
<1>2. PICK l : l = list[h]
  OBVIOUS
<1>3. Well(mem, h, l)
  BY <1>1, <1>2
<1>4. PICK n : n = Len(l)
  OBVIOUS
<1>5. PICK c : c = Chain(h, l)
  OBVIOUS
<1>6. /\ Proper(l) /\ n \in Nat /\ Cycle(c, n) /\ c[0] = h
      /\ \A i \in 0..n : /\ mem.next[c[i]] = c[Succ(n, i)] /\ mem.prev[c[i]] = c[Pred(n, i)]
                         /\ Succ(n, i) \in 0..n
      /\ \A i \in 1..n : c[i] = l[i]
  <2>1. /\ Proper(l) /\ Len(l) \in Nat /\ Cycle(Chain(h, l), Len(l)) /\ Chain(h, l)[0] = h
        /\ \A i \in 0..Len(l) :
              /\ mem.next[Chain(h, l)[i]] = Chain(h, l)[Succ(Len(l), i)]
              /\ mem.prev[Chain(h, l)[i]] = Chain(h, l)[Pred(Len(l), i)]
              /\ Succ(Len(l), i) \in 0..Len(l)
        /\ \A i \in 1..Len(l) : Chain(h, l)[i] = l[i]
    BY <1>1, <1>3, WellIs, SMTT(30)
  <2> QED BY <1>4, <1>5, <2>1, Zenon
<1>7. PICK ring : ring = <<h>> \o l
  OBVIOUS
<1>8. Len(ring) = n + 1 /\ \A i \in 1..n + 1 : ring[i] = IF i = 1 THEN h ELSE l[i - 1]
  <2>1. l \in Seq(Entries)
    BY <1>6 DEF Proper
  <2> QED BY <1>4, <1>7, <2>1
<1>9. \A i \in 1..n + 1 : ring[i] = c[i - 1]
  <2> SUFFICES ASSUME NEW i \in 1..n + 1 PROVE ring[i] = c[i - 1]
    OBVIOUS
  <2>1. CASE i = 1
    BY <1>6, <1>8, <2>1
  <2>2. CASE i # 1
    <3>1. i - 1 \in 1..n
      BY <1>6, <2>2
    <3> QED BY <1>6, <1>8, <2>2, <3>1
  <2> QED BY <2>1, <2>2
<1>10. ASSUME NEW i \in 1..n + 1, NEW s, s = IF i = n + 1 THEN 1 ELSE i + 1
       PROVE  mem.next[ring[i]] = ring[s] /\ mem.prev[ring[s]] = ring[i]
  <2>1. i - 1 \in 0..n /\ s \in 1..n + 1 /\ s - 1 \in 0..n
    BY <1>6, <1>10
  <2>2. Succ(n, i - 1) = s - 1 /\ Pred(n, s - 1) = i - 1
    BY <1>6, <1>10 DEF Succ, Pred
  <2>3. ring[i] = c[i - 1] /\ ring[s] = c[s - 1]
    BY <1>9, <2>1
  <2> QED BY <1>6, <2>1, <2>2, <2>3
<1>11. list_empty(mem, h) <=> l = <<>>
  BY <1>1, <1>3, EmptyIs
<1>12. list_empty_careful(mem, h) <=> l = <<>>
  <2>1. ASSUME l = <<>> PROVE mem.prev[h] = h
    <3>1. n = 0 /\ 0 \in 0..n
      BY <1>4, <2>1
    <3>2. Pred(n, 0) = 0
      BY <3>1 DEF Pred
    <3> QED BY <1>6, <3>1, <3>2
  <2> QED BY <1>11, <2>1 DEF list_empty, list_empty_careful
<1>13. ASSUME NEW e \in ToSet(l) PROVE list_is_last(mem, e, h) <=> e = Last(l)
  <2>1. PICK k \in 1..n : e = l[k]
    BY <1>4 DEF ToSet
  <2>2. k \in 0..n /\ n \in 1..n /\ n \in 0..n /\ 0 \in 0..n
    BY <1>6
  <2>3. e = c[k] /\ Last(l) = c[n]
    BY <1>4, <1>6, <2>1, <2>2 DEF Last
  <2>4. mem.next[e] = c[Succ(n, k)] /\ Succ(n, k) \in 0..n
    BY <1>6, <2>2, <2>3
  <2>5. c[Succ(n, k)] = c[0] <=> Succ(n, k) = 0
    BY <1>6, <2>2, <2>4 DEF Cycle
  <2>6. Succ(n, k) = 0 <=> k = n
    BY <1>6 DEF Succ
  <2>7. c[k] = c[n] <=> k = n
    BY <1>6, <2>2 DEF Cycle
  <2> QED BY <1>6, <2>3, <2>4, <2>5, <2>6, <2>7 DEF list_is_last
<1>14. \A i \in 1..Len(ring) :
          /\ mem.next[ring[i]] = ring[IF i = Len(ring) THEN 1 ELSE i + 1]
          /\ mem.prev[ring[IF i = Len(ring) THEN 1 ELSE i + 1]] = ring[i]
  BY <1>8, <1>10
<1> QED BY <1>2, <1>7, <1>11, <1>12, <1>13, <1>14

\* ListInv implies that a loop is where it should be.
LEMMA LoopIs == ListInv => LoopOnCourse
<1> SUFFICES ASSUME ListInv, cursor # NoLoop
             PROVE  cursor.pos = IF cursor.rest = <<>> THEN cursor.head ELSE Head(cursor.rest)
  BY DEF LoopOnCourse
<1>1. Shape(mem, list) /\ OnCourse(mem, list, cursor)
  BY DEF ListInv
<1>2. PICK h : h = cursor.head
  OBVIOUS
<1>3. PICK l : l = list[h]
  OBVIOUS
<1>4. PICK dir : dir = cursor.macro.dir
  OBVIOUS
<1>5. PICK o : o = Facing(l, dir)
  OBVIOUS
<1>6. h \in Heads /\ l # Stale /\ dir \in Dirs
  BY <1>1, <1>2, <1>3, <1>4 DEF OnCourse
<1>7. Proper(l)
  <2>1. list[h] # Stale
    BY <1>3, <1>6
  <2>2. Proper(list[h])
    BY <1>1, <1>6, <2>1, UsableIs
  <2> QED BY <1>3, <2>2
<1>8. Proper(o) /\ Len(o) = Len(l)
  BY <1>5, <1>6, <1>7, FacingIs
<1>9. PICK j \in 1..Len(o) + 1 : cursor.pos = Spot(h, o, j) /\ cursor.rest = SubSeq(o, j, Len(o))
  <2>1. \E i \in 1..Len(l) + 1 : cursor.pos = Spot(h, o, i) /\ cursor.rest = SubSeq(o, i, Len(l))
    BY <1>1, <1>2, <1>3, <1>4, <1>5 DEF OnCourse
  <2> QED BY <1>8, <2>1
<1>10. Len(o) \in Nat /\ o \in Seq(Entries)
  BY <1>8 DEF Proper
<1>11. CASE j = Len(o) + 1
  <2>1. SubSeq(o, j, Len(o)) = <<>>
    BY <1>10, <1>11
  <2> QED BY <1>2, <1>9, <1>11, <2>1 DEF Spot
<1>12. CASE j # Len(o) + 1
  <2>1. j \in 1..Len(o)
    BY <1>10, <1>12
  <2>2. SubSeq(o, j, Len(o)) # <<>> /\ Head(SubSeq(o, j, Len(o))) = o[j]
    BY <1>8, <2>1, RestIs
  <2> QED BY <1>9, <1>12, <2>2 DEF Spot
<1> QED BY <1>11, <1>12

-----------------------------------------------------------------------------
\* Whatever is done to the lists, the memory holds a ring for every usable
\* head, no entry is on two of them, and a running loop is at a place of its
\* list with exactly the entries beyond that place still to visit.
THEOREM ListInvariant == Spec => []ListInv
<1> QED BY InitInv, NextInv, PTL DEF Spec

\* The pointers that gt_list.h writes always lead to a node or are the poison
\* list_del leaves in that field, and a usable head holds entries only.
THEOREM ListTyped == Spec => []TypeOK
<1>1. ListInv => TypeOK
  BY UsableIs, EntriesOf DEF ListInv, TypeOK, Shape, Memory, Usable
<1> QED BY <1>1, ListInvariant, PTL

\* Every operation of gt_list.h leaves the list its comment promises, read
\* forwards through next and backwards through prev, and list_empty,
\* list_empty_careful and list_is_last answer what it says.
THEOREM ListSpelled == Spec => []PointersSpellList
<1> QED BY Spelled, ListInvariant, PTL

\* Every iteration macro, whatever its body deletes or moves within the
\* macro's rules, is at the next entry it has to visit, and at the head when
\* there is none.
THEOREM ListLoops == Spec => []LoopOnCourse
<1> QED BY LoopIs, ListInvariant, PTL
=============================================================================
