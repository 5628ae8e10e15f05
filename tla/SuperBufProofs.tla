---------------------------- MODULE SuperBufProofs ----------------------------
(* The super buffer queue keeps its order, its counters and the buffers it     *)
(* holds, whatever frames, metadata and requests come.                         *)
EXTENDS SuperBuf, QueuesProofs

-----------------------------------------------------------------------------
(* Lists of super buffers.                                                 *)

Holding(s) == {b \in Node : s \in b.bufs}
MatchedNode == {b \in Node : b.matched}
Incomplete == {b \in Node : ~b.matched}

\* Super buffers: each holds a frame at least, is matched when it holds a
\* frame of every stream, and the matched ones come first.
NodesOK(list) ==
    \A i \in 1 .. Len(list) :
        list[i].bufs # {} /\ (list[i].matched <=> list[i].bufs = Stream)
MatchedFirst(list) ==
    \A i, j \in 1 .. Len(list) : i < j /\ list[j].matched => list[i].matched
InOrder(list) ==
    \A i, j \in 1 .. Len(list) : i < j => list[i].idx < list[j].idx

ListOK(list) ==
    list \in Seq(Node) /\ NodesOK(list) /\ MatchedFirst(list) /\ InOrder(list)

\* The list of streams' buffers, of matched and of incomplete super buffers
\* are counts of nodes.
LEMMA ListCounts ==
  ASSUME NEW list \in Seq(Node)
  PROVE  /\ MatchedIn(list) = Count(list, MatchedNode) /\ MatchedIn(list) \in Nat
         /\ Cardinality(Unmatched(list)) = Count(list, Incomplete)
         /\ \A s : HeldIn(list, s) = Count(list, Holding(s))
         /\ \A s : Cardinality({i \in DOMAIN list : s \in list[i].bufs}) = Count(list, Holding(s))
         /\ \A s : HeldIn(list, s) \in Nat
         /\ \A X : Count(list, X) \in Nat /\ Count(list, X) <= Len(list)
         /\ DOMAIN list = 1 .. Len(list) /\ \A i \in 1 .. Len(list) : list[i] \in Node
<1>1. DOMAIN list = 1 .. Len(list) /\ \A i \in 1 .. Len(list) : list[i] \in Node
  OBVIOUS
<1>2. {i \in DOMAIN list : list[i].matched} = At(list, MatchedNode)
  BY <1>1 DEF At, MatchedNode
<1>3. Unmatched(list) = At(list, Incomplete)
  BY <1>1 DEF At, Incomplete, Unmatched
<1>4. \A s : {i \in DOMAIN list : s \in list[i].bufs} = At(list, Holding(s))
  BY <1>1 DEF At, Holding
<1> QED
  BY <1>1, <1>2, <1>3, <1>4, CountType, ZenonT(40) DEF MatchedIn, HeldIn, Count

\* The part from i to j is taken out of a list.
LEMMA WithoutList ==
  ASSUME NEW list \in Seq(Node), NEW j \in 0 .. Len(list), NEW i \in 1 .. j + 1
  PROVE  LET r == Without(list, i, j)
             p == SubSeq(list, i, j)
         IN  /\ r \in Seq(Node) /\ p \in Seq(Node)
             /\ Len(r) = Len(list) - (j - i + 1) /\ Len(p) = j - i + 1
             /\ \A k \in 1 .. Len(r) : r[k] = list[IF k < i THEN k ELSE k + (j - i + 1)]
             /\ \A k \in 1 .. Len(p) : p[k] = list[i + k - 1]
             /\ \A X : Count(r, X) = Count(list, X) - Count(p, X)
<1> DEFINE a == SubSeq(list, 1, i - 1)
           p == SubSeq(list, i, j)
           b == SubSeq(list, j + 1, Len(list))
           w == j - i + 1
<1>1. a \in Seq(Node) /\ Len(a) = i - 1 /\ \A k \in 1 .. i - 1 : a[k] = list[k]
  BY SubSeqProperties
<1>2. b \in Seq(Node) /\ Len(b) = Len(list) - j /\ \A k \in 1 .. Len(list) - j : b[k] = list[j + k]
  BY SubSeqProperties
<1>3. p \in Seq(Node) /\ Len(p) = w /\ \A k \in 1 .. w : p[k] = list[i + k - 1]
  BY SubSeqProperties
<1>4. \A X : Count(SubSeq(list, 1, j), X) = Count(a, X) + Count(p, X)
  BY CountParts
<1>5. \A X : Count(SubSeq(list, 1, Len(list)), X) = Count(SubSeq(list, 1, j), X) + Count(b, X)
  <2>1. j + 1 \in 1 .. Len(list) + 1 /\ Len(list) \in 0 .. Len(list) /\ j + 1 - 1 = j
    OBVIOUS
  <2> QED
    BY <2>1, CountParts
<1>6. \A X : Count(list, X) = Count(a, X) + Count(p, X) + Count(b, X)
  BY <1>4, <1>5, WholePart
<1> DEFINE r == a \o b
<1>7. Without(list, i, j) = r
  BY DEF Without, Drop
<1> HIDE DEF a, b, p
<1>8. /\ r \in Seq(Node) /\ Len(r) = Len(a) + Len(b)
      /\ \A k \in 1 .. Len(a) + Len(b) : r[k] = IF k <= Len(a) THEN a[k] ELSE b[k - Len(a)]
  BY <1>1, <1>2, ConcatProperties
<1>9. \A X : Count(r, X) = Count(a, X) + Count(b, X)
  BY <1>1, <1>2, CountConcat
<1>10. \A X : Count(a, X) \in Nat /\ Count(b, X) \in Nat /\ Count(p, X) \in Nat
  BY <1>1, <1>2, <1>3, CountType
<1> HIDE DEF r
<1>11. \A X : Count(r, X) = Count(list, X) - Count(p, X)
  BY <1>6, <1>9, <1>10
<1>12. Len(r) = Len(list) - w /\ i \in Int /\ j \in Int /\ Len(list) \in Nat
  BY <1>1, <1>2, <1>8
<1>13. \A k \in 1 .. Len(r) : r[k] = list[IF k < i THEN k ELSE k + w]
  <2> SUFFICES ASSUME NEW k \in 1 .. Len(r) PROVE r[k] = list[IF k < i THEN k ELSE k + w]
    OBVIOUS
  <2>1. CASE k < i
    <3>1. k \in 1 .. i - 1 /\ k <= Len(a)
      BY <2>1, <1>1, <1>12
    <3> QED
      BY <3>1, <2>1, <1>1, <1>8
  <2>2. CASE ~(k < i)
    <3>1. ~(k <= Len(a)) /\ k - Len(a) \in 1 .. Len(list) - j /\ j + (k - Len(a)) = k + w
      BY <2>2, <1>1, <1>2, <1>12
    <3>2. b[k - Len(a)] = list[j + (k - Len(a))]
      BY <3>1, <1>2
    <3> QED
      BY <3>1, <3>2, <2>2, <1>8
  <2> QED
    BY <2>1, <2>2
<1> QED
  BY <1>3, <1>7, <1>8, <1>11, <1>12, <1>13 DEF p

\* What is left of a list is in order, and it is matched first.
LEMMA WithoutOK ==
  ASSUME NEW list, ListOK(list), NEW j \in 0 .. Len(list), NEW i \in 1 .. j + 1
  PROVE  ListOK(Without(list, i, j))
<1> DEFINE r == Without(list, i, j)
           f(k) == IF k < i THEN k ELSE k + (j - i + 1)
<1>1. list \in Seq(Node) /\ Len(list) \in Nat
  BY DEF ListOK
<1>2. /\ r \in Seq(Node) /\ Len(r) = Len(list) - (j - i + 1)
      /\ \A k \in 1 .. Len(r) : r[k] = list[f(k)]
  BY <1>1, WithoutList
<1> HIDE DEF r
<1>3. \A k \in 1 .. Len(r) : f(k) \in 1 .. Len(list)
  BY <1>1, <1>2
<1>4. \A k, l \in 1 .. Len(r) : k < l => f(k) < f(l)
  BY <1>1, <1>2
<1> HIDE DEF f
<1>5. NodesOK(r)
  BY <1>2, <1>3 DEF ListOK, NodesOK
<1>6. MatchedFirst(r)
  BY <1>2, <1>3, <1>4 DEF ListOK, MatchedFirst
<1>7. InOrder(r)
  BY <1>2, <1>3, <1>4 DEF ListOK, InOrder
<1> QED
  BY <1>2, <1>5, <1>6, <1>7 DEF ListOK, r

\* To drop the first super buffers is to take out the first part.
LEMMA DropIsWithout ==
  ASSUME NEW list \in Seq(Node), NEW n \in 0 .. Len(list)
  PROVE  Drop(list, n) = Without(list, 1, n)
<1> DEFINE r == Drop(list, n)
<1>1. r \in Seq(Node)
  BY SubSeqProperties DEF Drop
<1>2. SubSeq(list, 1, 1 - 1) = <<>>
  OBVIOUS
<1> HIDE DEF r
<1>3. <<>> \o r = r
  BY <1>1
<1> QED
  BY <1>2, <1>3 DEF Without, r

\* The first n super buffers are dropped: they were one part of the list.
LEMMA DropList ==
  ASSUME NEW list, ListOK(list), NEW n \in 0 .. Len(list)
  PROVE  LET r == Drop(list, n)
             p == SubSeq(list, 1, n)
         IN  /\ ListOK(r) /\ p \in Seq(Node)
             /\ Len(r) = Len(list) - n /\ Len(p) = n
             /\ \A k \in 1 .. Len(r) : r[k] = list[k + n]
             /\ \A k \in 1 .. Len(p) : p[k] = list[k]
             /\ \A X : Count(r, X) = Count(list, X) - Count(p, X)
<1> DEFINE r == Drop(list, n)
           p == SubSeq(list, 1, n)
<1>1. list \in Seq(Node) /\ Len(list) \in Nat /\ n \in Nat /\ 1 \in 1 .. n + 1
  BY DEF ListOK
<1>2. r = Without(list, 1, n)
  BY <1>1, DropIsWithout
<1>3. /\ p \in Seq(Node)
      /\ Len(r) = Len(list) - (n - 1 + 1) /\ Len(p) = n - 1 + 1
      /\ \A k \in 1 .. Len(r) : r[k] = list[IF k < 1 THEN k ELSE k + (n - 1 + 1)]
      /\ \A k \in 1 .. Len(p) : p[k] = list[1 + k - 1]
      /\ \A X : Count(r, X) = Count(list, X) - Count(p, X)
  BY <1>1, <1>2, WithoutList
<1>4. ListOK(r)
  BY <1>1, <1>2, WithoutOK
<1> HIDE DEF r, p
<1>5. n - 1 + 1 = n
  BY <1>1
<1>6. \A k \in 1 .. Len(r) : r[k] = list[k + n]
  BY <1>1, <1>3, <1>5
<1>7. \A k \in 1 .. Len(p) : p[k] = list[k]
  BY <1>1, <1>3, <1>5
<1> QED
  BY <1>3, <1>4, <1>5, <1>6, <1>7 DEF r, p

\* The ready super buffers are the matched ones: all of them come first.
LEMMA ReadyIs ==
  ASSUME NEW c, ListOK(c.list)
  PROVE  /\ Ready(c) \in 0 .. Len(c.list) /\ Ready(c) = MatchedIn(c.list)
         /\ \A i \in 1 .. Len(c.list) : c.list[i].matched <=> i <= Ready(c)
         /\ \A n \in 0 .. Ready(c) : MatchedIn(SubSeq(c.list, 1, n)) = n
<1> DEFINE list == c.list
           K == {i \in 1 .. Len(list) : ~list[i].matched}
           Good(n) == /\ \A i \in 1 .. n : list[i].matched
                      /\ n = Len(list) \/ ~list[n + 1].matched
<1>1. list \in Seq(Node) /\ Len(list) \in Nat /\ MatchedFirst(list)
  BY DEF ListOK
<1> HIDE DEF list
<1>2. \E n \in 0 .. Len(list) : Good(n)
  <2>1. CASE K = {}
    <3>1. Len(list) \in 0 .. Len(list) /\ Good(Len(list))
      BY <1>1, <2>1
    <3> QED
      BY <3>1
  <2>2. CASE K # {}
    <3>1. PICK k \in K : \A j \in K : k <= j
      BY <1>1, <2>2, LeastPosition
    <3> DEFINE n == k - 1
    <3>2. n \in 0 .. Len(list) /\ k = n + 1 /\ \A i \in 1 .. n : i \in 1 .. Len(list) /\ ~(k <= i)
      BY <1>1, <3>1
    <3>3. Good(n)
      BY <3>1, <3>2
    <3> QED
      BY <3>2, <3>3
  <2> QED
    BY <2>1, <2>2
<1>3. Ready(c) \in 0 .. Len(list) /\ Good(Ready(c))
  <2>1. Ready(c) = CHOOSE n \in 0 .. Len(list) : Good(n)
    BY DEF Ready, list
  <2> HIDE DEF Good
  <2> QED
    BY <1>2, <2>1
<1> DEFINE n == Ready(c)
<1> HIDE DEF n
<1>4. \A i \in 1 .. Len(list) : list[i].matched <=> i <= n
  <2> SUFFICES ASSUME NEW i \in 1 .. Len(list) PROVE list[i].matched <=> i <= n
    OBVIOUS
  <2>1. CASE i <= n
    BY <1>1, <1>3, <2>1 DEF n
  <2>2. CASE i > n
    <3>1. n + 1 \in 1 .. Len(list) /\ ~list[n + 1].matched /\ (n + 1 = i \/ n + 1 < i)
      BY <1>1, <1>3, <2>2 DEF n
    <3>2. ~list[i].matched
      BY <1>1, <3>1 DEF MatchedFirst
    <3> QED
      BY <1>1, <1>3, <2>2, <3>2 DEF n
  <2> QED
    BY <1>1, <1>3, <2>1, <2>2 DEF n
<1>5. \A k \in 0 .. n : MatchedIn(SubSeq(list, 1, k)) = k
  <2> SUFFICES ASSUME NEW k \in 0 .. n PROVE MatchedIn(SubSeq(list, 1, k)) = k
    OBVIOUS
  <2> DEFINE p == SubSeq(list, 1, k)
  <2>1. p \in Seq(Node) /\ Len(p) = k /\ \A i \in 1 .. k : p[i] = list[i]
    BY <1>1, <1>3, SubSeqProperties DEF n
  <2> HIDE DEF p
  <2>2. \A i \in 1 .. Len(p) : p[i] \in MatchedNode
    BY <1>1, <1>3, <1>4, <2>1 DEF MatchedNode, n
  <2>3. Count(p, MatchedNode) = Len(p)
    BY <2>1, <2>2, CountAll
  <2> QED
    BY <2>1, <2>3, ListCounts DEF p
<1>6. MatchedIn(list) = n
  <2>1. At(list, MatchedNode) = 1 .. n
    BY <1>1, <1>3, <1>4 DEF At, MatchedNode, n
  <2>2. n \in Nat
    BY <1>1, <1>3 DEF n
  <2>3. Count(list, MatchedNode) = n
    BY <2>1, <2>2, FirstNumbers DEF Count
  <2> QED
    BY <1>1, <2>3, ListCounts
<1> QED
  BY <1>3, <1>4, <1>5, <1>6 DEF n, list

-----------------------------------------------------------------------------
(* Functions that drop super buffers, or touch none.                       *)

\* By how much the count of matched super buffers is too high, and the
\* buffers of a stream that are neither in the kernel nor in the queue.
Stale(c) == c.match_cnt - MatchedIn(c.list)
Loose(c, s) == c.out[s] - HeldIn(c.list, s)
Unfinished(c) == Cardinality(Unmatched(c.list))

\* The channel d is c with other books, as good as those of c,
SameBooks(c, d) ==
    /\ d \in Channel
    /\ d.state = c.state /\ d.starts = c.starts /\ d.attr = c.attr
    /\ Stale(d) = Stale(c)
    /\ IF c.state = "ACTIVE" THEN \A s \in Stream : Loose(d, s) = Loose(c, s)
       ELSE d.out = c.out
\* and its queue holds nothing that the queue of c does not.
HoldsNoMore(c, d) ==
    \A s \in Stream : \A i \in 1 .. Len(d.list) : s \in d.list[i].bufs =>
        \E k \in 1 .. Len(c.list) : s \in c.list[k].bufs /\ c.list[k].idx = d.list[i].idx
Keeps(c, d) ==
    /\ SameBooks(c, d) /\ ListOK(d.list)
    /\ HoldsNoMore(c, d) /\ Unfinished(d) <= Unfinished(c)

\* What the requests of the HAL and their snapshots depend on.
SameModes(c, d) ==
    /\ d.zsl = c.zsl /\ d.manualZSLSnapshot = c.manualZSLSnapshot
    /\ d.startZSlSnapshotCalled = c.startZSlSnapshotCalled
    /\ d.pending_cnt = c.pending_cnt /\ d.notify_mode = c.notify_mode

\* The fields of a channel that the queue's books consist of.
SameQueue(c, d) ==
    /\ d.state = c.state /\ d.starts = c.starts /\ d.attr = c.attr
    /\ d.list = c.list /\ d.match_cnt = c.match_cnt /\ d.out = c.out

\* The types of the figures a channel's queue is described by.
LEMMA QueueTypes ==
  ASSUME NEW c \in Channel
  PROVE  /\ c.list \in Seq(Node) /\ Len(c.list) \in Nat /\ c.match_cnt \in Int
         /\ \A s \in Stream : c.out[s] \in Int /\ HeldIn(c.list, s) \in Nat
         /\ MatchedIn(c.list) \in Nat /\ Unfinished(c) \in Nat
         /\ Stale(c) \in Int /\ \A s \in Stream : Loose(c, s) \in Int
<1>1. c.list \in Seq(Node) /\ c.match_cnt \in Int /\ c.out \in [Stream -> Int]
  BY DEF Channel
<1>2. MatchedIn(c.list) \in Nat /\ Unfinished(c) \in Nat /\ \A s \in Stream : HeldIn(c.list, s) \in Nat
  BY <1>1, ListCounts DEF Unfinished
<1> QED
  BY <1>1, <1>2 DEF Stale, Loose

\* A function that leaves the queue alone keeps everything.
LEMMA SameQueueKeeps ==
  ASSUME NEW c \in Channel, ListOK(c.list), NEW d \in Channel, SameQueue(c, d)
  PROVE  Keeps(c, d)
BY QueueTypes DEF SameQueue, Keeps, SameBooks, HoldsNoMore, Unfinished, Stale, Loose

\* One function after another.
LEMMA KeepsTwice ==
  ASSUME NEW b \in Channel, NEW c, NEW d, Keeps(b, c), Keeps(c, d)
  PROVE  Keeps(b, d)
<1>1. c \in Channel /\ d \in Channel
  BY DEF Keeps, SameBooks
<1>2. SameBooks(b, d)
  BY DEF Keeps, SameBooks
<1>3. HoldsNoMore(b, d)
  BY DEF Keeps, HoldsNoMore
<1>4. Unfinished(d) <= Unfinished(b)
  BY <1>1, QueueTypes DEF Keeps
<1> QED
  BY <1>2, <1>3, <1>4 DEF Keeps

\* The part from i to j leaves the queue and its buffers go back to the
\* kernel; the count goes down by what was matched.
TakesOut(c, d, i, j) ==
    LET p == SubSeq(c.list, i, j) IN
    /\ d \in Channel /\ d.state = c.state /\ d.starts = c.starts /\ d.attr = c.attr
    /\ d.list = Without(c.list, i, j) /\ d.match_cnt = c.match_cnt - MatchedIn(p)
    /\ d.out = QbufAll(c, p).out

\* The buffers of a list go back to the kernel, nothing else happens.
LEMMA QbufAllIs ==
  ASSUME NEW c \in Channel, NEW p \in Seq(Node)
  PROVE  /\ QbufAll(c, p) \in Channel /\ SameModes(c, QbufAll(c, p)) /\ QbufAll(c, p).stuck = c.stuck
         /\ QbufAll(c, p).state = c.state /\ QbufAll(c, p).starts = c.starts
         /\ QbufAll(c, p).attr = c.attr /\ QbufAll(c, p).list = c.list
         /\ QbufAll(c, p).match_cnt = c.match_cnt
         /\ QbufAll(c, p).out = IF c.state # "ACTIVE" THEN c.out
                                ELSE [s \in Stream |-> c.out[s] - HeldIn(p, s)]
<1>1. \A s \in Stream : c.out[s] \in Int /\ HeldIn(p, s) \in Nat
  BY ListCounts DEF Channel
<1>2. \A s \in Stream : c.out[s] - HeldIn(p, s) \in Int
  BY <1>1
<1> QED
  <2> DEFINE f == [s \in Stream |-> c.out[s] - HeldIn(p, s)]
  <2>1. QbufAll(c, p) = IF c.state # "ACTIVE" THEN c ELSE [c EXCEPT !.out = f]
    BY DEF QbufAll, HeldIn, Channel
  <2>2. f \in [Stream -> Int]
    BY <1>2
  <2> HIDE DEF f
  <2>3. CASE c.state # "ACTIVE"
    BY <2>1, <2>3 DEF SameModes
  <2>4. CASE c.state = "ACTIVE"
    <3> DEFINE q == [c EXCEPT !.out = f]
    <3>1. q \in Channel
      BY <2>2 DEF Channel
    <3>2. /\ q.stuck = c.stuck /\ q.state = c.state /\ q.starts = c.starts /\ q.attr = c.attr
          /\ q.list = c.list /\ q.match_cnt = c.match_cnt /\ q.out = f
      BY DEF Channel
    <3>3. SameModes(c, q)
      BY DEF Channel, SameModes
    <3> QED
      BY <2>1, <2>4, <3>1, <3>2, <3>3 DEF f
  <2> QED
    BY <2>3, <2>4

\* The books are kept.
LEMMA TakenOut ==
  ASSUME NEW c \in Channel, NEW j \in 0 .. Len(c.list), NEW i \in 1 .. j + 1,
         NEW d, TakesOut(c, d, i, j)
  PROVE  /\ SameBooks(c, d) /\ HoldsNoMore(c, d)
         /\ Unfinished(d) = Unfinished(c) - Count(SubSeq(c.list, i, j), Incomplete)
         /\ Unfinished(d) <= Unfinished(c)
<1> DEFINE p == SubSeq(c.list, i, j)
           r == Without(c.list, i, j)
<1>1. c.list \in Seq(Node) /\ Len(c.list) \in Nat /\ c.match_cnt \in Int /\ c.out \in [Stream -> Int]
  BY DEF Channel
<1>2. /\ r \in Seq(Node) /\ p \in Seq(Node)
      /\ Len(r) = Len(c.list) - (j - i + 1)
      /\ \A k \in 1 .. Len(r) : r[k] = c.list[IF k < i THEN k ELSE k + (j - i + 1)]
      /\ \A X : Count(r, X) = Count(c.list, X) - Count(p, X)
  BY <1>1, WithoutList
<1>4. /\ d \in Channel /\ d.state = c.state /\ d.starts = c.starts /\ d.attr = c.attr
      /\ d.list = r /\ d.match_cnt = c.match_cnt - MatchedIn(p)
      /\ d.out = IF c.state # "ACTIVE" THEN c.out ELSE [s \in Stream |-> c.out[s] - HeldIn(p, s)]
  BY <1>2, QbufAllIs DEF TakesOut
<1> HIDE DEF p, r
<1>3. /\ MatchedIn(r) = MatchedIn(c.list) - MatchedIn(p) /\ MatchedIn(p) \in Nat
      /\ \A s : HeldIn(r, s) = HeldIn(c.list, s) - HeldIn(p, s)
      /\ Cardinality(Unmatched(r)) = Cardinality(Unmatched(c.list)) - Count(p, Incomplete)
      /\ Count(p, Incomplete) \in Nat
  BY <1>1, <1>2, ListCounts
<1>8. Stale(d) = Stale(c)
  <2>1. MatchedIn(c.list) \in Nat
    BY <1>1, ListCounts
  <2> QED
    BY <1>1, <1>3, <1>4, <2>1 DEF Stale
<1>9. c.state = "ACTIVE" => \A s \in Stream : Loose(d, s) = Loose(c, s)
  <2> SUFFICES ASSUME c.state = "ACTIVE", NEW s \in Stream PROVE Loose(d, s) = Loose(c, s)
    OBVIOUS
  <2>1. d.out[s] = c.out[s] - HeldIn(p, s)
    BY <1>4
  <2>2. c.out[s] \in Int /\ HeldIn(p, s) \in Nat /\ HeldIn(c.list, s) \in Nat
    BY <1>1, <1>2, ListCounts
  <2>3. HeldIn(d.list, s) = HeldIn(c.list, s) - HeldIn(p, s)
    BY <1>3, <1>4
  <2> QED
    BY <2>1, <2>2, <2>3 DEF Loose
<1>10. HoldsNoMore(c, d)
  <2> SUFFICES ASSUME NEW s \in Stream, NEW k \in 1 .. Len(r), s \in r[k].bufs
               PROVE  \E l \in 1 .. Len(c.list) : s \in c.list[l].bufs /\ c.list[l].idx = r[k].idx
    BY <1>4 DEF HoldsNoMore
  <2> DEFINE l == IF k < i THEN k ELSE k + (j - i + 1)
  <2>1. l \in 1 .. Len(c.list) /\ r[k] = c.list[l]
    BY <1>1, <1>2, SMTT(30)
  <2> QED
    BY <2>1
<1>11. SameBooks(c, d)
  BY <1>4, <1>8, <1>9 DEF SameBooks
<1>12. Unfinished(d) = Unfinished(c) - Count(p, Incomplete)
  BY <1>3, <1>4 DEF Unfinished
<1> QED
  BY <1>3, <1>10, <1>11, <1>12, QueueTypes DEF p

\* The first n super buffers go back to the kernel.
LEMMA FirstOut ==
  ASSUME NEW c \in Channel, ListOK(c.list), NEW n \in 0 .. Len(c.list)
  PROVE  LET d == QbufAll(Take(c, n), SubSeq(c.list, 1, n))
         IN  /\ Keeps(c, d) /\ SameModes(c, d) /\ d.stuck = c.stuck
             /\ d.list = Drop(c.list, n)
             /\ d.match_cnt = c.match_cnt - MatchedIn(SubSeq(c.list, 1, n))
<1> DEFINE p == SubSeq(c.list, 1, n)
           e == Take(c, n)
           d == QbufAll(e, p)
<1>1. c.list \in Seq(Node) /\ Len(c.list) \in Nat /\ c.match_cnt \in Int /\ n \in Nat /\ 1 \in 1 .. n + 1
  BY DEF Channel
<1>2. p \in Seq(Node) /\ Drop(c.list, n) = Without(c.list, 1, n) /\ ListOK(Drop(c.list, n))
  BY <1>1, DropIsWithout, DropList
<1> HIDE DEF p
<1>3. c.match_cnt - MatchedIn(p) \in Int
  BY <1>1, <1>2, ListCounts
<1>4. Drop(c.list, n) \in Seq(Node)
  BY <1>2 DEF ListOK
<1>9. e = [c EXCEPT !.list = Drop(c.list, n), !.match_cnt = c.match_cnt - MatchedIn(p)]
  BY DEF Take, p
<1> HIDE DEF e
<1>5. /\ e \in Channel /\ SameModes(c, e) /\ e.stuck = c.stuck
      /\ e.state = c.state /\ e.starts = c.starts /\ e.attr = c.attr /\ e.out = c.out
      /\ e.list = Drop(c.list, n) /\ e.match_cnt = c.match_cnt - MatchedIn(p)
  BY <1>3, <1>4, <1>9 DEF Channel, SameModes
<1>6. /\ d \in Channel /\ SameModes(c, d) /\ d.stuck = c.stuck
      /\ d.state = c.state /\ d.starts = c.starts /\ d.attr = c.attr
      /\ d.list = Drop(c.list, n) /\ d.match_cnt = c.match_cnt - MatchedIn(p)
      /\ d.out = QbufAll(c, p).out
  <2>1. /\ d \in Channel /\ SameModes(e, d) /\ d.stuck = e.stuck
        /\ d.state = e.state /\ d.starts = e.starts /\ d.attr = e.attr
        /\ d.list = e.list /\ d.match_cnt = e.match_cnt
        /\ d.out = IF e.state # "ACTIVE" THEN e.out
                   ELSE [s \in Stream |-> e.out[s] - HeldIn(p, s)]
    BY <1>2, <1>5, QbufAllIs
  <2>2. QbufAll(c, p).out = IF c.state # "ACTIVE" THEN c.out
                            ELSE [s \in Stream |-> c.out[s] - HeldIn(p, s)]
    BY <1>2, QbufAllIs
  <2> HIDE DEF d
  <2>3. SameModes(c, d)
    BY <1>5, <2>1 DEF SameModes
  <2> QED
    BY <1>5, <2>1, <2>2, <2>3
<1> HIDE DEF d
<1>7. TakesOut(c, d, 1, n)
  BY <1>2, <1>6 DEF TakesOut, p
<1>8. SameBooks(c, d) /\ HoldsNoMore(c, d) /\ Unfinished(d) <= Unfinished(c)
  BY <1>1, <1>7, TakenOut
<1> QED
  BY <1>2, <1>6, <1>8 DEF Keeps, p, d, e

\* Nothing happens to the queue but that super buffers leave it.
Steady(c, d) == Keeps(c, d) /\ SameModes(c, d) /\ d.stuck = c.stuck

\* A steady step leaves the figures of the queue as good as they were.
LEMMA SteadyThen ==
  ASSUME NEW b \in Channel, NEW c, Steady(b, c),
         NEW d \in Channel, SameQueue(c, d), SameModes(c, d), d.stuck = c.stuck
  PROVE  Steady(b, d)
<1>1. c \in Channel /\ ListOK(c.list) /\ Keeps(b, c) /\ SameModes(b, c) /\ c.stuck = b.stuck
  BY DEF Steady, Keeps, SameBooks
<1>2. Keeps(c, d)
  BY <1>1, SameQueueKeeps
<1>3. Keeps(b, d)
  BY <1>1, <1>2, KeepsTwice
<1>4. SameModes(b, d)
  BY <1>1 DEF SameModes
<1> QED
  BY <1>1, <1>3, <1>4 DEF Steady

\* Two steady steps are one,
LEMMA SteadyTwice ==
  ASSUME NEW b \in Channel, NEW c, NEW d, Steady(b, c), Steady(c, d)
  PROVE  Steady(b, d)
<1>1. Keeps(b, d)
  BY KeepsTwice DEF Steady
<1>2. SameModes(b, d)
  BY DEF Steady, SameModes
<1> QED
  BY <1>1, <1>2 DEF Steady

\* and so is none.
LEMMA SteadySelf ==
  ASSUME NEW c \in Channel, ListOK(c.list)
  PROVE  Steady(c, c)
BY SameQueueKeeps DEF Steady, SameModes, SameQueue

\* The queue is flushed.
LEMMA FlushSteady ==
  ASSUME NEW c \in Channel, ListOK(c.list)
  PROVE  Steady(c, Flush(c)) /\ Flush(c).list = <<>> /\ Flush(c) \in Channel
<1> DEFINE n == Len(c.list)
<1>1. c.list \in Seq(Node) /\ n \in 0 .. Len(c.list) /\ SubSeq(c.list, 1, n) = c.list
  BY WholePart DEF ListOK
<1>2. Flush(c) = QbufAll(Take(c, n), SubSeq(c.list, 1, n))
  BY <1>1 DEF Flush
<1>3. Drop(c.list, n) = <<>>
  BY <1>1 DEF Drop
<1> HIDE DEF n
<1>4. Keeps(c, Flush(c)) /\ SameModes(c, Flush(c)) /\ Flush(c).stuck = c.stuck
      /\ Flush(c).list = Drop(c.list, n)
  BY <1>1, <1>2, FirstOut
<1> QED
  BY <1>3, <1>4 DEF Steady, Keeps, SameBooks

\* Dropping the complete super buffers is steady.
LEMMA FlushMatchedSteady ==
  ASSUME NEW c \in Channel, ListOK(c.list)
  PROVE  Steady(c, FlushMatched(c)) /\ FlushMatched(c) \in Channel
<1>1. Ready(c) \in 0 .. Len(c.list)
  BY ReadyIs
<1>2. Keeps(c, FlushMatched(c)) /\ SameModes(c, FlushMatched(c)) /\ FlushMatched(c).stuck = c.stuck
  BY <1>1, FirstOut DEF FlushMatched
<1> QED
  BY <1>2 DEF Steady, Keeps, SameBooks

\* The queue is cut down to the limit.  The loop ends if the count is exact.
LEMMA DropExcessKeeps ==
  ASSUME NEW c \in Channel, ListOK(c.list), NEW limit \in Nat
  PROVE  LET d == DropExcess(c, limit)
         IN  /\ d \in Channel /\ Keeps(c, d) /\ SameModes(c, d)
             /\ Stale(c) = 0 /\ ~c.stuck => ~d.stuck
             /\ c.stuck => d.stuck
             /\ Stale(c) >= 0 /\ ~d.stuck /\ d.notify_mode = BURST => MatchedIn(d.list) <= limit
<1> DEFINE d == DropExcess(c, limit)
           n == c.match_cnt - limit
<1>1. c.match_cnt \in Int /\ MatchedIn(c.list) \in Nat /\ n \in Int
  BY QueueTypes
<1>2. Ready(c) \in 0 .. Len(c.list) /\ Ready(c) = MatchedIn(c.list)
      /\ \A k \in 0 .. Ready(c) : MatchedIn(SubSeq(c.list, 1, k)) = k
  BY ReadyIs
<1>3. CASE c.notify_mode = CONTINUOUS \/ n <= 0
  <2>1. d = c
    BY <1>3 DEF DropExcess
  <2>2. Keeps(c, d) /\ SameModes(c, d)
    BY <2>1, SteadySelf DEF Steady
  <2>3. Stale(c) >= 0 /\ d.notify_mode = BURST => MatchedIn(d.list) <= limit
    <3>1. d.notify_mode = BURST => n <= 0
      BY <1>3, <2>1 DEF BURST, CONTINUOUS
    <3> QED
      BY <1>1, <2>1, <3>1 DEF Stale
  <2> QED
    BY <2>1, <2>2, <2>3
<1>4. CASE ~(c.notify_mode = CONTINUOUS \/ n <= 0) /\ n <= Ready(c)
  <2>1. d = QbufAll(Take(c, n), SubSeq(c.list, 1, n))
    BY <1>4 DEF DropExcess
  <2>2. n \in 0 .. Len(c.list) /\ n \in 0 .. Ready(c) /\ Len(c.list) \in Nat
    BY <1>1, <1>2, <1>4, QueueTypes
  <2>3. Keeps(c, d) /\ SameModes(c, d) /\ d.stuck = c.stuck
        /\ d.match_cnt = c.match_cnt - MatchedIn(SubSeq(c.list, 1, n))
    BY <2>1, <2>2, FirstOut
  <2>4. d.match_cnt = limit
    <3>1. MatchedIn(SubSeq(c.list, 1, n)) = n
      BY <1>2, <2>2
    <3> HIDE DEF d
    <3> QED
      BY <1>1, <2>3, <3>1
  <2>5. Stale(c) >= 0 => MatchedIn(d.list) <= limit
    <3>1. d \in Channel /\ Stale(d) = Stale(c)
      BY <2>3 DEF Keeps, SameBooks
    <3> HIDE DEF d
    <3> QED
      BY <2>4, <3>1, QueueTypes DEF Stale
  <2>6. d \in Channel
    BY <2>3 DEF Keeps, SameBooks
  <2> QED
    BY <2>3, <2>5, <2>6
<1>5. CASE ~(c.notify_mode = CONTINUOUS \/ n <= 0) /\ ~(n <= Ready(c))
  <2> DEFINE e == QbufAll(Take(c, Ready(c)), SubSeq(c.list, 1, Ready(c)))
  <2>1. d = [e EXCEPT !.stuck = TRUE]
    BY <1>5 DEF DropExcess
  <2>2. Keeps(c, e) /\ SameModes(c, e)
    BY <1>2, FirstOut
  <2>3. e \in Channel /\ ListOK(e.list)
    BY <2>2 DEF Keeps, SameBooks
  <2> HIDE DEF e
  <2>4. d \in Channel /\ SameQueue(e, d) /\ SameModes(e, d) /\ d.stuck
    BY <2>1, <2>3 DEF Channel, SameQueue, SameModes
  <2>5. Keeps(c, d)
    BY <2>2, <2>3, <2>4, SameQueueKeeps, KeepsTwice
  <2>6. SameModes(c, d)
    BY <2>2, <2>4 DEF SameModes
  <2>7. Stale(c) # 0
    BY <1>1, <1>2, <1>5 DEF Stale
  <2> QED
    BY <2>4, <2>5, <2>6, <2>7
<1> QED
  BY <1>3, <1>4, <1>5

-----------------------------------------------------------------------------
(* Metadata.                                                               *)

\* An empty queue stays empty when nothing joins it.
LEMMA EmptyStays ==
  ASSUME NEW c, NEW d, Keeps(c, d), c.list = <<>>
  PROVE  d.list = <<>>
<1>1. d.list \in Seq(Node) /\ NodesOK(d.list) /\ Len(c.list) = 0
  BY DEF Keeps, ListOK
<1>2. \A i \in 1 .. Len(d.list) : FALSE
  <2> SUFFICES ASSUME NEW i \in 1 .. Len(d.list) PROVE FALSE
    OBVIOUS
  <2>1. PICK s : s \in d.list[i].bufs
    BY <1>1 DEF NodesOK
  <2>2. d.list[i] \in Node
    BY <1>1
  <2>3. s \in Stream
    BY <2>1, <2>2 DEF Node
  <2> QED
    BY <1>1, <2>1, <2>3 DEF Keeps, HoldsNoMore
<1> QED
  BY <1>1, <1>2

\* After a reset nothing is left that was collected before it.
LEMMA FrameIdResetSteady ==
  ASSUME NEW c \in Channel, ListOK(c.list), NEW m \in MetaInfo
  PROVE  /\ Steady(c, FrameIdReset(c, m))
         /\ m.kind = "reset" => FrameIdReset(c, m).list = <<>>
<1>1. CASE m.kind # "reset"
  BY <1>1, SteadySelf DEF FrameIdReset
<1>2. CASE m.kind = "reset"
  <2> DEFINE e == Flush(c)
             d == [e EXCEPT !.expected_frame_id = 1]
  <2>1. Steady(c, e) /\ e.list = <<>> /\ e \in Channel
    BY FlushSteady
  <2>2. FrameIdReset(c, m) = d
    BY <1>2 DEF FrameIdReset
  <2> HIDE DEF e
  <2>3. d \in Channel /\ SameQueue(e, d) /\ SameModes(e, d) /\ d.stuck = e.stuck
    BY <2>1 DEF Channel, SameQueue, SameModes
  <2> HIDE DEF d
  <2>4. d.list = <<>>
    BY <2>1, <2>3 DEF SameQueue
  <2> QED
    BY <2>1, <2>2, <2>3, <2>4, SteadyThen
<1> QED
  BY <1>1, <1>2

\* Whatever metadata says, the queue only loses super buffers, with their books.
LEMMA HandleMetadataSteady ==
  ASSUME NEW c \in Channel, ListOK(c.list), NEW n \in Nat, NEW m \in MetaInfo
  PROVE  /\ Steady(c, HandleMetadata(c, n, m)) /\ HandleMetadata(c, n, m) \in Channel
         /\ m.kind = "reset" => HandleMetadata(c, n, m).list = <<>>
<1> DEFINE d == FrameIdReset(c, m)
           e == HandleMetadata(c, n, m)
<1>1. Steady(c, d) /\ (m.kind = "reset" => d.list = <<>>)
  BY FrameIdResetSteady
<1>2. d \in Channel /\ ListOK(d.list)
  BY <1>1 DEF Steady, Keeps, SameBooks
<1>3. FutureOffset \in Nat /\ m.min \in Nat /\ m.max \in Nat /\ m.crop1x \in BOOLEAN
  BY SuperBufAssumption DEF MetaInfo
<1> DEFINE Near(x) == \E y \in {d, Flush(d), FlushMatched(d)} :
                /\ SameQueue(y, x) /\ SameModes(y, x) /\ x.stuck = y.stuck /\ x \in Channel
<1>4. d.expected_frame_id \in Nat /\ d.expected_frame_id_without_led \in Nat
  BY <1>2 DEF Channel
<1>5. Flush(d) \in Channel /\ FlushMatched(d) \in Channel
  BY <1>2, FlushSteady, FlushMatchedSteady
<1>6. \A y \in {d, Flush(d), FlushMatched(d)} :
          y \in Channel /\ y.expected_frame_id + FutureOffset \in Nat
  <2>1. \A y \in Channel : y.expected_frame_id + FutureOffset \in Nat
    BY <1>3, SMTT(30) DEF Channel
  <2> HIDE DEF d
  <2> QED
    BY <1>2, <1>5, <2>1
<1> HIDE DEF d
<1>7. Near(d)
  BY <1>2 DEF SameQueue, SameModes
<1>8. Near(Zoom1x(d, n, m))
  <2>1. CASE m.crop1x
    <3> DEFINE x == [d EXCEPT !.isZoom1xFrameRequested = FALSE, !.expected_frame_id = n + 1]
    <3>1. Zoom1x(d, n, m) = x /\ n + 1 \in Nat
      BY <2>1 DEF Zoom1x
    <3>2. x \in Channel
      BY <1>2, <3>1 DEF Channel
    <3>3. SameQueue(d, x) /\ SameModes(d, x) /\ x.stuck = d.stuck
      BY <1>2 DEF Channel, SameQueue, SameModes
    <3> HIDE DEF x
    <3> QED
      BY <3>1, <3>2, <3>3
  <2>2. CASE ~m.crop1x
    BY <1>6, <2>2 DEF Zoom1x, Channel, SameQueue, SameModes
  <2> QED
    BY <2>1, <2>2
<1>9. Near(PrepSnapshotDone(d, m))
  <2>1. CASE m.kind = "future"
    BY <1>6, <2>1 DEF PrepSnapshotDone, Channel, SameQueue, SameModes
  <2>2. CASE m.kind # "future"
    BY <1>2, <2>2 DEF PrepSnapshotDone, Channel, SameQueue, SameModes
  <2> QED
    BY <2>1, <2>2
<1>10. Near(GoodFrameRange(d, m))
  <2>1. CASE d.isFlashBracketingEnabled
    BY <1>2, <1>3, <2>1 DEF GoodFrameRange, Channel, SameQueue, SameModes
  <2>2. CASE ~d.isFlashBracketingEnabled
    BY <1>2, <1>3, <2>2 DEF GoodFrameRange, Channel, SameQueue, SameModes
  <2> QED
    BY <2>1, <2>2
<1>11. Near(WaitForGoodFrame(d))
  <2>1. CASE d.bracketingState = "WAIT"
    BY <1>6, <2>1 DEF WaitForGoodFrame, Channel, SameQueue, SameModes
  <2>2. CASE d.bracketingState # "WAIT"
    BY <1>7, <2>2 DEF WaitForGoodFrame
  <2> QED
    BY <2>1, <2>2
<1>12. Near(e)
  <2>1. e \in {d, Zoom1x(d, n, m), PrepSnapshotDone(d, m), GoodFrameRange(d, m), WaitForGoodFrame(d)}
    BY DEF HandleMetadata, d
  <2> HIDE DEF e, Near
  <2> QED
    BY <2>1, <1>7, <1>8, <1>9, <1>10, <1>11
<1> HIDE DEF e
<1>13. PICK y \in {d, Flush(d), FlushMatched(d)} :
           SameQueue(y, e) /\ SameModes(y, e) /\ e.stuck = y.stuck /\ e \in Channel
  BY <1>12
<1>14. Steady(d, y)
  BY <1>2, SteadySelf, FlushSteady, FlushMatchedSteady
<1>15. Steady(d, e)
  BY <1>2, <1>13, <1>14, SteadyThen
<1>16. Steady(c, e)
  BY <1>1, <1>15, SteadyTwice
<1>17. m.kind = "reset" => e.list = <<>>
  BY <1>1, <1>15, EmptyStays DEF Steady
<1> QED
  BY <1>13, <1>16, <1>17 DEF e

-----------------------------------------------------------------------------
(* A frame joins the queue.                                                *)

\* The first of a nonempty set of positions.
LEMMA FirstIs ==
  ASSUME NEW list \in Seq(Node), NEW S \in SUBSET (1 .. Len(list)), S # {}
  PROVE  First(S) \in S /\ \A j \in S : First(S) <= j
<1>1. \E k \in S : \A j \in S : k <= j
  BY LeastPosition
<1> QED
  BY <1>1 DEF First

\* Incomplete super buffers leave the queue.
LEMMA IncompleteOut ==
  ASSUME NEW c \in Channel, NEW j \in 0 .. Len(c.list), NEW i \in 1 .. j + 1,
         \A k \in i .. j : ~c.list[k].matched
  PROVE  LET d == [QbufAll(c, SubSeq(c.list, i, j)) EXCEPT !.list = Without(@, i, j)]
         IN  /\ SameBooks(c, d) /\ HoldsNoMore(c, d) /\ SameModes(c, d) /\ d.stuck = c.stuck
             /\ d.list = Without(c.list, i, j)
             /\ Unfinished(d) = Unfinished(c) - (j - i + 1)
<1> DEFINE p == SubSeq(c.list, i, j)
           q == QbufAll(c, p)
           r == Without(c.list, i, j)
           d == [q EXCEPT !.list = Without(@, i, j)]
<1>1. c.list \in Seq(Node) /\ Len(c.list) \in Nat /\ c.match_cnt \in Int
  BY DEF Channel
<1>2. /\ r \in Seq(Node) /\ p \in Seq(Node) /\ Len(p) = j - i + 1
      /\ \A k \in 1 .. Len(p) : p[k] = c.list[i + k - 1]
  BY <1>1, WithoutList
<1> HIDE DEF p, r
<1>3. \A k \in 1 .. Len(p) : p[k] \in Incomplete /\ p[k] \notin MatchedNode
  <2> SUFFICES ASSUME NEW k \in 1 .. Len(p) PROVE p[k] \in Incomplete /\ p[k] \notin MatchedNode
    OBVIOUS
  <2>1. i + k - 1 \in i .. j
    BY <1>2
  <2>2. p[k] \in Node /\ p[k] = c.list[i + k - 1]
    BY <1>2
  <2>3. ~p[k].matched
    BY <2>1, <2>2
  <2> QED
    BY <2>2, <2>3 DEF Incomplete, MatchedNode
<1>4. Count(p, Incomplete) = j - i + 1
  BY <1>2, <1>3, CountAll
<1>5. MatchedIn(p) = 0
  <2>1. Count(p, MatchedNode) = 0
    BY <1>2, <1>3, CountType
  <2> QED
    BY <1>2, <2>1, ListCounts
<1>6. /\ q \in Channel /\ SameModes(c, q) /\ q.stuck = c.stuck /\ q.state = c.state
      /\ q.starts = c.starts /\ q.attr = c.attr /\ q.list = c.list /\ q.match_cnt = c.match_cnt
  BY <1>2, QbufAllIs
<1>7. d = [q EXCEPT !.list = r]
  BY <1>6 DEF r
<1>9. q.out = QbufAll(c, p).out
  OBVIOUS
<1> HIDE DEF q, d
<1>8. /\ d \in Channel /\ SameModes(q, d) /\ d.stuck = q.stuck /\ d.state = q.state
      /\ d.starts = q.starts /\ d.attr = q.attr /\ d.list = r /\ d.match_cnt = q.match_cnt
      /\ d.out = q.out
  BY <1>2, <1>6, <1>7 DEF Channel, SameModes
<1>10. c.match_cnt = c.match_cnt - 0
  BY <1>1
<1>11. TakesOut(c, d, i, j)
  BY <1>5, <1>6, <1>8, <1>9, <1>10 DEF TakesOut, p, r
<1>12. SameBooks(c, d) /\ HoldsNoMore(c, d) /\ Unfinished(d) = Unfinished(c) - Count(p, Incomplete)
  BY <1>11, TakenOut DEF p
<1>13. SameModes(c, d)
  BY <1>6, <1>8 DEF SameModes
<1> QED
  BY <1>4, <1>6, <1>8, <1>12, <1>13 DEF p, q, r, d

\* A frame of the stream s with the number n has joined the queue.
Joined(c, d, s, n) ==
    /\ d \in Channel
    /\ d.state = c.state /\ d.starts = c.starts /\ d.attr = c.attr
    /\ Stale(d) = Stale(c)
    /\ IF c.state = "ACTIVE" THEN \A t \in Stream : Loose(d, t) = Loose(c, t) - Bit(t = s)
       ELSE d.out = c.out
    /\ \A t \in Stream : \A i \in 1 .. Len(d.list) : t \in d.list[i].bufs =>
          \/ t = s /\ d.list[i].idx = n
          \/ \E k \in 1 .. Len(c.list) : t \in c.list[k].bufs /\ c.list[k].idx = d.list[i].idx

\* A steady step may come after the one that joins the frame,
LEMMA JoinedThen ==
  ASSUME NEW b \in Channel, NEW c, NEW d, NEW s, NEW n,
         Joined(b, c, s, n), SameBooks(c, d), HoldsNoMore(c, d)
  PROVE  Joined(b, d, s, n)
BY DEF Joined, SameBooks, HoldsNoMore

\* or before it.
LEMMA ThenJoined ==
  ASSUME NEW b \in Channel, NEW c, NEW d, NEW s, NEW n,
         SameBooks(b, c), HoldsNoMore(b, c), Joined(c, d, s, n)
  PROVE  Joined(b, d, s, n)
BY DEF Joined, SameBooks, HoldsNoMore

\* A bit is one or zero.
LEMMA BitIs == Bit(TRUE) = 1 /\ Bit(FALSE) = 0
BY DEF Bit

\* The frame joins the super buffer i, which it completes or not.
LEMMA NodeGrows ==
  ASSUME NEW c \in Channel, NEW s \in Stream, NEW i \in 1 .. Len(c.list), NEW n, NEW full \in BOOLEAN,
         c.list[i].idx = n, ~c.list[i].matched, s \notin c.list[i].bufs,
         NEW d \in Channel, d.state = c.state, d.starts = c.starts, d.attr = c.attr, d.out = c.out,
         d.match_cnt = c.match_cnt + Bit(full),
         d.list = [c.list EXCEPT ![i] = [idx |-> n, bufs |-> c.list[i].bufs \cup {s}, matched |-> full]]
  PROVE  Joined(c, d, s, n) /\ Unfinished(d) = Unfinished(c) - Bit(full)
<1> DEFINE e == [idx |-> n, bufs |-> c.list[i].bufs \cup {s}, matched |-> full]
           r == [c.list EXCEPT ![i] = e]
<1>1. c.list \in Seq(Node) /\ Len(c.list) \in Nat /\ c.match_cnt \in Int /\ c.out \in [Stream -> Int]
      /\ c.list[i] \in Node
  BY DEF Channel
<1>2. e \in Node /\ e.idx = n /\ e.bufs = c.list[i].bufs \cup {s} /\ e.matched = full
  BY <1>1 DEF Node
<1>3. /\ r \in Seq(Node) /\ Len(r) = Len(c.list)
      /\ \A X : Count(r, X) = Count(c.list, X) - (IF c.list[i] \in X THEN 1 ELSE 0)
                                + (IF e \in X THEN 1 ELSE 0)
  <2> HIDE DEF e
  <2> QED
    BY <1>1, <1>2, CountUpdate, SMTT(30)
<1>4. r[i] = e /\ \A k \in 1 .. Len(c.list) : k # i => r[k] = c.list[k]
  BY <1>1
<1>5. d.list = r
  OBVIOUS
<1> HIDE DEF e, r
<1>6. MatchedIn(r) = MatchedIn(c.list) + Bit(full) /\ MatchedIn(c.list) \in Nat
  <2>1. c.list[i] \notin MatchedNode /\ (e \in MatchedNode <=> full)
    BY <1>1, <1>2 DEF MatchedNode
  <2>2. Count(r, MatchedNode) = Count(c.list, MatchedNode) + Bit(full)
    BY <1>1, <1>3, <2>1, ListCounts DEF Bit
  <2> QED
    BY <1>1, <1>3, <2>2, ListCounts
<1>7. \A t \in Stream : HeldIn(r, t) = HeldIn(c.list, t) + Bit(t = s) /\ HeldIn(c.list, t) \in Nat
  <2> SUFFICES ASSUME NEW t \in Stream
               PROVE  HeldIn(r, t) = HeldIn(c.list, t) + Bit(t = s) /\ HeldIn(c.list, t) \in Nat
    OBVIOUS
  <2>1. (c.list[i] \in Holding(t) <=> t \in c.list[i].bufs)
        /\ (e \in Holding(t) <=> t \in c.list[i].bufs \/ t = s)
    BY <1>1, <1>2 DEF Holding
  <2>2. Count(c.list, Holding(t)) \in Nat
    BY <1>1, ListCounts
  <2>3. Count(r, Holding(t)) = Count(c.list, Holding(t)) + Bit(t = s)
    BY <1>3, <2>1, <2>2 DEF Bit
  <2> QED
    BY <1>1, <1>3, <2>2, <2>3, ListCounts
<1>8. Cardinality(Unmatched(r)) = Cardinality(Unmatched(c.list)) - Bit(full)
  <2>1. c.list[i] \in Incomplete /\ (e \in Incomplete <=> ~full)
    BY <1>1, <1>2 DEF Incomplete
  <2>2. Count(r, Incomplete) = Count(c.list, Incomplete) - Bit(full)
    BY <1>1, <1>3, <2>1, ListCounts DEF Bit
  <2> QED
    BY <1>1, <1>3, <2>2, ListCounts
<1>9. Bit(full) \in Int /\ \A t : Bit(t = s) \in Int
  BY DEF Bit
<1>10. Stale(d) = Stale(c)
  BY <1>1, <1>5, <1>6, <1>9 DEF Stale
<1>11. \A t \in Stream : Loose(d, t) = Loose(c, t) - Bit(t = s)
  <2> SUFFICES ASSUME NEW t \in Stream PROVE Loose(d, t) = Loose(c, t) - Bit(t = s)
    OBVIOUS
  <2>1. HeldIn(d.list, t) = HeldIn(c.list, t) + Bit(t = s) /\ HeldIn(c.list, t) \in Nat
    BY <1>5, <1>7
  <2>2. d.out[t] = c.out[t] /\ c.out[t] \in Int /\ Bit(t = s) \in Int
    BY <1>1, <1>9
  <2> QED
    BY <2>1, <2>2 DEF Loose
<1>12. \A t \in Stream : \A k \in 1 .. Len(r) : t \in r[k].bufs =>
          \/ t = s /\ r[k].idx = n
          \/ \E l \in 1 .. Len(c.list) : t \in c.list[l].bufs /\ c.list[l].idx = r[k].idx
  BY <1>2, <1>3, <1>4
<1> QED
  BY <1>5, <1>8, <1>10, <1>11, <1>12 DEF Joined, Unfinished

\* What is read of the list after the super buffer i was completed.
LEMMA CompletedList ==
  ASSUME NEW list, ListOK(list), NEW i \in 1 .. Len(list), ~list[i].matched,
         NEW r \in Seq(Node), Len(r) = Len(list),
         r[i].idx = list[i].idx, r[i].matched, r[i].bufs = Stream, Stream # {},
         \A k \in 1 .. Len(list) : k # i => r[k] = list[k]
  PROVE  /\ NodesOK(r) /\ InOrder(r)
         /\ \A k \in 1 .. Len(r) : k > i => ~r[k].matched
         /\ \A k \in 1 .. Len(r) : k < i => r[k].idx < r[i].idx
         /\ \A k, l \in 1 .. Len(r) : k < l /\ l < i /\ r[l].matched => r[k].matched
<1>1. list \in Seq(Node) /\ Len(list) \in Nat
  BY DEF ListOK
<1>2. \A k \in 1 .. Len(list) : r[k].idx = list[k].idx
  OBVIOUS
<1>3. InOrder(r)
  BY <1>2 DEF ListOK, InOrder
<1>4. NodesOK(r)
  BY DEF ListOK, NodesOK
<1>5. \A k \in 1 .. Len(r) : k > i => ~r[k].matched
  BY DEF ListOK, MatchedFirst
<1>6. \A k \in 1 .. Len(r) : k < i => r[k].idx < r[i].idx
  BY <1>3 DEF InOrder
<1>7. \A k, l \in 1 .. Len(r) : k < l /\ l < i /\ r[l].matched => r[k].matched
  BY <1>1 DEF ListOK, MatchedFirst
<1> QED
  BY <1>3, <1>4, <1>5, <1>6, <1>7

\* The older incomplete super buffers leave the queue: what is matched is
\* first again.
LEMMA DropOlderOK ==
  ASSUME NEW c \in Channel, NEW i \in 1 .. Len(c.list), NEW n \in Nat,
         NodesOK(c.list), InOrder(c.list), c.list[i].matched, c.list[i].idx = n,
         \A k \in 1 .. Len(c.list) : k > i => ~c.list[k].matched,
         \A k, l \in 1 .. Len(c.list) : k < l /\ l < i /\ c.list[l].matched => c.list[k].matched
  PROVE  LET d == DropOlder(c, i, n)
         IN  /\ SameBooks(c, d) /\ HoldsNoMore(c, d) /\ SameModes(c, d) /\ d.stuck = c.stuck
             /\ ListOK(d.list) /\ Unfinished(d) <= Unfinished(c)
<1> DEFINE list == c.list
           old == {j \in Older(list, n) : j < i}
           d == DropOlder(c, i, n)
<1>1. list \in Seq(Node) /\ Len(list) \in Nat /\ DOMAIN list = 1 .. Len(list)
      /\ \A k \in 1 .. Len(list) : list[k].matched \in BOOLEAN
  <2>1. list \in Seq(Node)
    BY DEF Channel
  <2> HIDE DEF list
  <2>2. \A k \in 1 .. Len(list) : list[k] \in Node
    BY <2>1
  <2>3. \A b \in Node : b.matched \in BOOLEAN
    BY DEF Node
  <2> QED
    BY <2>1, <2>2, <2>3
<1>2. \A k \in 1 .. Len(list) : k \in old <=> k < i /\ ~list[k].matched
  BY <1>1 DEF Older, Unmatched, InOrder
<1>3. old \in SUBSET (1 .. Len(list))
  BY <1>1 DEF Older, Unmatched
<1>4. CASE old = {}
  <2>1. d = c
    BY <1>4 DEF DropOlder
  <2>2. MatchedFirst(list)
    BY <1>1, <1>2, <1>4 DEF MatchedFirst
  <2>3. ListOK(c.list)
    BY <1>1, <2>2 DEF ListOK
  <2>4. Keeps(c, c) /\ SameModes(c, c)
    BY <2>3, SteadySelf DEF Steady
  <2> QED
    BY <2>1, <2>4 DEF Keeps
<1>5. CASE old # {}
  <2> DEFINE j == First(old)
             h == i - 1
             r == Without(list, j, h)
  <2>1. j \in old /\ \A k \in old : j <= k
    BY <1>1, <1>3, <1>5, FirstIs
  <2>2. d = [QbufAll(c, SubSeq(c.list, j, h)) EXCEPT !.list = Without(@, j, h)]
    BY <1>5 DEF DropOlder
  <2> HIDE DEF old, d
  <2>3. j \in 1 .. Len(list) /\ j < i /\ ~list[j].matched
    BY <1>2, <1>3, <2>1
  <2> HIDE DEF j
  <2>4. h \in 0 .. Len(list) /\ j \in 1 .. h + 1 /\ h - j + 1 >= 0
    BY <1>1, <2>3
  <2>5. \A k \in j .. h : ~list[k].matched
    <3> SUFFICES ASSUME NEW k \in j .. h PROVE ~list[k].matched
      OBVIOUS
    <3>1. k \in 1 .. Len(list) /\ k < i /\ (k = j \/ j < k)
      BY <1>1, <2>3
    <3> QED
      BY <2>3, <3>1
  <2>6. \A k \in 1 .. Len(list) : k < j => list[k].matched
    <3> SUFFICES ASSUME NEW k \in 1 .. Len(list), k < j, ~list[k].matched PROVE FALSE
      OBVIOUS
    <3>1. k < i
      BY <1>1, <2>3
    <3>2. k \in old /\ ~(j <= k)
      BY <1>1, <1>2, <2>3, <3>1
    <3> QED
      BY <2>1, <3>2
  <2>7. /\ SameBooks(c, d) /\ HoldsNoMore(c, d) /\ SameModes(c, d) /\ d.stuck = c.stuck
        /\ d.list = r /\ Unfinished(d) = Unfinished(c) - (h - j + 1)
    <3> HIDE DEF h
    <3> QED
      BY <2>2, <2>4, <2>5, IncompleteOut
  <2>8. Unfinished(d) <= Unfinished(c)
    <3>1. Unfinished(c) \in Nat
      BY QueueTypes
    <3> QED
      BY <2>3, <2>4, <2>7, <3>1
  <2> DEFINE f(k) == IF k < j THEN k ELSE k + (h - j + 1)
  <2>9. /\ r \in Seq(Node) /\ Len(r) = Len(list) - (h - j + 1)
        /\ \A k \in 1 .. Len(r) : r[k] = list[f(k)]
    BY <1>1, <2>4, WithoutList, ZenonT(40)
  <2> HIDE DEF r, list
  <2>10. \A k \in 1 .. Len(r) : f(k) \in 1 .. Len(list) /\ (f(k) < j \/ f(k) >= i)
    BY <1>1, <2>3, <2>9, SMTT(30)
  <2>11. \A k, l \in 1 .. Len(r) : k < l => f(k) < f(l)
    BY <1>1, <2>3, <2>9
  <2> HIDE DEF f
  <2>12. NodesOK(r)
    BY <2>9, <2>10 DEF NodesOK, list
  <2>13. InOrder(r)
    BY <2>9, <2>10, <2>11 DEF InOrder, list
  <2>14. MatchedFirst(r)
    <3> SUFFICES ASSUME NEW k \in 1 .. Len(r), NEW l \in 1 .. Len(r), k < l, r[l].matched
                 PROVE  r[k].matched
      BY DEF MatchedFirst
    <3>1. f(k) \in 1 .. Len(list) /\ f(l) \in 1 .. Len(list) /\ f(k) < f(l)
          /\ list[f(l)].matched /\ (f(k) < j \/ f(k) >= i)
      BY <2>9, <2>10, <2>11
    <3>2. ~(f(l) > i)
      BY <3>1 DEF list
    <3>3. f(k) < j
      BY <1>1, <3>1, <3>2
    <3> QED
      BY <2>6, <2>9, <3>1, <3>3
  <2> QED
    BY <2>7, <2>8, <2>9, <2>12, <2>13, <2>14 DEF ListOK, d
<1> QED
  BY <1>4, <1>5

\* A super buffer with other frames is the record one expects.
LEMMA NodeChanged ==
  ASSUME NEW b \in Node, NEW bufs, NEW full \in BOOLEAN
  PROVE  [[b EXCEPT !.bufs = bufs] EXCEPT !.matched = full]
           = [idx |-> b.idx, bufs |-> bufs, matched |-> full]
<1>1. b = [idx |-> b.idx, bufs |-> b.bufs, matched |-> b.matched]
  BY DEF Node
<1>2. [b EXCEPT !.bufs = bufs] = [idx |-> b.idx, bufs |-> bufs, matched |-> b.matched]
  BY <1>1
<1> DEFINE g == [b EXCEPT !.bufs = bufs]
<1>3. g = [idx |-> b.idx, bufs |-> bufs, matched |-> b.matched]
  BY <1>2
<1> HIDE DEF g
<1>4. [g EXCEPT !.matched = full] = [idx |-> b.idx, bufs |-> bufs, matched |-> full]
  BY <1>3
<1> QED
  BY <1>4 DEF g

\* A frame that completes a super buffer, or brings it nearer, joins the queue.
LEMMA JoinSuperBufJoins ==
  ASSUME NEW c \in Channel, ListOK(c.list), NEW s \in Stream, NEW n \in Nat,
         NEW i \in 1 .. Len(c.list), c.list[i].idx = n, ~c.list[i].matched, s \notin c.list[i].bufs
  PROVE  LET d == JoinSuperBuf(c, i, s, n)
         IN  /\ Joined(c, d, s, n) /\ SameModes(c, d) /\ d.stuck = c.stuck
             /\ ListOK(d.list) /\ Unfinished(d) <= Unfinished(c)
<1> DEFINE bufs == c.list[i].bufs \cup {s}
           full == bufs = Stream
           e == [idx |-> n, bufs |-> bufs, matched |-> full]
           r == [c.list EXCEPT ![i] = e]
           x == [c EXCEPT !.list[i].bufs = bufs, !.list[i].matched = (bufs = Stream)]
           y == [Expect(x, n) EXCEPT !.match_cnt = @ + 1]
           d == JoinSuperBuf(c, i, s, n)
<1>1. c.list \in Seq(Node) /\ Len(c.list) \in Nat /\ c.match_cnt \in Int /\ c.list[i] \in Node
      /\ Unfinished(c) \in Nat /\ full \in BOOLEAN /\ Stream # {}
  BY QueueTypes DEF Channel
<1>2. e \in Node /\ e.idx = n /\ e.bufs = bufs /\ e.matched = full
  BY <1>1 DEF Node
<1>3. r \in Seq(Node) /\ Len(r) = Len(c.list) /\ r[i] = e
      /\ \A k \in 1 .. Len(c.list) : k # i => r[k] = c.list[k]
  <2> HIDE DEF e
  <2> QED
    BY <1>1, <1>2
<1>4. x.list = r
  <2>1. [[c.list[i] EXCEPT !.bufs = bufs] EXCEPT !.matched = full] = e
    BY <1>1, NodeChanged
  <2>2. x.list = [[c.list EXCEPT ![i].bufs = bufs] EXCEPT ![i].matched = full]
    BY DEF Channel
  <2> QED
    BY <1>1, <2>1, <2>2, ZenonT(40)
<1>5. x = [c EXCEPT !.list = r]
  <2>1. x = [c EXCEPT !.list = x.list]
    BY ZenonT(40) DEF Channel
  <2> QED
    BY <1>4, <2>1
<1> HIDE DEF x
<1>6. /\ x \in Channel /\ SameModes(c, x) /\ x.stuck = c.stuck /\ x.state = c.state
      /\ x.starts = c.starts /\ x.attr = c.attr /\ x.out = c.out /\ x.match_cnt = c.match_cnt
  BY <1>3, <1>5 DEF Channel, SameModes
<1>7. CASE ~full
  <2>1. d = x
    BY <1>7 DEF JoinSuperBuf, x
  <2>2. x.match_cnt = c.match_cnt + Bit(full)
    BY <1>1, <1>6, <1>7 DEF Bit
  <2>3. Joined(c, x, s, n) /\ Unfinished(x) = Unfinished(c) - Bit(full)
    <3> HIDE DEF full
    <3> QED
      BY <1>1, <1>4, <1>6, <2>2, NodeGrows, SMTT(30)
  <2>4. Unfinished(x) <= Unfinished(c)
    BY <1>1, <1>7, <2>3 DEF Bit
  <2>5. \A k \in 1 .. Len(r) : r[k].idx = c.list[k].idx /\ (r[k].matched <=> c.list[k].matched)
    BY <1>2, <1>3, <1>7
  <2> HIDE DEF r, full
  <2>6. InOrder(r) /\ MatchedFirst(r)
    BY <1>3, <2>5 DEF ListOK, InOrder, MatchedFirst
  <2>7. NodesOK(r)
    BY <1>2, <1>3, <1>7 DEF ListOK, NodesOK, full
  <2> QED
    BY <1>3, <1>4, <1>6, <2>1, <2>3, <2>4, <2>6, <2>7 DEF ListOK
<1>8. CASE full
  <2>1. d = DropOlder(y, i, n)
    BY <1>8 DEF JoinSuperBuf, x
  <2>2. n + x.attr.post_frame_skip \in Nat /\ x.expected_frame_id_without_led \in Nat
        /\ x.match_cnt \in Int /\ x.match_cnt + 1 \in Int
    <3>1. x.match_cnt \in Int /\ x.attr \in Attr /\ x.expected_frame_id_without_led \in Nat
      BY <1>6 DEF Channel
    <3>2. x.attr.post_frame_skip \in Nat
      BY <3>1 DEF Attr
    <3> QED
      BY <3>1, <3>2
  <2>3. Expect(x, n) \in Channel /\ SameModes(x, Expect(x, n)) /\ SameQueue(x, Expect(x, n))
        /\ Expect(x, n).stuck = x.stuck
    <3>1. CASE x.isFlashBracketingEnabled
      BY <1>6, <2>2, <3>1 DEF Expect, Channel, SameModes, SameQueue
    <3>2. CASE ~x.isFlashBracketingEnabled
      BY <1>6, <2>2, <3>2 DEF Expect, Channel, SameModes, SameQueue
    <3> QED
      BY <3>1, <3>2
  <2> DEFINE z == Expect(x, n)
  <2>9. y = [z EXCEPT !.match_cnt = z.match_cnt + 1] /\ z.match_cnt = x.match_cnt
    BY <2>3 DEF SameQueue
  <2> HIDE DEF z
  <2>4. /\ y \in Channel /\ SameModes(z, y) /\ y.stuck = z.stuck /\ y.state = z.state
        /\ y.starts = z.starts /\ y.attr = z.attr /\ y.out = z.out /\ y.list = z.list
        /\ y.match_cnt = x.match_cnt + 1
    BY <2>2, <2>3, <2>9 DEF Channel, SameModes, z
  <2> HIDE DEF y
  <2>5. /\ SameModes(c, y) /\ y.stuck = c.stuck /\ y.state = c.state
        /\ y.starts = c.starts /\ y.attr = c.attr /\ y.out = c.out /\ y.list = r
        /\ y.match_cnt = c.match_cnt + 1
    BY <1>4, <1>6, <2>3, <2>4 DEF SameModes, SameQueue, z
  <2>6. Joined(c, y, s, n) /\ Unfinished(y) = Unfinished(c) - Bit(full)
    <3>1. y.match_cnt = c.match_cnt + Bit(full)
      BY <1>8, <2>5 DEF Bit
    <3> HIDE DEF full
    <3> QED
      BY <1>1, <2>4, <2>5, <3>1, NodeGrows, SMTT(30)
  <2>7. /\ NodesOK(r) /\ InOrder(r)
        /\ \A k \in 1 .. Len(r) : k > i => ~r[k].matched
        /\ \A k, l \in 1 .. Len(r) : k < l /\ l < i /\ r[l].matched => r[k].matched
    <3>1. r[i].idx = c.list[i].idx /\ r[i].matched /\ r[i].bufs = Stream
      BY <1>2, <1>3, <1>8
    <3> DEFINE list == c.list
    <3>2. /\ ListOK(list) /\ i \in 1 .. Len(list) /\ ~list[i].matched
          /\ r \in Seq(Node) /\ Len(r) = Len(list)
          /\ r[i].idx = list[i].idx /\ \A k \in 1 .. Len(list) : k # i => r[k] = list[k]
      BY <1>3, <3>1
    <3> HIDE DEF r, list
    <3> QED
      BY <1>1, <3>1, <3>2, CompletedList
  <2>8. r[i].matched /\ r[i].idx = n /\ i \in 1 .. Len(r)
    BY <1>2, <1>3, <1>8
  <2> HIDE DEF r
  <2>10. /\ SameBooks(y, d) /\ HoldsNoMore(y, d) /\ SameModes(y, d) /\ d.stuck = y.stuck
         /\ ListOK(d.list) /\ Unfinished(d) <= Unfinished(y)
    BY <2>1, <2>4, <2>5, <2>7, <2>8, DropOlderOK
  <2> HIDE DEF d
  <2>11. Joined(c, d, s, n)
    BY <2>6, <2>10, JoinedThen
  <2>12. SameModes(c, d)
    BY <2>5, <2>10 DEF SameModes
  <2>13. Unfinished(d) <= Unfinished(c)
    <3>1. Unfinished(y) \in Nat /\ Unfinished(d) \in Nat
      BY <2>4, <2>10, QueueTypes DEF SameBooks
    <3> QED
      BY <1>1, <1>8, <2>6, <2>10, <3>1 DEF Bit
  <2> QED
    BY <2>5, <2>10, <2>11, <2>12, <2>13 DEF d
<1> QED
  BY <1>7, <1>8

\* What the queue holds of a stream is older than its frames to come.
Fresh(list, s, n) == \A j \in 1 .. Len(list) : s \in list[j].bufs => list[j].idx < n

\* Room is made for a super buffer with the books kept.
LEMMA MakeRoomSteady ==
  ASSUME NEW c \in Channel, ListOK(c.list), NEW n \in Nat,
         Unfinished(c) <= c.attr.max_unmatched_frames + 1,
         Unfinished(c) <= c.attr.max_unmatched_frames \/ Older(c.list, n) # {}
  PROVE  Steady(c, MakeRoom(c, n)) /\ Unfinished(MakeRoom(c, n)) <= c.attr.max_unmatched_frames
<1> DEFINE list == c.list
           d == MakeRoom(c, n)
<1>1. list \in Seq(Node) /\ Len(list) \in Nat /\ Unfinished(c) \in Nat
  BY QueueTypes
<1>2. c.attr.max_unmatched_frames \in Nat
  <2>1. c.attr \in Attr
    BY DEF Channel
  <2> QED
    BY <2>1 DEF Attr
<1>3. CASE Unfinished(c) <= c.attr.max_unmatched_frames
  BY <1>3, SteadySelf DEF MakeRoom, Unfinished
<1>4. CASE ~(Unfinished(c) <= c.attr.max_unmatched_frames)
  <2> DEFINE i == First(Older(list, n))
  <2>1. Older(list, n) \in SUBSET (1 .. Len(list)) /\ Older(list, n) # {}
    BY <1>1, <1>4 DEF Older, Unmatched
  <2>2. i \in 1 .. Len(list) /\ ~list[i].matched
    <3>1. i \in Older(list, n)
      BY <1>1, <2>1, FirstIs
    <3> QED
      BY <1>1, <3>1 DEF Older, Unmatched
  <2>3. d = [QbufAll(c, <<list[i]>>) EXCEPT !.list = Without(@, i, i)]
    BY <1>4 DEF MakeRoom, Unfinished
  <2> HIDE DEF i, d
  <2>4. SubSeq(list, i, i) = <<list[i]>>
    <3> DEFINE p == SubSeq(list, i, i)
               b == list[i]
    <3>1. p \in Seq(Node) /\ Len(p) = 1 /\ p[1] = b /\ b \in Node
      <4>1. p \in Seq(Node) /\ Len(p) = i - i + 1 /\ \A k \in 1 .. i - i + 1 : p[k] = list[i + k - 1]
        BY <1>1, <2>2, WithoutList
      <4>2. i - i + 1 = 1 /\ i + 1 - 1 = i
        BY <1>1, <2>2
      <4> HIDE DEF p
      <4>3. Len(p) = 1 /\ p[1] = list[i]
        BY <4>1, <4>2
      <4> QED
        BY <1>1, <2>2, <4>1, <4>3
    <3> HIDE DEF p, b
    <3>2. <<b>> \in Seq(Node) /\ Len(<<b>>) = 1 /\ <<b>>[1] = b
      BY <3>1
    <3>3. p = <<b>>
      BY <3>1, <3>2, SeqEqual
    <3> QED
      BY <3>3 DEF p, b
  <2>5. i \in 0 .. Len(list) /\ i \in 1 .. i + 1 /\ \A k \in i .. i : ~list[k].matched
    BY <1>1, <2>2
  <2>6. /\ SameBooks(c, d) /\ HoldsNoMore(c, d) /\ SameModes(c, d) /\ d.stuck = c.stuck
        /\ d.list = Without(c.list, i, i) /\ Unfinished(d) = Unfinished(c) - (i - i + 1)
    BY <2>3, <2>4, <2>5, IncompleteOut, ZenonT(40)
  <2>7. ListOK(d.list)
    BY <2>5, <2>6, WithoutOK
  <2>8. Unfinished(d) = Unfinished(c) - 1
    BY <1>1, <2>2, <2>6
  <2> QED
    BY <1>1, <1>2, <2>6, <2>7, <2>8 DEF Steady, Keeps, d
<1> QED
  BY <1>3, <1>4

\* A new super buffer takes its place p in the list: r is the list after it.
HasPlace(list, n, node, r, p) ==
    /\ IF Newer(list, n) = {} THEN p = Len(list) + 1 ELSE p = First(Newer(list, n))
    /\ r \in Seq(Node) /\ Len(r) = Len(list) + 1
    /\ \A k \in 1 .. Len(r) : r[k] = IF k < p THEN list[k]
                                     ELSE IF k = p THEN node ELSE list[k - 1]
    /\ \A X : Count(r, X) = Count(list, X) + (IF node \in X THEN 1 ELSE 0)

\* A new super buffer has a place in the list.
LEMMA InsertedAt ==
  ASSUME NEW list \in Seq(Node), NEW n \in Nat, NEW node \in Node
  PROVE  \E p \in 1 .. Len(list) + 1 : HasPlace(list, n, node, InsertBefore(list, n, node), p)
<1> DEFINE r == InsertBefore(list, n, node)
<1>1. Len(list) \in Nat
  OBVIOUS
<1>2. CASE Newer(list, n) = {}
  <2>1. r = Append(list, node)
    BY <1>2 DEF InsertBefore
  <2>2. r \in Seq(Node) /\ Len(r) = Len(list) + 1
        /\ \A k \in 1 .. Len(r) : r[k] = IF k < Len(list) + 1 THEN list[k] ELSE node
    BY <2>1, AppendProperties
  <2>3. \A X : Count(r, X) = Count(list, X) + (IF node \in X THEN 1 ELSE 0)
    BY <2>1, CountAppend
  <2> HIDE DEF r
  <2>4. Len(list) + 1 \in 1 .. Len(list) + 1
    BY <1>1
  <2>5. \A k \in 1 .. Len(r) : r[k] = IF k < Len(list) + 1 THEN list[k]
                                      ELSE IF k = Len(list) + 1 THEN node ELSE list[k - 1]
    BY <1>1, <2>2
  <2> QED
    BY <1>2, <2>2, <2>3, <2>4, <2>5 DEF r, HasPlace
<1>3. CASE Newer(list, n) # {}
  <2> DEFINE p == First(Newer(list, n))
             h == p - 1
             a == SubSeq(list, 1, h)
             b == SubSeq(list, p, Len(list))
             e == <<node>>
             g == a \o e
  <2>1. p \in 1 .. Len(list)
    <3>1. Newer(list, n) \in SUBSET (1 .. Len(list))
      BY DEF Newer, Unmatched
    <3> QED
      BY <1>3, <3>1, FirstIs
  <2>2. r = g \o b
    <3>1. h + 1 = p
      BY <1>1, <2>1
    <3>2. Drop(list, h) = b
      BY <3>1 DEF Drop
    <3>3. r = a \o e \o Drop(list, h)
      BY <1>3 DEF InsertBefore
    <3> QED
      BY <3>2, <3>3
  <2> HIDE DEF p
  <2>3. a \in Seq(Node) /\ Len(a) = p - 1 /\ \A k \in 1 .. p - 1 : a[k] = list[k]
    BY <1>1, <2>1, SubSeqProperties
  <2>4. b \in Seq(Node) /\ Len(b) = Len(list) - p + 1
        /\ \A k \in 1 .. Len(list) - p + 1 : b[k] = list[p + k - 1]
    BY <1>1, <2>1, SubSeqProperties
  <2>5. e \in Seq(Node) /\ Len(e) = 1 /\ e[1] = node
    OBVIOUS
  <2>6. \A X : Count(list, X) = Count(a, X) + Count(b, X)
    <3>1. Len(list) \in 0 .. Len(list) /\ p \in 1 .. Len(list) + 1
      BY <1>1, <2>1
    <3>2. \A X : Count(SubSeq(list, 1, Len(list)), X) = Count(SubSeq(list, 1, p - 1), X) + Count(SubSeq(list, p, Len(list)), X)
      BY <3>1, CountParts
    <3> QED
      BY <3>2, WholePart
  <2> HIDE DEF a, b, e, h
  <2>7. /\ g \in Seq(Node) /\ Len(g) = Len(a) + Len(e)
        /\ \A k \in 1 .. Len(a) + Len(e) : g[k] = IF k <= Len(a) THEN a[k] ELSE e[k - Len(a)]
    BY <2>3, <2>5, ConcatProperties
  <2>8. \A X : Count(g, X) = Count(a, X) + Count(e, X)
    BY <2>3, <2>5, CountConcat
  <2>9. \A X : Count(e, X) = IF node \in X THEN 1 ELSE 0
    <3> SUFFICES ASSUME NEW X PROVE Count(e, X) = IF node \in X THEN 1 ELSE 0
      OBVIOUS
    <3>1. e = Append(<<>>, node) /\ <<>> \in Seq(Node)
      BY DEF e
    <3>2. Count(e, X) = Count(<<>>, X) + (IF node \in X THEN 1 ELSE 0)
      BY <3>1, CountAppend
    <3> QED
      BY <3>2, CountEmpty
  <2> HIDE DEF g
  <2>10. g \in Seq(Node) /\ Len(g) = p /\ \A k \in 1 .. p : g[k] = IF k < p THEN list[k] ELSE node
    <3>1. Len(g) = p
      BY <1>1, <2>1, <2>3, <2>5, <2>7
    <3>2. \A k \in 1 .. p : g[k] = IF k < p THEN list[k] ELSE node
      <4> SUFFICES ASSUME NEW k \in 1 .. p PROVE g[k] = IF k < p THEN list[k] ELSE node
        OBVIOUS
      <4>1. CASE k < p
        <5>1. k \in 1 .. p - 1 /\ k <= Len(a) /\ k \in 1 .. Len(a) + Len(e)
          BY <4>1, <2>1, <2>3, <2>5
        <5> QED
          BY <4>1, <5>1, <2>3, <2>7
      <4>2. CASE ~(k < p)
        <5>1. k = p /\ ~(k <= Len(a)) /\ k - Len(a) = 1 /\ k \in 1 .. Len(a) + Len(e)
          BY <4>2, <2>1, <2>3, <2>5
        <5> QED
          BY <4>2, <5>1, <2>5, <2>7
      <4> QED
        BY <4>1, <4>2
    <3> QED
      BY <2>7, <3>1, <3>2
  <2>11. /\ r \in Seq(Node) /\ Len(r) = Len(g) + Len(b)
         /\ \A k \in 1 .. Len(g) + Len(b) : r[k] = IF k <= Len(g) THEN g[k] ELSE b[k - Len(g)]
    BY <2>2, <2>4, <2>10, ConcatProperties, SMTT(30)
  <2>12. \A X : Count(r, X) = Count(g, X) + Count(b, X)
    BY <2>2, <2>4, <2>10, CountConcat
  <2> HIDE DEF r
  <2>13. \A X : Count(r, X) = Count(list, X) + (IF node \in X THEN 1 ELSE 0)
    <3> SUFFICES ASSUME NEW X PROVE Count(r, X) = Count(list, X) + (IF node \in X THEN 1 ELSE 0)
      OBVIOUS
    <3>1. Count(a, X) \in Nat /\ Count(b, X) \in Nat
      BY <2>3, <2>4, CountType
    <3> QED
      BY <2>6, <2>8, <2>9, <2>12, <3>1
  <2>14. Len(r) = Len(list) + 1
    BY <1>1, <2>1, <2>4, <2>10, <2>11
  <2>15. \A k \in 1 .. Len(r) : r[k] = IF k < p THEN list[k]
                                       ELSE IF k = p THEN node ELSE list[k - 1]
    <3> SUFFICES ASSUME NEW k \in 1 .. Len(r)
                 PROVE  r[k] = IF k < p THEN list[k] ELSE IF k = p THEN node ELSE list[k - 1]
      OBVIOUS
    <3>1. CASE k <= p
      BY <1>1, <2>1, <2>10, <2>11, <3>1
    <3>2. CASE ~(k <= p)
      <4>1. k - p \in 1 .. Len(list) - p + 1 /\ p + (k - p) - 1 = k - 1 /\ ~(k < p) /\ k # p
        BY <1>1, <2>1, <2>14, <3>2
      <4>2. b[k - p] = list[p + (k - p) - 1]
        BY <2>4, <4>1
      <4>3. r[k] = b[k - p]
        BY <2>10, <2>11, <3>2
      <4> QED
        BY <4>1, <4>2, <4>3
    <3> QED
      BY <3>1, <3>2
  <2>16. p \in 1 .. Len(list) + 1
    BY <1>1, <2>1
  <2> QED
    BY <1>3, <2>11, <2>13, <2>14, <2>15, <2>16 DEF p, r, HasPlace
<1> QED
  BY <1>2, <1>3

\* The new super buffer is between the older and the newer ones.
LEMMA InsertedOK ==
  ASSUME NEW list, ListOK(list), NEW n \in Nat, NEW s \in Stream, Fresh(list, s, n),
         Same(list, n) = {}, NEW node \in Node, node.idx = n, node.bufs = {s},
         node.matched = (Stream = {s})
  PROVE  LET r == InsertBefore(list, n, node)
         IN  /\ ListOK(r)
             /\ \A k \in 1 .. Len(r) : r[k] = node \/ \E l \in 1 .. Len(list) : r[k] = list[l]
             /\ \A X : Count(r, X) = Count(list, X) + (IF node \in X THEN 1 ELSE 0)
<1> DEFINE r == InsertBefore(list, n, node)
<1>1. /\ list \in Seq(Node) /\ Len(list) \in Nat /\ DOMAIN list = 1 .. Len(list)
      /\ \A k \in 1 .. Len(list) : list[k] \in Node
  BY DEF ListOK
<1>11. PICK p \in 1 .. Len(list) + 1 : HasPlace(list, n, node, r, p)
  BY <1>1, InsertedAt
<1>2. /\ p \in 1 .. Len(list) + 1
      /\ IF Newer(list, n) = {} THEN p = Len(list) + 1 ELSE p = First(Newer(list, n))
      /\ r \in Seq(Node) /\ Len(r) = Len(list) + 1
      /\ \A k \in 1 .. Len(r) : r[k] = IF k < p THEN list[k]
                                       ELSE IF k = p THEN node ELSE list[k - 1]
      /\ \A X : Count(r, X) = Count(list, X) + (IF node \in X THEN 1 ELSE 0)
  BY <1>11 DEF HasPlace
<1> HIDE DEF r
<1>3. \A k \in 1 .. Len(list) : list[k].matched => list[k].idx < n
  BY DEF ListOK, NodesOK, Fresh
<1>4. \A k \in 1 .. Len(list) : k < p => list[k].idx < n
  <2> SUFFICES ASSUME NEW k \in 1 .. Len(list), k < p, ~list[k].matched PROVE list[k].idx < n
    BY <1>3
  <2>1. k \notin Newer(list, n)
    <3>1. CASE Newer(list, n) = {}
      BY <3>1
    <3>2. CASE Newer(list, n) # {}
      <4>1. Newer(list, n) \in SUBSET (1 .. Len(list))
        BY <1>1 DEF Newer, Unmatched
      <4>2. \A j \in Newer(list, n) : p <= j
        <5>1. p = First(Newer(list, n))
          BY <1>2, <3>2
        <5>2. \A j \in Newer(list, n) : First(Newer(list, n)) <= j
          BY <1>1, <3>2, <4>1, FirstIs
        <5> QED
          BY <5>1, <5>2
      <4> QED
        BY <4>2, <1>2
    <3> QED
      BY <3>1, <3>2
  <2>2. k \notin Same(list, n)
    OBVIOUS
  <2>3. list[k].idx # n /\ ~(list[k].idx > n) /\ list[k].idx \in Nat
    BY <1>1, <2>1, <2>2 DEF Newer, Same, Unmatched, Node
  <2> QED
    BY <2>3
<1>5. \A k \in 1 .. Len(list) : p <= k => list[k].idx > n /\ ~list[k].matched
  <2> SUFFICES ASSUME NEW k \in 1 .. Len(list), p <= k
               PROVE  list[k].idx > n /\ ~list[k].matched
    OBVIOUS
  <2>1. Newer(list, n) # {} /\ p \in Newer(list, n)
    <3>1. Newer(list, n) # {}
      BY <1>1, <1>2
    <3>2. Newer(list, n) \in SUBSET (1 .. Len(list))
      BY <1>1 DEF Newer, Unmatched
    <3> QED
      BY <1>1, <1>2, <3>1, <3>2, FirstIs
  <2>2. p \in 1 .. Len(list) /\ list[p].idx > n /\ ~list[p].matched
    BY <1>1, <2>1 DEF Newer, Unmatched
  <2>3. k = p \/ p < k
    BY <1>2
  <2>4. CASE p < k
    <3>1. list[p].idx < list[k].idx /\ ~list[k].matched
      BY <2>2, <2>4 DEF ListOK, InOrder, MatchedFirst
    <3>2. list[p].idx \in Nat /\ list[k].idx \in Nat
      BY <1>1, <2>2 DEF Node
    <3> QED
      BY <2>2, <3>1, <3>2
  <2> QED
    BY <2>2, <2>3, <2>4
<1>6. \A k \in 1 .. Len(r) : \/ k < p /\ k \in 1 .. Len(list) /\ r[k] = list[k]
                             \/ k = p /\ r[k] = node
                             \/ k > p /\ k - 1 \in 1 .. Len(list) /\ k - 1 >= p /\ r[k] = list[k - 1]
  BY <1>1, <1>2
<1>7. InOrder(r)
  <2> SUFFICES ASSUME NEW k \in 1 .. Len(r), NEW l \in 1 .. Len(r), k < l
               PROVE  r[k].idx < r[l].idx
    BY DEF InOrder
  <2>1. \A a, b \in 1 .. Len(list) : a < b => list[a].idx < list[b].idx
    BY DEF ListOK, InOrder
  <2>2. \A a \in 1 .. Len(list) : list[a].idx \in Nat
    BY <1>1 DEF Node
  <2>3. CASE l < p
    BY <1>6, <2>1, <2>3
  <2>4. CASE l = p
    BY <1>4, <1>6, <2>4
  <2>5. CASE l > p
    <3>1. r[l] = list[l - 1] /\ l - 1 \in 1 .. Len(list) /\ l - 1 >= p /\ list[l - 1].idx > n
      <4>1. r[l] = list[l - 1] /\ l - 1 \in 1 .. Len(list) /\ l - 1 >= p
        BY <1>6, <2>5
      <4> QED
        BY <1>5, <4>1
    <3>2. CASE k < p
      <4>1. r[k] = list[k] /\ k \in 1 .. Len(list) /\ k < l - 1
        BY <1>6, <3>1, <3>2
      <4> QED
        BY <2>1, <3>1, <4>1
    <3>3. CASE k = p
      <4>1. r[k] = node
        BY <1>6, <3>3
      <4> QED
        BY <2>2, <3>1, <4>1
    <3>4. CASE k > p
      <4>1. r[k] = list[k - 1] /\ k - 1 \in 1 .. Len(list) /\ k - 1 < l - 1
        BY <1>6, <3>1, <3>4
      <4> QED
        BY <2>1, <3>1, <4>1
    <3> QED
      BY <1>2, <3>2, <3>3, <3>4
  <2> QED
    BY <1>2, <2>3, <2>4, <2>5
<1>8. NodesOK(r)
  BY <1>6 DEF ListOK, NodesOK
<1>9. MatchedFirst(r)
  <2> SUFFICES ASSUME NEW k \in 1 .. Len(r), NEW l \in 1 .. Len(r), k < l, r[l].matched
               PROVE  r[k].matched
    BY DEF MatchedFirst
  <2>1. ~(l > p)
    BY <1>5, <1>6
  <2>2. CASE l < p
    BY <1>6, <2>2 DEF ListOK, MatchedFirst
  <2>3. CASE l = p
    <3>5. r[l] = node
      BY <1>6, <2>3
    <3>1. Stream = {s}
      BY <3>5
    <3>2. k \in 1 .. Len(list) /\ r[k] = list[k]
      BY <1>2, <1>6, <2>3
    <3>3. list[k].bufs # {} /\ list[k].bufs \in SUBSET Stream
      BY <1>1, <3>2 DEF ListOK, NodesOK, Node
    <3>4. list[k].bufs = Stream
      BY <3>1, <3>3
    <3> QED
      BY <3>2, <3>4 DEF ListOK, NodesOK
  <2> QED
    BY <1>2, <2>1, <2>2, <2>3
<1>10. \A k \in 1 .. Len(r) : r[k] = node \/ \E l \in 1 .. Len(list) : r[k] = list[l]
  BY <1>6
<1> QED
  BY <1>2, <1>7, <1>8, <1>9, <1>10 DEF ListOK, r

\* The queue has grown by one super buffer with one frame.
LEMMA NodeAdded ==
  ASSUME NEW c \in Channel, NEW s \in Stream, NEW n \in Nat, NEW full \in BOOLEAN,
         NEW node \in Node, node.idx = n, node.bufs = {s}, node.matched = full,
         NEW d \in Channel, d.state = c.state, d.starts = c.starts, d.attr = c.attr, d.out = c.out,
         d.match_cnt = c.match_cnt + Bit(full),
         \A k \in 1 .. Len(d.list) : d.list[k] = node \/ \E l \in 1 .. Len(c.list) : d.list[k] = c.list[l],
         \A X : Count(d.list, X) = Count(c.list, X) + (IF node \in X THEN 1 ELSE 0)
  PROVE  Joined(c, d, s, n) /\ Unfinished(d) = Unfinished(c) + Bit(~full)
<1>1. c.list \in Seq(Node) /\ d.list \in Seq(Node) /\ c.match_cnt \in Int /\ c.out \in [Stream -> Int]
  BY DEF Channel
<1>2. MatchedIn(d.list) = MatchedIn(c.list) + Bit(full) /\ MatchedIn(c.list) \in Nat
  <2>1. node \in MatchedNode <=> full
    BY DEF MatchedNode
  <2>2. Count(d.list, MatchedNode) = Count(c.list, MatchedNode) + Bit(full)
    BY <2>1 DEF Bit
  <2> QED
    BY <1>1, <2>2, ListCounts
<1>3. Unfinished(d) = Unfinished(c) + Bit(~full)
  <2>1. node \in Incomplete <=> ~full
    BY DEF Incomplete
  <2>2. Count(d.list, Incomplete) = Count(c.list, Incomplete) + Bit(~full)
    BY <2>1 DEF Bit
  <2> QED
    BY <1>1, <2>2, ListCounts DEF Unfinished
<1>4. Bit(full) \in Int /\ \A t : Bit(t = s) \in Int
  BY DEF Bit
<1>5. \A t \in Stream : Loose(d, t) = Loose(c, t) - Bit(t = s)
  <2> SUFFICES ASSUME NEW t \in Stream PROVE Loose(d, t) = Loose(c, t) - Bit(t = s)
    OBVIOUS
  <2>1. node \in Holding(t) <=> t = s
    BY DEF Holding
  <2>2. Count(d.list, Holding(t)) = Count(c.list, Holding(t)) + Bit(t = s)
    BY <2>1 DEF Bit
  <2>3. HeldIn(d.list, t) = HeldIn(c.list, t) + Bit(t = s) /\ HeldIn(c.list, t) \in Nat
    BY <1>1, <2>2, ListCounts
  <2>4. d.out[t] = c.out[t] /\ c.out[t] \in Int /\ Bit(t = s) \in Int
    BY <1>1, <1>4
  <2> QED
    BY <2>3, <2>4 DEF Loose
<1>6. Stale(d) = Stale(c)
  BY <1>1, <1>2, <1>4 DEF Stale
<1>7. \A t \in Stream : \A k \in 1 .. Len(d.list) : t \in d.list[k].bufs =>
          \/ t = s /\ d.list[k].idx = n
          \/ \E l \in 1 .. Len(c.list) : t \in c.list[l].bufs /\ c.list[l].idx = d.list[k].idx
  OBVIOUS
<1> QED
  BY <1>3, <1>5, <1>6, <1>7 DEF Joined

\* A frame that begins a super buffer joins the queue.
LEMMA NewSuperBufJoins ==
  ASSUME NEW c \in Channel, ListOK(c.list), NEW s \in Stream, NEW n \in Nat,
         Fresh(c.list, s, n), Same(c.list, n) = {},
         Unfinished(c) <= c.attr.max_unmatched_frames + 1,
         Unfinished(c) <= c.attr.max_unmatched_frames \/ Older(c.list, n) # {}
  PROVE  LET d == NewSuperBuf(c, s, n)
         IN  /\ Joined(c, d, s, n) /\ SameModes(c, d) /\ d.stuck = c.stuck
             /\ ListOK(d.list) /\ Unfinished(d) <= c.attr.max_unmatched_frames + 1
<1> DEFINE alone == Stream = {s}
           node == [idx |-> n, bufs |-> {s}, matched |-> alone]
           e == MakeRoom(c, n)
           r == InsertBefore(e.list, n, node)
           x == [e EXCEPT !.list = InsertBefore(@, n, node)]
           d == NewSuperBuf(c, s, n)
<1>1. Steady(c, e) /\ Unfinished(e) <= c.attr.max_unmatched_frames
  BY MakeRoomSteady
<1>2. e \in Channel /\ ListOK(e.list) /\ SameBooks(c, e) /\ HoldsNoMore(c, e)
      /\ SameModes(c, e) /\ e.stuck = c.stuck /\ e.attr = c.attr
  BY <1>1 DEF Steady, Keeps, SameBooks
<1>3. d = IF ~alone THEN x
          ELSE [x EXCEPT !.expected_frame_id = n + c.attr.post_frame_skip, !.match_cnt = @ + 1]
  BY DEF NewSuperBuf
<1>4. c.attr.max_unmatched_frames \in Nat /\ c.attr.post_frame_skip \in Nat
  <2>1. c.attr \in Attr
    BY DEF Channel
  <2> QED
    BY <2>1 DEF Attr
<1>5. node \in Node /\ node.idx = n /\ node.bufs = {s} /\ node.matched = alone
  BY DEF Node
<1> HIDE DEF node, e
<1>6. Fresh(e.list, s, n)
  BY <1>2 DEF HoldsNoMore, Fresh
<1>7. Same(e.list, n) = {}
  <2> SUFFICES ASSUME NEW i \in Same(e.list, n) PROVE FALSE
    OBVIOUS
  <2>1. e.list \in Seq(Node) /\ NodesOK(e.list) /\ c.list \in Seq(Node)
    BY <1>2 DEF ListOK
  <2>2. i \in 1 .. Len(e.list) /\ e.list[i].idx = n /\ e.list[i].bufs # {} /\ e.list[i] \in Node
    BY <2>1 DEF Same, Unmatched, NodesOK
  <2>3. PICK t \in Stream : t \in e.list[i].bufs
    BY <2>2 DEF Node
  <2>4. PICK k \in 1 .. Len(c.list) : t \in c.list[k].bufs /\ c.list[k].idx = n
    BY <1>2, <2>2, <2>3 DEF HoldsNoMore
  <2>5. CASE c.list[k].matched
    <3>1. s \in c.list[k].bufs
      BY <2>4, <2>5 DEF ListOK, NodesOK
    <3> QED
      BY <2>4, <3>1 DEF Fresh
  <2>6. CASE ~c.list[k].matched
    BY <2>1, <2>4, <2>6 DEF Same, Unmatched
  <2> QED
    BY <2>5, <2>6
<1>8. /\ ListOK(r)
      /\ \A k \in 1 .. Len(r) : r[k] = node \/ \E l \in 1 .. Len(e.list) : r[k] = e.list[l]
      /\ \A X : Count(r, X) = Count(e.list, X) + (IF node \in X THEN 1 ELSE 0)
  <2> DEFINE list == e.list
  <2>1. ListOK(list) /\ Fresh(list, s, n) /\ Same(list, n) = {}
    BY <1>2, <1>6, <1>7
  <2> HIDE DEF list
  <2>2. LET q == InsertBefore(list, n, node)
        IN  /\ ListOK(q)
            /\ \A k \in 1 .. Len(q) : q[k] = node \/ \E l \in 1 .. Len(list) : q[k] = list[l]
            /\ \A X : Count(q, X) = Count(list, X) + (IF node \in X THEN 1 ELSE 0)
    BY <1>5, <2>1, InsertedOK
  <2> QED
    BY <2>2 DEF list
<1>9. x = [e EXCEPT !.list = r] /\ r \in Seq(Node)
  BY <1>8 DEF ListOK
<1> HIDE DEF r, x
<1>10. /\ x \in Channel /\ SameModes(e, x) /\ x.stuck = e.stuck /\ x.state = e.state
       /\ x.starts = e.starts /\ x.attr = e.attr /\ x.out = e.out /\ x.match_cnt = e.match_cnt
       /\ x.list = r
  BY <1>2, <1>9 DEF Channel, SameModes
<1>11. /\ d \in Channel /\ SameModes(e, d) /\ d.stuck = e.stuck /\ d.state = e.state
       /\ d.starts = e.starts /\ d.attr = e.attr /\ d.out = e.out
       /\ d.match_cnt = e.match_cnt + Bit(alone) /\ d.list = r
  <2>0. x.match_cnt \in Int /\ e.match_cnt \in Int
    BY <1>2, <1>10 DEF Channel
  <2>1. CASE ~alone
    BY <1>3, <1>10, <2>0, <2>1 DEF Bit
  <2>2. CASE alone
    <3>1. x.match_cnt + 1 \in Int /\ n + c.attr.post_frame_skip \in Nat
      BY <1>4, <2>0
    <3>2. d = [x EXCEPT !.expected_frame_id = n + c.attr.post_frame_skip, !.match_cnt = x.match_cnt + 1]
      BY <1>3, <2>2
    <3> HIDE DEF d, alone
    <3>3. d \in Channel
      BY <1>10, <3>1, <3>2 DEF Channel
    <3>4. SameModes(x, d) /\ d.stuck = x.stuck /\ d.state = x.state /\ d.starts = x.starts
          /\ d.attr = x.attr /\ d.out = x.out /\ d.list = x.list /\ d.match_cnt = x.match_cnt + 1
      BY <1>10, <3>2 DEF Channel, SameModes
    <3>5. SameModes(e, d)
      BY <1>10, <3>4 DEF SameModes
    <3> QED
      BY <1>10, <2>2, <3>3, <3>4, <3>5 DEF Bit
  <2> QED
    BY <2>1, <2>2
<1> HIDE DEF d
<1>12. Joined(e, d, s, n) /\ Unfinished(d) = Unfinished(e) + Bit(~alone)
  <2>1. alone \in BOOLEAN
    OBVIOUS
  <2> HIDE DEF alone
  <2> QED
    BY <1>2, <1>5, <1>8, <1>11, <2>1, NodeAdded
<1>13. Joined(c, d, s, n)
  BY <1>2, <1>12, ThenJoined
<1>14. Unfinished(d) <= c.attr.max_unmatched_frames + 1
  <2>1. Unfinished(e) \in Nat /\ Bit(~alone) \in {0, 1}
    BY <1>2, QueueTypes DEF Bit
  <2> HIDE DEF alone
  <2> QED
    BY <1>1, <1>4, <1>12, <2>1
<1>15. SameModes(c, d)
  BY <1>2, <1>11 DEF SameModes
<1> QED
  BY <1>2, <1>8, <1>11, <1>13, <1>14, <1>15 DEF d

\* A frame that nobody wants goes back to the kernel.
LEMMA QbufJoins ==
  ASSUME NEW c \in Channel, ListOK(c.list), NEW s \in Stream, NEW n \in Nat
  PROVE  LET d == Qbuf(c, {s})
         IN  /\ Joined(c, d, s, n) /\ SameModes(c, d) /\ d.stuck = c.stuck
             /\ d.list = c.list
<1> DEFINE d == Qbuf(c, {s})
<1>1. c.out \in [Stream -> Int] /\ \A t : Bit(t \in {s}) = Bit(t = s) /\ Bit(t = s) \in Int
  BY DEF Channel, Bit
<1>2. CASE c.state # "ACTIVE"
  <2>1. d = c
    BY <1>2 DEF Qbuf
  <2> QED
    BY <1>2, <2>1 DEF Joined, SameModes
<1>3. CASE c.state = "ACTIVE"
  <2> DEFINE f == [t \in Stream |-> c.out[t] - Bit(t = s)]
  <2>1. d = [c EXCEPT !.out = f]
    BY <1>1, <1>3 DEF Qbuf
  <2>2. f \in [Stream -> Int]
    BY <1>1
  <2>3. \A t \in Stream : f[t] = c.out[t] - Bit(t = s)
    OBVIOUS
  <2> HIDE DEF f, d
  <2>4. d \in Channel
    BY <2>1, <2>2 DEF Channel
  <2>5. /\ d.state = c.state /\ d.starts = c.starts /\ d.attr = c.attr /\ d.out = f
        /\ d.list = c.list /\ d.match_cnt = c.match_cnt /\ SameModes(c, d) /\ d.stuck = c.stuck
    BY <2>1 DEF Channel, SameModes
  <2>6. Stale(d) = Stale(c)
    BY <2>5 DEF Stale
  <2>7. \A t \in Stream : Loose(d, t) = Loose(c, t) - Bit(t = s)
    <3> SUFFICES ASSUME NEW t \in Stream PROVE Loose(d, t) = Loose(c, t) - Bit(t = s)
      OBVIOUS
    <3>1. d.out[t] = c.out[t] - Bit(t = s) /\ d.list = c.list
      BY <2>3, <2>5
    <3>2. c.out[t] \in Int /\ Bit(t = s) \in Int /\ HeldIn(c.list, t) \in Nat
      BY <1>1, QueueTypes
    <3> QED
      BY <3>1, <3>2 DEF Loose
  <2> QED
    BY <1>3, <2>4, <2>5, <2>6, <2>7 DEF Joined, d
<1> QED
  BY <1>2, <1>3

\* One frame joins the queue or goes back.  After a reset it is the only one.
LEMMA CompAndEnqueueJoins ==
  ASSUME NEW c \in Channel, ListOK(c.list), NEW s \in Stream, NEW n \in Nat, NEW m \in MetaInfo,
         Fresh(c.list, s, n) \/ (s = Meta /\ m.kind = "reset"),
         Unfinished(c) <= c.attr.max_unmatched_frames + 1
  PROVE  LET d == CompAndEnqueue(c, s, n, m)
         IN  /\ Joined(c, d, s, n) /\ SameModes(c, d) /\ d.stuck = c.stuck
             /\ ListOK(d.list) /\ Unfinished(d) <= c.attr.max_unmatched_frames + 1
             /\ s = Meta /\ m.kind = "reset" =>
                   \A t \in Stream : \A i \in 1 .. Len(d.list) : t \in d.list[i].bufs =>
                       t = s /\ d.list[i].idx = n
<1> DEFINE b == IF s = Meta THEN HandleMetadata(c, n, m) ELSE c
           d == CompAndEnqueue(c, s, n, m)
           reset == s = Meta /\ m.kind = "reset"
<1>1. Steady(c, b) /\ (reset => b.list = <<>>)
  BY HandleMetadataSteady, SteadySelf
<1>2. /\ b \in Channel /\ ListOK(b.list) /\ SameBooks(c, b) /\ HoldsNoMore(c, b) /\ SameModes(c, b)
      /\ b.stuck = c.stuck /\ b.attr = c.attr /\ Unfinished(b) <= Unfinished(c)
  BY <1>1 DEF Steady, Keeps, SameBooks
<1>3. Unfinished(b) <= b.attr.max_unmatched_frames + 1
  <2>1. c.attr \in Attr
    BY DEF Channel
  <2>2. c.attr.max_unmatched_frames \in Nat
    BY <2>1 DEF Attr
  <2> HIDE DEF b
  <2> QED
    BY <1>2, <2>2, QueueTypes
<1>4. Fresh(b.list, s, n)
  <2>1. CASE reset
    <3>1. Len(b.list) = 0
      BY <1>1, <2>1
    <3> HIDE DEF b
    <3> QED
      BY <3>1 DEF Fresh
  <2>2. CASE Fresh(c.list, s, n)
    <3> HIDE DEF b
    <3> QED
      BY <1>2, <2>2 DEF HoldsNoMore, Fresh
  <2> QED
    BY <2>1, <2>2
<1> DEFINE Result(x) == /\ Joined(b, x, s, n) /\ SameModes(b, x) /\ x.stuck = b.stuck
                        /\ ListOK(x.list) /\ Unfinished(x) <= b.attr.max_unmatched_frames + 1
<1>5. Result(Qbuf(b, {s}))
  <2> HIDE DEF b
  <2> QED
    BY <1>2, <1>3, QbufJoins DEF Unfinished
<1>6. Same(b.list, n) # {} => Result(JoinSuperBuf(b, First(Same(b.list, n)), s, n))
  <2> SUFFICES ASSUME Same(b.list, n) # {} PROVE Result(JoinSuperBuf(b, First(Same(b.list, n)), s, n))
    OBVIOUS
  <2> DEFINE i == First(Same(b.list, n))
             x == JoinSuperBuf(b, i, s, n)
  <2> HIDE DEF b
  <2>1. b.list \in Seq(Node) /\ DOMAIN b.list = 1 .. Len(b.list)
    BY <1>2 DEF ListOK
  <2>2. i \in Same(b.list, n)
    <3>1. Same(b.list, n) \in SUBSET (1 .. Len(b.list))
      BY <2>1 DEF Same, Unmatched
    <3> QED
      BY <2>1, <3>1, FirstIs
  <2>3. i \in 1 .. Len(b.list) /\ b.list[i].idx = n /\ ~b.list[i].matched
    BY <2>1, <2>2 DEF Same, Unmatched
  <2>4. s \notin b.list[i].bufs
    <3>1. ~(n < n)
      OBVIOUS
    <3> QED
      BY <1>4, <2>3, <3>1 DEF Fresh
  <2> HIDE DEF i
  <2>5. /\ Joined(b, x, s, n) /\ SameModes(b, x) /\ x.stuck = b.stuck
        /\ ListOK(x.list) /\ Unfinished(x) <= Unfinished(b)
    BY <1>2, <2>3, <2>4, JoinSuperBufJoins
  <2>6. Unfinished(x) \in Nat /\ Unfinished(b) \in Nat /\ b.attr.max_unmatched_frames \in Nat
    <3>1. x \in Channel /\ b.attr \in Attr
      BY <1>2, <2>5 DEF Joined, Channel
    <3>2. b.attr.max_unmatched_frames \in Nat
      BY <3>1 DEF Attr
    <3> QED
      BY <1>2, <3>1, <3>2, QueueTypes
  <2>7. Unfinished(x) <= b.attr.max_unmatched_frames + 1
    BY <1>3, <2>5, <2>6
  <2> QED
    BY <2>5, <2>7 DEF i
<1>7. ASSUME Same(b.list, n) = {}, Unfinished(b) <= b.attr.max_unmatched_frames \/ Older(b.list, n) # {}
      PROVE  Result(NewSuperBuf(b, s, n))
  <2> HIDE DEF b
  <2> QED
    BY <1>2, <1>3, <1>4, <1>7, NewSuperBufJoins
<1>8. Result(d)
  <2>1. b.attr.max_unmatched_frames \in Nat /\ Unfinished(b) \in Nat
    <3>1. b.attr \in Attr
      BY <1>2 DEF Channel
    <3>2. b.attr.max_unmatched_frames \in Nat
      BY <3>1 DEF Attr
    <3> HIDE DEF b
    <3> QED
      BY <1>2, <3>2, QueueTypes
  <2>2. \/ d = Qbuf(b, {s})
        \/ Same(b.list, n) # {} /\ d = JoinSuperBuf(b, First(Same(b.list, n)), s, n)
        \/ /\ Same(b.list, n) = {} /\ d = NewSuperBuf(b, s, n)
           /\ ~(Unfinished(b) > b.attr.max_unmatched_frames /\ Older(b.list, n) = {})
    BY <1>2 DEF CompAndEnqueue, Unfinished
  <2> HIDE DEF b, d, Result
  <2> QED
    BY <2>1, <2>2, <1>5, <1>6, <1>7
<1> HIDE DEF b, d
<1>9. Joined(c, d, s, n)
  BY <1>2, <1>8, ThenJoined
<1>10. SameModes(c, d)
  BY <1>2, <1>8 DEF SameModes
<1>11. reset => \A t \in Stream : \A i \in 1 .. Len(d.list) : t \in d.list[i].bufs =>
                       t = s /\ d.list[i].idx = n
  <2>1. reset => Len(b.list) = 0
    BY <1>1
  <2> HIDE DEF reset
  <2> QED
    BY <1>8, <2>1 DEF Joined
<1> QED
  BY <1>2, <1>8, <1>9, <1>10, <1>11 DEF d

-----------------------------------------------------------------------------
(* The command thread.                                                     *)

\* The daemon takes snapshots on its own account for a pending request only.
SnapshotWanted(c) ==
    c.zsl /\ ~c.manualZSLSnapshot => c.startZSlSnapshotCalled /\ c.pending_cnt > 0

\* What a command other than a frame does to the channel.
Handled(c, d) ==
    /\ d \in Channel /\ Keeps(c, d)
    /\ Stale(c) = 0 => ~d.stuck
    /\ SnapshotWanted(c) /\ ~d.stuck => SnapshotWanted(d)

\* The functions that keep to the modes.
LEMMA SteadyHandled ==
  ASSUME NEW c \in Channel, ~c.stuck, NEW d, Steady(c, d)
  PROVE  Handled(c, d)
BY DEF Steady, Handled, Keeps, SameBooks, SameModes, SnapshotWanted

\* A command that changes modes only leaves the queue alone.
LEMMA SameQueueHandled ==
  ASSUME NEW c \in Channel, ListOK(c.list), ~c.stuck, NEW d \in Channel, SameQueue(c, d), ~d.stuck,
         SnapshotWanted(c) => SnapshotWanted(d)
  PROVE  Handled(c, d)
BY SameQueueKeeps DEF Handled

\* A request starts the daemon's snapshots, or ends them, and nothing else.
LEMMA StartSnapshotIs ==
  ASSUME NEW c \in Channel
  PROVE  /\ StartSnapshot(c) \in Channel /\ SameQueue(c, StartSnapshot(c))
         /\ StartSnapshot(c).stuck = c.stuck
         /\ (c.zsl /\ ~c.manualZSLSnapshot => c.startZSlSnapshotCalled) => SnapshotWanted(StartSnapshot(c))
<1> DEFINE d == StartSnapshot(c)
<1>1. c.pending_cnt \in Nat /\ c.startZSlSnapshotCalled \in BOOLEAN /\ c.manualZSLSnapshot \in BOOLEAN
  BY DEF Channel
<1>2. CASE NeedsSnapshot(c)
  <2>1. d = [c EXCEPT !.zsl = TRUE, !.startZSlSnapshotCalled = TRUE, !.needLEDFlash = FALSE]
    BY <1>2 DEF StartSnapshot, StartZsl
  <2> HIDE DEF d
  <2>2. d \in Channel
    BY <2>1 DEF Channel
  <2>3. SameQueue(c, d) /\ d.stuck = c.stuck /\ d.startZSlSnapshotCalled /\ d.pending_cnt = c.pending_cnt
    BY <2>1 DEF Channel, SameQueue
  <2> QED
    BY <1>2, <2>2, <2>3 DEF NeedsSnapshot, SnapshotWanted, d
<1>3. CASE ~NeedsSnapshot(c) /\ c.pending_cnt = 0 /\ c.startZSlSnapshotCalled /\ ~c.manualZSLSnapshot
  <2>1. d = [c EXCEPT !.zsl = FALSE, !.startZSlSnapshotCalled = FALSE, !.bracketingState = "OFF",
                      !.needLEDFlash = FALSE]
    BY <1>3 DEF StartSnapshot, RequestDone, StopZsl
  <2> HIDE DEF d
  <2>2. d \in Channel
    BY <2>1 DEF Channel
  <2>3. SameQueue(c, d) /\ d.stuck = c.stuck /\ ~d.zsl
    BY <2>1 DEF Channel, SameQueue
  <2> QED
    BY <2>2, <2>3 DEF SnapshotWanted, d
<1>4. CASE ~NeedsSnapshot(c) /\ ~(c.pending_cnt = 0 /\ c.startZSlSnapshotCalled /\ ~c.manualZSLSnapshot)
  <2>1. d = c
    BY <1>4 DEF StartSnapshot
  <2> QED
    BY <1>1, <1>4, <2>1 DEF SameQueue, SnapshotWanted
<1> QED
  BY <1>2, <1>3, <1>4

\* A request drops what is not wanted, then starts a snapshot.
LEMMA RequestHandled ==
  ASSUME NEW c \in Channel, ListOK(c.list), ~c.stuck, NEW n \in Nat
  PROVE  Handled(c, Request(c, n))
<1> DEFINE b == [c EXCEPT !.pending_cnt = n]
           e == DropExcess(b, c.attr.look_back)
           d == Request(c, n)
<1>1. /\ b \in Channel /\ SameQueue(c, b) /\ ~b.stuck
      /\ b.zsl = c.zsl /\ b.manualZSLSnapshot = c.manualZSLSnapshot
      /\ b.startZSlSnapshotCalled = c.startZSlSnapshotCalled
  BY DEF Channel, SameQueue
<1>2. c.attr.look_back \in Nat
  <2>1. c.attr \in Attr
    BY DEF Channel
  <2> QED
    BY <2>1 DEF Attr
<1>3. d = IF e.stuck THEN e ELSE StartSnapshot(e)
  BY DEF Request
<1> HIDE DEF b
<1>4. ListOK(b.list) /\ Keeps(c, b)
  BY <1>1, SameQueueKeeps DEF SameQueue
<1>5. e \in Channel /\ Keeps(b, e) /\ SameModes(b, e) /\ (Stale(b) = 0 => ~e.stuck)
  BY <1>1, <1>2, <1>4, DropExcessKeeps
<1> HIDE DEF e, d
<1>6. Keeps(c, e) /\ ListOK(e.list) /\ (Stale(c) = 0 => ~e.stuck)
  BY <1>4, <1>5, KeepsTwice DEF Keeps, SameBooks
<1>7. CASE e.stuck
  BY <1>3, <1>5, <1>6, <1>7 DEF Handled, d
<1>8. CASE ~e.stuck
  <2>1. d \in Channel /\ SameQueue(e, d) /\ ~d.stuck
        /\ ((e.zsl /\ ~e.manualZSLSnapshot => e.startZSlSnapshotCalled) => SnapshotWanted(d))
    BY <1>3, <1>5, <1>8, StartSnapshotIs
  <2>2. Keeps(c, d)
    BY <1>5, <1>6, <2>1, SameQueueKeeps, KeepsTwice
  <2>3. SnapshotWanted(c) => SnapshotWanted(d)
    BY <1>1, <1>5, <2>1 DEF SnapshotWanted, SameModes
  <2> QED
    BY <2>1, <2>2, <2>3 DEF Handled, d
<1> QED
  BY <1>7, <1>8 DEF d

\* Every command but a frame.
LEMMA CommandHandled ==
  ASSUME NEW c \in Channel, ListOK(c.list), ~c.stuck, NEW q \in SbCmd, q.cmd # "DATA"
  PROVE  /\ Handled(c, Handle(c, q))
         /\ q.cmd = "FLUSH" => Handle(c, q).list = <<>> /\ ~Handle(c, q).stuck
<1>1. q.idx \in Nat /\ q.cmd \in HalCmd
  BY DEF SbCmd
<1>2. CASE q.cmd = "REQ"
  BY <1>1, <1>2, RequestHandled DEF Handle
<1>3. CASE q.cmd = "CONFIG_NOTIFY"
  <2> DEFINE d == [c EXCEPT !.notify_mode = IF q.idx = 0 THEN BURST ELSE CONTINUOUS]
  <2>1. d \in Channel /\ SameQueue(c, d) /\ ~d.stuck /\ (SnapshotWanted(c) => SnapshotWanted(d))
    BY DEF Channel, SameQueue, SnapshotWanted
  <2>2. Handle(c, q) = d
    BY <1>3 DEF Handle
  <2> HIDE DEF d
  <2> QED
    BY <1>3, <2>1, <2>2, SameQueueHandled
<1>4. CASE q.cmd = "FLUSH"
  <2> DEFINE b == [c EXCEPT !.expected_frame_id = q.idx]
  <2>1. b \in Channel /\ SameQueue(c, b) /\ SameModes(c, b) /\ b.stuck = c.stuck
    BY <1>1 DEF Channel, SameQueue, SameModes
  <2>2. Handle(c, q) = Flush(b)
    BY <1>4 DEF Handle
  <2> HIDE DEF b
  <2>3. Steady(c, b) /\ ListOK(b.list)
    BY <2>1, SteadySelf, SteadyThen DEF SameQueue
  <2>4. Steady(b, Flush(b)) /\ Flush(b).list = <<>>
    BY <2>1, <2>3, FlushSteady
  <2>5. Steady(c, Flush(b))
    BY <2>3, <2>4, SteadyTwice
  <2> QED
    BY <2>2, <2>4, <2>5, SteadyHandled DEF Steady
<1>5. CASE q.cmd = "START_ZSL"
  <2> DEFINE d == [c EXCEPT !.zsl = TRUE, !.manualZSLSnapshot = TRUE]
  <2>1. d \in Channel /\ SameQueue(c, d) /\ ~d.stuck /\ SnapshotWanted(d)
    BY DEF Channel, SameQueue, SnapshotWanted
  <2>2. Handle(c, q) = d
    BY <1>5 DEF Handle, StartZsl
  <2> HIDE DEF d
  <2> QED
    BY <1>5, <2>1, <2>2, SameQueueHandled
<1>6. CASE q.cmd = "STOP_ZSL"
  <2> DEFINE d == [c EXCEPT !.zsl = FALSE, !.manualZSLSnapshot = FALSE]
  <2>1. d \in Channel /\ SameQueue(c, d) /\ ~d.stuck /\ SnapshotWanted(d)
    BY DEF Channel, SameQueue, SnapshotWanted
  <2>2. Handle(c, q) = d
    BY <1>6 DEF Handle, StopZsl
  <2> HIDE DEF d
  <2> QED
    BY <1>6, <2>1, <2>2, SameQueueHandled
<1>7. CASE q.cmd = "BRACKETING"
  <2> DEFINE b == Flush(c)
             v == IF q.idx = 1 THEN "WAIT" ELSE "OFF"
             d == [b EXCEPT !.bracketingState = v]
  <2>1. Steady(c, b) /\ b \in Channel
    BY FlushSteady
  <2>2. Handle(c, q) = d
    BY <1>7 DEF Handle, Bracketing
  <2>3. v \in {"OFF", "WAIT"}
    OBVIOUS
  <2> HIDE DEF b, v
  <2>4. d \in Channel /\ SameQueue(b, d) /\ SameModes(b, d) /\ d.stuck = b.stuck
    BY <2>1, <2>3 DEF Channel, SameQueue, SameModes
  <2> HIDE DEF d
  <2>5. Steady(c, d)
    BY <2>1, <2>4, SteadyThen
  <2> QED
    BY <1>7, <2>2, <2>5, SteadyHandled
<1>8. CASE q.cmd = "FLASH_BRACKETING"
  <2> DEFINE d == [c EXCEPT !.isFlashBracketingEnabled = (q.idx = 1)]
  <2>1. d \in Channel /\ SameQueue(c, d) /\ ~d.stuck /\ (SnapshotWanted(c) => SnapshotWanted(d))
    BY DEF Channel, SameQueue, SnapshotWanted
  <2>2. Handle(c, q) = d
    BY <1>8 DEF Handle
  <2> HIDE DEF d
  <2> QED
    BY <1>8, <2>1, <2>2, SameQueueHandled
<1>9. CASE q.cmd = "ZOOM_1X"
  <2> DEFINE d == [c EXCEPT !.isZoom1xFrameRequested = (q.idx = 1)]
  <2>1. d \in Channel /\ SameQueue(c, d) /\ ~d.stuck /\ (SnapshotWanted(c) => SnapshotWanted(d))
    BY DEF Channel, SameQueue, SnapshotWanted
  <2>2. Handle(c, q) = d
    BY <1>9 DEF Handle
  <2> HIDE DEF d
  <2> QED
    BY <1>9, <2>1, <2>2, SameQueueHandled
<1> QED
  BY <1>1, <1>2, <1>3, <1>4, <1>5, <1>6, <1>7, <1>8, <1>9 DEF HalCmd

\* What is dispatched leaves the queue for the HAL.
LEMMA DispatchIs ==
  ASSUME NEW c \in Channel, ListOK(c.list)
  PROVE  LET n == Wanted(c)
             p == SubSeq(c.list, 1, n)
             d == Dispatch(c)
         IN  /\ d \in Channel /\ ListOK(d.list) /\ HoldsNoMore(c, d) /\ Stale(d) = Stale(c)
             /\ d.state = c.state /\ d.starts = c.starts /\ d.attr = c.attr /\ d.out = c.out
             /\ d.notify_mode = c.notify_mode /\ d.stuck = c.stuck
             /\ Unfinished(d) <= Unfinished(c) /\ MatchedIn(d.list) <= MatchedIn(c.list)
             /\ SnapshotWanted(c) => SnapshotWanted(d)
             /\ p \in Seq(Node)
             /\ \A s \in Stream : HeldIn(d.list, s) = HeldIn(c.list, s) - HeldIn(p, s)
<1> DEFINE n == Wanted(c)
           p == SubSeq(c.list, 1, n)
           r == Drop(c.list, n)
           cnt == c.match_cnt - MatchedIn(p)
           left == IF c.notify_mode = BURST THEN c.pending_cnt - n ELSE c.pending_cnt
           e == [Take(c, n) EXCEPT !.pending_cnt = IF c.notify_mode = BURST THEN @ - n ELSE @]
           d == Dispatch(c)
<1>1. c.list \in Seq(Node) /\ Len(c.list) \in Nat /\ c.match_cnt \in Int /\ c.pending_cnt \in Nat
  BY DEF Channel
<1>2. n \in 0 .. Len(c.list) /\ (c.notify_mode = BURST => n <= c.pending_cnt)
  <2>1. Ready(c) \in 0 .. Len(c.list)
    BY ReadyIs
  <2> QED
    BY <1>1, <2>1 DEF Wanted
<1>3. d = IF n > 0 /\ c.notify_mode = BURST THEN RequestDone(e) ELSE e
  BY DEF Dispatch
<1> HIDE DEF n
<1>4. /\ ListOK(r) /\ p \in Seq(Node) /\ Len(r) = Len(c.list) - n
      /\ \A k \in 1 .. Len(r) : r[k] = c.list[k + n]
      /\ \A X : Count(r, X) = Count(c.list, X) - Count(p, X)
  BY <1>2, DropList, SMTT(30)
<1>5. e = [c EXCEPT !.list = r, !.match_cnt = cnt, !.pending_cnt = left]
  <2>1. Take(c, n) = [c EXCEPT !.list = r, !.match_cnt = cnt]
    BY DEF Take
  <2> HIDE DEF r, cnt
  <2> QED
    BY <2>1 DEF Channel
<1> HIDE DEF p, r
<1>6. MatchedIn(r) = MatchedIn(c.list) - MatchedIn(p) /\ MatchedIn(p) \in Nat
      /\ MatchedIn(c.list) \in Nat
      /\ \A s : HeldIn(r, s) = HeldIn(c.list, s) - HeldIn(p, s)
      /\ Cardinality(Unmatched(r)) <= Unfinished(c)
  <2>1. r \in Seq(Node)
    BY <1>4 DEF ListOK
  <2>2. MatchedIn(r) = MatchedIn(c.list) - MatchedIn(p) /\ MatchedIn(p) \in Nat
        /\ MatchedIn(c.list) \in Nat
    BY <1>1, <1>4, <2>1, ListCounts
  <2>3. \A s : HeldIn(r, s) = HeldIn(c.list, s) - HeldIn(p, s)
    BY <1>1, <1>4, <2>1, ListCounts
  <2>4. Cardinality(Unmatched(r)) <= Unfinished(c)
    <3>1. Count(p, Incomplete) \in Nat /\ Count(c.list, Incomplete) \in Nat
      BY <1>1, <1>4, ListCounts
    <3>2. Count(r, Incomplete) <= Count(c.list, Incomplete)
      BY <1>4, <3>1
    <3> QED
      BY <1>1, <2>1, <3>2, ListCounts DEF Unfinished
  <2> QED
    BY <2>2, <2>3, <2>4
<1>7. cnt \in Int /\ left \in Nat
  BY <1>1, <1>2, <1>6
<1> HIDE DEF e, left
<1>8. e \in Channel
  <2>1. r \in Seq(Node)
    BY <1>4 DEF ListOK
  <2> HIDE DEF cnt
  <2> QED
    BY <1>5, <1>7, <2>1 DEF Channel
<1>9. /\ e.list = r /\ e.match_cnt = cnt /\ e.pending_cnt = left
      /\ e.state = c.state /\ e.starts = c.starts /\ e.attr = c.attr /\ e.out = c.out
      /\ e.notify_mode = c.notify_mode /\ e.stuck = c.stuck
      /\ e.zsl = c.zsl /\ e.manualZSLSnapshot = c.manualZSLSnapshot
      /\ e.startZSlSnapshotCalled = c.startZSlSnapshotCalled
  BY <1>5 DEF Channel
<1>10. /\ d \in Channel /\ SameQueue(e, d) /\ d.notify_mode = e.notify_mode /\ d.stuck = e.stuck
       /\ SnapshotWanted(c) => SnapshotWanted(d)
  <2>1. CASE n > 0 /\ c.notify_mode = BURST /\ left = 0 /\ e.startZSlSnapshotCalled /\ ~e.manualZSLSnapshot
    <3>1. d = [e EXCEPT !.zsl = FALSE, !.startZSlSnapshotCalled = FALSE, !.bracketingState = "OFF"]
      BY <1>3, <1>9, <2>1 DEF RequestDone, StopZsl
    <3> HIDE DEF d
    <3>2. d \in Channel
      BY <1>8, <3>1 DEF Channel
    <3>3. SameQueue(e, d) /\ d.notify_mode = e.notify_mode /\ d.stuck = e.stuck /\ ~d.zsl
      BY <1>8, <3>1 DEF Channel, SameQueue
    <3> QED
      BY <3>2, <3>3 DEF SnapshotWanted, d
  <2>2. CASE ~(n > 0 /\ c.notify_mode = BURST /\ left = 0 /\ e.startZSlSnapshotCalled /\ ~e.manualZSLSnapshot)
    <3>1. d = e
      BY <1>3, <1>9, <2>2 DEF RequestDone
    <3>2. SnapshotWanted(c) => SnapshotWanted(e)
      <4>1. n \in Nat /\ (c.notify_mode = BURST \/ c.notify_mode # BURST)
        BY <1>1, <1>2
      <4> QED
        BY <1>1, <1>2, <1>7, <1>9, <2>2, <4>1 DEF SnapshotWanted, left
    <3> HIDE DEF d
    <3> QED
      BY <1>8, <3>1, <3>2 DEF SameQueue
  <2> QED
    BY <2>1, <2>2
<1> HIDE DEF d
<1>11. HoldsNoMore(c, d)
  <2>1. \A k \in 1 .. Len(r) : k + n \in 1 .. Len(c.list)
    BY <1>1, <1>2, <1>4
  <2> QED
    BY <1>4, <1>9, <1>10, <2>1 DEF HoldsNoMore, SameQueue
<1>12. Stale(d) = Stale(c)
  BY <1>1, <1>6, <1>9, <1>10 DEF Stale, SameQueue
<1> QED
  BY <1>4, <1>6, <1>9, <1>10, <1>11, <1>12 DEF SameQueue, Unfinished, d, p, n

\* A frame after which the numbers start again.
IsReset(q) == q.cmd = "DATA" /\ q.stream = Meta /\ q.meta.kind = "reset"
FrameOf(q, s) == q.cmd = "DATA" /\ q.stream = s

\* The list r holds what the list did, unless the command q was a reset, and
\* the frame of q.
Grows(list, r, q) ==
    \A t \in Stream : \A i \in 1 .. Len(r) : t \in r[i].bufs =>
        \/ FrameOf(q, t) /\ r[i].idx = q.idx
        \/ /\ ~IsReset(q)
           /\ \E k \in 1 .. Len(list) : t \in list[k].bufs /\ list[k].idx = r[i].idx

\* The command q makes d of the channel c, and passes the list p on.
Taken(c, d, q, p) ==
    /\ d \in Channel /\ ListOK(d.list) /\ p \in Seq(Node)
    /\ d.state = c.state /\ d.starts = c.starts /\ d.attr = c.attr
    /\ Stale(d) = Stale(c) /\ (Stale(c) = 0 => ~d.stuck)
    /\ IF c.state = "ACTIVE"
       THEN \A t \in Stream : Loose(d, t) = Loose(c, t) - Bit(FrameOf(q, t)) + HeldIn(p, t)
       ELSE d.out = c.out
    /\ Grows(c.list, d.list, q)
    /\ Unfinished(d) <= c.attr.max_unmatched_frames + 1
    /\ SnapshotWanted(c) /\ ~d.stuck => SnapshotWanted(d)

\* A command that finds the channel as it should be.
CommandReady(c, q) ==
    /\ c \in Channel /\ ListOK(c.list) /\ ~c.stuck /\ q \in SbCmd
    /\ q.cmd = "DATA" => Fresh(c.list, q.stream, q.idx) \/ IsReset(q)
    /\ Unfinished(c) <= c.attr.max_unmatched_frames + 1 /\ Stale(c) >= 0

\* An empty list holds nothing.
LEMMA NoneHeld == <<>> \in Seq(Node) /\ \A s : HeldIn(<<>>, s) = 0
<1>1. <<>> \in Seq(Node)
  OBVIOUS
<1> QED
  BY <1>1, ListCounts, CountEmpty

\* Every command takes the channel from one good state to another.
LEMMA HandleTakes ==
  ASSUME NEW c, NEW q, CommandReady(c, q)
  PROVE  /\ Taken(c, Handle(c, q), q, <<>>)
         /\ q.cmd = "FLUSH" => Handle(c, q).list = <<>>
<1> DEFINE d == Handle(c, q)
<1>1. c \in Channel /\ ListOK(c.list) /\ ~c.stuck /\ q \in SbCmd
      /\ Unfinished(c) <= c.attr.max_unmatched_frames + 1
  BY DEF CommandReady
<1>2. \A t \in Stream : Loose(c, t) \in Int /\ HeldIn(<<>>, t) = 0 /\ Bit(FrameOf(q, t)) \in Int
  BY <1>1, QueueTypes, NoneHeld DEF Bit
<1>3. q.idx \in Nat /\ q.stream \in Stream /\ q.meta \in MetaInfo
  BY <1>1 DEF SbCmd
<1>4. CASE q.cmd = "DATA"
  <2>1. d = CompAndEnqueue(c, q.stream, q.idx, q.meta)
    BY <1>4 DEF Handle
  <2>2. IsReset(q) <=> q.stream = Meta /\ q.meta.kind = "reset"
    BY <1>4 DEF IsReset
  <2>3. /\ Joined(c, d, q.stream, q.idx) /\ SameModes(c, d) /\ d.stuck = c.stuck
        /\ ListOK(d.list) /\ Unfinished(d) <= c.attr.max_unmatched_frames + 1
        /\ q.stream = Meta /\ q.meta.kind = "reset" =>
              \A t \in Stream : \A i \in 1 .. Len(d.list) : t \in d.list[i].bufs =>
                  t = q.stream /\ d.list[i].idx = q.idx
    BY <1>1, <1>3, <1>4, <2>1, <2>2, CompAndEnqueueJoins DEF CommandReady
  <2> HIDE DEF d
  <2>4. \A t \in Stream : FrameOf(q, t) <=> t = q.stream
    BY <1>4 DEF FrameOf
  <2>5. c.state = "ACTIVE" =>
            \A t \in Stream : Loose(d, t) = Loose(c, t) - Bit(FrameOf(q, t)) + HeldIn(<<>>, t)
    <3> SUFFICES ASSUME c.state = "ACTIVE", NEW t \in Stream
                 PROVE  Loose(d, t) = Loose(c, t) - Bit(FrameOf(q, t)) + HeldIn(<<>>, t)
      OBVIOUS
    <3>1. Loose(d, t) = Loose(c, t) - Bit(t = q.stream)
      BY <2>3 DEF Joined
    <3>2. Bit(t = q.stream) = Bit(FrameOf(q, t))
      BY <2>4 DEF Bit
    <3> QED
      BY <1>2, <3>1, <3>2
  <2>6. Grows(c.list, d.list, q)
    BY <2>2, <2>3, <2>4 DEF Grows, Joined
  <2>7. SnapshotWanted(c) => SnapshotWanted(d)
    BY <2>3 DEF SnapshotWanted, SameModes
  <2> QED
    BY <1>1, <1>4, <2>3, <2>5, <2>6, <2>7, NoneHeld DEF Taken, Joined, d
<1>5. CASE q.cmd # "DATA"
  <2>1. Handled(c, d) /\ (q.cmd = "FLUSH" => d.list = <<>>)
    BY <1>1, <1>5, CommandHandled
  <2> HIDE DEF d
  <2>2. \A t \in Stream : ~FrameOf(q, t) /\ ~IsReset(q)
    BY <1>5 DEF FrameOf, IsReset
  <2>3. c.state = "ACTIVE" =>
            \A t \in Stream : Loose(d, t) = Loose(c, t) - Bit(FrameOf(q, t)) + HeldIn(<<>>, t)
    <3> SUFFICES ASSUME c.state = "ACTIVE", NEW t \in Stream
                 PROVE  Loose(d, t) = Loose(c, t) - Bit(FrameOf(q, t)) + HeldIn(<<>>, t)
      OBVIOUS
    <3>1. Loose(d, t) = Loose(c, t)
      BY <2>1 DEF Handled, Keeps, SameBooks
    <3>2. Bit(FrameOf(q, t)) = 0
      BY <2>2 DEF Bit
    <3> QED
      BY <1>2, <3>1, <3>2
  <2>4. Grows(c.list, d.list, q)
    BY <2>1, <2>2 DEF Grows, Handled, Keeps, HoldsNoMore
  <2>5. Unfinished(d) <= c.attr.max_unmatched_frames + 1
    <3>1. d \in Channel /\ c.attr \in Attr /\ Unfinished(d) <= Unfinished(c)
      BY <1>1, <2>1 DEF Handled, Keeps, Channel
    <3>2. Unfinished(d) \in Nat /\ Unfinished(c) \in Nat /\ c.attr.max_unmatched_frames \in Nat
      BY <1>1, <3>1, QueueTypes DEF Attr
    <3> QED
      BY <1>1, <3>1, <3>2
  <2> QED
    BY <2>1, <2>3, <2>4, <2>5, NoneHeld DEF Taken, Handled, Keeps, SameBooks, d
<1> QED
  BY <1>4, <1>5

\* Excess super buffers may be dropped after the command,
LEMMA TakenThen ==
  ASSUME NEW c \in Channel, NEW q, NEW d, Taken(c, d, q, <<>>), ~d.stuck,
         NEW e, Keeps(d, e), SameModes(d, e), Stale(d) = 0 => ~e.stuck
  PROVE  Taken(c, e, q, <<>>)
<1>1. d \in Channel /\ e \in Channel /\ c.attr = d.attr
  BY DEF Taken, Keeps, SameBooks
<1>2. Unfinished(e) <= c.attr.max_unmatched_frames + 1
  <2>1. c.attr.max_unmatched_frames \in Nat
    <3>1. c.attr \in Attr
      BY DEF Channel
    <3> QED
      BY <3>1 DEF Attr
  <2>2. Unfinished(d) <= c.attr.max_unmatched_frames + 1 /\ Unfinished(e) <= Unfinished(d)
    BY DEF Taken, Keeps
  <2> QED
    BY <1>1, <2>1, <2>2, QueueTypes
<1>3. Grows(c.list, e.list, q)
  BY DEF Taken, Keeps, Grows, HoldsNoMore
<1>4. SnapshotWanted(c) => SnapshotWanted(e)
  BY DEF Taken, SnapshotWanted, SameModes
<1> QED
  BY <1>1, <1>2, <1>3, <1>4 DEF Taken, Keeps, SameBooks

\* and others passed on to the callback thread.
LEMMA TakenThenDispatched ==
  ASSUME NEW c \in Channel, NEW q, NEW d, Taken(c, d, q, <<>>), ~d.stuck
  PROVE  /\ Taken(c, Dispatch(d), q, SubSeq(d.list, 1, Wanted(d)))
         /\ MatchedIn(Dispatch(d).list) <= MatchedIn(d.list)
         /\ Dispatch(d).notify_mode = d.notify_mode
<1> DEFINE n == Wanted(d)
           p == SubSeq(d.list, 1, n)
           e == Dispatch(d)
<1>1. d \in Channel /\ ListOK(d.list)
  BY DEF Taken
<1>2. /\ e \in Channel /\ ListOK(e.list) /\ HoldsNoMore(d, e) /\ Stale(e) = Stale(d)
      /\ e.state = d.state /\ e.starts = d.starts /\ e.attr = d.attr /\ e.out = d.out
      /\ e.notify_mode = d.notify_mode /\ e.stuck = d.stuck
      /\ Unfinished(e) <= Unfinished(d) /\ MatchedIn(e.list) <= MatchedIn(d.list)
      /\ SnapshotWanted(d) => SnapshotWanted(e)
      /\ p \in Seq(Node)
      /\ \A s \in Stream : HeldIn(e.list, s) = HeldIn(d.list, s) - HeldIn(p, s)
  BY <1>1, DispatchIs
<1> HIDE DEF p, e
<1>3. Unfinished(e) <= c.attr.max_unmatched_frames + 1
  <2>1. c.attr.max_unmatched_frames \in Nat
    <3>1. c.attr \in Attr
      BY DEF Channel
    <3> QED
      BY <3>1 DEF Attr
  <2>2. Unfinished(d) <= c.attr.max_unmatched_frames + 1
    BY DEF Taken
  <2> QED
    BY <1>1, <1>2, <2>1, <2>2, QueueTypes
<1>4. Grows(c.list, e.list, q)
  BY <1>2 DEF Taken, Grows, HoldsNoMore
<1>5. c.state = "ACTIVE" =>
          \A t \in Stream : Loose(e, t) = Loose(c, t) - Bit(FrameOf(q, t)) + HeldIn(p, t)
  <2> SUFFICES ASSUME c.state = "ACTIVE", NEW t \in Stream
               PROVE  Loose(e, t) = Loose(c, t) - Bit(FrameOf(q, t)) + HeldIn(p, t)
    OBVIOUS
  <2>1. Loose(d, t) = Loose(c, t) - Bit(FrameOf(q, t)) + HeldIn(<<>>, t)
    BY DEF Taken
  <2>2. HeldIn(<<>>, t) = 0 /\ HeldIn(p, t) \in Nat /\ Bit(FrameOf(q, t)) \in Int
        /\ Loose(c, t) \in Int /\ d.out[t] \in Int /\ HeldIn(d.list, t) \in Nat
    BY <1>1, <1>2, NoneHeld, ListCounts, QueueTypes DEF Bit
  <2>3. e.out[t] = d.out[t] /\ HeldIn(e.list, t) = HeldIn(d.list, t) - HeldIn(p, t)
    BY <1>2
  <2>4. Loose(e, t) = Loose(d, t) + HeldIn(p, t)
    BY <2>2, <2>3 DEF Loose
  <2> QED
    BY <2>1, <2>2, <2>4
<1>6. SnapshotWanted(c) => SnapshotWanted(e)
  BY <1>2 DEF Taken
<1> QED
  BY <1>2, <1>3, <1>4, <1>5, <1>6 DEF Taken, p, e, n

-----------------------------------------------------------------------------
(* The numbers of the frames.                                              *)

NoReset(q, i, j) == \A k \in 1 .. Len(q) : i <= k /\ k <= j => ~IsReset(q[k])

\* The frames of a stream wait in the order of their numbers, up to a reset.
CmdsInOrder(q) ==
    \A s \in Stream : \A i, j \in 1 .. Len(q) :
        i < j /\ FrameOf(q[i], s) /\ FrameOf(q[j], s) /\ NoReset(q, i + 1, j) =>
            q[i].idx < q[j].idx
\* None is newer than the last one of its stream,
CmdsUpToLast(q, l) ==
    \A s \in Stream : \A i \in 1 .. Len(q) :
        FrameOf(q[i], s) /\ NoReset(q, i + 1, Len(q)) => q[i].idx <= l[s]
\* and those that wait are newer than those collected.
CmdsAfterList(q, list) ==
    \A s \in Stream : \A i \in 1 .. Len(q) : \A j \in 1 .. Len(list) :
        FrameOf(q[i], s) /\ NoReset(q, 1, i) /\ s \in list[j].bufs =>
            list[j].idx < q[i].idx
ListUpToLast(q, list, l) ==
    \A s \in Stream : \A j \in 1 .. Len(list) :
        NoReset(q, 1, Len(q)) /\ s \in list[j].bufs => list[j].idx <= l[s]

Numbered(q, list, l) ==
    CmdsInOrder(q) /\ CmdsUpToLast(q, l) /\ CmdsAfterList(q, list) /\ ListUpToLast(q, list, l)

\* The first command is taken.
LEMMA NumberedTail ==
  ASSUME NEW q \in Seq(SbCmd), q # <<>>, NEW list, NEW r, NEW l,
         Numbered(q, list, l), Grows(list, r, Head(q))
  PROVE  Numbered(Tail(q), r, l)
<1> DEFINE p == Tail(q)
           m == Len(p)
<1>1. /\ Len(q) \in Nat /\ p \in Seq(SbCmd) /\ Len(q) = m + 1 /\ m \in Nat
      /\ \A i \in 1 .. m : i + 1 \in 1 .. Len(q) /\ p[i] = q[i + 1]
      /\ Head(q) = q[1] /\ 1 \in 1 .. Len(q)
  OBVIOUS
<1> HIDE DEF p, m
<1>7. m = Len(p)
  BY DEF m
<1>2. \A i, j \in Int : 1 <= i /\ NoReset(p, i, j) => NoReset(q, i + 1, j + 1)
  <2> SUFFICES ASSUME NEW i \in Int, NEW j \in Int, 1 <= i, NoReset(p, i, j)
               PROVE  NoReset(q, i + 1, j + 1)
    OBVIOUS
  <2>1. ASSUME NEW k \in 1 .. Len(q), i + 1 <= k, k <= j + 1
        PROVE  ~IsReset(q[k])
    <3>1. k - 1 \in 1 .. m /\ (k - 1) + 1 = k /\ i <= k - 1 /\ k - 1 <= j
      BY <1>1, <2>1
    <3>2. ~IsReset(p[k - 1])
      BY <1>7, <3>1 DEF NoReset
    <3> QED
      BY <1>1, <3>1, <3>2
  <2> QED
    BY <2>1 DEF NoReset
<1>3. CmdsInOrder(p)
  <2> SUFFICES ASSUME NEW s \in Stream, NEW i \in 1 .. m, NEW j \in 1 .. m, i < j,
                      FrameOf(p[i], s), FrameOf(p[j], s), NoReset(p, i + 1, j)
               PROVE  p[i].idx < p[j].idx
    BY <1>7 DEF CmdsInOrder
  <2>1. NoReset(q, (i + 1) + 1, j + 1)
    BY <1>1, <1>2
  <2>2. i + 1 < j + 1
    BY <1>1
  <2> QED
    BY <1>1, <2>1, <2>2 DEF Numbered, CmdsInOrder
<1>4. CmdsUpToLast(p, l)
  <2> SUFFICES ASSUME NEW s \in Stream, NEW i \in 1 .. m,
                      FrameOf(p[i], s), NoReset(p, i + 1, m)
               PROVE  p[i].idx <= l[s]
    BY <1>7 DEF CmdsUpToLast
  <2>1. NoReset(q, (i + 1) + 1, m + 1)
    BY <1>1, <1>2
  <2> QED
    BY <1>1, <2>1 DEF Numbered, CmdsUpToLast
<1>5. CmdsAfterList(p, r)
  <2> SUFFICES ASSUME NEW s \in Stream, NEW i \in 1 .. m, NEW j \in 1 .. Len(r),
                      FrameOf(p[i], s), NoReset(p, 1, i), s \in r[j].bufs
               PROVE  r[j].idx < p[i].idx
    BY <1>7 DEF CmdsAfterList
  <2>1. NoReset(q, 1 + 1, i + 1) /\ FrameOf(q[i + 1], s) /\ i + 1 \in 1 .. Len(q) /\ 1 < i + 1
    BY <1>1, <1>2
  <2>2. CASE FrameOf(q[1], s) /\ r[j].idx = q[1].idx
    BY <1>1, <2>1, <2>2 DEF Numbered, CmdsInOrder
  <2>3. CASE /\ ~IsReset(q[1])
             /\ \E k \in 1 .. Len(list) : s \in list[k].bufs /\ list[k].idx = r[j].idx
    <3>1. NoReset(q, 1, i + 1)
      <4> SUFFICES ASSUME NEW k \in 1 .. Len(q), k <= i + 1 PROVE ~IsReset(q[k])
        BY DEF NoReset
      <4>1. k = 1 \/ 1 + 1 <= k
        OBVIOUS
      <4> QED
        BY <2>1, <2>3, <4>1 DEF NoReset
    <3> QED
      BY <1>1, <2>1, <2>3, <3>1 DEF Numbered, CmdsAfterList
  <2> QED
    BY <1>1, <2>2, <2>3 DEF Grows
<1>6. ListUpToLast(p, r, l)
  <2> SUFFICES ASSUME NEW s \in Stream, NEW j \in 1 .. Len(r), NoReset(p, 1, m), s \in r[j].bufs
               PROVE  r[j].idx <= l[s]
    BY <1>7 DEF ListUpToLast
  <2>1. NoReset(q, 1 + 1, Len(q))
    BY <1>1, <1>2
  <2>2. CASE FrameOf(q[1], s) /\ r[j].idx = q[1].idx
    BY <1>1, <2>1, <2>2 DEF Numbered, CmdsUpToLast
  <2>3. CASE /\ ~IsReset(q[1])
             /\ \E k \in 1 .. Len(list) : s \in list[k].bufs /\ list[k].idx = r[j].idx
    <3>1. NoReset(q, 1, Len(q))
      <4> SUFFICES ASSUME NEW k \in 1 .. Len(q) PROVE ~IsReset(q[k])
        BY DEF NoReset
      <4>1. k = 1 \/ 1 + 1 <= k
        OBVIOUS
      <4> QED
        BY <2>1, <2>3, <4>1 DEF NoReset
    <3> QED
      BY <2>3, <3>1 DEF Numbered, ListUpToLast
  <2> QED
    BY <1>1, <2>2, <2>3 DEF Grows
<1> QED
  BY <1>3, <1>4, <1>5, <1>6 DEF Numbered, p

\* A command comes: if it is a frame it is newer than the last one of its
\* stream, or the numbers start again with it.
LEMMA NumberedAppend ==
  ASSUME NEW q \in Seq(SbCmd), NEW e \in SbCmd, NEW list, ListOK(list),
         NEW l \in [Stream -> Nat], NEW k \in [Stream -> Nat], Numbered(q, list, l),
         \A s \in Stream : FrameOf(e, s) => k[s] = e.idx /\ (IsReset(e) \/ l[s] < e.idx),
         ~IsReset(e) => \A s \in Stream : l[s] <= k[s]
  PROVE  Numbered(Append(q, e), list, k)
<1> DEFINE p == Append(q, e)
           m == Len(q) + 1
<1>1. /\ Len(q) \in Nat /\ p \in Seq(SbCmd) /\ Len(p) = m /\ m \in Nat /\ p[m] = e
      /\ \A i \in 1 .. Len(q) : p[i] = q[i]
      /\ \A i \in 1 .. m : i = m \/ i \in 1 .. Len(q)
  OBVIOUS
<1> HIDE DEF p, m
<1>2. m = Len(q) + 1
  BY DEF m
<1>3. \A i, j \in Int : NoReset(p, i, j) => NoReset(q, i, j)
  BY <1>1, <1>2 DEF NoReset
<1>4. \A i \in Int : NoReset(p, i, m) => NoReset(q, i, Len(q)) /\ (i <= m => ~IsReset(e))
  <2> SUFFICES ASSUME NEW i \in Int, NoReset(p, i, m)
               PROVE  NoReset(q, i, Len(q)) /\ (i <= m => ~IsReset(e))
    OBVIOUS
  <2>1. \A j \in 1 .. Len(q) : i <= j => ~IsReset(q[j])
    BY <1>1, <1>2 DEF NoReset
  <2>2. i <= m => ~IsReset(p[m])
    BY <1>1, <1>2 DEF NoReset
  <2> QED
    BY <1>1, <2>1, <2>2 DEF NoReset
<1>11. (\A x \in SbCmd : x.idx \in Nat) /\ (\A x \in Node : x.idx \in Nat)
  BY DEF SbCmd, Node
<1>5. \A i \in 1 .. Len(q) : q[i].idx \in Nat
  BY <1>11
<1>6. e.idx \in Nat /\ list \in Seq(Node) /\ \A i \in 1 .. Len(list) : list[i].idx \in Nat
  BY <1>11 DEF ListOK
<1>7. CmdsInOrder(p)
  <2> SUFFICES ASSUME NEW s \in Stream, NEW i \in 1 .. m, NEW j \in 1 .. m, i < j,
                      FrameOf(p[i], s), FrameOf(p[j], s), NoReset(p, i + 1, j)
               PROVE  p[i].idx < p[j].idx
    BY <1>1 DEF CmdsInOrder
  <2>1. i \in 1 .. Len(q) /\ p[i] = q[i] /\ i + 1 \in Int /\ i + 1 <= m
    BY <1>1, <1>2
  <2>2. CASE j = m
    <3>1. NoReset(q, i + 1, Len(q)) /\ ~IsReset(e)
      BY <1>4, <2>1, <2>2
    <3>2. q[i].idx <= l[s]
      BY <2>1, <3>1 DEF Numbered, CmdsUpToLast
    <3>3. l[s] < e.idx
      BY <1>1, <2>2, <3>1
    <3> QED
      BY <1>1, <1>5, <1>6, <2>1, <2>2, <3>2, <3>3
  <2>3. CASE j # m
    <3>1. j \in 1 .. Len(q) /\ p[j] = q[j] /\ NoReset(q, i + 1, j)
      BY <1>1, <1>3, <2>1, <2>3
    <3> QED
      BY <2>1, <3>1 DEF Numbered, CmdsInOrder
  <2> QED
    BY <2>2, <2>3
<1>8. CmdsUpToLast(p, k)
  <2> SUFFICES ASSUME NEW s \in Stream, NEW i \in 1 .. m, FrameOf(p[i], s), NoReset(p, i + 1, m)
               PROVE  p[i].idx <= k[s]
    BY <1>1 DEF CmdsUpToLast
  <2>1. CASE i = m
    BY <1>1, <1>6, <2>1
  <2>2. CASE i # m
    <3>1. i \in 1 .. Len(q) /\ p[i] = q[i] /\ i + 1 \in Int /\ i + 1 <= m
      BY <1>1, <1>2, <2>2
    <3>2. NoReset(q, i + 1, Len(q)) /\ ~IsReset(e)
      BY <1>4, <3>1
    <3>3. q[i].idx <= l[s] /\ l[s] <= k[s]
      BY <3>1, <3>2 DEF Numbered, CmdsUpToLast
    <3> QED
      BY <1>5, <3>1, <3>3
  <2> QED
    BY <2>1, <2>2
<1>9. CmdsAfterList(p, list)
  <2> SUFFICES ASSUME NEW s \in Stream, NEW i \in 1 .. m, NEW j \in 1 .. Len(list),
                      FrameOf(p[i], s), NoReset(p, 1, i), s \in list[j].bufs
               PROVE  list[j].idx < p[i].idx
    BY <1>1 DEF CmdsAfterList
  <2>1. CASE i = m
    <3>1. NoReset(q, 1, Len(q)) /\ ~IsReset(e)
      BY <1>1, <1>2, <1>4, <2>1
    <3>2. list[j].idx <= l[s]
      BY <3>1 DEF Numbered, ListUpToLast
    <3>3. l[s] < e.idx
      BY <1>1, <2>1, <3>1
    <3> QED
      BY <1>1, <1>6, <2>1, <3>2, <3>3
  <2>2. CASE i # m
    <3>1. i \in 1 .. Len(q) /\ p[i] = q[i] /\ NoReset(q, 1, i)
      BY <1>1, <1>3, <2>2
    <3> QED
      BY <3>1 DEF Numbered, CmdsAfterList
  <2> QED
    BY <2>1, <2>2
<1>10. ListUpToLast(p, list, k)
  <2> SUFFICES ASSUME NEW s \in Stream, NEW j \in 1 .. Len(list), NoReset(p, 1, m), s \in list[j].bufs
               PROVE  list[j].idx <= k[s]
    BY <1>1 DEF ListUpToLast
  <2>1. NoReset(q, 1, Len(q)) /\ ~IsReset(e)
    BY <1>1, <1>2, <1>4
  <2>2. list[j].idx <= l[s] /\ l[s] <= k[s]
    BY <2>1 DEF Numbered, ListUpToLast
  <2> QED
    BY <1>6, <2>2
<1> QED
  BY <1>7, <1>8, <1>9, <1>10 DEF Numbered, p

-----------------------------------------------------------------------------
(* The invariant.                                                          *)

Waiting(q, s) == Cardinality({i \in DOMAIN q : q[i].cmd = "DATA" /\ q[i].stream = s})

\* When the channel is stopped nothing waits, and none of its buffers is out.
Rest(c, q) ==
    /\ c.state # "ACTIVE" => \A s \in Stream : c.out[s] = 0
    /\ c.state = "STOPPED" => q = <<>> /\ c.list = <<>>
    /\ c.starts = 0 => c.state = "STOPPED" /\ c.match_cnt = 0

\* The count of matched super buffers is never too low, and exact until the
\* channel starts again: so long no loop that trusts it runs for ever.
Counted(c) ==
    /\ Stale(c) >= 0
    /\ c.starts <= 1 /\ c.state # "STOPPED" => Stale(c) = 0
    /\ c.starts <= 1 => ~c.stuck

Accounted(c, q, a) ==
    c.state = "ACTIVE" => \A s \in Stream : Loose(c, s) = Waiting(q, s) + HeldIn(a, s)

Bounded(c) ==
    /\ Unfinished(c) <= c.attr.max_unmatched_frames + 1
    /\ c.notify_mode = BURST /\ ~c.stuck => MatchedIn(c.list) <= c.attr.water_mark

\* The channel c with the commands q, the super buffers a at the HAL and the
\* last numbers l is as it should be.
Good(c, q, a, l) ==
    /\ c \in Channel /\ q \in Seq(SbCmd) /\ a \in Seq(Node) /\ l \in [Stream -> Nat]
    /\ ListOK(c.list) /\ Rest(c, q) /\ Counted(c) /\ Numbered(q, c.list, l)
    /\ Accounted(c, q, a) /\ Bounded(c) /\ (~c.stuck => SnapshotWanted(c))

SbInv == Good(ch, cmds, app, last)

\* How many frames of a stream wait.
LEMMA WaitingTail ==
  ASSUME NEW q \in Seq(SbCmd), NEW s \in Stream
  PROVE  /\ Waiting(q, s) \in Nat
         /\ q # <<>> => Waiting(Tail(q), s) = Waiting(q, s) - Bit(FrameOf(Head(q), s))
         /\ \A e \in SbCmd : Waiting(Append(q, e), s) = Waiting(q, s) + Bit(FrameOf(e, s))
<1> DEFINE X == {e \in SbCmd : FrameOf(e, s)}
<1>1. \A p \in Seq(SbCmd) : Waiting(p, s) = Count(p, X)
  <2> SUFFICES ASSUME NEW p \in Seq(SbCmd) PROVE Waiting(p, s) = Count(p, X)
    OBVIOUS
  <2>1. {i \in DOMAIN p : p[i].cmd = "DATA" /\ p[i].stream = s} = At(p, X)
    BY DEF At, FrameOf
  <2> QED
    BY <2>1 DEF Waiting, Count
<1>2. \A e \in SbCmd : e \in X <=> FrameOf(e, s)
  OBVIOUS
<1> HIDE DEF X
<1>3. Waiting(q, s) \in Nat
  BY <1>1, CountType
<1>4. q # <<>> => Waiting(Tail(q), s) = Waiting(q, s) - Bit(FrameOf(Head(q), s))
  <2> SUFFICES ASSUME q # <<>> PROVE Waiting(Tail(q), s) = Waiting(q, s) - Bit(FrameOf(Head(q), s))
    OBVIOUS
  <2>1. Tail(q) \in Seq(SbCmd) /\ Head(q) \in SbCmd
    OBVIOUS
  <2>2. Count(Tail(q), X) = Count(q, X) - (IF Head(q) \in X THEN 1 ELSE 0)
    BY CountTail
  <2> QED
    BY <1>1, <1>2, <2>1, <2>2 DEF Bit
<1>5. \A e \in SbCmd : Waiting(Append(q, e), s) = Waiting(q, s) + Bit(FrameOf(e, s))
  <2> SUFFICES ASSUME NEW e \in SbCmd PROVE Waiting(Append(q, e), s) = Waiting(q, s) + Bit(FrameOf(e, s))
    OBVIOUS
  <2>1. Append(q, e) \in Seq(SbCmd)
    OBVIOUS
  <2>2. Count(Append(q, e), X) = Count(q, X) + (IF e \in X THEN 1 ELSE 0)
    BY CountAppend
  <2> QED
    BY <1>1, <1>2, <2>1, <2>2 DEF Bit
<1> QED
  BY <1>3, <1>4, <1>5

\* The command thread finds the channel ready for each command,
LEMMA GoodReady ==
  ASSUME NEW c, NEW q, NEW a, NEW l, Good(c, q, a, l), q # <<>>, ~c.stuck
  PROVE  CommandReady(c, Head(q)) /\ c.state # "STOPPED" /\ (c.starts <= 1 => Stale(c) = 0)
<1>1. /\ q \in Seq(SbCmd) /\ Len(q) \in Nat /\ Head(q) = q[1] /\ 1 \in 1 .. Len(q)
      /\ q[1] \in SbCmd
  BY DEF Good
<1>2. c.state # "STOPPED"
  BY DEF Good, Rest
<1>3. q[1].cmd = "DATA" => Fresh(c.list, q[1].stream, q[1].idx) \/ IsReset(q[1])
  <2> SUFFICES ASSUME q[1].cmd = "DATA", ~IsReset(q[1]) PROVE Fresh(c.list, q[1].stream, q[1].idx)
    OBVIOUS
  <2>1. q[1].stream \in Stream /\ FrameOf(q[1], q[1].stream)
    BY <1>1 DEF SbCmd, FrameOf
  <2>2. NoReset(q, 1, 1)
    BY <1>1 DEF NoReset
  <2> QED
    BY <1>1, <2>1, <2>2 DEF Good, Numbered, CmdsAfterList, Fresh
<1> QED
  BY <1>1, <1>2, <1>3 DEF Good, Counted, Bounded, CommandReady

\* and leaves it as it should be.
LEMMA GoodTaken ==
  ASSUME NEW c, NEW q, NEW a, NEW l, Good(c, q, a, l), q # <<>>, ~c.stuck,
         NEW d, NEW p, Taken(c, d, Head(q), p),
         d.notify_mode = BURST /\ ~d.stuck => MatchedIn(d.list) <= d.attr.water_mark
  PROVE  Good(d, Tail(q), a \o p, l)
<1>1. /\ c \in Channel /\ q \in Seq(SbCmd) /\ a \in Seq(Node) /\ l \in [Stream -> Nat]
      /\ d \in Channel /\ p \in Seq(Node) /\ ListOK(d.list)
  BY DEF Good, Taken
<1>2. Tail(q) \in Seq(SbCmd) /\ a \o p \in Seq(Node) /\ Head(q) \in SbCmd
  BY <1>1, ConcatProperties
<1>3. c.state # "STOPPED" /\ (c.starts <= 1 => Stale(c) = 0)
  BY GoodReady
<1>4. Rest(d, Tail(q))
  BY <1>3 DEF Good, Rest, Taken
<1>5. Counted(d)
  BY <1>3 DEF Good, Counted, Taken
<1>6. Numbered(Tail(q), d.list, l)
  BY <1>1, NumberedTail DEF Good, Taken
<1>7. Accounted(d, Tail(q), a \o p)
  <2> SUFFICES ASSUME d.state = "ACTIVE", NEW s \in Stream
               PROVE  Loose(d, s) = Waiting(Tail(q), s) + HeldIn(a \o p, s)
    BY DEF Accounted
  <2>1. Loose(d, s) = Loose(c, s) - Bit(FrameOf(Head(q), s)) + HeldIn(p, s)
    BY DEF Taken
  <2>2. Loose(c, s) = Waiting(q, s) + HeldIn(a, s)
    BY DEF Taken, Good, Accounted
  <2>3. Waiting(Tail(q), s) = Waiting(q, s) - Bit(FrameOf(Head(q), s)) /\ Waiting(q, s) \in Nat
    BY <1>1, WaitingTail
  <2>4. HeldIn(a \o p, s) = HeldIn(a, s) + HeldIn(p, s)
    <3>1. Count(a \o p, Holding(s)) = Count(a, Holding(s)) + Count(p, Holding(s))
      BY <1>1, CountConcat
    <3> QED
      BY <1>1, <1>2, <3>1, ListCounts
  <2>5. HeldIn(a, s) \in Nat /\ HeldIn(p, s) \in Nat /\ Bit(FrameOf(Head(q), s)) \in Int
    BY <1>1, ListCounts DEF Bit
  <2> QED
    BY <2>1, <2>2, <2>3, <2>4, <2>5
<1>8. Bounded(d)
  BY DEF Taken, Bounded
<1>9. ~d.stuck => SnapshotWanted(d)
  BY DEF Taken, Good
<1> QED
  BY <1>1, <1>2, <1>4, <1>5, <1>6, <1>7, <1>8, <1>9 DEF Good

\* mm_channel_process_stream_buf keeps the invariant.
LEMMA ProcessKeeps ==
  ASSUME SbInv, ProcessStreamBuf
  PROVE  SbInv'
<1> DEFINE q == Head(cmds)
           c == Handle(ch, q)
           d == DropExcess(c, c.attr.water_mark)
           p == SubSeq(d.list, 1, Wanted(d))
<1>1. cmds # <<>> /\ ~ch.stuck /\ cmds' = Tail(cmds) /\ last' = last
  BY DEF ProcessStreamBuf
<1>2. CommandReady(ch, q) /\ ch \in Channel
  BY <1>1, GoodReady DEF SbInv, Good
<1>3. Taken(ch, c, q, <<>>) /\ (q.cmd = "FLUSH" => c.list = <<>>)
  BY <1>2, HandleTakes
<1>4. c \in Channel /\ ListOK(c.list) /\ Stale(c) >= 0 /\ c.attr.water_mark \in Nat
  <2>1. c \in Channel /\ ListOK(c.list) /\ Stale(c) >= 0
    BY <1>2, <1>3 DEF Taken, CommandReady
  <2>2. c.attr \in Attr
    BY <2>1 DEF Channel
  <2> QED
    BY <2>1, <2>2 DEF Attr
<1>5. /\ d \in Channel /\ Keeps(c, d) /\ SameModes(c, d)
      /\ Stale(c) = 0 /\ ~c.stuck => ~d.stuck
      /\ ~d.stuck /\ d.notify_mode = BURST => MatchedIn(d.list) <= c.attr.water_mark
      /\ d.attr = c.attr
  <2>1. LET x == DropExcess(c, c.attr.water_mark)
         IN  /\ x \in Channel /\ Keeps(c, x) /\ SameModes(c, x)
             /\ Stale(c) = 0 /\ ~c.stuck => ~x.stuck
             /\ Stale(c) >= 0 /\ ~x.stuck /\ x.notify_mode = BURST => MatchedIn(x.list) <= c.attr.water_mark
    BY <1>4, DropExcessKeeps
  <2> QED
    BY <1>4, <2>1 DEF Keeps, SameBooks
<1>6. \/ (c.stuck \/ q.cmd = "FLUSH") /\ ch' = c /\ app' = app
      \/ ~c.stuck /\ q.cmd # "FLUSH" /\ d.stuck /\ ch' = d /\ app' = app
      \/ ~c.stuck /\ q.cmd # "FLUSH" /\ ~d.stuck /\ ch' = Dispatch(d) /\ app' = app \o p
  BY DEF ProcessStreamBuf
<1>7. app \in Seq(Node) /\ app \o <<>> = app
  <2>1. app \in Seq(Node)
    BY DEF SbInv, Good
  <2> QED
    BY <2>1
<1> HIDE DEF c, d, p, q
<1>8. CASE (c.stuck \/ q.cmd = "FLUSH") /\ ch' = c /\ app' = app
  <2>1. ~c.stuck => MatchedIn(c.list) <= c.attr.water_mark
    <3>1. MatchedIn(<<>>) = 0
      BY NoneHeld, ListCounts, CountEmpty
    <3> QED
      BY <1>3, <1>4, <1>8, <3>1
  <2>2. Good(c, Tail(cmds), app \o <<>>, last)
    BY <1>1, <1>3, <2>1, GoodTaken DEF SbInv, q
  <2> QED
    BY <1>1, <1>7, <1>8, <2>2 DEF SbInv
<1>9. CASE ~c.stuck /\ q.cmd # "FLUSH" /\ d.stuck /\ ch' = d /\ app' = app
  <2>1. Taken(ch, d, q, <<>>)
    BY <1>2, <1>3, <1>5, <1>9, TakenThen
  <2>2. Good(d, Tail(cmds), app \o <<>>, last)
    BY <1>1, <1>9, <2>1, GoodTaken DEF SbInv, q
  <2> QED
    BY <1>1, <1>7, <1>9, <2>2 DEF SbInv
<1>10. CASE ~c.stuck /\ q.cmd # "FLUSH" /\ ~d.stuck /\ ch' = Dispatch(d) /\ app' = app \o p
  <2> DEFINE e == Dispatch(d)
  <2>1. Taken(ch, d, q, <<>>)
    BY <1>2, <1>3, <1>5, <1>10, TakenThen
  <2>2. /\ Taken(ch, e, q, p) /\ MatchedIn(e.list) <= MatchedIn(d.list)
        /\ e.notify_mode = d.notify_mode
    BY <1>2, <1>10, <2>1, TakenThenDispatched DEF p
  <2> HIDE DEF e
  <2>3. e.notify_mode = BURST => MatchedIn(e.list) <= e.attr.water_mark
    <3>1. e.attr = d.attr /\ e \in Channel
      BY <2>1, <2>2 DEF Taken
    <3>2. MatchedIn(e.list) \in Nat /\ MatchedIn(d.list) \in Nat
      BY <1>5, <3>1, QueueTypes
    <3>3. e.notify_mode = BURST => MatchedIn(d.list) <= e.attr.water_mark
      BY <1>5, <1>10, <2>2, <3>1
    <3> QED
      BY <1>4, <1>5, <2>2, <3>1, <3>2, <3>3
  <2>4. Good(e, Tail(cmds), app \o p, last)
    BY <1>1, <2>2, <2>3, GoodTaken DEF SbInv, q
  <2> QED
    BY <1>1, <1>10, <2>4 DEF SbInv, e
<1> QED
  BY <1>6, <1>8, <1>9, <1>10

\* A frame comes from the kernel.
LEMMA RcvdBufKeeps ==
  ASSUME SbInv, NEW s \in Stream, HandleRcvdBuf(s)
  PROVE  SbInv'
<1>1. PICK m \in IF s = Meta THEN Metas ELSE {Plain} :
        \E n \in IF m.kind = "reset" THEN {1} ELSE {last[s] + 1, last[s] + 2} :
          /\ cmds' = Append(cmds, Data(s, n, m))
          /\ last' = [t \in Stream |-> IF t = s THEN n
                                       ELSE IF m.kind = "reset" THEN 0 ELSE last[t]]
  BY DEF HandleRcvdBuf
<1>2. PICK n \in IF m.kind = "reset" THEN {1} ELSE {last[s] + 1, last[s] + 2} :
          /\ cmds' = Append(cmds, Data(s, n, m))
          /\ last' = [t \in Stream |-> IF t = s THEN n
                                       ELSE IF m.kind = "reset" THEN 0 ELSE last[t]]
  BY <1>1
<1>3. ch.state = "ACTIVE" /\ ch' = [ch EXCEPT !.out[s] = @ + 1] /\ app' = app
  BY DEF HandleRcvdBuf
<1>4. /\ ch \in Channel /\ cmds \in Seq(SbCmd) /\ app \in Seq(Node) /\ last \in [Stream -> Nat]
      /\ ListOK(ch.list) /\ ch.out \in [Stream -> Int]
  BY DEF SbInv, Good, Channel
<1>5. n \in Nat /\ (m.kind # "reset" => last[s] < n)
  <2>1. last[s] \in Nat
    BY <1>4
  <2> QED
    BY <2>1
<1>6. m \in MetaInfo /\ (m.kind = "reset" => s = Meta)
  <2>1. Plain \in MetaInfo /\ Plain.kind # "reset"
    BY SuperBufAssumption DEF Plain, MetaInfo
  <2> QED
    BY <2>1, SuperBufAssumption
<1> DEFINE e == Data(s, n, m)
<1>7. e \in SbCmd /\ e.idx = n /\ (\A t \in Stream : FrameOf(e, t) <=> t = s)
      /\ (IsReset(e) <=> m.kind = "reset")
  BY <1>5, <1>6 DEF Data, SbCmd, HalCmd, FrameOf, IsReset
<1> HIDE DEF e
<1>8. cmds' = Append(cmds, e)
  BY <1>2 DEF e
<1>9. /\ last' \in [Stream -> Nat]
      /\ \A t \in Stream : FrameOf(e, t) => last'[t] = e.idx /\ (IsReset(e) \/ last[t] < e.idx)
      /\ ~IsReset(e) => \A t \in Stream : last[t] <= last'[t]
  <2>1. last' \in [Stream -> Nat]
    BY <1>2, <1>4, <1>5
  <2>2. last'[s] = n
    BY <1>2
  <2>3. m.kind # "reset" => \A t \in Stream : last[t] <= last'[t]
    BY <1>2, <1>4, <1>5
  <2> QED
    BY <1>5, <1>7, <2>1, <2>2, <2>3
<1>10. Numbered(cmds', ch.list, last')
  <2>1. Numbered(cmds, ch.list, last)
    BY DEF SbInv, Good
  <2> QED
    BY <1>4, <1>7, <1>8, <1>9, <2>1, NumberedAppend
<1> DEFINE f == [ch.out EXCEPT ![s] = @ + 1]
<1>11. f \in [Stream -> Int] /\ \A t \in Stream : f[t] = ch.out[t] + Bit(t = s)
  BY <1>4 DEF Bit
<1>12. ch' = [ch EXCEPT !.out = f]
  BY <1>3, <1>4 DEF Channel
<1> HIDE DEF f
<1>13. /\ ch' \in Channel /\ ch'.list = ch.list /\ ch'.state = ch.state /\ ch'.starts = ch.starts
       /\ ch'.attr = ch.attr /\ ch'.match_cnt = ch.match_cnt /\ ch'.out = f
       /\ ch'.notify_mode = ch.notify_mode /\ ch'.stuck = ch.stuck /\ SameModes(ch, ch')
  BY <1>4, <1>11, <1>12 DEF Channel, SameModes
<1>14. Rest(ch', cmds')
  BY <1>3, <1>13 DEF SbInv, Good, Rest
<1>15. Counted(ch') /\ Bounded(ch') /\ (~ch'.stuck => SnapshotWanted(ch'))
  BY <1>13 DEF SbInv, Good, Counted, Bounded, Stale, Unfinished, SnapshotWanted, SameModes
<1>16. Accounted(ch', cmds', app')
  <2> SUFFICES ASSUME NEW t \in Stream PROVE Loose(ch', t) = Waiting(cmds', t) + HeldIn(app', t)
    BY DEF Accounted
  <2>1. Loose(ch, t) = Waiting(cmds, t) + HeldIn(app, t)
    BY <1>3 DEF SbInv, Good, Accounted
  <2>2. Waiting(cmds', t) = Waiting(cmds, t) + Bit(FrameOf(e, t)) /\ Waiting(cmds, t) \in Nat
    BY <1>4, <1>7, <1>8, WaitingTail
  <2>3. Bit(FrameOf(e, t)) = Bit(t = s) /\ Bit(t = s) \in Int
    BY <1>7 DEF Bit
  <2>4. HeldIn(app, t) \in Nat /\ HeldIn(ch.list, t) \in Nat /\ ch.out[t] \in Int
    BY <1>4, ListCounts, QueueTypes
  <2>5. Loose(ch', t) = Loose(ch, t) + Bit(t = s)
    BY <1>11, <1>13, <2>3, <2>4 DEF Loose
  <2> QED
    BY <1>3, <2>1, <2>2, <2>3, <2>4, <2>5
<1>17. cmds' \in Seq(SbCmd)
  BY <1>4, <1>7, <1>8
<1> QED
  BY <1>3, <1>4, <1>9, <1>10, <1>13, <1>14, <1>15, <1>16, <1>17 DEF SbInv, Good

\* The HAL gives a super buffer back.
LEMMA BufDoneKeeps ==
  ASSUME SbInv, BufDone
  PROVE  SbInv'
<1>1. PICK i \in DOMAIN app : ch' = Qbuf(ch, app[i].bufs) /\ app' = Without(app, i, i)
  BY DEF BufDone
<1>2. cmds' = cmds /\ last' = last
  BY DEF BufDone
<1>3. /\ ch \in Channel /\ cmds \in Seq(SbCmd) /\ app \in Seq(Node) /\ last \in [Stream -> Nat]
      /\ ch.out \in [Stream -> Int] /\ i \in 1 .. Len(app) /\ Len(app) \in Nat
  BY <1>1 DEF SbInv, Good, Channel
<1>4. app' \in Seq(Node)
      /\ \A X : Count(app', X) = Count(app, X) - (IF app[i] \in X THEN 1 ELSE 0)
  <2>1. app' = SubSeq(app, 1, i - 1) \o SubSeq(app, i + 1, Len(app))
    BY <1>1 DEF Without, Drop
  <2> QED
    BY <1>3, <2>1, CountWithout
<1>5. \A t \in Stream : HeldIn(app', t) = HeldIn(app, t) - Bit(t \in app[i].bufs) /\ HeldIn(app, t) \in Nat
  <2> SUFFICES ASSUME NEW t \in Stream
               PROVE  HeldIn(app', t) = HeldIn(app, t) - Bit(t \in app[i].bufs) /\ HeldIn(app, t) \in Nat
    OBVIOUS
  <2>1. app[i] \in Holding(t) <=> t \in app[i].bufs
    BY <1>3 DEF Holding
  <2>2. Count(app', Holding(t)) = Count(app, Holding(t)) - Bit(t \in app[i].bufs)
    BY <1>4, <2>1 DEF Bit
  <2> QED
    BY <1>3, <1>4, <2>2, ListCounts
<1> DEFINE b == app[i].bufs
<1>6. CASE ch.state # "ACTIVE"
  <2>1. ch' = ch
    BY <1>1, <1>6 DEF Qbuf
  <2>2. Accounted(ch', cmds', app')
    BY <1>6, <2>1 DEF Accounted
  <2> QED
    BY <1>2, <1>4, <2>1, <2>2 DEF SbInv, Good
<1>7. CASE ch.state = "ACTIVE"
  <2> DEFINE f == [t \in Stream |-> ch.out[t] - Bit(t \in b)]
  <2>1. ch' = [ch EXCEPT !.out = f]
    BY <1>1, <1>7 DEF Qbuf
  <2>2. \A t \in Stream : Bit(t \in b) \in Int /\ f[t] = ch.out[t] - Bit(t \in b)
    BY DEF Bit
  <2>3. f \in [Stream -> Int]
    BY <1>3, <2>2
  <2> HIDE DEF f, b
  <2>4. /\ ch' \in Channel /\ ch'.list = ch.list /\ ch'.state = ch.state /\ ch'.starts = ch.starts
        /\ ch'.attr = ch.attr /\ ch'.match_cnt = ch.match_cnt /\ ch'.out = f
        /\ ch'.notify_mode = ch.notify_mode /\ ch'.stuck = ch.stuck /\ SameModes(ch, ch')
    BY <1>3, <2>1, <2>3 DEF Channel, SameModes
  <2>5. Rest(ch', cmds')
    BY <1>2, <1>7, <2>4 DEF SbInv, Good, Rest
  <2>6. Counted(ch') /\ Bounded(ch') /\ (~ch'.stuck => SnapshotWanted(ch'))
    BY <2>4 DEF SbInv, Good, Counted, Bounded, Stale, Unfinished, SnapshotWanted, SameModes
  <2>7. Accounted(ch', cmds', app')
    <3> SUFFICES ASSUME NEW t \in Stream PROVE Loose(ch', t) = Waiting(cmds', t) + HeldIn(app', t)
      BY DEF Accounted
    <3>1. Loose(ch, t) = Waiting(cmds, t) + HeldIn(app, t)
      BY <1>7 DEF SbInv, Good, Accounted
    <3>2. HeldIn(app', t) = HeldIn(app, t) - Bit(t \in b) /\ HeldIn(app, t) \in Nat
      BY <1>5 DEF b
    <3>3. Waiting(cmds, t) \in Nat /\ HeldIn(ch.list, t) \in Nat /\ ch.out[t] \in Int
      BY <1>3, WaitingTail, QueueTypes
    <3>4. Loose(ch', t) = Loose(ch, t) - Bit(t \in b)
      BY <2>2, <2>4, <3>3 DEF Loose
    <3> QED
      BY <1>2, <2>2, <3>1, <3>2, <3>3, <3>4
  <2> QED
    BY <1>2, <1>4, <2>4, <2>5, <2>6, <2>7 DEF SbInv, Good
<1> QED
  BY <1>6, <1>7

\* A command of the HAL.
LEMMA CommandKeeps ==
  ASSUME SbInv, NEW q \in HalCmd, NEW n \in Nat, Command(q, n)
  PROVE  SbInv'
<1> DEFINE e == Ask(q, n)
<1>1. ch.state = "ACTIVE" /\ cmds' = Append(cmds, e) /\ ch' = ch /\ app' = app /\ last' = last
  BY DEF Command
<1>2. /\ cmds \in Seq(SbCmd) /\ app \in Seq(Node) /\ last \in [Stream -> Nat] /\ ListOK(ch.list)
  BY DEF SbInv, Good
<1>3. e \in SbCmd /\ ~IsReset(e) /\ \A t \in Stream : ~FrameOf(e, t)
  <2>1. Plain \in MetaInfo
    BY SuperBufAssumption DEF Plain, MetaInfo
  <2>2. q # "DATA"
    BY DEF HalCmd
  <2> QED
    BY <2>1, <2>2, SuperBufAssumption DEF Ask, SbCmd, IsReset, FrameOf
<1> HIDE DEF e
<1>4. Numbered(cmds', ch.list, last)
  <2>1. Numbered(cmds, ch.list, last) /\ \A t \in Stream : last[t] <= last[t]
    BY <1>2 DEF SbInv, Good
  <2> QED
    BY <1>1, <1>2, <1>3, <2>1, NumberedAppend
<1>5. Accounted(ch, cmds', app)
  <2> SUFFICES ASSUME NEW t \in Stream PROVE Loose(ch, t) = Waiting(cmds', t) + HeldIn(app, t)
    BY DEF Accounted
  <2>1. Waiting(cmds', t) = Waiting(cmds, t)
    <3>1. Waiting(cmds', t) = Waiting(cmds, t) + Bit(FrameOf(e, t)) /\ Waiting(cmds, t) \in Nat
      BY <1>1, <1>2, <1>3, WaitingTail
    <3> QED
      BY <1>3, <3>1 DEF Bit
  <2> QED
    BY <1>1, <2>1 DEF SbInv, Good, Accounted
<1>6. Rest(ch, cmds')
  BY <1>1 DEF SbInv, Good, Rest
<1>7. cmds' \in Seq(SbCmd)
  BY <1>1, <1>2, <1>3
<1> QED
  BY <1>1, <1>4, <1>5, <1>6, <1>7 DEF SbInv, Good

\* A queue without super buffers.
LEMMA NothingKept ==
  /\ ListOK(<<>>) /\ MatchedIn(<<>>) = 0 /\ Cardinality(Unmatched(<<>>)) = 0
  /\ \A l : Numbered(<<>>, <<>>, l)
  /\ \A q \in Seq(SbCmd) : \A l : Numbered(q, <<>>, l) <=> CmdsInOrder(q) /\ CmdsUpToLast(q, l)
  /\ \A s : Waiting(<<>>, s) = 0
<1>1. <<>> \in Seq(Node) /\ Len(<<>>) = 0 /\ 1 .. 0 = {} /\ DOMAIN <<>> = {}
  OBVIOUS
<1>2. ListOK(<<>>)
  BY <1>1 DEF ListOK, NodesOK, MatchedFirst, InOrder
<1>3. MatchedIn(<<>>) = 0 /\ Cardinality(Unmatched(<<>>)) = 0
  BY <1>1, ListCounts, CountEmpty
<1>4. \A q, l : Numbered(q, <<>>, l) <=> CmdsInOrder(q) /\ CmdsUpToLast(q, l)
  BY <1>1 DEF Numbered, CmdsAfterList, ListUpToLast
<1>5. \A l : CmdsInOrder(<<>>) /\ CmdsUpToLast(<<>>, l)
  BY <1>1 DEF CmdsInOrder, CmdsUpToLast
<1>6. \A s : Waiting(<<>>, s) = 0
  BY <1>1, FS_EmptySet DEF Waiting
<1> QED
  BY <1>2, <1>3, <1>4, <1>5, <1>6

\* The channel is added: nothing is there yet.
LEMMA InitKeeps ==
  ASSUME SbInit
  PROVE  SbInv
<1>1. PICK a \in Attrs :
        ch = [state |-> "STOPPED", starts |-> 0, attr |-> a, list |-> <<>>, match_cnt |-> 0,
              expected_frame_id |-> 0, expected_frame_id_without_led |-> 0,
              notify_mode |-> a.notify_mode, pending_cnt |-> 0, needLEDFlash |-> FALSE,
              bracketingState |-> "OFF", manualZSLSnapshot |-> FALSE,
              startZSlSnapshotCalled |-> FALSE, isFlashBracketingEnabled |-> FALSE,
              isZoom1xFrameRequested |-> FALSE, zsl |-> FALSE,
              out |-> [s \in Stream |-> 0], stuck |-> FALSE]
  BY DEF SbInit
<1>2. cmds = <<>> /\ app = <<>> /\ last = [s \in Stream |-> 0]
  BY DEF SbInit
<1>3. a \in Attr
  BY SuperBufAssumption
<1>4. /\ a.notify_mode \in {BURST, CONTINUOUS}
      /\ a.max_unmatched_frames \in Nat /\ a.water_mark \in Nat
  BY <1>3 DEF Attr
<1>5. ch \in Channel
  <2>1. <<>> \in Seq(Node) /\ [s \in Stream |-> 0] \in [Stream -> Int] /\ 0 \in Nat /\ 0 \in Int
    OBVIOUS
  <2> QED
    BY <1>1, <1>3, <1>4, <2>1 DEF Channel
<1>6. cmds \in Seq(SbCmd) /\ app \in Seq(Node) /\ last \in [Stream -> Nat]
  BY <1>2
<1>7. ListOK(ch.list) /\ Numbered(cmds, ch.list, last)
  BY <1>1, <1>2, NothingKept
<1>8. Rest(ch, cmds)
  BY <1>1, <1>2 DEF Rest
<1>9. Counted(ch)
  BY <1>1, NothingKept DEF Counted, Stale
<1>10. Accounted(ch, cmds, app)
  BY <1>1 DEF Accounted
<1>11. Bounded(ch)
  BY <1>1, <1>4, NothingKept DEF Bounded, Unfinished
<1>12. SnapshotWanted(ch)
  BY <1>1 DEF SnapshotWanted
<1> QED
  BY <1>5, <1>6, <1>7, <1>8, <1>9, <1>10, <1>11, <1>12 DEF SbInv, Good

\* mm_channel_start.
LEMMA StartKeeps ==
  ASSUME SbInv, ChannelStart
  PROVE  SbInv'
<1>1. ch.state = "STOPPED" /\ app = <<>> /\ cmds' = cmds /\ app' = app
  BY DEF ChannelStart
<1>2. ch' = [ch EXCEPT !.state = "ACTIVE", !.starts = @ + 1, !.list = <<>>,
                 !.expected_frame_id = 0, !.expected_frame_id_without_led = 0]
  BY DEF ChannelStart
<1>3. last' = [s \in Stream |-> 0]
  BY DEF ChannelStart
<1>4. /\ ch \in Channel /\ cmds = <<>> /\ ch.list = <<>> /\ ch.starts \in Nat /\ ch.match_cnt \in Int
      /\ \A s \in Stream : ch.out[s] = 0
  BY <1>1 DEF SbInv, Good, Rest, Channel
<1>5. /\ ch'.state = "ACTIVE" /\ ch'.starts = ch.starts + 1 /\ ch'.list = <<>>
      /\ ch'.attr = ch.attr /\ ch'.match_cnt = ch.match_cnt /\ ch'.out = ch.out
      /\ ch'.notify_mode = ch.notify_mode /\ ch'.stuck = ch.stuck
      /\ ch'.zsl = ch.zsl /\ ch'.manualZSLSnapshot = ch.manualZSLSnapshot
      /\ ch'.startZSlSnapshotCalled = ch.startZSlSnapshotCalled
      /\ ch'.pending_cnt = ch.pending_cnt
  BY <1>2, <1>4 DEF Channel
<1>6. ch' \in Channel
  <2>1. <<>> \in Seq(Node) /\ ch.starts + 1 \in Nat /\ 0 \in Nat
    BY <1>4
  <2> QED
    BY <1>2, <1>4, <2>1 DEF Channel
<1>7. /\ cmds' \in Seq(SbCmd) /\ app' \in Seq(Node) /\ last' \in [Stream -> Nat]
      /\ ListOK(ch'.list) /\ Numbered(cmds', ch'.list, last')
  BY <1>1, <1>3, <1>4, <1>5, NothingKept
<1>8. Rest(ch', cmds')
  BY <1>4, <1>5 DEF Rest
<1>9. Counted(ch')
  <2>1. Stale(ch) >= 0 /\ (ch.starts = 0 => ch.match_cnt = 0) /\ (ch.starts <= 1 => ~ch.stuck)
    BY DEF SbInv, Good, Rest, Counted
  <2>2. Stale(ch') = ch.match_cnt /\ Stale(ch) = ch.match_cnt
    BY <1>4, <1>5, NothingKept DEF Stale
  <2>3. ch'.starts <= 1 => ch.starts = 0
    BY <1>4, <1>5
  <2> QED
    BY <1>4, <1>5, <2>1, <2>2, <2>3 DEF Counted
<1>10. Accounted(ch', cmds', app')
  BY <1>1, <1>4, <1>5, NothingKept, NoneHeld DEF Accounted, Loose
<1>11. Bounded(ch') /\ (~ch'.stuck => SnapshotWanted(ch'))
  BY <1>4, <1>5 DEF SbInv, Good, Bounded, Unfinished, SnapshotWanted
<1> QED
  BY <1>6, <1>7, <1>8, <1>9, <1>10, <1>11 DEF SbInv, Good

\* mm_channel_stop takes the buffers away,
LEMMA StopKeeps ==
  ASSUME SbInv, ChannelStop
  PROVE  SbInv'
<1>1. ch.state = "ACTIVE" /\ cmds' = cmds /\ app' = app /\ last' = last
  BY DEF ChannelStop
<1>2. ch' = [ch EXCEPT !.state = "STOPPING", !.out = [s \in Stream |-> 0]]
  BY DEF ChannelStop
<1>3. ch \in Channel
  BY DEF SbInv, Good
<1>4. /\ ch'.state = "STOPPING" /\ ch'.starts = ch.starts /\ ch'.list = ch.list
      /\ ch'.attr = ch.attr /\ ch'.match_cnt = ch.match_cnt
      /\ ch'.out = [s \in Stream |-> 0]
      /\ ch'.notify_mode = ch.notify_mode /\ ch'.stuck = ch.stuck
      /\ ch'.zsl = ch.zsl /\ ch'.manualZSLSnapshot = ch.manualZSLSnapshot
      /\ ch'.startZSlSnapshotCalled = ch.startZSlSnapshotCalled
      /\ ch'.pending_cnt = ch.pending_cnt
  BY <1>2, <1>3 DEF Channel
<1>5. ch' \in Channel
  <2>1. [s \in Stream |-> 0] \in [Stream -> Int]
    OBVIOUS
  <2> QED
    BY <1>2, <1>3, <2>1 DEF Channel
<1>6. Rest(ch', cmds')
  BY <1>1, <1>4 DEF SbInv, Good, Rest
<1>7. Counted(ch') /\ Accounted(ch', cmds', app') /\ Bounded(ch')
  BY <1>1, <1>4 DEF SbInv, Good, Counted, Stale, Accounted, Bounded, Unfinished
<1>8. ~ch'.stuck => SnapshotWanted(ch')
  BY <1>4 DEF SbInv, Good, SnapshotWanted
<1> QED
  BY <1>1, <1>4, <1>5, <1>6, <1>7, <1>8 DEF SbInv, Good

\* and frees the queue when its threads have ended.
LEMMA StoppedKeeps ==
  ASSUME SbInv, ChannelStopped
  PROVE  SbInv'
<1>1. ch.state = "STOPPING" /\ cmds = <<>> /\ cmds' = cmds /\ app' = app /\ last' = last
  BY DEF ChannelStopped
<1>2. ch' = [ch EXCEPT !.state = "STOPPED", !.list = <<>>]
  BY DEF ChannelStopped
<1>3. /\ ch \in Channel /\ cmds \in Seq(SbCmd) /\ app \in Seq(Node) /\ last \in [Stream -> Nat]
      /\ ch.attr.max_unmatched_frames \in Nat /\ ch.attr.water_mark \in Nat
      /\ ch.match_cnt \in Int /\ MatchedIn(ch.list) \in Nat
  <2>1. ch \in Channel
    BY DEF SbInv, Good
  <2>2. ch.attr \in Attr
    BY <2>1 DEF Channel
  <2> QED
    BY <2>1, <2>2, QueueTypes DEF SbInv, Good, Attr
<1>4. /\ ch'.state = "STOPPED" /\ ch'.starts = ch.starts /\ ch'.list = <<>>
      /\ ch'.attr = ch.attr /\ ch'.match_cnt = ch.match_cnt /\ ch'.out = ch.out
      /\ ch'.notify_mode = ch.notify_mode /\ ch'.stuck = ch.stuck
      /\ ch'.zsl = ch.zsl /\ ch'.manualZSLSnapshot = ch.manualZSLSnapshot
      /\ ch'.startZSlSnapshotCalled = ch.startZSlSnapshotCalled
      /\ ch'.pending_cnt = ch.pending_cnt
  BY <1>2, <1>3 DEF Channel
<1>5. ch' \in Channel
  <2>1. <<>> \in Seq(Node)
    OBVIOUS
  <2> QED
    BY <1>2, <1>3, <2>1 DEF Channel
<1>6. Rest(ch', cmds')
  BY <1>1, <1>4 DEF SbInv, Good, Rest
<1>7. Counted(ch')
  <2>1. Stale(ch) >= 0 /\ (ch.starts <= 1 => ~ch.stuck)
    BY DEF SbInv, Good, Counted
  <2> QED
    BY <1>3, <1>4, <2>1, NothingKept DEF Counted, Stale
<1>8. Accounted(ch', cmds', app') /\ Bounded(ch')
  BY <1>3, <1>4, NothingKept DEF Accounted, Bounded, Unfinished
<1>9. ~ch'.stuck => SnapshotWanted(ch')
  BY <1>4 DEF SbInv, Good, SnapshotWanted
<1>10. ListOK(ch'.list) /\ Numbered(cmds', ch'.list, last')
  BY <1>1, <1>4, NothingKept
<1> QED
  BY <1>1, <1>3, <1>5, <1>6, <1>7, <1>8, <1>9, <1>10 DEF SbInv, Good

-----------------------------------------------------------------------------
(* The theorems.                                                           *)

\* The books of the queue, the order of its frames and the modes of the
\* channel together are kept by every step of the threads around it.
THEOREM SbInvHolds == SbSpec => []SbInv
<1>1. SbInit => SbInv
  BY InitKeeps
<1>2. SbInv /\ [SbNext]_sbVars => SbInv'
  <2> SUFFICES ASSUME SbInv, [SbNext]_sbVars PROVE SbInv'
    OBVIOUS
  <2>1. CASE ProcessStreamBuf
    BY <2>1, ProcessKeeps
  <2>2. CASE BufDone
    BY <2>2, BufDoneKeeps
  <2>3. CASE \E s \in Stream : HandleRcvdBuf(s)
    BY <2>3, RcvdBufKeeps
  <2>4. CASE RequestSuperBuf
    <3>1. PICK n \in 1 .. 2 : Command("REQ", n)
      BY <2>4 DEF RequestSuperBuf
    <3>2. n \in Nat /\ "REQ" \in HalCmd
      BY DEF HalCmd
    <3> QED
      BY <3>1, <3>2, CommandKeeps
  <2>5. CASE CancelSuperBufRequest
    <3>1. Command("REQ", 0) /\ "REQ" \in HalCmd /\ 0 \in Nat
      BY <2>5 DEF CancelSuperBufRequest, HalCmd
    <3> QED
      BY <3>1, CommandKeeps
  <2>6. CASE FlushSuperBufQueue
    <3>1. PICK n \in 0 .. MaxFrame : Command("FLUSH", n)
      BY <2>6 DEF FlushSuperBufQueue
    <3>2. n \in Nat /\ "FLUSH" \in HalCmd
      BY SuperBufAssumption DEF HalCmd
    <3> QED
      BY <3>1, <3>2, CommandKeeps
  <2>7. CASE ZslSnapshot
    <3>1. PICK q \in {"START_ZSL", "STOP_ZSL"} : Command(q, 0)
      BY <2>7 DEF ZslSnapshot
    <3>2. q \in HalCmd /\ 0 \in Nat
      BY DEF HalCmd
    <3> QED
      BY <3>1, <3>2, CommandKeeps
  <2>8. CASE ConfigNotifyMode
    <3>1. PICK m \in Modes : Command("CONFIG_NOTIFY", Bit(m = CONTINUOUS))
      BY <2>8 DEF ConfigNotifyMode
    <3>2. Bit(m = CONTINUOUS) \in Nat /\ "CONFIG_NOTIFY" \in HalCmd
      BY DEF Bit, HalCmd
    <3> QED
      BY <3>1, <3>2, CommandKeeps
  <2>9. CASE StartAdvancedCapture
    <3>1. PICK q \in Kinds : Command(q, 1)
      BY <2>9 DEF StartAdvancedCapture
    <3>2. q \in HalCmd /\ 1 \in Nat
      BY DEF Kinds, HalCmd
    <3> QED
      BY <3>1, <3>2, CommandKeeps
  <2>10. CASE StopAdvancedCapture
    <3>1. PICK q \in Kinds : Command(q, 0)
      BY <2>10 DEF StopAdvancedCapture
    <3>2. q \in HalCmd /\ 0 \in Nat
      BY DEF Kinds, HalCmd
    <3> QED
      BY <3>1, <3>2, CommandKeeps
  <2>11. CASE ChannelStart
    BY <2>11, StartKeeps
  <2>12. CASE ChannelStop
    BY <2>12, StopKeeps
  <2>13. CASE ChannelStopped
    BY <2>13, StoppedKeeps
  <2>14. CASE UNCHANGED sbVars
    BY <2>14 DEF sbVars, SbInv
  <2> QED
    BY <2>1, <2>2, <2>3, <2>4, <2>5, <2>6, <2>7, <2>8, <2>9, <2>10, <2>11, <2>12, <2>13, <2>14
       DEF SbNext
<1> QED
  BY <1>1, <1>2, PTL DEF SbSpec

\* The channel, the commands that wait and the super buffers on their way are
\* what their types say.
THEOREM SbTypesHold == SbSpec => []SbTypeOK
<1>1. SbInv => SbTypeOK
  BY DEF SbInv, Good, SbTypeOK
<1> QED
  BY <1>1, SbInvHolds, PTL

\* Super buffers are kept in the order of their numbers, in whatever order
\* the streams' frames come and reset their numbers
\* (mm_channel_superbuf_comp_and_enqueue).
THEOREM SuperBufsStayInOrder == SbSpec => []SuperBufsInOrder
<1>1. SbInv => SuperBufsInOrder
  <2> SUFFICES ASSUME SbInv PROVE SuperBufsInOrder
    OBVIOUS
  <2>1. ch.list \in Seq(Node) /\ InOrder(ch.list)
    BY DEF SbInv, Good, ListOK
  <2>2. DOMAIN ch.list = 1 .. Len(ch.list)
    BY <2>1
  <2> QED
    BY <2>1, <2>2 DEF SuperBufsInOrder, InOrder
<1> QED
  BY <1>1, SbInvHolds, PTL

\* The count of matched super buffers is exact until the channel starts again,
\* every buffer of an active channel is in one place, and the queue is no
\* longer than the channel's attributes allow.
THEOREM QueueStaysAccounted == SbSpec => []QueueAccounted
<1>1. SbInv => QueueAccounted
  <2> SUFFICES ASSUME SbInv PROVE QueueAccounted
    OBVIOUS
  <2>1. ch \in Channel /\ ListOK(ch.list) /\ ch.list \in Seq(Node)
    BY DEF SbInv, Good, ListOK
  <2>2. MatchCountExact
    <3> SUFFICES ASSUME ch.starts <= 1, ch.state # "STOPPED"
                 PROVE  /\ ch.match_cnt \in 0 .. Len(ch.list)
                        /\ \A i \in DOMAIN ch.list : ch.list[i].matched <=> i <= ch.match_cnt
      BY DEF MatchCountExact
    <3>1. Stale(ch) = 0
      BY DEF SbInv, Good, Counted
    <3>2. ch.match_cnt = MatchedIn(ch.list)
      BY <2>1, <3>1, QueueTypes DEF Stale
    <3>3. ch.match_cnt = Ready(ch) /\ Ready(ch) \in 0 .. Len(ch.list)
          /\ \A i \in 1 .. Len(ch.list) : ch.list[i].matched <=> i <= Ready(ch)
      BY <2>1, <3>2, ReadyIs
    <3>4. DOMAIN ch.list = 1 .. Len(ch.list)
      BY <2>1
    <3> QED
      BY <3>3, <3>4
  <2>3. BuffersAccounted
    <3> SUFFICES ASSUME ch.state = "ACTIVE", NEW s \in Stream
                 PROVE  ch.out[s] = Waiting(cmds, s) + HeldIn(ch.list, s) + HeldIn(app, s)
      BY DEF BuffersAccounted, Waiting
    <3>1. Loose(ch, s) = Waiting(cmds, s) + HeldIn(app, s)
      BY DEF SbInv, Good, Accounted
    <3>2. ch.out[s] \in Int /\ HeldIn(ch.list, s) \in Nat
      BY <2>1, QueueTypes
    <3>3. Waiting(cmds, s) \in Nat /\ HeldIn(app, s) \in Nat
      BY WaitingTail, ListCounts DEF SbInv, Good
    <3> QED
      BY <3>1, <3>2, <3>3 DEF Loose
  <2>4. QueueBounded
    BY DEF SbInv, Good, Bounded, Unfinished, QueueBounded
  <2> QED
    BY <2>2, <2>3, <2>4 DEF QueueAccounted
<1> QED
  BY <1>1, SbInvHolds, PTL

\* Until the channel is started again, the loops that drop matched super
\* buffers with the queue locked end (mm_channel_superbuf_skip,
\* mm_channel_superbuf_bufdone_overflow).
THEOREM LoopsEndBeforeRestart == SbSpec => [](ch.starts <= 1 => SbLoopsEnd)
<1>1. SbInv => (ch.starts <= 1 => SbLoopsEnd)
  BY DEF SbInv, Good, Counted, SbLoopsEnd
<1> QED
  BY <1>1, SbInvHolds, PTL

\* While those loops end, the daemon takes snapshots only for a request that
\* waits, or because the HAL asked for them itself.
THEOREM SnapshotsEnd == SbSpec => [](SbLoopsEnd => SnapshotEnds)
<1>1. SbInv => (SbLoopsEnd => SnapshotEnds)
  BY DEF SbInv, Good, SnapshotWanted, SbLoopsEnd, SnapshotEnds
<1> QED
  BY <1>1, SbInvHolds, PTL
=============================================================================
