--------------------------- MODULE PostProcProofs ---------------------------
(* Theorems about the postprocessor, for every set of pictures, reprocessing, *)
(* encoding and failing at any point.  PpInv is inductive: it counts in how   *)
(* many places a super buffer is, and says what a start or a stop that is     *)
(* under way leaves to be done, and which jobs the encoder and its events     *)
(* are of.                                                                    *)
EXTENDS PostProc, QueuesProofs

PpCmds == {"JOB", "START", "STOP"}
Modes == {"reproc", "jpeg", "raw", "zsl_raw", "reproc_raw"}

PpTyped ==
    /\ pq \in [inputPPQ : Seq(Pic), ongoingPPQ : Seq(Pic), inputJpegQ : Seq(Pic),
               ongoingJpegQ : Seq(JpegJob), inputRawQ : Seq(RawFrame)]
    /\ pt \in [pc : {"cmd", "abort", "flush", "encode", "jobId", "raw", "pp", "reproc"},
               is_active : BOOLEAN, cmds : Seq(PpCmds), pic : Pic \cup {NoPic}]
    /\ ext \in [open : BOOLEAN, reproc : Seq(Pic), outputs : SUBSET Pic,
                encoder : SUBSET Pic, evts : Seq(Pic), notifier : SUBSET Pic]
    /\ hal \in [pc : {"stopped", "starting", "started", "stopping"}, mode : Modes,
                longshot : BOOLEAN, runs : Nat, channel : BOOLEAN, came : SUBSET Pic]
    /\ freed \in [Pic -> Nat] /\ mishap \in [Pic -> Mishaps]

\* Where a super buffer is, counted.
JobsOf(p) == {j \in JpegJob : j.pic = p}
Encoded(p) == Count(pq.ongoingJpegQ, JobsOf(p))
AtNotifier(p) == IF p \in ext.notifier THEN 1 ELSE 0
Placed(p) ==
    Count(pq.inputPPQ, {p}) + Count(pq.ongoingPPQ, {p}) + Count(pq.inputJpegQ, {p})
    + Encoded(p) + Count(pq.inputRawQ, {Source(p)}) + AtNotifier(p)

EachAccounted == \A p \in Pic : Placed(p) + freed[p] = Due(p)

\* What the code keeps or releases twice had come, and is kept in no place.
Mishandled ==
    \A p \in Pic : /\ mishap[p] # "none" => p \in hal.came
                   /\ mishap[p] = "twice" => freed[p] >= 2

\* A start or a stop that has been asked for waits as a command, once.
Stopping == pt.pc \in {"abort", "flush"}
Commands ==
    /\ Count(pt.cmds, {"START"}) = IF hal.pc = "starting" THEN 1 ELSE 0
    /\ Count(pt.cmds, {"STOP"}) = IF hal.pc = "stopping" /\ ~Stopping THEN 1 ELSE 0
    /\ pt.is_active <=> hal.pc \in {"started", "stopping"} /\ ~Stopping
    /\ Stopping => hal.pc = "stopping"
    /\ pt.pc # "cmd" => hal.pc \in {"started", "stopping"}

\* What is ongoing at the reprocess channel, and nothing before a start.
Reprocessed ==
    /\ pt.pc \notin {"reproc", "flush"} => pq.ongoingPPQ = ext.reproc
    /\ pt.pc = "reproc" => pt.pic \in Pic /\ pq.ongoingPPQ = Append(ext.reproc, pt.pic)
    /\ pt.pc = "flush" => ext.reproc = <<>> /\ ~ext.open /\ pq.ongoingJpegQ = <<>>
    /\ hal.pc = "stopped" => ~ext.open
    /\ hal.pc \in {"stopped", "starting"} => pq.ongoingPPQ = <<>> /\ pq.ongoingJpegQ = <<>>

\* The encoder works on ongoing jobs; its events are of jobs that are ongoing
\* or released, and not of the one it is about to get.
LastJob == pq.ongoingJpegQ[Len(pq.ongoingJpegQ)]
Encoding ==
    /\ pt.pc = "encode" => /\ pt.pic \in Pic /\ pq.ongoingJpegQ # <<>>
                           /\ LastJob = [pic |-> pt.pic, known |-> FALSE]
                           /\ pt.pic \notin ext.encoder
    /\ \A p \in ext.encoder : Encoded(p) # 0
    /\ \A p \in Elems(ext.evts) :
          /\ p \notin ext.encoder
          /\ freed[p] # 0 \/ Encoded(p) # 0
          /\ ~(pt.pc = "encode" /\ pt.pic = p)

PpInv == PpTyped /\ EachAccounted /\ Commands /\ Reprocessed /\ Encoding

-----------------------------------------------------------------------------
(* Lemmas about the queues.                                                *)

\* The counts are numbers.
LEMMA PlaceCounts ==
  ASSUME PpTyped, NEW p \in Pic
  PROVE  /\ Count(pq.inputPPQ, {p}) \in Nat /\ Count(pq.ongoingPPQ, {p}) \in Nat
         /\ Count(pq.inputJpegQ, {p}) \in Nat /\ Encoded(p) \in Nat
         /\ Count(pq.inputRawQ, {Source(p)}) \in Nat
         /\ AtNotifier(p) \in 0 .. 1 /\ Due(p) \in 0 .. 2 /\ freed[p] \in Nat
<1>1. /\ pq.inputPPQ \in Seq(Pic) /\ pq.ongoingPPQ \in Seq(Pic) /\ pq.inputJpegQ \in Seq(Pic)
      /\ pq.ongoingJpegQ \in Seq(JpegJob) /\ pq.inputRawQ \in Seq(RawFrame) /\ freed[p] \in Nat
      /\ mishap[p] \in Mishaps
  BY DEF PpTyped
<1> QED
  BY <1>1, CountType DEF Encoded, AtNotifier, Due, Mishaps

\* What is released once more.
LEMMA FreedAll ==
  ASSUME PpTyped, NEW S, FreeAll(S)
  PROVE  /\ freed' \in [Pic -> Nat]
         /\ \A p \in Pic : /\ freed'[p] = freed[p] + (IF p \in S THEN 1 ELSE 0)
                           /\ freed'[p] >= freed[p]
BY DEF PpTyped, FreeAll

\* A super buffer in a place is there once, and not released before.
LEMMA PlacedOnce ==
  ASSUME PpTyped, EachAccounted, Mishandled, NEW p \in Pic
  PROVE  /\ Placed(p) \in 0 .. 1
         /\ Placed(p) = 1 => freed[p] = 0 /\ mishap[p] = "none" /\ p \in hal.came
<1>1. Placed(p) \in Nat /\ freed[p] \in Nat
  <2>1. /\ Count(pq.inputPPQ, {p}) \in Nat /\ Count(pq.ongoingPPQ, {p}) \in Nat
        /\ Count(pq.inputJpegQ, {p}) \in Nat /\ Encoded(p) \in Nat
        /\ Count(pq.inputRawQ, {Source(p)}) \in Nat
        /\ AtNotifier(p) \in 0 .. 1 /\ freed[p] \in Nat
    BY PlaceCounts
  <2> QED
    BY <2>1 DEF Placed
<1>2. Placed(p) + freed[p] = Due(p) /\ mishap[p] \in Mishaps
  BY DEF EachAccounted, PpTyped
<1>3. CASE mishap[p] = "none"
  BY <1>1, <1>2, <1>3 DEF Due
<1>4. CASE mishap[p] \in {"nomem", "kept"}
  BY <1>1, <1>2, <1>4 DEF Due
<1>5. CASE mishap[p] = "twice"
  <2>1. freed[p] >= 2
    BY <1>5 DEF Mishandled
  <2> QED
    BY <1>1, <1>2, <1>5, <2>1 DEF Due
<1> QED
  BY <1>2, <1>3, <1>4, <1>5 DEF Mishaps

\* Raw frames are super buffers or not.
LEMMA RawFrames ==
  ASSUME NEW p \in Pic
  PROVE  /\ Source(p) \in RawFrame /\ ReprocFrame(p) \in RawFrame
         /\ \A r \in Pic : /\ Source(p) \in {Source(r)} <=> p \in {r}
                          /\ ReprocFrame(p) \notin {Source(r)}
         /\ \A F : p \in SourcesIn(F) <=> Source(p) \in F
<1>1. Source(p).pic = p /\ ~Source(p).reproc /\ ReprocFrame(p).reproc
  BY DEF Source, ReprocFrame
<1>2. \A r \in Pic : Source(r).pic = r /\ ~Source(r).reproc
  BY DEF Source
<1>3. \A r \in Pic : (Source(p) \in {Source(r)} <=> p \in {r}) /\ ReprocFrame(p) \notin {Source(r)}
  BY <1>1, <1>2
<1>4. Source(p) \in RawFrame /\ ReprocFrame(p) \in RawFrame
  BY DEF Source, ReprocFrame, RawFrame
<1> QED
  BY <1>3, <1>4 DEF SourcesIn

\* The elements of a queue are those it has.
LEMMA ElemsCounted ==
  ASSUME NEW S, NEW q \in Seq(S), NEW e
  PROVE  e \in Elems(q) <=> Count(q, {e}) # 0
<1>1. Count(q, {e}) = 0 <=> \A i \in 1 .. Len(q) : q[i] \notin {e}
  BY CountType
<1> QED
  BY <1>1 DEF Elems

\* They are one more when one is put at the end, and no others when one is taken.
LEMMA ElemsChanged ==
  ASSUME NEW S, NEW q \in Seq(S)
  PROVE  /\ \A e \in S : Elems(Append(q, e)) = Elems(q) \cup {e}
         /\ q # <<>> => \A e \in Elems(Tail(q)) : e \in Elems(q)
         /\ q # <<>> => Head(q) \in Elems(q)
<1>1. ASSUME NEW e \in S PROVE Elems(Append(q, e)) = Elems(q) \cup {e}
  <2> DEFINE r == Append(q, e)
             n == Len(q) + 1
  <2>1. /\ DOMAIN r = 1 .. n /\ DOMAIN q = 1 .. Len(q) /\ r[n] = e
        /\ \A i \in 1 .. Len(q) : r[i] = q[i]
    OBVIOUS
  <2>2. 1 .. n = (1 .. Len(q)) \cup {n}
    OBVIOUS
  <2> HIDE DEF r, n
  <2>3. Elems(r) = Elems(q) \cup {e}
    BY <2>1, <2>2 DEF Elems
  <2> QED
    BY <2>3 DEF r
<1>2. ASSUME q # <<>>, NEW e \in Elems(Tail(q)) PROVE e \in Elems(q)
  <2>1. PICK i \in 1 .. Len(q) - 1 : e = q[i + 1]
    <3>1. Len(Tail(q)) = Len(q) - 1 /\ \A i \in 1 .. Len(Tail(q)) : Tail(q)[i] = q[i + 1]
      BY <1>2, HeadTailProperties
    <3>2. DOMAIN Tail(q) = 1 .. Len(Tail(q))
      BY <1>2, HeadTailProperties
    <3> QED
      BY <1>2, <3>1, <3>2 DEF Elems
  <2>2. i + 1 \in DOMAIN q
    OBVIOUS
  <2> QED
    BY <2>1, <2>2 DEF Elems
<1>3. ASSUME q # <<>> PROVE Head(q) \in Elems(q)
  <2>1. 1 \in DOMAIN q /\ Head(q) = q[1]
    BY <1>3
  <2> QED
    BY <2>1 DEF Elems
<1> QED
  BY <1>1, <1>2, <1>3

\* The first and the rest, of an empty queue, too.
LEMMA FirstAndRest ==
  ASSUME NEW S, NEW q \in Seq(S)
  PROVE  /\ RestOf(q) \in Seq(S) /\ FirstOf(q) \in SUBSET S
         /\ \A e : Count(RestOf(q), {e}) = Count(q, {e}) - (IF e \in FirstOf(q) THEN 1 ELSE 0)
<1>1. CASE q = <<>>
  <2>1. RestOf(q) = q /\ FirstOf(q) = {}
    BY <1>1 DEF RestOf, FirstOf
  <2>2. \A e : Count(q, {e}) \in Nat
    BY CountType
  <2>3. \A e : Count(RestOf(q), {e}) = Count(q, {e}) - (IF e \in FirstOf(q) THEN 1 ELSE 0)
    BY <2>1, <2>2
  <2>4. RestOf(q) \in Seq(S) /\ FirstOf(q) \in SUBSET S
    BY <2>1
  <2> QED
    BY <2>3, <2>4
<1>2. CASE q # <<>>
  <2>1. RestOf(q) = Tail(q) /\ FirstOf(q) = {Head(q)} /\ Head(q) \in S /\ Tail(q) \in Seq(S)
    BY <1>2 DEF RestOf, FirstOf
  <2>2. ASSUME NEW e
        PROVE  Count(Tail(q), {e}) = Count(q, {e}) - (IF e \in {Head(q)} THEN 1 ELSE 0)
    <3>1. Count(Tail(q), {e}) = Count(q, {e}) - (IF Head(q) \in {e} THEN 1 ELSE 0)
      BY <1>2, CountTail
    <3> QED
      BY <3>1
  <2> QED
    BY <2>1, <2>2
<1> QED
  BY <1>1, <1>2

\* All but the last, and the last, are the queue.
LEMMA LastOut ==
  ASSUME NEW S, NEW q \in Seq(S), q # <<>>
  PROVE  /\ AllButLast(q) \in Seq(S) /\ q[Len(q)] \in S /\ Len(q) \in Nat \ {0}
         /\ Append(AllButLast(q), q[Len(q)]) = q
         /\ \A X : Count(AllButLast(q), X) = Count(q, X) - (IF q[Len(q)] \in X THEN 1 ELSE 0)
<1> DEFINE n == Len(q)
           r == AllButLast(q)
           x == q[n]
<1>1. n \in Nat /\ n # 0 /\ x \in S
  OBVIOUS
<1>2. r \in Seq(S) /\ Len(r) = n - 1 /\ \A i \in 1 .. n - 1 : r[i] = q[i]
  <2>1. n - 1 \in Int /\ \A i \in 1 .. n - 1 : q[i] \in S
    BY <1>1
  <2> DEFINE m == n - 1
  <2>2. /\ SubSeq(q, 1, m) \in Seq(S)
        /\ Len(SubSeq(q, 1, m)) = IF 1 <= m THEN m - 1 + 1 ELSE 0
        /\ \A i \in 1 .. m - 1 + 1 : SubSeq(q, 1, m)[i] = q[1 + i - 1]
    <3> HIDE DEF n, m
    <3> QED
      BY <2>1, SubSeqProperties DEF m
  <2>3. r = SubSeq(q, 1, m)
    BY DEF AllButLast
  <2>4. \A i \in 1 .. n - 1 : i \in 1 .. m - 1 + 1 /\ 1 + i - 1 = i
    BY <1>1
  <2>5. \A i \in 1 .. n - 1 : SubSeq(q, 1, m)[i] = q[i]
    BY <2>2, <2>4
  <2>6. (IF 1 <= m THEN m - 1 + 1 ELSE 0) = n - 1
    <3>1. m \in Nat /\ m = n - 1
      BY <1>1
    <3> HIDE DEF n, m
    <3> QED
      BY <3>1
  <2> HIDE DEF r, m, n
  <2> QED
    BY <2>2, <2>3, <2>5, <2>6
<1> HIDE DEF r
<1>3. Append(r, x) \in Seq(S) /\ Len(Append(r, x)) = n
      /\ \A i \in 1 .. n : Append(r, x)[i] = q[i]
  BY <1>1, <1>2
<1>4. Append(r, x) = q
  <2> DEFINE t == Append(r, x)
  <2>1. t \in Seq(S) /\ Len(t) = Len(q) /\ \A i \in 1 .. Len(t) : t[i] = q[i]
    BY <1>3
  <2> HIDE DEF t
  <2>2. t = q
    BY <2>1, SeqEqual
  <2> QED
    BY <2>2 DEF t
<1>5. ASSUME NEW X PROVE Count(r, X) = Count(q, X) - (IF x \in X THEN 1 ELSE 0)
  <2> HIDE DEF x
  <2>1. Count(Append(r, x), X) = Count(r, X) + (IF x \in X THEN 1 ELSE 0)
    BY <1>1, <1>2, CountAppend
  <2>2. Count(r, X) \in Nat
    BY <1>2, CountType
  <2> QED
    BY <1>4, <2>1, <2>2
<1> QED
  BY <1>1, <1>2, <1>4, <1>5 DEF r

\* A node that is kept is the last one if it was.
LEMMA KeptLast ==
  ASSUME NEW S, NEW q \in Seq(S), NEW K \in SUBSET (1 .. Len(q)), q # <<>>, Len(q) \in K
  PROVE  Kept(q, K) # <<>> /\ Kept(q, K)[Len(Kept(q, K))] = q[Len(q)]
<1>1. /\ Kept(q, K) \in Seq(S)
      /\ \E f \in [1 .. Len(Kept(q, K)) -> K] :
             /\ \A i \in 1 .. Len(Kept(q, K)) : Kept(q, K)[i] = q[f[i]]
             /\ \A i, j \in 1 .. Len(Kept(q, K)) : i < j => f[i] < f[j]
             /\ \A k \in K : \E i \in 1 .. Len(Kept(q, K)) : f[i] = k
  BY KeptNodes
<1> DEFINE r == Kept(q, K)
<1>2. PICK f \in [1 .. Len(r) -> K] :
             /\ \A i \in 1 .. Len(r) : r[i] = q[f[i]]
             /\ \A i, j \in 1 .. Len(r) : i < j => f[i] < f[j]
             /\ \A k \in K : \E i \in 1 .. Len(r) : f[i] = k
  BY <1>1
<1>3. r \in Seq(S) /\ Len(r) \in Nat /\ Len(q) \in Nat
  BY <1>1
<1> HIDE DEF r
<1>4. PICK i \in 1 .. Len(r) : f[i] = Len(q)
  BY <1>2
<1>5. i = Len(r)
  <2> SUFFICES ASSUME i # Len(r) PROVE FALSE
    OBVIOUS
  <2> DEFINE n == Len(r)
  <2>1. n \in 1 .. Len(r) /\ i < n
    BY <1>3, <1>4
  <2>2. f[i] < f[n] /\ f[n] \in K
    BY <1>2, <2>1
  <2>3. f[n] \in 1 .. Len(q)
    BY <2>2
  <2> HIDE DEF n
  <2> QED
    BY <1>3, <1>4, <2>2, <2>3
<1> QED
  BY <1>2, <1>3, <1>4, <1>5 DEF r

\* A job command is put at the end.
LEMMA Woken ==
  ASSUME PpTyped
  PROVE  /\ Append(pt.cmds, "JOB") \in Seq(PpCmds)
         /\ Count(Append(pt.cmds, "JOB"), {"START"}) = Count(pt.cmds, {"START"})
         /\ Count(Append(pt.cmds, "JOB"), {"STOP"}) = Count(pt.cmds, {"STOP"})
<1>1. pt.cmds \in Seq(PpCmds) /\ "JOB" \in PpCmds
  BY DEF PpTyped, PpCmds
<1>2. \A X : Count(Append(pt.cmds, "JOB"), X) = Count(pt.cmds, X) + (IF "JOB" \in X THEN 1 ELSE 0)
  BY <1>1, CountAppend
<1>3. \A X : Count(pt.cmds, X) \in Nat
  BY <1>1, CountType
<1>4. "JOB" \notin {"START"} /\ "JOB" \notin {"STOP"}
  OBVIOUS
<1> QED
  BY <1>1, <1>2, <1>3, <1>4

\* A command is taken.
LEMMA CmdTaken ==
  ASSUME PpTyped, NEW c, TakeCmd(c)
  PROVE  /\ Tail(pt.cmds) \in Seq(PpCmds)
         /\ Count(Tail(pt.cmds), {"START"})
               = Count(pt.cmds, {"START"}) - (IF c = "START" THEN 1 ELSE 0)
         /\ Count(Tail(pt.cmds), {"STOP"})
               = Count(pt.cmds, {"STOP"}) - (IF c = "STOP" THEN 1 ELSE 0)
         /\ Count(pt.cmds, {"START"}) \in Nat /\ Count(pt.cmds, {"STOP"}) \in Nat
         /\ c = "START" => Count(pt.cmds, {"START"}) # 0
         /\ c = "STOP" => Count(pt.cmds, {"STOP"}) # 0
<1>1. pt.cmds \in Seq(PpCmds) /\ pt.cmds # <<>> /\ Head(pt.cmds) = c
  BY DEF PpTyped, TakeCmd
<1>2. \A X : Count(Tail(pt.cmds), X)
               = Count(pt.cmds, X) - (IF Head(pt.cmds) \in X THEN 1 ELSE 0)
  BY <1>1, CountTail
<1>3. Tail(pt.cmds) \in Seq(PpCmds)
  BY <1>1
<1>4. \A X : Count(pt.cmds, X) \in Nat /\ Count(Tail(pt.cmds), X) \in Nat
  BY <1>1, <1>3, CountType
<1> QED
  BY <1>1, <1>2, <1>3, <1>4

\* What the encoder has stays with it while its jobs stay.
LEMMA EncodingKept ==
  ASSUME PpInv, PpTyped', ext'.encoder = ext.encoder, ext'.evts = ext.evts,
         \A p \in Pic : Encoded(p)' = Encoded(p) /\ freed'[p] >= freed[p],
         pt'.pc = "encode" => /\ pt.pc = "encode" /\ pt'.pic = pt.pic
                              /\ pq'.ongoingJpegQ = pq.ongoingJpegQ
  PROVE  Encoding'
<1>1. \A p \in Elems(ext.evts) : p \in Pic
  BY SMTT(30) DEF PpInv, PpTyped, Elems
<1>2. \A p \in ext.encoder : p \in Pic
  BY DEF PpInv, PpTyped
<1>3. \A p \in Pic : freed[p] \in Nat /\ freed'[p] \in Nat
  BY DEF PpInv, PpTyped
<1>4. ASSUME NEW p \in Elems(ext'.evts)
      PROVE  /\ p \notin ext'.encoder
             /\ freed'[p] # 0 \/ Encoded(p)' # 0
             /\ ~(pt'.pc = "encode" /\ pt'.pic = p)
  <2>1. p \in Pic /\ p \in Elems(ext.evts)
    BY <1>1, <1>4
  <2>2. p \notin ext.encoder /\ (freed[p] # 0 \/ Encoded(p) # 0) /\ ~(pt.pc = "encode" /\ pt.pic = p)
    BY <2>1 DEF PpInv, Encoding
  <2> QED
    BY <1>3, <2>1, <2>2
<1>5. ASSUME NEW p \in ext'.encoder PROVE Encoded(p)' # 0
  BY <1>2 DEF PpInv, Encoding
<1>6. ASSUME pt'.pc = "encode"
      PROVE  /\ pt'.pic \in Pic /\ pq'.ongoingJpegQ # <<>>
             /\ LastJob' = [pic |-> pt'.pic, known |-> FALSE]
             /\ pt'.pic \notin ext'.encoder
  BY <1>6 DEF PpInv, Encoding, LastJob
<1>7. Elems(ext.evts)' = Elems(ext'.evts)
  BY DEF Elems
<1> QED
  BY <1>4, <1>5, <1>6, <1>7 DEF Encoding
-----------------------------------------------------------------------------
(* The steps.                                                              *)

\* A frame for the encoder is left to nobody,
LEMMA FrameDropped ==
  ASSUME PpInv, Mishandled, NEW p \in Pic, p \notin hal.came,
         hal' = [hal EXCEPT !.came = @ \cup {p}],
         mishap' = [mishap EXCEPT ![p] = "nomem"], UNCHANGED <<pq, pt, ext, freed>>
  PROVE  PpInv'
<1> USE DEF PpInv
<1>1. /\ hal'.came = hal.came \cup {p} /\ hal'.pc = hal.pc
      /\ mishap \in [Pic -> Mishaps] /\ "nomem" \in Mishaps
  BY DEF PpTyped, Mishaps
<1>2. PpTyped'
  BY <1>1 DEF PpTyped
<1>3. ASSUME NEW r \in Pic PROVE (Placed(r) + freed[r] = Due(r))'
  <2>1. /\ Placed(r)' = Placed(r) /\ freed'[r] = freed[r]
    BY DEF Placed, AtNotifier, Encoded
  <2>2. Placed(r) + freed[r] = Due(r)
    BY DEF EachAccounted
  <2>3. Due(r)' = Due(r)
    <3>1. CASE r = p
      <4>1. mishap[p] = "none" /\ mishap'[p] = "nomem"
        BY <1>1 DEF Mishandled
      <4> QED
        BY <3>1, <4>1 DEF Due
    <3>2. CASE r # p
      <4>1. mishap'[r] = mishap[r] /\ (r \in hal'.came <=> r \in hal.came)
        BY <1>1, <3>2
      <4> QED
        BY <4>1 DEF Due
    <3> QED
      BY <3>1, <3>2
  <2> QED
    BY <2>1, <2>2, <2>3
<1>4. Commands' /\ Reprocessed'
  BY <1>1 DEF Commands, Reprocessed, Stopping
<1>5. \A r \in Pic : Encoded(r)' = Encoded(r) /\ freed'[r] >= freed[r]
  BY DEF Encoded, PpTyped
<1>6. Encoding'
  BY <1>2, <1>5, EncodingKept
<1> QED
  BY <1>2, <1>3, <1>4, <1>6 DEF EachAccounted

\* or comes in.
LEMMA FrameProcessed ==
  ASSUME PpInv, Mishandled, NEW p \in Pic, ProcessFrame(p)
  PROVE  PpInv'
<1> USE DEF PpInv
<1>0. CASE mishap' = [mishap EXCEPT ![p] = "nomem"] /\ UNCHANGED <<pq, pt>>
  <2>1. p \notin hal.came /\ hal' = [hal EXCEPT !.came = @ \cup {p}] /\ UNCHANGED <<ext, freed>>
    BY DEF ProcessFrame
  <2> QED
    BY <1>0, <2>1, FrameDropped
<1> SUFFICES ASSUME ~(mishap' = [mishap EXCEPT ![p] = "nomem"] /\ UNCHANGED <<pq, pt>>)
             PROVE  PpInv'
  BY <1>0
<1>1. /\ p \notin hal.came /\ hal' = [hal EXCEPT !.came = @ \cup {p}]
      /\ pt' = [pt EXCEPT !.cmds = Append(@, "JOB")] /\ ext' = ext /\ freed' = freed
      /\ mishap' = mishap /\ mishap[p] = "none"
  BY DEF ProcessFrame, WakeDataThread, Mishandled
<1>2. /\ hal'.came = hal.came \cup {p} /\ hal'.pc = hal.pc /\ pt'.pc = pt.pc
      /\ pt'.pic = pt.pic /\ pt'.is_active = pt.is_active /\ pt'.cmds = Append(pt.cmds, "JOB")
  BY <1>1 DEF PpTyped
<1>3. \/ pq' = [pq EXCEPT !.inputPPQ = Append(@, p)]
      \/ pq' = [pq EXCEPT !.inputRawQ = Append(@, Source(p))]
      \/ pq' = [pq EXCEPT !.inputJpegQ = Append(@, p)]
  <2>1. Reprocesses \/ hal.mode \in {"raw", "zsl_raw"} \/ hal.mode = "jpeg"
    BY DEF PpTyped, Modes, Reprocesses
  <2>2. hal.mode \in {"raw", "zsl_raw"} => ~Reprocesses
    BY DEF Reprocesses
  <2>3. hal.mode = "jpeg" => ~Reprocesses /\ hal.mode \notin {"raw", "zsl_raw"}
    BY DEF Reprocesses
  <2>4. pq' = CASE Reprocesses -> [pq EXCEPT !.inputPPQ = Append(@, p)]
               [] hal.mode \in {"raw", "zsl_raw"} ->
                      [pq EXCEPT !.inputRawQ = Append(@, Source(p))]
               [] hal.mode = "jpeg" -> [pq EXCEPT !.inputJpegQ = Append(@, p)]
    BY DEF ProcessFrame
  <2> QED
    BY <2>1, <2>2, <2>3, <2>4
<1>4. /\ pq.inputPPQ \in Seq(Pic) /\ pq.inputJpegQ \in Seq(Pic)
      /\ pq.inputRawQ \in Seq(RawFrame) /\ Source(p) \in RawFrame
  BY RawFrames DEF PpTyped
<1>5. /\ pq'.ongoingPPQ = pq.ongoingPPQ /\ pq'.ongoingJpegQ = pq.ongoingJpegQ
      /\ \/ /\ pq'.inputPPQ = Append(pq.inputPPQ, p) /\ pq'.inputRawQ = pq.inputRawQ
            /\ pq'.inputJpegQ = pq.inputJpegQ
         \/ /\ pq'.inputPPQ = pq.inputPPQ /\ pq'.inputRawQ = Append(pq.inputRawQ, Source(p))
            /\ pq'.inputJpegQ = pq.inputJpegQ
         \/ /\ pq'.inputPPQ = pq.inputPPQ /\ pq'.inputRawQ = pq.inputRawQ
            /\ pq'.inputJpegQ = Append(pq.inputJpegQ, p)
  BY <1>3, SMTT(30) DEF PpTyped
<1>6. PpTyped'
  <2>1. /\ Append(pq.inputPPQ, p) \in Seq(Pic) /\ Append(pq.inputJpegQ, p) \in Seq(Pic)
        /\ Append(pq.inputRawQ, Source(p)) \in Seq(RawFrame)
    BY <1>4
  <2>2. pq' \in [inputPPQ : Seq(Pic), ongoingPPQ : Seq(Pic), inputJpegQ : Seq(Pic),
                 ongoingJpegQ : Seq(JpegJob), inputRawQ : Seq(RawFrame)]
    BY <1>3, <2>1 DEF PpTyped
  <2> QED
    BY <1>1, <2>2, Woken DEF PpTyped
<1>7. ASSUME NEW r \in Pic PROVE (Placed(r) + freed[r] = Due(r))'
  <2> DEFINE one == IF p \in {r} THEN 1 ELSE 0
  <2>1. /\ Count(Append(pq.inputPPQ, p), {r}) = Count(pq.inputPPQ, {r}) + one
        /\ Count(Append(pq.inputJpegQ, p), {r}) = Count(pq.inputJpegQ, {r}) + one
        /\ Count(Append(pq.inputRawQ, Source(p)), {Source(r)})
             = Count(pq.inputRawQ, {Source(r)}) + one
    <3>1. Source(p) \in {Source(r)} <=> p \in {r}
      BY RawFrames
    <3> QED
      BY <1>4, <3>1, CountAppend
  <2>2. one \in 0 .. 1 /\ Due(r)' = Due(r) + one
    <3>1. CASE r = p
      BY <1>1, <1>2, <3>1 DEF Due
    <3>2. CASE r # p
      <4>1. one = 0 /\ mishap'[r] = mishap[r] /\ (r \in hal'.came <=> r \in hal.came)
        BY <1>1, <1>2, <3>2
      <4>2. Due(r)' = Due(r)
        BY <4>1 DEF Due
      <4>3. Due(r) \in 0 .. 2
        BY PlaceCounts
      <4> QED
        BY <4>1, <4>2, <4>3
    <3> QED
      BY <3>1, <3>2
  <2>3. /\ Encoded(r)' = Encoded(r) /\ AtNotifier(r)' = AtNotifier(r) /\ freed'[r] = freed[r]
        /\ Count(pq'.ongoingPPQ, {r}) = Count(pq.ongoingPPQ, {r})
    BY <1>1, <1>5 DEF Encoded, AtNotifier
  <2>4. Placed(r) + freed[r] = Due(r)
    BY DEF EachAccounted
  <2>5. Count(pq'.inputPPQ, {r}) + Count(pq'.inputJpegQ, {r}) + Count(pq'.inputRawQ, {Source(r)})
          = Count(pq.inputPPQ, {r}) + Count(pq.inputJpegQ, {r}) + Count(pq.inputRawQ, {Source(r)}) + one
    <3>1. /\ Count(pq.inputPPQ, {r}) \in Nat /\ Count(pq.inputJpegQ, {r}) \in Nat
          /\ Count(pq.inputRawQ, {Source(r)}) \in Nat
      BY PlaceCounts
    <3> HIDE DEF one
    <3>2. CASE /\ pq'.inputPPQ = Append(pq.inputPPQ, p) /\ pq'.inputRawQ = pq.inputRawQ
               /\ pq'.inputJpegQ = pq.inputJpegQ
      BY <2>1, <2>2, <3>1, <3>2
    <3>3. CASE /\ pq'.inputPPQ = pq.inputPPQ /\ pq'.inputRawQ = Append(pq.inputRawQ, Source(p))
               /\ pq'.inputJpegQ = pq.inputJpegQ
      BY <2>1, <2>2, <3>1, <3>3
    <3>4. CASE /\ pq'.inputPPQ = pq.inputPPQ /\ pq'.inputRawQ = pq.inputRawQ
               /\ pq'.inputJpegQ = Append(pq.inputJpegQ, p)
      BY <2>1, <2>2, <3>1, <3>4
    <3> QED
      BY <1>5, <3>2, <3>3, <3>4
  <2>6. /\ Count(pq'.inputPPQ, {r}) \in Nat /\ Count(pq'.inputJpegQ, {r}) \in Nat
        /\ Count(pq'.inputRawQ, {Source(r)}) \in Nat
    <3>1. /\ pq'.inputPPQ \in Seq(Pic) /\ pq'.inputJpegQ \in Seq(Pic)
          /\ pq'.inputRawQ \in Seq(RawFrame)
      BY <1>6 DEF PpTyped
    <3> QED
      BY <3>1, CountType
  <2> HIDE DEF one
  <2>7. /\ Count(pq.inputPPQ, {r}) \in Nat /\ Count(pq.ongoingPPQ, {r}) \in Nat
        /\ Count(pq.inputJpegQ, {r}) \in Nat /\ Encoded(r) \in Nat
        /\ Count(pq.inputRawQ, {Source(r)}) \in Nat
        /\ AtNotifier(r) \in Nat /\ Due(r) \in Nat /\ freed[r] \in Nat
    BY PlaceCounts
  <2> QED
    BY <2>2, <2>3, <2>4, <2>5, <2>6, <2>7 DEF Placed
<1>8. Commands'
  BY <1>2, Woken DEF Commands, Stopping
<1>9. Reprocessed'
  BY <1>1, <1>2, <1>5 DEF Reprocessed
<1>10. \A r \in Pic : Encoded(r)' = Encoded(r) /\ freed'[r] >= freed[r]
  BY <1>1, <1>5 DEF Encoded, PpTyped
<1>11. Encoding'
  BY <1>1, <1>2, <1>5, <1>6, <1>10, EncodingKept
<1> QED
  BY <1>6, <1>7, <1>8, <1>9, <1>11 DEF EachAccounted

\* Where nothing is moved or released everything has its place.
LEMMA PlacesKept ==
  ASSUME PpInv, UNCHANGED <<pq, freed, mishap>>, ext'.notifier = ext.notifier, hal'.came = hal.came
  PROVE  EachAccounted' /\ \A p \in Pic : Encoded(p)' = Encoded(p) /\ freed'[p] >= freed[p]
<1>1. \A p \in Pic : freed[p] \in Nat
  BY DEF PpInv, PpTyped
<1>2. \A p \in Pic : /\ Placed(p)' = Placed(p) /\ Due(p)' = Due(p)
                     /\ Encoded(p)' = Encoded(p)
  BY DEF Placed, Due, Encoded, AtNotifier
<1> QED
  BY <1>1, <1>2 DEF PpInv, EachAccounted

\* The postprocessor is started,
LEMMA ProcStarted ==
  ASSUME PpInv, StartProc
  PROVE  PpInv'
<1> USE DEF PpInv
<1>1. /\ TakeCmd("START") /\ pt.pc = "cmd" /\ UNCHANGED <<pq, ext, freed, mishap>>
      /\ pt' = [pt EXCEPT !.cmds = Tail(@), !.is_active = TRUE]
      /\ hal' = [hal EXCEPT !.pc = "started"]
  BY DEF StartProc, TakeCmd
<1>2. /\ hal'.pc = "started" /\ hal'.came = hal.came /\ pt'.pc = "cmd" /\ pt'.is_active = TRUE
      /\ pt'.cmds = Tail(pt.cmds) /\ pt'.pic = pt.pic
  BY <1>1 DEF PpTyped
<1>3. PpTyped'
  BY <1>1, CmdTaken DEF PpTyped
<1>4. Commands'
  <2>1. hal.pc = "starting" /\ Count(pt.cmds, {"START"}) = 1 /\ Count(pt.cmds, {"STOP"}) = 0
    BY <1>1, CmdTaken DEF Commands
  <2>2. Count(Tail(pt.cmds), {"START"}) = 0 /\ Count(Tail(pt.cmds), {"STOP"}) = 0
    BY <1>1, <2>1, CmdTaken
  <2> QED
    BY <1>2, <2>2 DEF Commands, Stopping
<1>5. Reprocessed'
  BY <1>1, <1>2 DEF Reprocessed
<1>6. EachAccounted' /\ Encoding'
  BY <1>1, <1>2, <1>3, PlacesKept, EncodingKept
<1> QED
  BY <1>3, <1>4, <1>5, <1>6

\* and stopped: first the thread stops working,
LEMMA ProcStopped ==
  ASSUME PpInv, StopProc
  PROVE  PpInv'
<1> USE DEF PpInv
<1>1. /\ TakeCmd("STOP") /\ pt.pc = "cmd" /\ UNCHANGED <<pq, ext, hal, freed, mishap>>
      /\ pt' = [pt EXCEPT !.cmds = Tail(@), !.is_active = FALSE, !.pc = "abort"]
  BY DEF StopProc, TakeCmd
<1>2. /\ pt'.pc = "abort" /\ pt'.is_active = FALSE /\ pt'.cmds = Tail(pt.cmds)
      /\ pt'.pic = pt.pic
  BY <1>1 DEF PpTyped
<1>3. PpTyped'
  BY <1>1, CmdTaken DEF PpTyped
<1>4. Commands'
  <2>1. hal.pc = "stopping" /\ Count(pt.cmds, {"START"}) = 0 /\ Count(pt.cmds, {"STOP"}) = 1
    BY <1>1, CmdTaken DEF Commands
  <2>2. Count(Tail(pt.cmds), {"START"}) = 0 /\ Count(Tail(pt.cmds), {"STOP"}) = 0
    BY <1>1, <2>1, CmdTaken
  <2> QED
    BY <1>1, <1>2, <2>1, <2>2 DEF Commands, Stopping
<1>5. Reprocessed'
  BY <1>1, <1>2 DEF Reprocessed
<1>6. EachAccounted' /\ Encoding'
  BY <1>1, <1>2, <1>3, PlacesKept, EncodingKept
<1> QED
  BY <1>3, <1>4, <1>5, <1>6

\* then the reprocess channel ends.
LEMMA ReprocStopped ==
  ASSUME PpInv, StopReproc
  PROVE  PpInv'
<1> USE DEF PpInv
<1>1. /\ pt.pc = "abort" /\ pq.ongoingJpegQ = <<>> /\ UNCHANGED <<pq, hal, freed, mishap>>
      /\ ext' = [ext EXCEPT !.open = FALSE, !.reproc = <<>>, !.outputs = {}]
      /\ pt' = [pt EXCEPT !.pc = "flush"]
  BY DEF StopReproc, PtGoto
<1>2. /\ pt'.pc = "flush" /\ pt'.is_active = pt.is_active /\ pt'.cmds = pt.cmds
      /\ pt'.pic = pt.pic /\ ext'.reproc = <<>> /\ ~ext'.open /\ ext'.encoder = ext.encoder
      /\ ext'.evts = ext.evts /\ ext'.notifier = ext.notifier
  BY <1>1 DEF PpTyped
<1>3. PpTyped'
  <2>1. <<>> \in Seq(Pic)
    OBVIOUS
  <2> QED
    BY <1>1, <2>1 DEF PpTyped
<1>4. Commands'
  BY <1>1, <1>2 DEF Commands, Stopping
<1>5. Reprocessed'
  BY <1>1, <1>2 DEF Reprocessed, Commands, Stopping
<1>6. EachAccounted' /\ Encoding'
  BY <1>1, <1>2, <1>3, PlacesKept, EncodingKept
<1> QED
  BY <1>3, <1>4, <1>5, <1>6

\* The encoder gets the job.
LEMMA DataEncoded ==
  ASSUME PpInv, EncodeData
  PROVE  PpInv'
<1> USE DEF PpInv
<1>1. /\ pt.pc = "encode" /\ UNCHANGED <<pq, hal, freed, mishap>>
      /\ ext' = [ext EXCEPT !.encoder = @ \cup {pt.pic}]
      /\ pt' = [pt EXCEPT !.pc = "jobId"]
  BY DEF EncodeData, PtGoto
<1>2. /\ pt'.pc = "jobId" /\ pt'.is_active = pt.is_active /\ pt'.cmds = pt.cmds
      /\ pt'.pic = pt.pic /\ ext'.reproc = ext.reproc /\ ext'.open = ext.open
      /\ ext'.encoder = ext.encoder \cup {pt.pic}
      /\ ext'.evts = ext.evts /\ ext'.notifier = ext.notifier
  BY <1>1 DEF PpTyped
<1>3. /\ pt.pic \in Pic /\ pq.ongoingJpegQ # <<>> /\ LastJob = [pic |-> pt.pic, known |-> FALSE]
  BY <1>1 DEF Encoding
<1>4. PpTyped'
  BY <1>1, <1>3 DEF PpTyped
<1>5. Commands'
  BY <1>1, <1>2 DEF Commands, Stopping
<1>6. Reprocessed'
  BY <1>1, <1>2 DEF Reprocessed
<1>7. EachAccounted' /\ \A p \in Pic : Encoded(p)' = Encoded(p) /\ freed'[p] >= freed[p]
  BY <1>1, <1>2, PlacesKept
<1>8. Encoded(pt.pic) # 0
  <2>1. LastJob \in JobsOf(pt.pic)
    BY <1>3 DEF JobsOf, JpegJob
  <2>2. pq.ongoingJpegQ \in Seq(JpegJob) /\ Len(pq.ongoingJpegQ) \in 1 .. Len(pq.ongoingJpegQ)
    <3>1. pq.ongoingJpegQ \in Seq(JpegJob)
      BY DEF PpTyped
    <3> QED
      BY <1>3, <3>1, LastOut
  <2> QED
    BY <2>1, <2>2, CountType DEF Encoded, LastJob
<1>9. Encoding'
  <2>1. \A p \in ext'.encoder : p \in Pic /\ Encoded(p) # 0
    BY <1>2, <1>3, <1>8 DEF Encoding, PpTyped
  <2>2. \A p \in Elems(ext.evts) : /\ p \in Pic /\ p \notin ext.encoder /\ p # pt.pic
                                   /\ freed[p] # 0 \/ Encoded(p) # 0
    <3>1. \A p \in Elems(ext.evts) : p \in Pic
      BY DEF PpTyped, Elems
    <3> QED
      BY <1>1, <3>1 DEF Encoding
  <2>3. Elems(ext.evts)' = Elems(ext.evts)
    BY <1>2 DEF Elems
  <2> QED
    BY <1>1, <1>2, <1>7, <2>1, <2>2, <2>3 DEF Encoding
<1> QED
  BY <1>4, <1>5, <1>6, <1>7, <1>9

\* The reprocess channel gets the frame.
LEMMA FrameReprocessed ==
  ASSUME PpInv, Reprocess
  PROVE  PpInv'
<1> USE DEF PpInv
<1>1. /\ pt.pc = "reproc" /\ UNCHANGED <<pq, hal, freed, mishap>>
      /\ ext' = [ext EXCEPT !.reproc = Append(@, pt.pic)]
      /\ pt' = [pt EXCEPT !.pc = "cmd", !.pic = NoPic]
  BY DEF Reprocess
<1>2. /\ pt'.pc = "cmd" /\ pt'.is_active = pt.is_active /\ pt'.cmds = pt.cmds
      /\ ext'.reproc = Append(ext.reproc, pt.pic) /\ ext'.open = ext.open
      /\ ext'.encoder = ext.encoder
      /\ ext'.evts = ext.evts /\ ext'.notifier = ext.notifier
  BY <1>1 DEF PpTyped
<1>3. pt.pic \in Pic /\ pq.ongoingPPQ = Append(ext.reproc, pt.pic)
  BY <1>1 DEF Reprocessed
<1>4. PpTyped'
  <2>1. Append(ext.reproc, pt.pic) \in Seq(Pic)
    BY <1>3 DEF PpTyped
  <2> QED
    BY <1>1, <2>1 DEF PpTyped
<1>5. Commands'
  BY <1>1, <1>2 DEF Commands, Stopping
<1>6. Reprocessed'
  BY <1>1, <1>2, <1>3 DEF Reprocessed, Commands
<1>7. EachAccounted' /\ Encoding'
  BY <1>1, <1>2, <1>4, PlacesKept, EncodingKept
<1> QED
  BY <1>4, <1>5, <1>6, <1>7

\* The encoder is done with one.
LEMMA JpegIsDone ==
  ASSUME PpInv, JpegDone
  PROVE  PpInv'
<1> USE DEF PpInv
<1>1. PICK p \in ext.encoder :
        ext' = [ext EXCEPT !.encoder = @ \ {p}, !.evts = Append(@, p)]
  BY DEF JpegDone
<1>2. UNCHANGED <<pq, pt, hal, freed, mishap>> /\ p \in Pic
  BY DEF JpegDone, PpTyped
<1>3. /\ ext'.reproc = ext.reproc /\ ext'.open = ext.open /\ ext'.encoder = ext.encoder \ {p}
      /\ ext'.evts = Append(ext.evts, p) /\ ext'.notifier = ext.notifier
  BY <1>1 DEF PpTyped
<1>4. PpTyped'
  <2>1. Append(ext.evts, p) \in Seq(Pic)
    BY <1>2 DEF PpTyped
  <2> QED
    BY <1>1, <1>2, <2>1 DEF PpTyped
<1>5. Commands'
  BY <1>2 DEF Commands, Stopping
<1>6. Reprocessed'
  BY <1>2, <1>3 DEF Reprocessed
<1>7. EachAccounted' /\ \A r \in Pic : Encoded(r)' = Encoded(r) /\ freed'[r] >= freed[r]
  BY <1>2, <1>3, PlacesKept
<1>8. Elems(ext.evts)' = Elems(ext.evts) \cup {p}
  <2>1. ext.evts \in Seq(Pic)
    BY DEF PpTyped
  <2>2. Elems(ext'.evts) = Elems(ext.evts) \cup {p}
    BY <1>2, <1>3, <2>1, ElemsChanged
  <2> QED
    BY <2>2 DEF Elems
<1>9. \A r \in Elems(ext.evts) : r \in Pic
  BY DEF PpTyped, Elems
<1>10. Encoded(p) # 0 /\ ~(pt.pc = "encode" /\ pt.pic = p)
  BY <1>1 DEF Encoding
<1>11. Encoding'
  <2>1. \A r \in ext'.encoder : Encoded(r)' # 0
    BY <1>3, <1>7 DEF Encoding, PpTyped
  <2>2. \A r \in Elems(ext.evts) \cup {p} :
           /\ r \notin ext'.encoder
           /\ freed[r] # 0 \/ Encoded(r)' # 0
           /\ ~(pt.pc = "encode" /\ pt.pic = r)
    BY <1>2, <1>3, <1>7, <1>9, <1>10 DEF Encoding
  <2>3. LastJob' = LastJob
    BY <1>2 DEF LastJob
  <2> QED
    BY <1>2, <1>3, <1>8, <2>1, <2>2, <2>3 DEF Encoding
<1> QED
  BY <1>4, <1>5, <1>6, <1>7, <1>11

\* A start is asked for,
LEMMA PpStarted ==
  ASSUME PpInv, StartPp
  PROVE  PpInv'
<1> USE DEF PpInv
<1>1. PICK m \in PpModes, l \in BOOLEAN :
        /\ hal' = [hal EXCEPT !.pc = "starting", !.mode = m, !.longshot = l,
                      !.runs = @ + 1, !.channel = TRUE]
        /\ ext' = [ext EXCEPT !.open = m \in {"reproc", "reproc_raw"}]
  BY DEF StartPp
<1>2. /\ hal.pc = "stopped" /\ pt' = [pt EXCEPT !.cmds = Append(@, "START")]
      /\ UNCHANGED <<pq, freed, mishap>>
  BY DEF StartPp
<1>3. /\ hal'.pc = "starting" /\ hal'.came = hal.came /\ pt'.pc = pt.pc
      /\ pt'.pic = pt.pic /\ pt'.is_active = pt.is_active /\ pt'.cmds = Append(pt.cmds, "START")
      /\ ext'.reproc = ext.reproc /\ ext'.encoder = ext.encoder
      /\ ext'.evts = ext.evts /\ ext'.notifier = ext.notifier
  BY <1>1, <1>2 DEF PpTyped
<1>4. pt.pc = "cmd"
  BY <1>2 DEF Commands
<1>5. pt.cmds \in Seq(PpCmds) /\ "START" \in PpCmds
  BY DEF PpTyped, PpCmds
<1>6. /\ Append(pt.cmds, "START") \in Seq(PpCmds)
      /\ Count(Append(pt.cmds, "START"), {"START"}) = Count(pt.cmds, {"START"}) + 1
      /\ Count(Append(pt.cmds, "START"), {"STOP"}) = Count(pt.cmds, {"STOP"}) + 0
  <2>1. \A X : Count(Append(pt.cmds, "START"), X) = Count(pt.cmds, X) + (IF "START" \in X THEN 1 ELSE 0)
    BY <1>5, CountAppend
  <2>2. "START" \in {"START"} /\ "START" \notin {"STOP"}
    OBVIOUS
  <2> QED
    BY <1>5, <2>1, <2>2
<1>7. PpTyped'
  <2>1. m \in Modes /\ hal.runs + 1 \in Nat /\ (m \in {"reproc", "reproc_raw"}) \in BOOLEAN
    BY <1>1, PostProcAssumption DEF Modes, PpTyped
  <2>2. ext' \in [open : BOOLEAN, reproc : Seq(Pic), outputs : SUBSET Pic,
                encoder : SUBSET Pic, evts : Seq(Pic), notifier : SUBSET Pic]
    <3> DEFINE o == m \in {"reproc", "reproc_raw"}
    <3>1. ext' = [ext EXCEPT !.open = o] /\ o \in BOOLEAN
      BY <1>1
    <3> HIDE DEF o
    <3> QED
      BY <3>1 DEF PpTyped
  <2>3. hal' \in [pc : {"stopped", "starting", "started", "stopping"}, mode : Modes,
                longshot : BOOLEAN, runs : Nat, channel : BOOLEAN, came : SUBSET Pic]
    <3> DEFINE n == hal.runs + 1
    <3>1. hal' = [hal EXCEPT !.pc = "starting", !.mode = m, !.longshot = l,
                      !.runs = n, !.channel = TRUE] /\ n \in Nat
      BY <1>1, <2>1 DEF PpTyped
    <3> HIDE DEF n
    <3> QED
      BY <2>1, <3>1 DEF PpTyped
  <2> QED
    BY <1>2, <1>6, <2>2, <2>3 DEF PpTyped
<1>8. Commands'
  <2>1. Count(pt.cmds, {"START"}) = 0 /\ Count(pt.cmds, {"STOP"}) = 0
    BY <1>2 DEF Commands
  <2> QED
    BY <1>2, <1>3, <1>4, <1>6, <2>1 DEF Commands, Stopping
<1>9. Reprocessed'
  BY <1>2, <1>3, <1>4 DEF Reprocessed
<1>10. EachAccounted' /\ Encoding'
  BY <1>2, <1>3, <1>7, PlacesKept, EncodingKept
<1> QED
  BY <1>7, <1>8, <1>9, <1>10

\* a stop goes to the head,
LEMMA PpStopped ==
  ASSUME PpInv, StopPp
  PROVE  PpInv'
<1> USE DEF PpInv
<1>1. /\ hal.pc = "started" /\ hal' = [hal EXCEPT !.pc = "stopping"]
      /\ pt' = [pt EXCEPT !.cmds = <<"STOP">> \o @] /\ UNCHANGED <<pq, ext, freed, mishap>>
  BY DEF StopPp
<1>2. /\ hal'.pc = "stopping" /\ hal'.came = hal.came /\ pt'.pc = pt.pc
      /\ pt'.pic = pt.pic /\ pt'.is_active = pt.is_active /\ pt'.cmds = <<"STOP">> \o pt.cmds
  BY <1>1 DEF PpTyped
<1>3. pt.cmds \in Seq(PpCmds) /\ "STOP" \in PpCmds
  BY DEF PpTyped, PpCmds
<1>4. /\ <<"STOP">> \o pt.cmds \in Seq(PpCmds)
      /\ Count(<<"STOP">> \o pt.cmds, {"STOP"}) = Count(pt.cmds, {"STOP"}) + 1
      /\ Count(<<"STOP">> \o pt.cmds, {"START"}) = Count(pt.cmds, {"START"}) + 0
  <2>1. \A X : Count(<<"STOP">> \o pt.cmds, X) = Count(pt.cmds, X) + (IF "STOP" \in X THEN 1 ELSE 0)
    BY <1>3, CountCons
  <2>2. "STOP" \in {"STOP"} /\ "STOP" \notin {"START"}
    OBVIOUS
  <2>3. <<"STOP">> \o pt.cmds \in Seq(PpCmds)
    BY <1>3
  <2> QED
    BY <1>3, <2>1, <2>2, <2>3
<1>5. PpTyped'
  BY <1>1, <1>4 DEF PpTyped
<1>6. Commands'
  BY <1>1, <1>2, <1>4 DEF Commands, Stopping
<1>7. Reprocessed'
  BY <1>1, <1>2 DEF Reprocessed
<1>8. EachAccounted' /\ Encoding'
  BY <1>1, <1>2, <1>5, PlacesKept, EncodingKept
<1> QED
  BY <1>5, <1>6, <1>7, <1>8

\* and then the frames end.
LEMMA SourceStopped ==
  ASSUME PpInv, StopSource
  PROVE  PpInv'
<1> USE DEF PpInv
<1>1. /\ hal' = [hal EXCEPT !.channel = FALSE] /\ UNCHANGED <<pq, pt, ext, freed, mishap>>
  BY DEF StopSource
<1>2. hal'.pc = hal.pc /\ hal'.came = hal.came
  BY <1>1 DEF PpTyped
<1>3. PpTyped'
  BY <1>1 DEF PpTyped
<1>4. Commands' /\ Reprocessed'
  BY <1>1, <1>2 DEF Commands, Reprocessed, Stopping
<1>5. EachAccounted' /\ Encoding'
  BY <1>1, <1>2, <1>3, PlacesKept, EncodingKept
<1> QED
  BY <1>3, <1>4, <1>5

\* A frame comes back from the reprocess channel.
LEMMA PPDataProcessed ==
  ASSUME PpInv, Mishandled, ProcessPPData
  PROVE  PpInv'
<1> USE DEF PpInv
<1> DEFINE p == Head(pq.ongoingPPQ)
<1>1. /\ ext.reproc # <<>> /\ pq.ongoingPPQ # <<>> /\ UNCHANGED hal
      /\ ext' = [ext EXCEPT !.reproc = Tail(@), !.outputs = @ \cup {Head(ext.reproc)}]
      /\ \/ /\ pq' = [pq EXCEPT !.ongoingPPQ = Tail(@), !.inputRawQ = Append(@, ReprocFrame(p))]
            /\ pt' = [pt EXCEPT !.cmds = Append(@, "JOB")] /\ FreeAll({p}) /\ mishap' = mishap
         \/ /\ pq' = [pq EXCEPT !.ongoingPPQ = Tail(@), !.inputJpegQ = Append(@, p)]
            /\ pt' = [pt EXCEPT !.cmds = Append(@, "JOB")] /\ UNCHANGED <<freed, mishap>>
         \/ /\ pq' = [pq EXCEPT !.ongoingPPQ = Tail(@)]
            /\ mishap' = [mishap EXCEPT ![p] = "nomem"] /\ UNCHANGED <<pt, freed>>
  BY DEF ProcessPPData, WakeDataThread
<1>2. /\ pq.ongoingPPQ \in Seq(Pic) /\ ext.reproc \in Seq(Pic)
      /\ pq.inputRawQ \in Seq(RawFrame) /\ pq.inputJpegQ \in Seq(Pic)
  BY DEF PpTyped
<1>3. p \in Pic /\ Tail(pq.ongoingPPQ) \in Seq(Pic) /\ Head(ext.reproc) \in Pic
      /\ Tail(ext.reproc) \in Seq(Pic)
  BY <1>1, <1>2
<1>4. /\ pt'.pc = pt.pc /\ pt'.pic = pt.pic /\ pt'.is_active = pt.is_active
      /\ \/ pt' = pt
         \/ pt' = [pt EXCEPT !.cmds = Append(@, "JOB")] /\ pt'.cmds = Append(pt.cmds, "JOB")
  BY <1>1 DEF PpTyped
<1>5. /\ ext'.reproc = Tail(ext.reproc) /\ ext'.open = ext.open
      /\ ext'.encoder = ext.encoder /\ ext'.evts = ext.evts /\ ext'.notifier = ext.notifier
  BY <1>1 DEF PpTyped
<1>6. /\ pq'.ongoingPPQ = Tail(pq.ongoingPPQ) /\ pq'.ongoingJpegQ = pq.ongoingJpegQ
      /\ pq'.inputPPQ = pq.inputPPQ
      /\ \/ /\ pq'.inputRawQ = Append(pq.inputRawQ, ReprocFrame(p))
            /\ pq'.inputJpegQ = pq.inputJpegQ /\ FreeAll({p}) /\ mishap' = mishap
         \/ /\ pq'.inputRawQ = pq.inputRawQ /\ pq'.inputJpegQ = Append(pq.inputJpegQ, p)
            /\ freed' = freed /\ mishap' = mishap
         \/ /\ pq'.inputRawQ = pq.inputRawQ /\ pq'.inputJpegQ = pq.inputJpegQ
            /\ freed' = freed /\ mishap' = [mishap EXCEPT ![p] = "nomem"]
  <2> DEFINE a == ReprocFrame(p)
  <2> HIDE DEF p, a
  <2>1. CASE /\ pq' = [pq EXCEPT !.ongoingPPQ = Tail(@), !.inputRawQ = Append(@, a)]
             /\ FreeAll({p}) /\ mishap' = mishap
    BY <2>1 DEF PpTyped, a
  <2>2. CASE /\ pq' = [pq EXCEPT !.ongoingPPQ = Tail(@), !.inputJpegQ = Append(@, p)]
             /\ UNCHANGED <<freed, mishap>>
    BY <2>2 DEF PpTyped
  <2>3. CASE /\ pq' = [pq EXCEPT !.ongoingPPQ = Tail(@)]
             /\ mishap' = [mishap EXCEPT ![p] = "nomem"] /\ UNCHANGED freed
    BY <2>3 DEF PpTyped
  <2> QED
    BY <1>1, <2>1, <2>2, <2>3 DEF a
<1>7. Count(pq.ongoingPPQ, {p}) # 0
  BY <1>1, <1>2, ElemsChanged, ElemsCounted
<1> HIDE DEF p
<1>8. freed' \in [Pic -> Nat] /\ \A r \in Pic : freed'[r] >= freed[r]
  BY <1>6, FreedAll DEF PpTyped
<1>9. PpTyped'
  <2>1. Append(pq.inputRawQ, ReprocFrame(p)) \in Seq(RawFrame) /\ Append(pq.inputJpegQ, p) \in Seq(Pic)
    BY <1>2, <1>3, RawFrames
  <2>2. pq' \in [inputPPQ : Seq(Pic), ongoingPPQ : Seq(Pic), inputJpegQ : Seq(Pic),
                 ongoingJpegQ : Seq(JpegJob), inputRawQ : Seq(RawFrame)]
    <3>1. Tail(pq.ongoingPPQ) \in Seq(Pic)
      BY <1>3
    <3> DEFINE a == ReprocFrame(p)
               b == Append(pq.inputRawQ, a)
               c == Append(pq.inputJpegQ, p)
               d == Tail(pq.ongoingPPQ)
    <3>2. b \in Seq(RawFrame) /\ c \in Seq(Pic) /\ d \in Seq(Pic)
      BY <2>1, <3>1
    <3>3. \/ pq' = [pq EXCEPT !.ongoingPPQ = d, !.inputRawQ = b]
          \/ pq' = [pq EXCEPT !.ongoingPPQ = d, !.inputJpegQ = c]
          \/ pq' = [pq EXCEPT !.ongoingPPQ = d]
      BY <1>1, Zenon
    <3> HIDE DEF a, b, c, d
    <3> QED
      BY <3>2, <3>3 DEF PpTyped
  <2>3. ext' \in [open : BOOLEAN, reproc : Seq(Pic), outputs : SUBSET Pic,
                encoder : SUBSET Pic, evts : Seq(Pic), notifier : SUBSET Pic]
    BY <1>1, <1>3 DEF PpTyped
  <2>4. mishap' \in [Pic -> Mishaps]
    BY <1>6 DEF PpTyped, Mishaps
  <2>5. pt' \in [pc : {"cmd", "abort", "flush", "encode", "jobId", "raw", "pp", "reproc"},
               is_active : BOOLEAN, cmds : Seq(PpCmds), pic : Pic \cup {NoPic}]
    BY <1>4, Woken DEF PpTyped
  <2> QED
    BY <1>1, <1>8, <2>2, <2>3, <2>4, <2>5 DEF PpTyped
<1>10. ASSUME NEW r \in Pic PROVE (Placed(r) + freed[r] = Due(r))'
  <2> DEFINE one == IF p \in {r} THEN 1 ELSE 0
             a == Count(pq.inputJpegQ, {r})
             b == Count(pq.inputRawQ, {Source(r)})
             c == Count(pq.ongoingPPQ, {r})
             d == Count(pq.inputPPQ, {r}) + Encoded(r) + AtNotifier(r)
  <2>1. /\ Count(Append(pq.inputJpegQ, p), {r}) = a + one
        /\ Count(Tail(pq.ongoingPPQ), {r}) = c - one
    BY <1>1, <1>2, <1>3, CountAppend, CountTail DEF p
  <2>2. Count(Append(pq.inputRawQ, ReprocFrame(p)), {Source(r)}) = b
    <3>1. ReprocFrame(p) \notin {Source(r)} /\ ReprocFrame(p) \in RawFrame
      BY <1>3, RawFrames
    <3>2. b \in Nat
      BY PlaceCounts
    <3>3. Count(Append(pq.inputRawQ, ReprocFrame(p)), {Source(r)})
            = b + (IF ReprocFrame(p) \in {Source(r)} THEN 1 ELSE 0)
      BY <1>2, <3>1, CountAppend
    <3> QED
      BY <3>1, <3>2, <3>3
  <2>3. /\ Encoded(r)' = Encoded(r) /\ AtNotifier(r)' = AtNotifier(r)
        /\ Count(pq'.inputPPQ, {r}) = Count(pq.inputPPQ, {r})
    BY <1>5, <1>6 DEF Encoded, AtNotifier
  <2>4. a \in Nat /\ b \in Nat /\ c \in Nat /\ d \in Nat /\ freed[r] \in Nat
    <3>1. /\ Count(pq.inputPPQ, {r}) \in Nat /\ Count(pq.ongoingPPQ, {r}) \in Nat
          /\ Count(pq.inputJpegQ, {r}) \in Nat /\ Encoded(r) \in Nat
          /\ Count(pq.inputRawQ, {Source(r)}) \in Nat
          /\ AtNotifier(r) \in 0 .. 1 /\ freed[r] \in Nat
      BY PlaceCounts
    <3> QED
      BY <3>1
  <2>5. Placed(r) = a + b + c + d
    <3>1. /\ Count(pq.inputPPQ, {r}) \in Nat /\ Encoded(r) \in Nat /\ AtNotifier(r) \in 0 .. 1
      BY PlaceCounts
    <3>2. Placed(r) = Count(pq.inputPPQ, {r}) + c + a + Encoded(r) + b + AtNotifier(r)
      BY DEF Placed
    <3> HIDE DEF a, b, c
    <3> QED
      BY <2>4, <3>1, <3>2
  <2>6. Placed(r)' = Count(pq'.inputJpegQ, {r}) + Count(pq'.inputRawQ, {Source(r)}) + (c - one) + d
    <3>1. /\ Count(pq.inputPPQ, {r}) \in Nat /\ Encoded(r) \in Nat /\ AtNotifier(r) \in 0 .. 1
      BY PlaceCounts
    <3>2. Placed(r)' = Count(pq.inputPPQ, {r}) + (c - one) + Count(pq'.inputJpegQ, {r})
                         + Encoded(r) + Count(pq'.inputRawQ, {Source(r)}) + AtNotifier(r)
      BY <1>6, <2>1, <2>3 DEF Placed
    <3>3. Count(pq'.inputJpegQ, {r}) \in Nat /\ Count(pq'.inputRawQ, {Source(r)}) \in Nat
      <4>1. pq'.inputJpegQ \in Seq(Pic) /\ pq'.inputRawQ \in Seq(RawFrame)
        BY <1>9 DEF PpTyped
      <4> QED
        BY <4>1, CountType
    <3>4. one \in 0 .. 1
      OBVIOUS
    <3> HIDE DEF c, one
    <3> QED
      BY <2>4, <3>1, <3>2, <3>3, <3>4
  <2>7. Placed(r) + freed[r] = Due(r)
    BY DEF EachAccounted
  <2>8. mishap' = mishap => Due(r)' = Due(r)
    BY <1>1 DEF Due
  <2>9. CASE /\ pq'.inputRawQ = Append(pq.inputRawQ, ReprocFrame(p))
             /\ pq'.inputJpegQ = pq.inputJpegQ /\ FreeAll({p}) /\ mishap' = mishap
    <3>1. freed'[r] = freed[r] + (IF r \in {p} THEN 1 ELSE 0)
      BY <2>9, FreedAll
    <3>2. freed'[r] = freed[r] + one
      BY <3>1
    <3>3. Placed(r)' = a + b + (c - one) + d
      BY <2>2, <2>6, <2>9
    <3>4. one \in 0 .. 1
      OBVIOUS
    <3> HIDE DEF a, b, c, d, one
    <3> QED
      BY <2>4, <2>5, <2>7, <2>8, <2>9, <3>2, <3>3, <3>4
  <2>10. CASE /\ pq'.inputRawQ = pq.inputRawQ /\ pq'.inputJpegQ = Append(pq.inputJpegQ, p)
              /\ freed' = freed /\ mishap' = mishap
    <3>1. Placed(r)' = (a + one) + b + (c - one) + d
      BY <2>1, <2>6, <2>10
    <3>2. one \in 0 .. 1
      OBVIOUS
    <3> HIDE DEF a, b, c, d, one
    <3> QED
      BY <2>4, <2>5, <2>7, <2>8, <2>10, <3>1, <3>2
  <2>11. CASE /\ pq'.inputRawQ = pq.inputRawQ /\ pq'.inputJpegQ = pq.inputJpegQ
              /\ freed' = freed /\ mishap' = [mishap EXCEPT ![p] = "nomem"]
    <3>1. Placed(r)' = a + b + (c - one) + d
      BY <2>6, <2>11
    <3>2. CASE r = p
      <4>1. c # 0 /\ one = 1
        BY <1>7, <3>2
      <4>2. Placed(r) = 1 /\ freed[r] = 0
        <5>1. /\ Placed(r) \in 0 .. 1
              /\ Placed(r) = 1 => freed[r] = 0 /\ mishap[r] = "none" /\ r \in hal.came
          BY PlacedOnce
        <5> HIDE DEF a, b, c, d
        <5> QED
          BY <2>4, <2>5, <4>1, <5>1
      <4>3. mishap'[r] = "nomem"
        BY <2>11, <3>2 DEF PpTyped
      <4>4. Due(r)' = 0
        BY <4>3 DEF Due
      <4> HIDE DEF a, b, c, d, one
      <4> QED
        BY <2>4, <2>5, <2>11, <3>1, <4>1, <4>2, <4>4
    <3>3. CASE r # p
      <4>1. mishap'[r] = mishap[r]
        BY <2>11, <3>3 DEF PpTyped
      <4>2. Due(r)' = Due(r)
        BY <1>1, <4>1 DEF Due
      <4>3. one = 0
        BY <3>3
      <4> HIDE DEF a, b, c, d, one
      <4> QED
        BY <2>4, <2>5, <2>7, <2>11, <3>1, <4>2, <4>3
    <3> QED
      BY <3>2, <3>3
  <2> HIDE DEF one
  <2> QED
    BY <1>6, <2>9, <2>10, <2>11
<1>11. Commands'
  BY <1>1, <1>4, Woken DEF Commands, Stopping
<1>12. Reprocessed'
  <2>1. CASE pt.pc = "reproc"
    <3>1. pt.pic \in Pic /\ pq.ongoingPPQ = Append(ext.reproc, pt.pic)
      BY <2>1 DEF Reprocessed
    <3>2. Tail(Append(ext.reproc, pt.pic)) = Append(Tail(ext.reproc), pt.pic)
      BY <1>1, <1>2, <3>1
    <3>3. hal.pc \in {"started", "stopping"}
      BY <2>1 DEF Commands
    <3> QED
      BY <1>1, <1>4, <1>5, <1>6, <2>1, <3>1, <3>2, <3>3, SMTT(30) DEF Reprocessed
  <2>2. CASE pt.pc # "reproc"
    BY <1>1, <1>4, <1>5, <1>6, <2>2 DEF Reprocessed
  <2> QED
    BY <2>1, <2>2
<1>13. \A r \in Pic : Encoded(r)' = Encoded(r) /\ freed'[r] >= freed[r]
  BY <1>6, <1>8 DEF Encoded
<1>14. Encoding'
  BY <1>4, <1>5, <1>6, <1>9, <1>13, EncodingKept
<1> QED
  BY <1>9, <1>10, <1>11, <1>12, <1>14 DEF EachAccounted

\* The first job of the encoder is aborted.
LEMMA JobAborted ==
  ASSUME PpInv, AbortJob
  PROVE  PpInv'
<1> USE DEF PpInv
<1> DEFINE h == Head(pq.ongoingJpegQ)
           p == h.pic
<1>1. /\ pt.pc = "abort" /\ pq.ongoingJpegQ # <<>> /\ UNCHANGED <<pt, hal, mishap>>
      /\ ext' = [ext EXCEPT !.encoder = @ \ {p}, !.outputs = @ \ {p}] /\ FreeAll({p})
      /\ pq' = [pq EXCEPT !.ongoingJpegQ = Tail(@)]
  BY DEF AbortJob
<1>2. pq.ongoingJpegQ \in Seq(JpegJob)
  BY DEF PpTyped
<1>3. h \in JpegJob /\ p \in Pic /\ Tail(pq.ongoingJpegQ) \in Seq(JpegJob)
  <2>1. h \in JpegJob /\ Tail(pq.ongoingJpegQ) \in Seq(JpegJob)
    BY <1>1, <1>2
  <2> HIDE DEF h
  <2> QED
    BY <2>1 DEF JpegJob
<1>4. /\ ext'.reproc = ext.reproc /\ ext'.open = ext.open /\ ext'.encoder = ext.encoder \ {p}
      /\ ext'.evts = ext.evts /\ ext'.notifier = ext.notifier
  BY <1>1 DEF PpTyped
<1>5. /\ pq'.ongoingPPQ = pq.ongoingPPQ /\ pq'.ongoingJpegQ = Tail(pq.ongoingJpegQ)
      /\ pq'.inputPPQ = pq.inputPPQ /\ pq'.inputRawQ = pq.inputRawQ
      /\ pq'.inputJpegQ = pq.inputJpegQ
  BY <1>1 DEF PpTyped
<1>6. PpTyped'
  BY <1>1, <1>3, FreedAll DEF PpTyped
<1>7. ASSUME NEW r \in Pic
      PROVE  /\ Encoded(r)' = Encoded(r) - (IF r = p THEN 1 ELSE 0)
             /\ freed'[r] = freed[r] + (IF r = p THEN 1 ELSE 0)
  <2>1. h \in JobsOf(r) <=> r = p
    BY <1>3 DEF JobsOf
  <2>2. Count(Tail(pq.ongoingJpegQ), JobsOf(r))
          = Count(pq.ongoingJpegQ, JobsOf(r)) - (IF h \in JobsOf(r) THEN 1 ELSE 0)
    BY <1>1, <1>2, CountTail
  <2>3. freed'[r] = freed[r] + (IF r \in {p} THEN 1 ELSE 0)
    BY <1>1, FreedAll
  <2> HIDE DEF h, p
  <2> QED
    BY <1>5, <2>1, <2>2, <2>3 DEF Encoded
<1> HIDE DEF h, p
<1>8. EachAccounted'
  <2> SUFFICES ASSUME NEW r \in Pic PROVE (Placed(r) + freed[r] = Due(r))'
    BY DEF EachAccounted
  <2>1. /\ AtNotifier(r)' = AtNotifier(r) /\ Due(r)' = Due(r)
    BY <1>1, <1>4 DEF AtNotifier, Due
  <2>2. Placed(r) + freed[r] = Due(r)
    BY DEF EachAccounted
  <2> QED
    BY <1>5, <1>7, <2>1, <2>2, PlaceCounts DEF Placed
<1>9. Commands' /\ Reprocessed'
  <2>1. hal.pc = "stopping"
    BY <1>1 DEF Commands, Stopping
  <2> QED
    BY <1>1, <1>4, <1>5, <2>1 DEF Commands, Reprocessed, Stopping
<1>10. Encoding'
  <2>1. \A r \in ext'.encoder : r \in Pic /\ r # p /\ Encoded(r) # 0
    BY <1>4 DEF Encoding, PpTyped
  <2>2. ASSUME NEW r \in ext'.encoder PROVE Encoded(r)' # 0
    <3>1. r \in Pic /\ r # p /\ Encoded(r) # 0
      BY <2>1
    <3>2. Encoded(r)' = Encoded(r) - 0 /\ Encoded(r) \in Nat
      BY <1>7, <3>1, PlaceCounts
    <3> QED
      BY <3>1, <3>2
  <2>3. \A r \in Elems(ext.evts) : r \in Pic /\ r \notin ext'.encoder /\ (freed[r] # 0 \/ Encoded(r) # 0)
    BY <1>4 DEF Encoding, PpTyped, Elems
  <2>4. ASSUME NEW r \in Elems(ext.evts) PROVE freed'[r] # 0 \/ Encoded(r)' # 0
    <3>1. r \in Pic /\ (freed[r] # 0 \/ Encoded(r) # 0)
      BY <2>3
    <3>2. Encoded(r) \in Nat /\ freed[r] \in Nat
      BY <3>1, PlaceCounts
    <3>3. /\ Encoded(r)' = Encoded(r) - (IF r = p THEN 1 ELSE 0)
          /\ freed'[r] = freed[r] + (IF r = p THEN 1 ELSE 0)
      BY <1>7, <3>1
    <3> QED
      BY <3>1, <3>2, <3>3
  <2>5. Elems(ext.evts)' = Elems(ext.evts)
    BY <1>4 DEF Elems
  <2> QED
    BY <1>1, <1>4, <2>2, <2>3, <2>4, <2>5 DEF Encoding
<1> QED
  BY <1>6, <1>8, <1>9, <1>10

\* The queues are flushed.
LEMMA QueuesFlushed ==
  ASSUME PpInv, Mishandled, FlushQueues
  PROVE  PpInv'
<1> USE DEF PpInv
<1> DEFINE all == Elems(pq.ongoingPPQ) \cup Elems(pq.inputJpegQ) \cup Elems(pq.inputPPQ)
                    \cup SourcesIn(Elems(pq.inputRawQ))
<1>1. /\ pt.pc = "flush" /\ UNCHANGED <<ext, mishap>> /\ FreeAll(all)
      /\ pq' = [q \in DOMAIN pq |-> <<>>]
      /\ pt' = [pt EXCEPT !.pc = "cmd"] /\ hal' = [hal EXCEPT !.pc = "stopped"]
  BY DEF FlushQueues, PtGoto
<1>2. /\ hal'.pc = "stopped" /\ hal'.came = hal.came /\ pt'.pc = "cmd" /\ pt'.pic = pt.pic
      /\ pt'.is_active = pt.is_active /\ pt'.cmds = pt.cmds
  BY <1>1 DEF PpTyped
<1>3. DOMAIN pq = {"inputPPQ", "ongoingPPQ", "inputJpegQ", "ongoingJpegQ", "inputRawQ"}
  BY DEF PpTyped
<1>4. pq' = [inputPPQ |-> <<>>, ongoingPPQ |-> <<>>, inputJpegQ |-> <<>>,
             ongoingJpegQ |-> <<>>, inputRawQ |-> <<>>]
  BY <1>1, <1>3
<1>5. /\ pq'.inputPPQ = <<>> /\ pq'.ongoingPPQ = <<>> /\ pq'.inputJpegQ = <<>>
      /\ pq'.ongoingJpegQ = <<>> /\ pq'.inputRawQ = <<>>
  BY <1>4
<1>6. /\ ext.reproc = <<>> /\ ~ext.open /\ pq.ongoingJpegQ = <<>> /\ hal.pc = "stopping"
  BY <1>1 DEF Reprocessed, Commands, Stopping
<1>7. /\ <<>> \in Seq(Pic) /\ <<>> \in Seq(JpegJob) /\ <<>> \in Seq(RawFrame) /\ Len(<<>>) = 0
  OBVIOUS
<1>8. PpTyped'
  <2>1. pq' \in [inputPPQ : Seq(Pic), ongoingPPQ : Seq(Pic), inputJpegQ : Seq(Pic),
                 ongoingJpegQ : Seq(JpegJob), inputRawQ : Seq(RawFrame)]
    BY <1>4, <1>7
  <2>2. freed' \in [Pic -> Nat]
    BY <1>1, FreedAll
  <2> QED
    BY <1>1, <2>1, <2>2 DEF PpTyped
<1>9. ASSUME NEW r \in Pic PROVE (Placed(r) + freed[r] = Due(r))'
  <2>1. r \in all <=> \/ r \in Elems(pq.inputPPQ) \/ r \in Elems(pq.ongoingPPQ)
                      \/ r \in Elems(pq.inputJpegQ) \/ Source(r) \in Elems(pq.inputRawQ)
    BY RawFrames
  <2>2. /\ r \in Elems(pq.inputPPQ) <=> Count(pq.inputPPQ, {r}) # 0
        /\ r \in Elems(pq.ongoingPPQ) <=> Count(pq.ongoingPPQ, {r}) # 0
        /\ r \in Elems(pq.inputJpegQ) <=> Count(pq.inputJpegQ, {r}) # 0
        /\ Source(r) \in Elems(pq.inputRawQ) <=> Count(pq.inputRawQ, {Source(r)}) # 0
    <3>1. /\ pq.inputPPQ \in Seq(Pic) /\ pq.ongoingPPQ \in Seq(Pic)
          /\ pq.inputJpegQ \in Seq(Pic) /\ pq.inputRawQ \in Seq(RawFrame)
      BY DEF PpTyped
    <3> QED
      BY <3>1, ElemsCounted
  <2>3. freed'[r] = freed[r] + (IF r \in all THEN 1 ELSE 0)
    BY <1>1, FreedAll
  <2>4. Placed(r) + freed[r] = Due(r)
    BY DEF EachAccounted
  <2>5. Encoded(r) = 0 /\ Encoded(r)' = 0
    BY <1>5, <1>6, <1>7, CountType, ZenonT(60) DEF Encoded
  <2>6. /\ Count(pq'.inputPPQ, {r}) = 0 /\ Count(pq'.ongoingPPQ, {r}) = 0
        /\ Count(pq'.inputJpegQ, {r}) = 0 /\ Count(pq'.inputRawQ, {Source(r)}) = 0
    BY <1>5, <1>7, CountType
  <2>7. AtNotifier(r)' = AtNotifier(r) /\ Due(r)' = Due(r)
    BY <1>1, <1>2 DEF AtNotifier, Due
  <2> HIDE DEF all
  <2>8. freed'[r] = freed[r] + Count(pq.inputPPQ, {r}) + Count(pq.ongoingPPQ, {r})
                      + Count(pq.inputJpegQ, {r}) + Count(pq.inputRawQ, {Source(r)})
    <3>1. Placed(r) \in 0 .. 1
      BY PlacedOnce
    <3>2. /\ Count(pq.inputPPQ, {r}) \in Nat /\ Count(pq.ongoingPPQ, {r}) \in Nat
          /\ Count(pq.inputJpegQ, {r}) \in Nat /\ Encoded(r) \in Nat
          /\ Count(pq.inputRawQ, {Source(r)}) \in Nat
          /\ AtNotifier(r) \in Nat /\ Due(r) \in Nat /\ freed[r] \in Nat
      BY PlaceCounts
    <3> QED
      BY <2>1, <2>2, <2>3, <2>5, <3>1, <3>2 DEF Placed
  <2>9. Placed(r)' = AtNotifier(r) /\ AtNotifier(r) \in 0 .. 1
    <3>1. AtNotifier(r) \in 0 .. 1
      BY DEF AtNotifier
    <3>2. Placed(r)' = 0 + 0 + 0 + 0 + 0 + AtNotifier(r)
      BY <2>5, <2>6, <2>7 DEF Placed
    <3> QED
      BY <3>1, <3>2
  <2>10. Placed(r) = Count(pq.inputPPQ, {r}) + Count(pq.ongoingPPQ, {r})
                       + Count(pq.inputJpegQ, {r}) + 0 + Count(pq.inputRawQ, {Source(r)}) + AtNotifier(r)
    BY <2>5 DEF Placed
  <2>11. Placed(r)' + freed'[r] = Due(r)'
    <3>1. /\ Count(pq.inputPPQ, {r}) \in Nat /\ Count(pq.ongoingPPQ, {r}) \in Nat
          /\ Count(pq.inputJpegQ, {r}) \in Nat /\ Count(pq.inputRawQ, {Source(r)}) \in Nat
          /\ freed[r] \in Nat
      BY PlaceCounts
    <3>2. Placed(r) + freed[r] = AtNotifier(r) + freed'[r]
      BY <2>8, <2>9, <2>10, <3>1
    <3> QED
      BY <2>4, <2>7, <2>9, <3>2
  <2> QED
    BY <2>11
<1>10. Commands'
  BY <1>1, <1>2, <1>6 DEF Commands, Stopping
<1>11. Reprocessed'
  BY <1>1, <1>2, <1>5, <1>6 DEF Reprocessed
<1>12. \A r \in Pic : Encoded(r)' = Encoded(r) /\ freed'[r] >= freed[r]
  <2>1. \A r \in Pic : freed'[r] >= freed[r]
    BY <1>1, FreedAll
  <2> QED
    BY <1>5, <1>6, <2>1 DEF Encoded
<1>13. Encoding'
  BY <1>1, <1>2, <1>8, <1>12, EncodingKept
<1> QED
  BY <1>8, <1>9, <1>10, <1>11, <1>13 DEF EachAccounted

\* While the postprocessor is not active a job drops what is first.
LEMMA JobsDropped ==
  ASSUME PpInv, Mishandled, DropJobs
  PROVE  PpInv'
<1> USE DEF PpInv
<1> DEFINE S == FirstOf(pq.inputJpegQ) \cup SourcesIn(FirstOf(pq.inputRawQ))
                  \cup FirstOf(pq.inputPPQ)
<1>1. /\ TakeCmd("JOB") /\ pt.pc = "cmd" /\ FreeAll(S) /\ UNCHANGED <<ext, hal, mishap>>
      /\ pq' = [pq EXCEPT !.inputJpegQ = RestOf(@), !.inputRawQ = RestOf(@),
                          !.inputPPQ = RestOf(@)]
      /\ pt' = [pt EXCEPT !.cmds = Tail(@)]
  BY DEF DropJobs, TakeCmd
<1>2. /\ pt'.pc = pt.pc /\ pt'.pic = pt.pic /\ pt'.is_active = pt.is_active
      /\ pt'.cmds = Tail(pt.cmds)
  BY <1>1 DEF PpTyped
<1>3. /\ pq'.ongoingPPQ = pq.ongoingPPQ /\ pq'.ongoingJpegQ = pq.ongoingJpegQ
      /\ pq'.inputPPQ = RestOf(pq.inputPPQ) /\ pq'.inputRawQ = RestOf(pq.inputRawQ)
      /\ pq'.inputJpegQ = RestOf(pq.inputJpegQ)
  BY <1>1 DEF PpTyped
<1>4. /\ pq.inputPPQ \in Seq(Pic) /\ pq.inputJpegQ \in Seq(Pic)
      /\ pq.inputRawQ \in Seq(RawFrame)
  BY DEF PpTyped
<1>5. PpTyped'
  <2>1. /\ RestOf(pq.inputPPQ) \in Seq(Pic) /\ RestOf(pq.inputJpegQ) \in Seq(Pic)
        /\ RestOf(pq.inputRawQ) \in Seq(RawFrame)
    BY <1>4, FirstAndRest
  <2>2. pq' \in [inputPPQ : Seq(Pic), ongoingPPQ : Seq(Pic), inputJpegQ : Seq(Pic),
                 ongoingJpegQ : Seq(JpegJob), inputRawQ : Seq(RawFrame)]
    BY <1>1, <2>1 DEF PpTyped
  <2>3. freed' \in [Pic -> Nat]
    BY <1>1, FreedAll
  <2> QED
    BY <1>1, <2>2, <2>3, CmdTaken DEF PpTyped
<1>6. ASSUME NEW r \in Pic PROVE (Placed(r) + freed[r] = Due(r))'
  <2> DEFINE a == IF r \in FirstOf(pq.inputPPQ) THEN 1 ELSE 0
             b == IF r \in FirstOf(pq.inputJpegQ) THEN 1 ELSE 0
             c == IF Source(r) \in FirstOf(pq.inputRawQ) THEN 1 ELSE 0
  <2>1. /\ Count(pq'.inputPPQ, {r}) = Count(pq.inputPPQ, {r}) - a
        /\ Count(pq'.inputJpegQ, {r}) = Count(pq.inputJpegQ, {r}) - b
        /\ Count(pq'.inputRawQ, {Source(r)}) = Count(pq.inputRawQ, {Source(r)}) - c
    BY <1>3, <1>4, FirstAndRest
  <2>2. /\ Count(pq'.inputPPQ, {r}) \in Nat /\ Count(pq'.inputJpegQ, {r}) \in Nat
        /\ Count(pq'.inputRawQ, {Source(r)}) \in Nat
    <3>1. /\ pq'.inputPPQ \in Seq(Pic) /\ pq'.inputJpegQ \in Seq(Pic)
          /\ pq'.inputRawQ \in Seq(RawFrame)
      BY <1>5 DEF PpTyped
    <3> QED
      BY <3>1, CountType
  <2>3. /\ Encoded(r)' = Encoded(r) /\ AtNotifier(r)' = AtNotifier(r) /\ Due(r)' = Due(r)
        /\ Count(pq'.ongoingPPQ, {r}) = Count(pq.ongoingPPQ, {r})
    BY <1>1, <1>3 DEF Encoded, AtNotifier, Due
  <2>4. Placed(r) + freed[r] = Due(r)
    BY DEF EachAccounted
  <2>5. freed'[r] = freed[r] + (IF a = 1 \/ b = 1 \/ c = 1 THEN 1 ELSE 0)
    BY <1>1, FreedAll, RawFrames
  <2>6. a \in 0 .. 1 /\ b \in 0 .. 1 /\ c \in 0 .. 1
    OBVIOUS
  <2> HIDE DEF a, b, c
  <2>7. a + b + c <= 1
    <3>1. Placed(r) \in 0 .. 1
      BY PlacedOnce
    <3>2. /\ Count(pq.inputPPQ, {r}) \in Nat /\ Count(pq.ongoingPPQ, {r}) \in Nat
          /\ Count(pq.inputJpegQ, {r}) \in Nat /\ Encoded(r) \in Nat
          /\ Count(pq.inputRawQ, {Source(r)}) \in Nat
          /\ AtNotifier(r) \in Nat /\ Due(r) \in Nat /\ freed[r] \in Nat
      BY PlaceCounts
    <3> QED
      BY <2>1, <2>2, <2>6, <3>1, <3>2 DEF Placed
  <2>8. freed'[r] = freed[r] + a + b + c
    <3>1. freed[r] \in Nat
      BY PlaceCounts
    <3>2. \/ a = 0 /\ b = 0 /\ c = 0
          \/ a = 1 /\ b = 0 /\ c = 0
          \/ a = 0 /\ b = 1 /\ c = 0
          \/ a = 0 /\ b = 0 /\ c = 1
      BY <2>6, <2>7
    <3> QED
      BY <2>5, <3>1, <3>2
  <2> QED
    BY <2>1, <2>2, <2>3, <2>4, <2>6, <2>8, PlaceCounts DEF Placed
<1>7. Commands'
  BY <1>1, <1>2, CmdTaken DEF Commands, Stopping
<1>8. Reprocessed'
  BY <1>1, <1>2, <1>3 DEF Reprocessed
<1>9. \A r \in Pic : Encoded(r)' = Encoded(r) /\ freed'[r] >= freed[r]
  BY <1>1, <1>3, FreedAll DEF Encoded
<1>10. Encoding'
  BY <1>1, <1>2, <1>3, <1>5, <1>9, EncodingKept
<1> QED
  BY <1>5, <1>6, <1>7, <1>8, <1>10 DEF EachAccounted

\* What waits for the reprocess channel or the application has come.
LEMMA InPlace ==
  ASSUME PpInv, Mishandled, NEW p \in Pic,
         Count(pq.ongoingPPQ, {p}) # 0 \/ Count(pq.inputRawQ, {Source(p)}) # 0
  PROVE  p \in hal.came
<1>1. PpTyped /\ EachAccounted
  BY DEF PpInv
<1>2. /\ Placed(p) \in 0 .. 1
      /\ Placed(p) = 1 => freed[p] = 0 /\ mishap[p] = "none" /\ p \in hal.came
  BY <1>1, PlacedOnce
<1> DEFINE a == Count(pq.inputPPQ, {p})
           b == Count(pq.ongoingPPQ, {p})
           c == Count(pq.inputJpegQ, {p})
           d == Encoded(p)
           e == Count(pq.inputRawQ, {Source(p)})
           f == AtNotifier(p)
<1>3. /\ a \in Nat /\ b \in Nat /\ c \in Nat /\ d \in Nat /\ e \in Nat /\ f \in 0 .. 1
      /\ b # 0 \/ e # 0
      /\ Placed(p) = a + b + c + d + e + f
  BY <1>1, PlaceCounts DEF Placed
<1> HIDE DEF a, b, c, d, e, f
<1>4. Placed(p) = 1
  BY <1>2, <1>3
<1> QED
  BY <1>2, <1>4

\* What waits for the encoder was not encoded before.
LEMMA NotYetEncoded ==
  ASSUME PpTyped, EachAccounted, Mishandled, NEW p \in Pic, p \in Elems(pq.inputJpegQ)
  PROVE  Encoded(p) = 0 /\ freed[p] = 0
<1>1. Count(pq.inputJpegQ, {p}) # 0
  <2>1. pq.inputJpegQ \in Seq(Pic)
    BY DEF PpTyped
  <2> QED
    BY <2>1, ElemsCounted
<1>2. /\ Placed(p) \in 0 .. 1
      /\ Placed(p) = 1 => freed[p] = 0 /\ mishap[p] = "none" /\ p \in hal.came
  BY PlacedOnce
<1> DEFINE a == Count(pq.inputPPQ, {p})
           b == Count(pq.ongoingPPQ, {p})
           c == Count(pq.inputJpegQ, {p})
           d == Encoded(p)
           e == Count(pq.inputRawQ, {Source(p)})
           f == AtNotifier(p)
<1>3. /\ a \in Nat /\ b \in Nat /\ c \in Nat /\ d \in Nat /\ e \in Nat /\ f \in 0 .. 1
      /\ c # 0 /\ Placed(p) = a + b + c + d + e + f
  BY <1>1, PlaceCounts DEF Placed
<1> HIDE DEF a, b, c, d, e, f
<1>4. d = 0 /\ Placed(p) = 1
  BY <1>2, <1>3
<1> QED
  BY <1>2, <1>4 DEF d

\* The next picture is taken for the encoder, if there is one.
LEMMA JpegTaken ==
  ASSUME PpInv, Mishandled, NextJpeg
  PROVE  PpInv'
<1> USE DEF PpInv
<1>1. /\ TakeCmd("JOB") /\ pt.pc = "cmd" /\ pt.is_active /\ UNCHANGED <<ext, hal, freed, mishap>>
      /\ hal.pc \in {"started", "stopping"}
  BY DEF NextJpeg, TakeCmd, Commands
<1>2. CASE pq.inputJpegQ = <<>>
  <2>1. pt' = [pt EXCEPT !.cmds = Tail(@), !.pc = "raw"] /\ UNCHANGED pq
    BY <1>2 DEF NextJpeg
  <2>2. /\ pt'.pc = "raw" /\ pt'.is_active = pt.is_active /\ pt'.cmds = Tail(pt.cmds)
    BY <2>1 DEF PpTyped
  <2>3. PpTyped'
    BY <1>1, <2>1, CmdTaken DEF PpTyped
  <2>4. Commands'
    BY <1>1, <2>2, CmdTaken DEF Commands, Stopping
  <2>5. Reprocessed'
    BY <1>1, <2>1, <2>2 DEF Reprocessed
  <2>6. EachAccounted' /\ Encoding'
    BY <1>1, <2>1, <2>2, <2>3, PlacesKept, EncodingKept
  <2> QED
    BY <2>3, <2>4, <2>5, <2>6
<1>3. CASE pq.inputJpegQ # <<>>
  <2> DEFINE p == Head(pq.inputJpegQ)
             j == [pic |-> p, known |-> FALSE]
             q == pq.ongoingJpegQ
  <2>1. /\ pq' = [pq EXCEPT !.inputJpegQ = Tail(@), !.ongoingJpegQ = Append(@, j)]
        /\ pt' = [pt EXCEPT !.cmds = Tail(@), !.pc = "encode", !.pic = p]
    BY <1>3 DEF NextJpeg
  <2>2. /\ pt'.pc = "encode" /\ pt'.is_active = pt.is_active /\ pt'.cmds = Tail(pt.cmds)
        /\ pt'.pic = p
    BY <2>1 DEF PpTyped
  <2>3. /\ pq'.ongoingPPQ = pq.ongoingPPQ /\ pq'.ongoingJpegQ = Append(q, j)
        /\ pq'.inputPPQ = pq.inputPPQ /\ pq'.inputRawQ = pq.inputRawQ
        /\ pq'.inputJpegQ = Tail(pq.inputJpegQ)
    BY <2>1 DEF PpTyped
  <2>4. pq.inputJpegQ \in Seq(Pic) /\ q \in Seq(JpegJob)
    BY DEF PpTyped
  <2>5. p \in Pic /\ Tail(pq.inputJpegQ) \in Seq(Pic)
    BY <1>3, <2>4
  <2> HIDE DEF p
  <2>6. j \in JpegJob /\ j.pic = p
    BY <2>5 DEF JpegJob
  <2> HIDE DEF j
  <2>7. Append(q, j) \in Seq(JpegJob) /\ Append(q, j) # <<>>
        /\ Append(q, j)[Len(Append(q, j))] = j
    BY <2>4, <2>6
  <2>8. PpTyped'
    <3>1. pq' \in [inputPPQ : Seq(Pic), ongoingPPQ : Seq(Pic), inputJpegQ : Seq(Pic),
                   ongoingJpegQ : Seq(JpegJob), inputRawQ : Seq(RawFrame)]
      BY <2>1, <2>5, <2>7 DEF PpTyped
    <3> QED
      BY <1>1, <2>1, <2>5, <3>1, CmdTaken DEF PpTyped
  <2>9. ASSUME NEW r \in Pic
        PROVE  /\ Count(pq'.inputJpegQ, {r}) = Count(pq.inputJpegQ, {r}) - (IF r = p THEN 1 ELSE 0)
               /\ Encoded(r)' = Encoded(r) + (IF r = p THEN 1 ELSE 0)
    <3>1. Count(Tail(pq.inputJpegQ), {r})
            = Count(pq.inputJpegQ, {r}) - (IF p \in {r} THEN 1 ELSE 0)
      BY <1>3, <2>4, CountTail DEF p
    <3>2. Count(Append(q, j), JobsOf(r)) = Count(q, JobsOf(r)) + (IF j \in JobsOf(r) THEN 1 ELSE 0)
      BY <2>4, <2>6, CountAppend
    <3>3. j \in JobsOf(r) <=> r = p
      BY <2>6 DEF JobsOf
    <3> QED
      BY <2>3, <3>1, <3>2, <3>3 DEF Encoded
  <2>10. ASSUME NEW r \in Pic PROVE (Placed(r) + freed[r] = Due(r))'
    <3>1. /\ AtNotifier(r)' = AtNotifier(r) /\ Due(r)' = Due(r) /\ freed' = freed
      BY <1>1 DEF AtNotifier, Due
    <3>2. Placed(r) + freed[r] = Due(r)
      BY DEF EachAccounted
    <3>3. /\ Count(pq.inputPPQ, {r}) \in Nat /\ Count(pq.ongoingPPQ, {r}) \in Nat
          /\ Count(pq.inputJpegQ, {r}) \in Nat /\ Encoded(r) \in Nat
          /\ Count(pq.inputRawQ, {Source(r)}) \in Nat
          /\ AtNotifier(r) \in Nat /\ Due(r) \in Nat /\ freed[r] \in Nat
      BY PlaceCounts
    <3>4. /\ Count(pq'.inputPPQ, {r}) = Count(pq.inputPPQ, {r})
          /\ Count(pq'.ongoingPPQ, {r}) = Count(pq.ongoingPPQ, {r})
          /\ Count(pq'.inputRawQ, {Source(r)}) = Count(pq.inputRawQ, {Source(r)})
      BY <2>1
    <3> QED
      BY <2>9, <3>1, <3>2, <3>3, <3>4 DEF Placed
  <2>11. Commands'
    BY <1>1, <2>2, CmdTaken DEF Commands, Stopping
  <2>12. Reprocessed'
    BY <1>1, <2>2, <2>3 DEF Reprocessed
  <2>13. Encoded(p) = 0 /\ freed[p] = 0
    <3>1. p \in Elems(pq.inputJpegQ)
      BY <1>3, <2>4, ElemsChanged DEF p
    <3> QED
      BY <2>5, <3>1, NotYetEncoded
  <2>14. p \notin ext.encoder /\ p \notin Elems(ext.evts)
    BY <2>13 DEF Encoding
  <2>15. LastJob' = j
    BY <2>3, <2>7 DEF LastJob
  <2>16. ASSUME NEW r \in Pic PROVE Encoded(r) # 0 => Encoded(r)' # 0
    <3>1. Encoded(r) \in Nat
      BY PlaceCounts
    <3>2. Encoded(r)' = Encoded(r) + (IF r = p THEN 1 ELSE 0)
      BY <2>9
    <3> QED
      BY <3>1, <3>2
  <2>17. \A r \in Elems(ext.evts) : r \in Pic
    BY DEF PpTyped, Elems
  <2>18. \A r \in ext.encoder : r \in Pic
    BY DEF PpTyped
  <2>19. Elems(ext.evts)' = Elems(ext.evts)
    BY <1>1
  <2>20. Encoding'
    <3>1. \A r \in ext.encoder : Encoded(r)' # 0
      BY <2>16, <2>18 DEF Encoding
    <3>2. \A r \in Elems(ext.evts) : r \notin ext.encoder /\ (freed[r] # 0 \/ Encoded(r)' # 0) /\ r # p
      BY <2>14, <2>16, <2>17 DEF Encoding
    <3> QED
      BY <1>1, <2>2, <2>3, <2>5, <2>7, <2>14, <2>15, <2>19, <3>1, <3>2 DEF Encoding, j
  <2> QED
    BY <2>8, <2>10, <2>11, <2>12, <2>20 DEF EachAccounted
<1> QED
  BY <1>2, <1>3

\* It cannot be encoded: the job goes out again and the picture is released.
LEMMA EncodingFailed ==
  ASSUME PpInv, EncodeFails
  PROVE  PpInv'
<1> USE DEF PpInv
<1> DEFINE p == pt.pic
           q == pq.ongoingJpegQ
<1>1. /\ pt.pc = "encode" /\ UNCHANGED <<hal, mishap>> /\ FreeAll({p})
      /\ pq' = [pq EXCEPT !.ongoingJpegQ = AllButLast(@)]
      /\ ext' = [ext EXCEPT !.outputs = @ \ {p}]
      /\ pt' = [pt EXCEPT !.pc = "raw", !.pic = NoPic]
  BY DEF EncodeFails
<1>2. /\ pt'.pc = "raw" /\ pt'.is_active = pt.is_active /\ pt'.cmds = pt.cmds
      /\ ext'.reproc = ext.reproc /\ ext'.open = ext.open /\ ext'.encoder = ext.encoder
      /\ ext'.evts = ext.evts /\ ext'.notifier = ext.notifier
  BY <1>1 DEF PpTyped
<1>3. /\ pq'.ongoingPPQ = pq.ongoingPPQ /\ pq'.ongoingJpegQ = AllButLast(q)
      /\ pq'.inputPPQ = pq.inputPPQ /\ pq'.inputRawQ = pq.inputRawQ
      /\ pq'.inputJpegQ = pq.inputJpegQ
  BY <1>1 DEF PpTyped
<1>4. /\ p \in Pic /\ q # <<>> /\ q[Len(q)] = [pic |-> p, known |-> FALSE] /\ p \notin ext.encoder
      /\ p \notin Elems(ext.evts)
  BY <1>1 DEF Encoding, LastJob
<1>5. q \in Seq(JpegJob)
  BY DEF PpTyped
<1>6. /\ AllButLast(q) \in Seq(JpegJob)
      /\ \A X : Count(AllButLast(q), X) = Count(q, X) - (IF q[Len(q)] \in X THEN 1 ELSE 0)
  <2> HIDE DEF q
  <2> QED
    BY <1>4, <1>5, LastOut
<1>7. ASSUME NEW r \in Pic
      PROVE  /\ Encoded(r)' = Encoded(r) - (IF r = p THEN 1 ELSE 0)
             /\ freed'[r] = freed[r] + (IF r = p THEN 1 ELSE 0)
  <2>1. q[Len(q)] \in JobsOf(r) <=> r = p
    BY <1>4 DEF JobsOf, JpegJob
  <2>2. freed'[r] = freed[r] + (IF r \in {p} THEN 1 ELSE 0)
    BY <1>1, FreedAll
  <2>3. Encoded(r)' = Count(AllButLast(q), JobsOf(r)) /\ Encoded(r) = Count(q, JobsOf(r))
    BY <1>3 DEF Encoded
  <2> HIDE DEF p, q
  <2> QED
    BY <1>6, <2>1, <2>2, <2>3
<1> HIDE DEF p
<1>8. PpTyped'
  BY <1>1, <1>6, FreedAll DEF PpTyped
<1>9. EachAccounted'
  <2> SUFFICES ASSUME NEW r \in Pic PROVE (Placed(r) + freed[r] = Due(r))'
    BY DEF EachAccounted
  <2>1. /\ AtNotifier(r)' = AtNotifier(r) /\ Due(r)' = Due(r)
    BY <1>1, <1>2 DEF AtNotifier, Due
  <2>2. Placed(r) + freed[r] = Due(r)
    BY DEF EachAccounted
  <2> QED
    BY <1>3, <1>7, <2>1, <2>2, PlaceCounts DEF Placed
<1>10. Commands' /\ Reprocessed'
  <2>1. hal.pc \in {"started", "stopping"}
    BY <1>1 DEF Commands
  <2> QED
    BY <1>1, <1>2, <1>3, <2>1 DEF Commands, Reprocessed, Stopping
<1>11. Encoding'
  <2>1. ASSUME NEW r \in ext.encoder PROVE Encoded(r)' # 0
    <3>1. r \in Pic /\ r # p /\ Encoded(r) # 0
      BY <1>4 DEF Encoding, PpTyped
    <3>2. Encoded(r)' = Encoded(r) - 0 /\ Encoded(r) \in Nat
      BY <1>7, <3>1, PlaceCounts
    <3> QED
      BY <3>1, <3>2
  <2>2. ASSUME NEW r \in Elems(ext.evts)
        PROVE  r \notin ext.encoder /\ (freed'[r] # 0 \/ Encoded(r)' # 0)
    <3>1. r \in Pic
      BY DEF PpTyped, Elems
    <3>2. r \notin ext.encoder /\ (freed[r] # 0 \/ Encoded(r) # 0) /\ r # p
      BY <1>4 DEF Encoding
    <3>3. Encoded(r)' = Encoded(r) - 0 /\ Encoded(r) \in Nat /\ freed'[r] = freed[r] + 0 /\ freed[r] \in Nat
      BY <1>7, <3>1, <3>2, PlaceCounts
    <3> QED
      BY <3>2, <3>3
  <2>3. Elems(ext.evts)' = Elems(ext.evts)
    BY <1>2 DEF Elems
  <2> QED
    BY <1>2, <2>1, <2>2, <2>3 DEF Encoding
<1> QED
  BY <1>8, <1>9, <1>10, <1>11

\* The job's id is known.
LEMMA JobIdKnown ==
  ASSUME PpInv, RememberJobId
  PROVE  PpInv'
<1> USE DEF PpInv
<1> DEFINE q == pq.ongoingJpegQ
           t == [i \in DOMAIN q |-> IF q[i].pic = pt.pic THEN [q[i] EXCEPT !.known = TRUE]
                                    ELSE q[i]]
<1>1. /\ pt.pc = "jobId" /\ UNCHANGED <<ext, hal, freed, mishap>>
      /\ pq' = [pq EXCEPT !.ongoingJpegQ = t]
      /\ pt' = [pt EXCEPT !.pc = "raw", !.pic = NoPic]
  BY DEF RememberJobId
<1>2. /\ pt'.pc = "raw" /\ pt'.is_active = pt.is_active /\ pt'.cmds = pt.cmds
  BY <1>1 DEF PpTyped
<1>3. q \in Seq(JpegJob) /\ DOMAIN q = 1 .. Len(q) /\ Len(q) \in Nat
  BY DEF PpTyped
<1>4. \A i \in 1 .. Len(q) : t[i] \in JpegJob /\ t[i].pic = q[i].pic
  <2> SUFFICES ASSUME NEW i \in 1 .. Len(q) PROVE t[i] \in JpegJob /\ t[i].pic = q[i].pic
    OBVIOUS
  <2>1. q[i] \in JpegJob
    BY <1>3
  <2>2. \A j \in JpegJob : [j EXCEPT !.known = TRUE] \in JpegJob /\ [j EXCEPT !.known = TRUE].pic = j.pic
    BY DEF JpegJob
  <2>3. t[i] = IF q[i].pic = pt.pic THEN [q[i] EXCEPT !.known = TRUE] ELSE q[i]
    BY <1>3
  <2> HIDE DEF t, q
  <2> QED
    BY <2>1, <2>2, <2>3
<1>5. t \in Seq(JpegJob) /\ Len(t) = Len(q)
  <2>1. t \in [1 .. Len(q) -> JpegJob]
    <3>1. DOMAIN t = 1 .. Len(q) /\ t = [i \in DOMAIN t |-> t[i]]
      BY <1>3
    <3> HIDE DEF t
    <3> QED
      BY <1>4, <3>1
  <2> HIDE DEF t
  <2> QED
    BY <1>3, <2>1
<1> HIDE DEF t
<1>6. /\ pq'.ongoingPPQ = pq.ongoingPPQ /\ pq'.ongoingJpegQ = t
      /\ pq'.inputPPQ = pq.inputPPQ /\ pq'.inputRawQ = pq.inputRawQ
      /\ pq'.inputJpegQ = pq.inputJpegQ
  BY <1>1 DEF PpTyped
<1>7. PpTyped'
  <2>1. pq' \in [inputPPQ : Seq(Pic), ongoingPPQ : Seq(Pic), inputJpegQ : Seq(Pic),
                 ongoingJpegQ : Seq(JpegJob), inputRawQ : Seq(RawFrame)]
    BY <1>1, <1>5 DEF PpTyped
  <2> QED
    BY <1>1, <2>1 DEF PpTyped
<1>8. \A r \in Pic : Encoded(r)' = Encoded(r)
  <2> SUFFICES ASSUME NEW r \in Pic PROVE Count(t, JobsOf(r)) = Count(q, JobsOf(r))
    BY <1>6 DEF Encoded
  <2>1. DOMAIN t = 1 .. Len(q)
    BY <1>5
  <2>2. \A i \in 1 .. Len(q) : t[i] \in JobsOf(r) <=> q[i] \in JobsOf(r)
    BY <1>3, <1>4 DEF JobsOf
  <2> HIDE DEF q
  <2>3. At(t, JobsOf(r)) = At(q, JobsOf(r))
    BY <1>3, <2>1, <2>2 DEF At
  <2> QED
    BY <2>3 DEF Count
<1>9. EachAccounted'
  <2> SUFFICES ASSUME NEW r \in Pic PROVE (Placed(r) + freed[r] = Due(r))'
    BY DEF EachAccounted
  <2>1. /\ AtNotifier(r)' = AtNotifier(r) /\ Due(r)' = Due(r)
    BY <1>1 DEF AtNotifier, Due
  <2>2. Placed(r) + freed[r] = Due(r)
    BY DEF EachAccounted
  <2> QED
    BY <1>1, <1>6, <1>8, <2>1, <2>2 DEF Placed
<1>10. Commands' /\ Reprocessed'
  <2>1. hal.pc \in {"started", "stopping"}
    BY <1>1 DEF Commands
  <2> QED
    BY <1>1, <1>2, <1>6, <2>1 DEF Commands, Reprocessed, Stopping
<1>11. Encoding'
  <2>1. \A r \in Pic : freed'[r] >= freed[r]
    BY <1>1 DEF PpTyped
  <2> QED
    BY <1>1, <1>2, <1>7, <1>8, <2>1, EncodingKept
<1> QED
  BY <1>7, <1>9, <1>10, <1>11

\* A raw frame goes to the notifier, is kept, or is released, once or twice;
\* a super buffer that is not the frame stays as it is.
LEMMA RawEnds ==
  ASSUME PpInv, NEW f \in RawFrame, NEW r \in Pic, UNCHANGED hal,
         RawHandedOver(f) \/ RawKept(f) \/ RawFails(f) \/ RawRefused(f)
  PROVE  /\ f # Source(r) => /\ AtNotifier(r)' = AtNotifier(r) /\ Due(r)' = Due(r)
                             /\ freed'[r] = freed[r]
         /\ f = Source(r) /\ AtNotifier(r) = 0 /\ freed[r] = 0 /\ Due(r) = 1
               => AtNotifier(r)' + freed'[r] = Due(r)'
         /\ AtNotifier(r)' \in 0 .. 1 /\ freed'[r] \in Nat /\ freed'[r] >= freed[r]
<1> USE DEF PpInv
<1>1. /\ f.pic \in Pic /\ f.reproc \in BOOLEAN /\ hal' = hal
      /\ freed \in [Pic -> Nat] /\ mishap \in [Pic -> Mishaps]
  BY DEF RawFrame, PpTyped
<1>2. f = Source(r) <=> r = f.pic /\ ~f.reproc
  <2>1. f = [pic |-> f.pic, reproc |-> f.reproc]
    BY DEF RawFrame
  <2>2. f = Source(r) => r = f.pic /\ ~f.reproc
    BY DEF Source
  <2>3. r = f.pic /\ ~f.reproc => f.reproc = FALSE
    BY <1>1
  <2>4. r = f.pic /\ ~f.reproc => f = Source(r)
    BY <2>1, <2>3, Zenon DEF Source
  <2> QED
    BY <2>2, <2>4
<1>3. freed[r] \in Nat /\ AtNotifier(r) \in 0 .. 1 /\ Due(r) \in 0 .. 2
  BY PlaceCounts
<1>4. mishap'[r] = mishap[r] => Due(r)' = Due(r)
  BY <1>1 DEF Due
<1>5. ext'.notifier = ext.notifier => AtNotifier(r)' = AtNotifier(r)
  BY DEF AtNotifier
<1>6. CASE RawHandedOver(f)
  <2>1. ~f.reproc /\ ext'.notifier = ext.notifier \cup {f.pic} /\ freed' = freed /\ mishap' = mishap
    BY <1>6 DEF RawHandedOver, PpTyped
  <2>2. Due(r)' = Due(r) /\ freed'[r] = freed[r]
    BY <1>4, <2>1
  <2>3. AtNotifier(r)' = IF r = f.pic THEN 1 ELSE AtNotifier(r)
    BY <2>1 DEF AtNotifier
  <2> QED
    BY <1>2, <1>3, <2>1, <2>2, <2>3
<1>7. CASE RawKept(f)
  <2>1. AtNotifier(r)' = AtNotifier(r) /\ freed'[r] = freed[r]
    BY <1>5, <1>7 DEF RawKept
  <2>2. mishap' = IF f.reproc THEN mishap ELSE [mishap EXCEPT ![f.pic] = "kept"]
    BY <1>7 DEF RawKept
  <2>3. CASE f = Source(r)
    <3>1. mishap'[r] = "kept"
      BY <1>1, <1>2, <2>2, <2>3
    <3>2. Due(r)' = 0
      BY <3>1 DEF Due
    <3> QED
      BY <1>3, <2>1, <2>3, <3>2
  <2>4. CASE f # Source(r)
    <3>1. mishap'[r] = mishap[r]
      BY <1>1, <1>2, <2>2, <2>4
    <3> QED
      BY <1>3, <1>4, <2>1, <2>4, <3>1
  <2> QED
    BY <2>3, <2>4
<1>8. CASE RawFails(f)
  <2>1. ext'.notifier = ext.notifier
    BY <1>8 DEF RawFails, PpTyped
  <2>2. AtNotifier(r)' = AtNotifier(r) /\ Due(r)' = Due(r)
    BY <1>4, <1>5, <1>8, <2>1 DEF RawFails
  <2>3. r \in SourcesIn({f}) <=> f = Source(r)
    BY DEF SourcesIn
  <2>4. freed'[r] = freed[r] + (IF r \in SourcesIn({f}) THEN 1 ELSE 0)
    BY <1>8, FreedAll DEF RawFails
  <2> QED
    BY <1>3, <2>2, <2>3, <2>4
<1>9. CASE RawRefused(f)
  <2>1. /\ AtNotifier(r)' = AtNotifier(r) /\ ~f.reproc
        /\ freed' = [freed EXCEPT ![f.pic] = @ + 2]
        /\ mishap' = [mishap EXCEPT ![f.pic] = "twice"]
    BY <1>5, <1>9 DEF RawRefused
  <2>2. CASE f = Source(r)
    <3>1. freed'[r] = freed[r] + 2 /\ mishap'[r] = "twice"
      BY <1>1, <1>2, <2>1, <2>2
    <3>2. Due(r)' = 2
      BY <3>1 DEF Due
    <3> QED
      BY <1>3, <2>1, <2>2, <3>1, <3>2
  <2>3. CASE f # Source(r)
    <3>1. mishap'[r] = mishap[r] /\ freed'[r] = freed[r]
      BY <1>1, <1>2, <2>1, <2>3
    <3> QED
      BY <1>3, <1>4, <2>1, <2>3, <3>1
  <2> QED
    BY <2>2, <2>3
<1> QED
  BY <1>6, <1>7, <1>8, <1>9

\* The next raw frame, if there is one.
LEMMA RawTaken ==
  ASSUME PpInv, Mishandled, NextRaw
  PROVE  PpInv'
<1> USE DEF PpInv
<1>1. /\ pt.pc = "raw" /\ hal' = hal /\ pt' = [pt EXCEPT !.pc = "pp"]
      /\ pq' = [pq EXCEPT !.inputRawQ = RestOf(@)]
      /\ hal.pc \in {"started", "stopping"}
  BY DEF NextRaw, PtGoto, Commands
<1>2. /\ pt'.pc = "pp" /\ pt'.is_active = pt.is_active /\ pt'.cmds = pt.cmds /\ pt'.pic = pt.pic
  BY <1>1 DEF PpTyped
<1>3. /\ pq'.ongoingPPQ = pq.ongoingPPQ /\ pq'.ongoingJpegQ = pq.ongoingJpegQ
      /\ pq'.inputPPQ = pq.inputPPQ /\ pq'.inputRawQ = RestOf(pq.inputRawQ)
      /\ pq'.inputJpegQ = pq.inputJpegQ
  BY <1>1 DEF PpTyped
<1>4. pq.inputRawQ \in Seq(RawFrame)
  BY DEF PpTyped
<1>5. CASE pq.inputRawQ = <<>>
  <2>1. UNCHANGED <<ext, freed, mishap>> /\ RestOf(pq.inputRawQ) = pq.inputRawQ
    BY <1>5 DEF NextRaw, RestOf
  <2>2. pq' = pq
    BY <1>1, <2>1 DEF PpTyped
  <2>3. PpTyped'
    BY <1>1, <2>1, <2>2 DEF PpTyped
  <2>4. Commands' /\ Reprocessed'
    BY <1>1, <1>2, <2>1, <2>2 DEF Commands, Reprocessed, Stopping
  <2>5. EachAccounted' /\ Encoding'
    BY <1>1, <1>2, <2>1, <2>2, <2>3, PlacesKept, EncodingKept
  <2> QED
    BY <2>3, <2>4, <2>5
<1>6. CASE pq.inputRawQ # <<>>
  <2> DEFINE f == Head(pq.inputRawQ)
  <2>1. RawHandedOver(f) \/ RawKept(f) \/ RawFails(f) \/ RawRefused(f)
    BY <1>6 DEF NextRaw
  <2>2. /\ f \in RawFrame /\ pq'.inputRawQ = Tail(pq.inputRawQ)
        /\ Tail(pq.inputRawQ) \in Seq(RawFrame) /\ f \in Elems(pq.inputRawQ)
    BY <1>3, <1>4, <1>6, ElemsChanged DEF RestOf
  <2>3. \A X : Count(Tail(pq.inputRawQ), X) = Count(pq.inputRawQ, X) - (IF f \in X THEN 1 ELSE 0)
    BY <1>4, <1>6, CountTail
  <2>4. Count(pq.inputRawQ, {f}) # 0
    BY <1>4, <2>2, ElemsCounted
  <2> HIDE DEF f
  <2>5. /\ ext'.reproc = ext.reproc /\ ext'.open = ext.open /\ ext'.encoder = ext.encoder
        /\ ext'.evts = ext.evts
    BY <2>1 DEF PpTyped, RawHandedOver, RawKept, RawFails, RawRefused
  <2>6. f.pic \in Pic
    BY <2>2 DEF RawFrame
  <2>7. ASSUME NEW r \in Pic
        PROVE  /\ f # Source(r) => /\ AtNotifier(r)' = AtNotifier(r) /\ Due(r)' = Due(r)
                                   /\ freed'[r] = freed[r]
               /\ f = Source(r) /\ AtNotifier(r) = 0 /\ freed[r] = 0 /\ Due(r) = 1
                     => AtNotifier(r)' + freed'[r] = Due(r)'
               /\ AtNotifier(r)' \in 0 .. 1 /\ freed'[r] \in Nat /\ freed'[r] >= freed[r]
    BY <1>1, <2>1, <2>2, RawEnds
  <2>8. PpTyped'
    <3>1. ext' \in [open : BOOLEAN, reproc : Seq(Pic), outputs : SUBSET Pic,
                    encoder : SUBSET Pic, evts : Seq(Pic), notifier : SUBSET Pic]
      <4>1. \/ ext' = [ext EXCEPT !.notifier = @ \cup {f.pic}]
            \/ ext' = [ext EXCEPT !.outputs = @ \ {f.pic}]
            \/ ext' = ext
        BY <2>1 DEF RawHandedOver, RawKept, RawFails, RawRefused
      <4>2. CASE ext' = [ext EXCEPT !.notifier = @ \cup {f.pic}]
        BY <2>6, <4>2 DEF PpTyped
      <4>3. CASE ext' = [ext EXCEPT !.outputs = @ \ {f.pic}]
        BY <4>3 DEF PpTyped
      <4>4. CASE ext' = ext
        BY <4>4 DEF PpTyped
      <4> QED
        BY <4>1, <4>2, <4>3, <4>4
    <3>2. freed' \in [Pic -> Nat]
      <4>1. DOMAIN freed' = Pic /\ freed' = [r \in DOMAIN freed' |-> freed'[r]]
        BY <2>1, Zenon DEF PpTyped, RawHandedOver, RawKept, RawFails, RawRefused, FreeAll
      <4> QED
        BY <2>7, <4>1
    <3>3. mishap' \in [Pic -> Mishaps]
      BY <2>1, <2>6 DEF PpTyped, Mishaps, RawHandedOver, RawKept, RawFails, RawRefused
    <3>4. pq' \in [inputPPQ : Seq(Pic), ongoingPPQ : Seq(Pic), inputJpegQ : Seq(Pic),
                   ongoingJpegQ : Seq(JpegJob), inputRawQ : Seq(RawFrame)]
      <4>1. pq' = [pq EXCEPT !.inputRawQ = Tail(pq.inputRawQ)]
        BY <1>1, <1>6 DEF RestOf
      <4> QED
        BY <2>2, <4>1 DEF PpTyped
    <3> QED
      BY <1>1, <3>1, <3>2, <3>3, <3>4 DEF PpTyped
  <2>9. \A r \in Pic : Encoded(r)' = Encoded(r)
    BY <1>3 DEF Encoded
  <2>10. ASSUME NEW r \in Pic PROVE (Placed(r) + freed[r] = Due(r))'
    <3> DEFINE a == Count(pq.inputPPQ, {r})
               b == Count(pq.ongoingPPQ, {r})
               c == Count(pq.inputJpegQ, {r})
               d == Encoded(r)
               e == Count(pq.inputRawQ, {Source(r)})
               g == AtNotifier(r)
    <3>1. /\ a \in Nat /\ b \in Nat /\ c \in Nat /\ d \in Nat /\ e \in Nat /\ g \in 0 .. 1
          /\ freed[r] \in Nat /\ Placed(r) = a + b + c + d + e + g
      BY PlaceCounts DEF Placed
    <3>2. Placed(r)' = a + b + c + d + Count(pq'.inputRawQ, {Source(r)}) + AtNotifier(r)'
      BY <1>3, <2>9 DEF Placed
    <3>3. Count(pq'.inputRawQ, {Source(r)}) = e - (IF f = Source(r) THEN 1 ELSE 0)
      BY <2>2, <2>3
    <3>4. Placed(r) + freed[r] = Due(r)
      BY DEF EachAccounted
    <3>5. CASE f # Source(r)
      <4>1. /\ AtNotifier(r)' = g /\ Due(r)' = Due(r) /\ freed'[r] = freed[r]
        BY <2>7, <3>5
      <4>2. Placed(r)' = a + b + c + d + (e - 0) + g
        BY <3>2, <3>3, <3>5, <4>1
      <4> HIDE DEF a, b, c, d, e, g
      <4> QED
        BY <3>1, <3>4, <4>1, <4>2
    <3>6. CASE f = Source(r)
      <4>1. /\ Placed(r) \in 0 .. 1
            /\ Placed(r) = 1 => freed[r] = 0 /\ mishap[r] = "none" /\ r \in hal.came
        BY PlacedOnce
      <4>2. e # 0
        BY <2>4, <3>6
      <4>3. Placed(r) = 1 /\ a = 0 /\ b = 0 /\ c = 0 /\ d = 0 /\ e = 1 /\ g = 0
        <5> HIDE DEF a, b, c, d, e, g
        <5> QED
          BY <3>1, <4>1, <4>2
      <4>4. freed[r] = 0 /\ Due(r) = 1
        BY <3>4, <4>1, <4>3
      <4>5. AtNotifier(r)' + freed'[r] = Due(r)'
        BY <2>7, <3>6, <4>3, <4>4
      <4>6. Placed(r)' = AtNotifier(r)' /\ AtNotifier(r)' \in 0 .. 1
        <5>1. AtNotifier(r)' \in 0 .. 1
          BY <2>7
        <5>2. Placed(r)' = 0 + 0 + 0 + 0 + (1 - 1) + AtNotifier(r)'
          BY <3>2, <3>3, <3>6, <4>3
        <5> QED
          BY <5>1, <5>2
      <4> QED
        BY <4>5, <4>6
    <3> QED
      BY <3>5, <3>6
  <2>11. Commands' /\ Reprocessed'
    BY <1>1, <1>2, <1>3, <2>5 DEF Commands, Reprocessed, Stopping
  <2>12. \A r \in Pic : Encoded(r)' = Encoded(r) /\ freed'[r] >= freed[r]
    BY <2>7, <2>9
  <2>13. Encoding'
    BY <1>2, <2>5, <2>8, <2>12, EncodingKept
  <2> QED
    BY <2>8, <2>10, <2>11, <2>13 DEF EachAccounted
<1> QED
  BY <1>5, <1>6

\* The next one is taken for the reprocess channel, if it is not held back.
LEMMA PPTaken ==
  ASSUME PpInv, NextPP
  PROVE  PpInv'
<1> USE DEF PpInv
<1>1. /\ pt.pc = "pp" /\ UNCHANGED <<ext, hal, mishap>> /\ hal.pc \in {"started", "stopping"}
  BY DEF NextPP, Commands
<1>2. CASE pq.inputPPQ = <<>> \/ Held
  <2>1. pt' = [pt EXCEPT !.pc = "cmd"] /\ UNCHANGED <<pq, freed, mishap>>
    BY <1>1, <1>2 DEF NextPP, PtGoto
  <2>2. /\ pt'.pc = "cmd" /\ pt'.is_active = pt.is_active /\ pt'.cmds = pt.cmds
    BY <2>1 DEF PpTyped
  <2>3. PpTyped'
    BY <1>1, <2>1 DEF PpTyped
  <2>4. Commands' /\ Reprocessed'
    BY <1>1, <2>1, <2>2 DEF Commands, Reprocessed, Stopping
  <2>5. EachAccounted' /\ Encoding'
    BY <1>1, <2>1, <2>2, <2>3, PlacesKept, EncodingKept
  <2> QED
    BY <2>3, <2>4, <2>5
<1>3. CASE ~(pq.inputPPQ = <<>> \/ Held)
  <2> DEFINE p == Head(pq.inputPPQ)
  <2>1. pq.inputPPQ # <<>> /\ pq.inputPPQ \in Seq(Pic) /\ pq.ongoingPPQ \in Seq(Pic)
    BY <1>3 DEF PpTyped
  <2>2. p \in Pic /\ Tail(pq.inputPPQ) \in Seq(Pic)
    BY <2>1
  <2>3. \A r : Count(Tail(pq.inputPPQ), {r})
                 = Count(pq.inputPPQ, {r}) - (IF p \in {r} THEN 1 ELSE 0)
    BY <2>1, CountTail
  <2>4. CASE ext.open
    <3>1. /\ pq' = [pq EXCEPT !.inputPPQ = Tail(@), !.ongoingPPQ = Append(@, p)]
          /\ pt' = [pt EXCEPT !.pc = "reproc", !.pic = p]
          /\ UNCHANGED freed
      BY <1>3, <2>4 DEF NextPP
    <3>2. /\ pt'.pc = "reproc" /\ pt'.is_active = pt.is_active /\ pt'.cmds = pt.cmds
          /\ pt'.pic = p
      BY <3>1 DEF PpTyped
    <3>3. /\ pq'.ongoingPPQ = Append(pq.ongoingPPQ, p) /\ pq'.ongoingJpegQ = pq.ongoingJpegQ
          /\ pq'.inputPPQ = Tail(pq.inputPPQ) /\ pq'.inputRawQ = pq.inputRawQ
          /\ pq'.inputJpegQ = pq.inputJpegQ
      BY <3>1 DEF PpTyped
    <3> HIDE DEF p
    <3>4. PpTyped'
      <4>1. Append(pq.ongoingPPQ, p) \in Seq(Pic)
        BY <2>1, <2>2
      <4>2. pq' \in [inputPPQ : Seq(Pic), ongoingPPQ : Seq(Pic), inputJpegQ : Seq(Pic),
                     ongoingJpegQ : Seq(JpegJob), inputRawQ : Seq(RawFrame)]
        BY <2>2, <3>1, <4>1 DEF PpTyped
      <4> QED
        BY <1>1, <2>2, <3>1, <4>2 DEF PpTyped
    <3>5. ASSUME NEW r \in Pic PROVE (Placed(r) + freed[r] = Due(r))'
      <4>1. Count(Append(pq.ongoingPPQ, p), {r})
              = Count(pq.ongoingPPQ, {r}) + (IF p \in {r} THEN 1 ELSE 0)
        BY <2>1, <2>2, CountAppend
      <4>2. /\ AtNotifier(r)' = AtNotifier(r) /\ Due(r)' = Due(r) /\ Encoded(r)' = Encoded(r)
        BY <1>1, <3>3 DEF AtNotifier, Due, Encoded
      <4>3. Placed(r) + freed[r] = Due(r)
        BY DEF EachAccounted
      <4>4. /\ Count(pq'.inputPPQ, {r}) = Count(pq.inputPPQ, {r}) - (IF p \in {r} THEN 1 ELSE 0)
            /\ Count(pq'.ongoingPPQ, {r}) = Count(pq.ongoingPPQ, {r}) + (IF p \in {r} THEN 1 ELSE 0)
        BY <2>3, <3>3, <4>1
      <4> QED
        BY <3>1, <3>3, <4>2, <4>3, <4>4, PlaceCounts DEF Placed
    <3>6. Commands'
      BY <1>1, <3>2 DEF Commands, Stopping
    <3>7. Reprocessed'
      BY <1>1, <2>2, <3>2, <3>3 DEF Reprocessed
    <3>8. \A r \in Pic : Encoded(r)' = Encoded(r) /\ freed'[r] >= freed[r]
      BY <3>1, <3>3 DEF Encoded, PpTyped
    <3>9. Encoding'
      BY <1>1, <3>2, <3>4, <3>8, EncodingKept
    <3> QED
      BY <3>4, <3>5, <3>6, <3>7, <3>9 DEF EachAccounted
  <2>5. CASE ~ext.open
    <3>1. /\ pq' = [pq EXCEPT !.inputPPQ = Tail(@)] /\ pt' = [pt EXCEPT !.pc = "cmd"]
          /\ FreeAll({p})
      BY <1>3, <2>5 DEF NextPP, PtGoto
    <3>2. /\ pt'.pc = "cmd" /\ pt'.is_active = pt.is_active /\ pt'.cmds = pt.cmds
      BY <3>1 DEF PpTyped
    <3>3. /\ pq'.ongoingPPQ = pq.ongoingPPQ /\ pq'.ongoingJpegQ = pq.ongoingJpegQ
          /\ pq'.inputPPQ = Tail(pq.inputPPQ) /\ pq'.inputRawQ = pq.inputRawQ
          /\ pq'.inputJpegQ = pq.inputJpegQ
      BY <3>1 DEF PpTyped
    <3> HIDE DEF p
    <3>4. freed' \in [Pic -> Nat] /\ \A r \in Pic :
             freed'[r] = freed[r] + (IF r \in {p} THEN 1 ELSE 0) /\ freed'[r] >= freed[r]
      BY <3>1, FreedAll
    <3>5. PpTyped'
      BY <1>1, <2>2, <3>1, <3>4 DEF PpTyped
    <3>6. ASSUME NEW r \in Pic PROVE (Placed(r) + freed[r] = Due(r))'
      <4>1. /\ AtNotifier(r)' = AtNotifier(r) /\ Due(r)' = Due(r) /\ Encoded(r)' = Encoded(r)
        BY <1>1, <3>3 DEF AtNotifier, Due, Encoded
      <4>2. Placed(r) + freed[r] = Due(r)
        BY DEF EachAccounted
      <4>3. Count(pq'.inputPPQ, {r}) = Count(pq.inputPPQ, {r}) - (IF p \in {r} THEN 1 ELSE 0)
        BY <2>3, <3>3
      <4>4. freed'[r] = freed[r] + (IF p \in {r} THEN 1 ELSE 0)
        BY <3>4
      <4> QED
        BY <3>3, <4>1, <4>2, <4>3, <4>4, PlaceCounts DEF Placed
    <3>7. Commands' /\ Reprocessed'
      BY <1>1, <3>2, <3>3 DEF Commands, Reprocessed, Stopping
    <3>8. \A r \in Pic : Encoded(r)' = Encoded(r) /\ freed'[r] >= freed[r]
      BY <3>3, <3>4 DEF Encoded
    <3>9. Encoding'
      BY <1>1, <3>2, <3>5, <3>8, EncodingKept
    <3> QED
      BY <3>5, <3>6, <3>7, <3>9 DEF EachAccounted
  <2> QED
    BY <2>4, <2>5
<1> QED
  BY <1>2, <1>3

\* The channel refuses it: the last job goes out again.
LEMMA ReprocessingFailed ==
  ASSUME PpInv, ReprocessFails
  PROVE  PpInv'
<1> USE DEF PpInv
<1> DEFINE p == pt.pic
           q == pq.ongoingPPQ
<1>1. /\ pt.pc = "reproc" /\ UNCHANGED <<ext, hal, mishap>> /\ FreeAll({p})
      /\ pq' = [pq EXCEPT !.ongoingPPQ = AllButLast(@)]
      /\ pt' = [pt EXCEPT !.pc = "cmd", !.pic = NoPic]
  BY DEF ReprocessFails
<1>2. /\ pt'.pc = "cmd" /\ pt'.is_active = pt.is_active /\ pt'.cmds = pt.cmds
  BY <1>1 DEF PpTyped
<1>3. /\ pq'.ongoingPPQ = AllButLast(q) /\ pq'.ongoingJpegQ = pq.ongoingJpegQ
      /\ pq'.inputPPQ = pq.inputPPQ /\ pq'.inputRawQ = pq.inputRawQ
      /\ pq'.inputJpegQ = pq.inputJpegQ
  BY <1>1 DEF PpTyped
<1>4. p \in Pic /\ q = Append(ext.reproc, p) /\ ext.reproc \in Seq(Pic)
      /\ hal.pc \in {"started", "stopping"}
  BY <1>1 DEF Reprocessed, PpTyped, Commands
<1>5. AllButLast(q) = ext.reproc
  <2>1. Len(q) = Len(ext.reproc) + 1 /\ q \in Seq(Pic) /\ q # <<>> /\ q[Len(q)] = p
    <3> HIDE DEF p, q
    <3> QED
      BY <1>4
  <2>2. Append(AllButLast(q), q[Len(q)]) = q /\ AllButLast(q) \in Seq(Pic)
    <3> HIDE DEF q
    <3> QED
      BY <2>1, LastOut
  <2>3. Append(AllButLast(q), p) = Append(ext.reproc, p)
    <3> HIDE DEF q, p
    <3> QED
      BY <1>4, <2>1, <2>2
  <2> DEFINE r == AllButLast(q)
             s == ext.reproc
  <2>4. r \in Seq(Pic) /\ s \in Seq(Pic) /\ p \in Pic /\ Append(r, p) = Append(s, p)
    BY <1>4, <2>2, <2>3
  <2> HIDE DEF r, s, p, q
  <2>5. r = s
    <3>1. Len(Append(r, p)) = Len(r) + 1 /\ Len(Append(s, p)) = Len(s) + 1
      BY <2>4
    <3>2. Len(r) = Len(s)
      BY <2>4, <3>1
    <3>3. \A i \in 1 .. Len(r) : Append(r, p)[i] = r[i] /\ Append(s, p)[i] = s[i]
      BY <2>4, <3>2
    <3> QED
      BY <2>4, <3>2, <3>3, SeqEqual
  <2> QED
    BY <2>5 DEF r, s
<1>6. ASSUME NEW r \in Pic
      PROVE  Count(ext.reproc, {r}) = Count(q, {r}) - (IF p \in {r} THEN 1 ELSE 0)
  <2>1. Count(q, {r}) = Count(ext.reproc, {r}) + (IF p \in {r} THEN 1 ELSE 0)
    <3> HIDE DEF p, q
    <3> QED
      BY <1>4, CountAppend
  <2>2. Count(ext.reproc, {r}) \in Nat
    BY <1>4, CountType
  <2> HIDE DEF p, q
  <2> QED
    BY <2>1, <2>2
<1> HIDE DEF p
<1>7. freed' \in [Pic -> Nat] /\ \A r \in Pic :
             freed'[r] = freed[r] + (IF r \in {p} THEN 1 ELSE 0) /\ freed'[r] >= freed[r]
  BY <1>1, FreedAll
<1>8. PpTyped'
  BY <1>1, <1>4, <1>5, <1>7 DEF PpTyped
<1>9. ASSUME NEW r \in Pic PROVE (Placed(r) + freed[r] = Due(r))'
  <2>1. /\ AtNotifier(r)' = AtNotifier(r) /\ Due(r)' = Due(r) /\ Encoded(r)' = Encoded(r)
    BY <1>1, <1>3 DEF AtNotifier, Due, Encoded
  <2>2. Placed(r) + freed[r] = Due(r)
    BY DEF EachAccounted
  <2>3. pq'.ongoingPPQ = ext.reproc
    BY <1>3, <1>5
  <2> QED
    BY <1>3, <1>6, <1>7, <2>1, <2>2, <2>3, PlaceCounts DEF Placed
<1>10. Commands' /\ Reprocessed'
  BY <1>1, <1>2, <1>3, <1>4, <1>5 DEF Commands, Reprocessed, Stopping
<1>11. \A r \in Pic : Encoded(r)' = Encoded(r) /\ freed'[r] >= freed[r]
  BY <1>3, <1>7 DEF Encoded
<1>12. Encoding'
  BY <1>1, <1>2, <1>8, <1>11, EncodingKept
<1> QED
  BY <1>8, <1>9, <1>10, <1>12 DEF EachAccounted

\* The notifier releases a picture.
LEMMA NotifierReleased ==
  ASSUME PpInv, NotifierReleases
  PROVE  PpInv'
<1> USE DEF PpInv
<1>1. PICK p \in ext.notifier :
        ext' = [ext EXCEPT !.notifier = @ \ {p}] /\ FreeAll({p})
  BY DEF NotifierReleases
<1>2. UNCHANGED <<pq, pt, hal, mishap>> /\ p \in Pic
  BY DEF NotifierReleases, PpTyped
<1>3. /\ ext'.reproc = ext.reproc /\ ext'.open = ext.open /\ ext'.encoder = ext.encoder
      /\ ext'.evts = ext.evts /\ ext'.notifier = ext.notifier \ {p}
  BY <1>1 DEF PpTyped
<1>4. freed' \in [Pic -> Nat] /\ \A r \in Pic :
             freed'[r] = freed[r] + (IF r \in {p} THEN 1 ELSE 0) /\ freed'[r] >= freed[r]
  BY <1>1, FreedAll
<1>5. PpTyped'
  BY <1>1, <1>2, <1>4 DEF PpTyped
<1>6. ASSUME NEW r \in Pic PROVE (Placed(r) + freed[r] = Due(r))'
  <2>1. Due(r)' = Due(r) /\ Encoded(r)' = Encoded(r)
    BY <1>2 DEF Due, Encoded
  <2>2. AtNotifier(r)' = AtNotifier(r) - (IF r \in {p} THEN 1 ELSE 0)
    BY <1>1, <1>3 DEF AtNotifier
  <2>3. Placed(r) + freed[r] = Due(r)
    BY DEF EachAccounted
  <2> QED
    BY <1>2, <1>4, <2>1, <2>2, <2>3, PlaceCounts DEF Placed
<1>7. Commands' /\ Reprocessed'
  BY <1>2, <1>3 DEF Commands, Reprocessed, Stopping
<1>8. \A r \in Pic : Encoded(r)' = Encoded(r) /\ freed'[r] >= freed[r]
  BY <1>2, <1>4 DEF Encoded
<1>9. Encoding'
  BY <1>2, <1>3, <1>5, <1>8, EncodingKept
<1> QED
  BY <1>5, <1>6, <1>7, <1>9 DEF EachAccounted

\* An event of the encoder releases the job it is of, if that is ongoing and
\* its id is known.
LEMMA JpegEvtProcessed ==
  ASSUME PpInv, Mishandled, ProcessJpegEvt
  PROVE  PpInv'
<1> USE DEF PpInv
<1>0. PICK p : p = Head(ext.evts)
  OBVIOUS
<1> DEFINE q == pq.ongoingJpegQ
           hit == {j \in Elems(q) : j.pic = p /\ j.known}
           rest == {i \in DOMAIN q : ~(q[i].pic = p /\ q[i].known)}
           out == {j.pic : j \in hit}
<1>1. /\ ext.evts # <<>> /\ UNCHANGED <<hal, mishap>> /\ FreeAll(out)
      /\ pq' = [pq EXCEPT !.ongoingJpegQ = Kept(q, rest)]
      /\ ext' = [ext EXCEPT !.evts = Tail(@), !.outputs = @ \ out]
      /\ pt' = [pt EXCEPT !.cmds = Append(@, "JOB")]
  BY <1>0 DEF ProcessJpegEvt, WakeDataThread
<1>2. q \in Seq(JpegJob) /\ ext.evts \in Seq(Pic)
  BY DEF PpTyped
<1>3. p \in Pic /\ Tail(ext.evts) \in Seq(Pic) /\ p \in Elems(ext.evts)
  BY <1>0, <1>1, <1>2, ElemsChanged
<1>4. /\ pt'.pc = pt.pc /\ pt'.pic = pt.pic /\ pt'.is_active = pt.is_active
      /\ pt'.cmds = Append(pt.cmds, "JOB") /\ ext'.reproc = ext.reproc
      /\ ext'.open = ext.open /\ ext'.encoder = ext.encoder
      /\ ext'.evts = Tail(ext.evts) /\ ext'.notifier = ext.notifier
  BY <1>1 DEF PpTyped
<1>5. /\ pq'.ongoingPPQ = pq.ongoingPPQ /\ pq'.ongoingJpegQ = Kept(q, rest)
      /\ pq'.inputPPQ = pq.inputPPQ /\ pq'.inputRawQ = pq.inputRawQ
      /\ pq'.inputJpegQ = pq.inputJpegQ
  BY <1>1 DEF PpTyped
<1>6. rest \in SUBSET (1 .. Len(q)) /\ \A i \in 1 .. Len(q) : i \notin rest <=> q[i].pic = p /\ q[i].known
  <2>1. DOMAIN q = 1 .. Len(q)
    BY <1>2
  <2> QED
    BY <2>1
<1>7. \A r : r \in out <=> r = p /\ rest # 1 .. Len(q)
  <2>1. \A r : r \in out <=> \E i \in 1 .. Len(q) : q[i].pic = p /\ q[i].known /\ r = q[i].pic
    <3>1. DOMAIN q = 1 .. Len(q)
      BY <1>2
    <3> QED
      BY <3>1 DEF Elems
  <2>2. rest # 1 .. Len(q) <=> \E i \in 1 .. Len(q) : i \notin rest
    BY <1>6
  <2> HIDE DEF q, rest, out
  <2> QED
    BY <1>6, <2>1, <2>2
<1> HIDE DEF q, hit, rest, out
<1>8. Kept(q, rest) \in Seq(JpegJob)
  BY <1>2, <1>6, KeptNodes
<1>9. PpTyped'
  <2>1. pq' \in [inputPPQ : Seq(Pic), ongoingPPQ : Seq(Pic), inputJpegQ : Seq(Pic),
                 ongoingJpegQ : Seq(JpegJob), inputRawQ : Seq(RawFrame)]
    BY <1>1, <1>8 DEF PpTyped
  <2>2. ext' \in [open : BOOLEAN, reproc : Seq(Pic), outputs : SUBSET Pic,
                encoder : SUBSET Pic, evts : Seq(Pic), notifier : SUBSET Pic]
    BY <1>1, <1>3 DEF PpTyped
  <2>3. freed' \in [Pic -> Nat]
    BY <1>1, FreedAll
  <2> QED
    BY <1>1, <2>1, <2>2, <2>3, Woken DEF PpTyped
<1>10. ASSUME NEW r \in Pic, r # p
       PROVE  Encoded(r)' = Encoded(r) /\ freed'[r] = freed[r]
  <2>1. At(q, JobsOf(r)) \in SUBSET rest
    <3>1. \A i \in At(q, JobsOf(r)) : i \in 1 .. Len(q) /\ q[i].pic = r
      BY <1>2 DEF At, JobsOf
    <3> QED
      BY <1>6, <1>10, <3>1
  <2>2. Count(Kept(q, rest), JobsOf(r)) = Cardinality(At(q, JobsOf(r)) \cap rest)
    BY <1>2, <1>6, CountKept
  <2>3. At(q, JobsOf(r)) \cap rest = At(q, JobsOf(r))
    BY <2>1
  <2>4. freed'[r] = freed[r] + 0
    BY <1>1, <1>7, <1>10, FreedAll
  <2>5. freed[r] \in Nat
    BY DEF PpTyped
  <2>6. freed'[r] = freed[r]
    BY <2>4, <2>5
  <2>7. Encoded(r)' = Encoded(r)
    BY <1>5, <2>2, <2>3 DEF Encoded, Count, q
  <2> QED
    BY <2>6, <2>7
<1>11. /\ Encoded(p) \in Nat /\ freed[p] \in Nat
       /\ Encoded(p) = 0 \/ (Encoded(p) = 1 /\ freed[p] = 0)
  <2>1. /\ Placed(p) \in 0 .. 1
        /\ Placed(p) = 1 => freed[p] = 0 /\ mishap[p] = "none" /\ p \in hal.came
    BY <1>3, PlacedOnce
  <2> DEFINE a == Count(pq.inputPPQ, {p})
             b == Count(pq.ongoingPPQ, {p})
             c == Count(pq.inputJpegQ, {p})
             d == Encoded(p)
             e == Count(pq.inputRawQ, {Source(p)})
             f == AtNotifier(p)
             g == freed[p]
  <2>2. /\ a \in Nat /\ b \in Nat /\ c \in Nat /\ d \in Nat /\ e \in Nat /\ f \in 0 .. 1 /\ g \in Nat
    BY <1>3, PlaceCounts
  <2>3. Placed(p) = a + b + c + d + e + f
    BY DEF Placed
  <2>4. d \in Nat /\ g \in Nat /\ (d = 0 \/ (d = 1 /\ g = 0))
    <3>1. Placed(p) = 1 => g = 0
      BY <2>1
    <3> HIDE DEF a, b, c, d, e, f, g
    <3> QED
      BY <2>1, <2>2, <2>3, <3>1
  <2> QED
    BY <2>4
<1>12. /\ Encoded(p)' + freed'[p] = Encoded(p) + freed[p]
       /\ Encoded(p)' \in Nat /\ freed'[p] \in Nat
       /\ rest = 1 .. Len(q) => Encoded(p)' = Encoded(p) /\ freed'[p] = freed[p]
       /\ rest # 1 .. Len(q) => freed'[p] # 0
  <2>1. Encoded(p)' = Cardinality(At(q, JobsOf(p)) \cap rest)
    <3>1. Encoded(p)' = Count(Kept(q, rest), JobsOf(p))
      BY <1>5 DEF Encoded
    <3> QED
      BY <1>2, <1>6, <3>1, CountKept
  <2>2. Encoded(p) = Cardinality(At(q, JobsOf(p)))
    BY DEF Encoded, Count, q
  <2>3. freed'[p] = freed[p] + (IF p \in out THEN 1 ELSE 0)
    BY <1>1, <1>3, FreedAll
  <2>4. CASE rest = 1 .. Len(q)
    <3>1. At(q, JobsOf(p)) \cap rest = At(q, JobsOf(p))
      BY <1>2, <2>4 DEF At
    <3>2. Encoded(p)' = Encoded(p)
      BY <2>1, <2>2, <3>1
    <3>3. freed'[p] = freed[p] + 0
      BY <1>7, <2>3, <2>4
    <3> QED
      BY <1>11, <2>4, <3>2, <3>3
  <2>5. CASE rest # 1 .. Len(q)
    <3>1. PICK i \in 1 .. Len(q) : i \notin rest /\ q[i].pic = p /\ q[i].known
      BY <1>6, <2>5
    <3>2. \A j \in 1 .. Len(q) : q[j] \in JobsOf(p) <=> q[j].pic = p
      BY <1>2 DEF JobsOf
    <3>3. Count(q, JobsOf(p)) # 0
      BY <1>2, <3>1, <3>2, CountType
    <3>4. Encoded(p) = 1 /\ freed[p] = 0
      BY <1>11, <2>2, <3>3 DEF Count
    <3>5. Count(q, JobsOf(p)) <= 1
      BY <2>2, <3>4 DEF Count
    <3>6. \A j \in At(q, JobsOf(p)) : j = i
      <4>1. \A j \in At(q, JobsOf(p)) : j \in 1 .. Len(q) /\ q[j] \in JobsOf(p)
        BY <1>2 DEF At
      <4> QED
        BY <1>2, <3>1, <3>2, <3>5, <4>1, CountOnce
    <3>7. At(q, JobsOf(p)) \cap rest = {}
      BY <3>1, <3>6
    <3>8. Encoded(p)' = 0
      BY <2>1, <3>7, FS_EmptySet
    <3>9. freed'[p] = 1
      BY <1>7, <2>3, <2>5, <3>4
    <3> QED
      BY <2>5, <3>4, <3>8, <3>9
  <2> QED
    BY <2>4, <2>5
<1>13. ASSUME NEW r \in Pic
       PROVE  /\ Encoded(r)' + freed'[r] = Encoded(r) + freed[r]
              /\ Encoded(r)' \in Nat /\ freed'[r] \in Nat
              /\ r # p => Encoded(r)' = Encoded(r)
  <2>1. CASE r = p
    BY <1>12, <2>1
  <2>2. CASE r # p
    <3>1. Encoded(r) \in Nat /\ freed[r] \in Nat
      BY PlaceCounts
    <3> QED
      BY <1>10, <2>2, <3>1
  <2> QED
    BY <2>1, <2>2
<1>14. EachAccounted'
  <2> SUFFICES ASSUME NEW r \in Pic PROVE (Placed(r) + freed[r] = Due(r))'
    BY DEF EachAccounted
  <2>1. AtNotifier(r)' = AtNotifier(r) /\ Due(r)' = Due(r)
    BY <1>1, <1>4 DEF AtNotifier, Due
  <2>2. Placed(r) + freed[r] = Due(r)
    BY DEF EachAccounted
  <2>3. Encoded(r)' + freed'[r] = Encoded(r) + freed[r] /\ Encoded(r)' \in Nat /\ freed'[r] \in Nat
    BY <1>13
  <2>4. /\ Count(pq.inputPPQ, {r}) \in Nat /\ Count(pq.ongoingPPQ, {r}) \in Nat
        /\ Count(pq.inputJpegQ, {r}) \in Nat /\ Encoded(r) \in Nat
        /\ Count(pq.inputRawQ, {Source(r)}) \in Nat
        /\ AtNotifier(r) \in Nat /\ Due(r) \in Nat /\ freed[r] \in Nat
    BY PlaceCounts
  <2>5. /\ Count(pq'.inputPPQ, {r}) = Count(pq.inputPPQ, {r})
        /\ Count(pq'.ongoingPPQ, {r}) = Count(pq.ongoingPPQ, {r})
        /\ Count(pq'.inputJpegQ, {r}) = Count(pq.inputJpegQ, {r})
        /\ Count(pq'.inputRawQ, {Source(r)}) = Count(pq.inputRawQ, {Source(r)})
    BY <1>5
  <2> QED
    BY <2>1, <2>2, <2>3, <2>4, <2>5 DEF Placed
<1>15. Commands'
  BY <1>1, <1>4, Woken DEF Commands, Stopping
<1>16. Reprocessed'
  <2>1. q = <<>> => Kept(q, rest) = <<>>
    <3>1. Len(q) = 0 => Len(Kept(q, rest)) = 0
      <4>1. Len(Kept(q, rest)) = Cardinality(rest) /\ Cardinality(rest) <= Len(q)
        BY <1>2, <1>6, KeptNodes
      <4>2. IsFiniteSet(rest)
        BY <1>2, <1>6, KeptNodes
      <4>3. Cardinality(rest) \in Nat
        BY <4>2, FS_CardinalityType
      <4> QED
        BY <4>1, <4>3
    <3> QED
      BY <1>2, <1>8, <3>1
  <2> QED
    BY <1>1, <1>4, <1>5, <2>1 DEF Reprocessed, q
<1>17. Encoding'
  <2>1. ASSUME NEW r \in ext.encoder PROVE Encoded(r)' # 0
    <3>1. r \in Pic /\ Encoded(r) # 0 /\ r # p
      BY <1>3 DEF Encoding, PpTyped
    <3> QED
      BY <1>13, <3>1
  <2>2. ASSUME NEW r \in Elems(Tail(ext.evts))
        PROVE  /\ r \notin ext.encoder /\ (freed'[r] # 0 \/ Encoded(r)' # 0)
               /\ ~(pt.pc = "encode" /\ pt.pic = r)
    <3>1. r \in Elems(ext.evts)
      BY <1>1, <1>2, ElemsChanged
    <3>2. r \in Pic
      BY <3>1 DEF PpTyped, Elems
    <3>3. /\ r \notin ext.encoder /\ (freed[r] # 0 \/ Encoded(r) # 0)
          /\ ~(pt.pc = "encode" /\ pt.pic = r)
      BY <3>1 DEF Encoding
    <3>4. Encoded(r) \in Nat /\ freed[r] \in Nat
      BY <3>2, PlaceCounts
    <3>5. Encoded(r)' + freed'[r] = Encoded(r) + freed[r] /\ Encoded(r)' \in Nat /\ freed'[r] \in Nat
      BY <1>13, <3>2
    <3> QED
      BY <3>3, <3>4, <3>5
  <2>3. Elems(ext.evts)' = Elems(Tail(ext.evts))
    BY <1>4 DEF Elems
  <2>4. ASSUME pt.pc = "encode"
        PROVE  /\ pt.pic \in Pic /\ pq'.ongoingJpegQ # <<>> /\ pt.pic \notin ext.encoder
               /\ LastJob' = [pic |-> pt.pic, known |-> FALSE]
    <3>1. /\ pt.pic \in Pic /\ q # <<>> /\ q[Len(q)] = [pic |-> pt.pic, known |-> FALSE]
          /\ pt.pic \notin ext.encoder
      BY <2>4 DEF Encoding, LastJob, q
    <3>2. Len(q) \in 1 .. Len(q)
      BY <1>2, <3>1, LastOut
    <3>3. ~q[Len(q)].known
      BY <3>1
    <3>4. Len(q) \in rest
      BY <1>6, <3>2, <3>3
    <3>5. Kept(q, rest) # <<>> /\ Kept(q, rest)[Len(Kept(q, rest))] = q[Len(q)]
      BY <1>2, <1>6, <3>1, <3>4, KeptLast
    <3> QED
      BY <1>5, <3>1, <3>5 DEF LastJob
  <2> QED
    BY <1>4, <2>1, <2>2, <2>3, <2>4 DEF Encoding
<1> QED
  BY <1>9, <1>14, <1>15, <1>16, <1>17

\* It holds at first,
LEMMA PpInvInit == PpInit => PpInv
<1> SUFFICES ASSUME PpInit PROVE PpInv
  OBVIOUS
<1>1. /\ <<>> \in Seq(Pic) /\ <<>> \in Seq(JpegJob) /\ <<>> \in Seq(PpCmds) /\ Len(<<>>) = 0
      /\ <<>> \in Seq(RawFrame)
  OBVIOUS
<1>2. PpTyped
  BY <1>1 DEF PpInit, PpTyped, Modes, Mishaps
<1>3. /\ pq.inputPPQ = <<>> /\ pq.ongoingPPQ = <<>> /\ pq.inputJpegQ = <<>>
      /\ pq.ongoingJpegQ = <<>> /\ pq.inputRawQ = <<>>
      /\ pt.pc = "cmd" /\ ~pt.is_active /\ pt.cmds = <<>>
      /\ ext.reproc = <<>> /\ ~ext.open /\ ext.encoder = {} /\ ext.notifier = {} /\ ext.evts = <<>>
      /\ hal.pc = "stopped" /\ hal.came = {}
  BY DEF PpInit
<1>4. EachAccounted
  <2> SUFFICES ASSUME NEW r \in Pic PROVE Placed(r) + freed[r] = Due(r)
    BY DEF EachAccounted
  <2>1. /\ Count(pq.inputPPQ, {r}) = 0 /\ Count(pq.ongoingPPQ, {r}) = 0
        /\ Count(pq.inputJpegQ, {r}) = 0 /\ Encoded(r) = 0 /\ Count(pq.inputRawQ, {Source(r)}) = 0
    BY <1>3, CountEmpty DEF Encoded
  <2>2. AtNotifier(r) = 0 /\ Due(r) = 0 /\ freed[r] = 0
    <3>1. mishap[r] = "none" /\ freed[r] = 0
      BY DEF PpInit
    <3> QED
      BY <1>3, <3>1 DEF AtNotifier, Due
  <2> QED
    BY <2>1, <2>2 DEF Placed
<1>5. Commands
  <2>1. Count(pt.cmds, {"START"}) = 0 /\ Count(pt.cmds, {"STOP"}) = 0
    BY <1>3, CountEmpty
  <2> QED
    BY <1>3, <2>1 DEF Commands, Stopping
<1>6. Reprocessed /\ Encoding
  <2>1. Elems(ext.evts) = {}
    BY <1>3 DEF Elems
  <2> QED
    BY <1>3, <2>1 DEF Reprocessed, Encoding
<1> QED
  BY <1>2, <1>4, <1>5, <1>6 DEF PpInv

\* every step keeps it,
LEMMA PpInvStep == PpInv /\ Mishandled /\ [PpNext]_ppVars => PpInv'
<1> SUFFICES ASSUME PpInv, Mishandled, [PpNext]_ppVars PROVE PpInv'
  OBVIOUS
<1>1. CASE DataThread
  BY <1>1, ProcStarted, ProcStopped, JobAborted, ReprocStopped, QueuesFlushed, JobsDropped,
     JpegTaken, DataEncoded, EncodingFailed, JobIdKnown, RawTaken, PPTaken,
     FrameReprocessed, ReprocessingFailed DEF DataThread
<1>2. CASE \E p \in Pic : ProcessFrame(p)
  BY <1>2, FrameProcessed
<1>3. CASE ProcessPPData \/ JpegDone \/ ProcessJpegEvt \/ NotifierReleases
  BY <1>3, PPDataProcessed, JpegIsDone, JpegEvtProcessed, NotifierReleased
<1>4. CASE StartPp \/ StopPp \/ StopSource
  BY <1>4, PpStarted, PpStopped, SourceStopped
<1>5. CASE UNCHANGED ppVars
  <2>1. pq' = pq /\ pt' = pt /\ ext' = ext /\ hal' = hal /\ freed' = freed /\ mishap' = mishap
    BY <1>5 DEF ppVars
  <2>2. PpTyped' /\ Commands' /\ Reprocessed'
    BY <2>1 DEF PpInv, PpTyped, Commands, Reprocessed, Stopping
  <2>3. EachAccounted' /\ Encoding'
    BY <2>1, <2>2, PlacesKept, EncodingKept
  <2> QED
    BY <2>2, <2>3 DEF PpInv
<1> QED
  BY <1>1, <1>2, <1>3, <1>4, <1>5 DEF PpNext

\* and no step takes a release back, or a super buffer that has come.
LEMMA NothingTakenBack ==
  ASSUME PpInv, Mishandled, [PpNext]_ppVars
  PROVE  /\ \A p \in Pic : freed'[p] >= freed[p]
         /\ \A p \in hal.came : p \in hal'.came
<1>1. PpTyped /\ freed \in [Pic -> Nat]
  BY DEF PpInv, PpTyped
<1>2. UNCHANGED freed => \A p \in Pic : freed'[p] >= freed[p]
  BY <1>1
<1>3. \A S : FreeAll(S) => \A p \in Pic : freed'[p] >= freed[p]
  BY <1>1, FreedAll
<1>4. CASE NextRaw
  <2>1. CASE pq.inputRawQ = <<>>
    BY <1>2, <1>4, <2>1 DEF NextRaw
  <2>2. CASE pq.inputRawQ # <<>>
    <3> DEFINE f == Head(pq.inputRawQ)
    <3>1. UNCHANGED hal /\ (RawHandedOver(f) \/ RawKept(f) \/ RawFails(f) \/ RawRefused(f))
      BY <1>4, <2>2 DEF NextRaw
    <3>2. f \in RawFrame
      BY <2>2 DEF PpInv, PpTyped
    <3> HIDE DEF f
    <3> QED
      BY <3>1, <3>2, RawEnds
  <2> QED
    BY <2>1, <2>2
<1>5. CASE ProcessPPData
  BY <1>2, <1>3, <1>5 DEF ProcessPPData
<1>6. CASE NextPP
  BY <1>2, <1>3, <1>6 DEF NextPP
<1>7. CASE \E p \in Pic : ProcessFrame(p)
  <2>1. UNCHANGED freed /\ \E p \in Pic : hal' = [hal EXCEPT !.came = @ \cup {p}]
    BY <1>7 DEF ProcessFrame
  <2> QED
    BY <1>1, <1>2, <2>1 DEF PpTyped
<1>8. CASE StartProc \/ StopProc \/ StopReproc \/ NextJpeg \/ EncodeData \/ RememberJobId
           \/ Reprocess \/ JpegDone \/ StopPp \/ StopSource \/ UNCHANGED ppVars
  <2>1. UNCHANGED freed
    BY <1>8 DEF StartProc, StopProc, StopReproc, NextJpeg, EncodeData, RememberJobId,
                Reprocess, JpegDone, StopPp, StopSource, ppVars
  <2>2. hal'.came = hal.came
    BY <1>1, <1>8 DEF StartProc, StopProc, StopReproc, NextJpeg, EncodeData, RememberJobId,
                Reprocess, JpegDone, StopPp, StopSource, ppVars, PpTyped
  <2> QED
    BY <1>2, <2>1, <2>2
<1>9. CASE StartPp
  BY <1>1, <1>2, <1>9 DEF StartPp, PpTyped
<1>10. CASE AbortJob \/ DropJobs \/ EncodeFails \/ ReprocessFails \/ ProcessJpegEvt \/ NotifierReleases
  <2>1. hal' = hal /\ \E S : FreeAll(S)
    BY <1>10 DEF AbortJob, DropJobs, EncodeFails, ReprocessFails, ProcessJpegEvt, NotifierReleases
  <2> QED
    BY <1>3, <2>1
<1>11. CASE FlushQueues
  BY <1>1, <1>3, <1>11 DEF FlushQueues, PpTyped
<1>12. NextRaw \/ ProcessPPData \/ NextPP => hal'.came = hal.came
  BY DEF NextRaw, ProcessPPData, NextPP
<1> QED
  BY <1>4, <1>5, <1>6, <1>7, <1>8, <1>9, <1>10, <1>11, <1>12 DEF PpNext, DataThread

\* So what was mishandled stays so.
LEMMA MishandledStep == PpInv /\ Mishandled /\ [PpNext]_ppVars => Mishandled'
<1> SUFFICES ASSUME PpInv, Mishandled, [PpNext]_ppVars, NEW p \in Pic
             PROVE  /\ mishap'[p] # "none" => p \in hal'.came
                    /\ mishap'[p] = "twice" => freed'[p] >= 2
  BY DEF Mishandled
<1>1. /\ freed'[p] >= freed[p] /\ (p \in hal.came => p \in hal'.came)
      /\ freed[p] \in Nat /\ freed'[p] \in Nat /\ mishap \in [Pic -> Mishaps]
  <2>1. PpInv'
    BY PpInvStep
  <2> QED
    BY <2>1, NothingTakenBack DEF PpInv, PpTyped
<1>2. mishap'[p] = mishap[p] => /\ mishap'[p] # "none" => p \in hal'.came
                                /\ mishap'[p] = "twice" => freed'[p] >= 2
  BY <1>1 DEF Mishandled
<1>3. CASE mishap' = mishap
  BY <1>2, <1>3
<1>4. CASE \E q \in Pic : ProcessFrame(q)
  <2>1. PICK q \in Pic : ProcessFrame(q)
    BY <1>4
  <2>2. CASE mishap' = [mishap EXCEPT ![q] = "nomem"]
    <3>1. hal'.came = hal.came \cup {q}
      BY <2>1 DEF ProcessFrame, PpInv, PpTyped
    <3> QED
      BY <1>1, <1>2, <2>2, <3>1
  <2> QED
    BY <1>3, <2>1, <2>2 DEF ProcessFrame
<1>5. CASE ProcessPPData
  <2> DEFINE q == Head(pq.ongoingPPQ)
  <2>1. mishap' = mishap \/ mishap' = [mishap EXCEPT ![q] = "nomem"]
    BY <1>5 DEF ProcessPPData
  <2>2. q \in Pic /\ Count(pq.ongoingPPQ, {q}) # 0
    <3>1. pq.ongoingPPQ \in Seq(Pic) /\ pq.ongoingPPQ # <<>>
      BY <1>5 DEF ProcessPPData, PpInv, PpTyped
    <3> QED
      BY <3>1, ElemsChanged, ElemsCounted
  <2> HIDE DEF q
  <2>3. q \in hal.came
    BY <2>2, InPlace
  <2> QED
    BY <1>1, <1>2, <1>3, <2>1, <2>2, <2>3
<1>6. CASE NextRaw
  <2>1. CASE pq.inputRawQ = <<>>
    BY <1>3, <1>6, <2>1 DEF NextRaw
  <2>2. CASE pq.inputRawQ # <<>>
    <3> DEFINE f == Head(pq.inputRawQ)
               q == f.pic
    <3>1. UNCHANGED hal /\ (RawHandedOver(f) \/ RawKept(f) \/ RawFails(f) \/ RawRefused(f))
      BY <1>6, <2>2 DEF NextRaw
    <3>2. pq.inputRawQ \in Seq(RawFrame)
      BY DEF PpInv, PpTyped
    <3>3. f \in RawFrame /\ Count(pq.inputRawQ, {f}) # 0
      BY <2>2, <3>2, ElemsChanged, ElemsCounted
    <3> HIDE DEF f
    <3>4. q \in Pic /\ (~f.reproc => f = Source(q))
      <4>1. f = [pic |-> f.pic, reproc |-> f.reproc] /\ f.reproc \in BOOLEAN /\ q \in Pic
        BY <3>3 DEF RawFrame
      <4>2. ~f.reproc => f.reproc = FALSE
        BY <4>1
      <4> QED
        BY <4>1, <4>2, Zenon DEF Source
    <3> HIDE DEF q
    <3>5. ~f.reproc => q \in hal.came
      BY <3>3, <3>4, InPlace
    <3>6. CASE RawHandedOver(f) \/ RawFails(f)
      BY <1>3, <3>6 DEF RawHandedOver, RawFails
    <3>7. CASE RawKept(f)
      BY <1>1, <1>2, <1>3, <3>4, <3>5, <3>7 DEF RawKept, q
    <3>8. CASE RawRefused(f)
      <4>1. /\ freed' = [freed EXCEPT ![q] = @ + 2] /\ ~f.reproc
            /\ mishap' = [mishap EXCEPT ![q] = "twice"]
        BY <3>8 DEF RawRefused, q
      <4>2. p = q => freed'[p] = freed[p] + 2
        BY <4>1 DEF PpInv, PpTyped
      <4> QED
        BY <1>1, <1>2, <3>4, <3>5, <4>1, <4>2
    <3> QED
      BY <3>1, <3>6, <3>7, <3>8
  <2> QED
    BY <2>1, <2>2
<1>7. CASE StartProc \/ StopProc \/ StopReproc \/ NextJpeg \/ EncodeData \/ RememberJobId
           \/ Reprocess \/ JpegDone \/ StartPp \/ StopPp \/ StopSource \/ UNCHANGED ppVars
  BY <1>3, <1>7 DEF StartProc, StopProc, StopReproc, NextJpeg, EncodeData, RememberJobId,
                Reprocess, JpegDone, StartPp, StopPp, StopSource, ppVars
<1>8. CASE AbortJob \/ DropJobs \/ EncodeFails \/ ReprocessFails \/ ProcessJpegEvt
           \/ NotifierReleases \/ FlushQueues \/ NextPP
  BY <1>3, <1>8 DEF AbortJob, DropJobs, EncodeFails, ReprocessFails, ProcessJpegEvt,
                NotifierReleases, FlushQueues, NextPP
<1> QED
  BY <1>4, <1>5, <1>6, <1>7, <1>8 DEF PpNext, DataThread

\* and it says what the run checks.
LEMMA PpInvPics == PpInv /\ Mishandled => PicsAccounted /\ ReprocInOrder
<1> SUFFICES ASSUME PpInv, Mishandled PROVE PicsAccounted /\ ReprocInOrder
  OBVIOUS
<1>1. PicInOnePlace
  <2> SUFFICES ASSUME NEW p \in Pic
               PROVE  /\ Places(p) + freed[p] = Due(p)
                      /\ mishap[p] = "twice" => freed[p] = 2
    BY DEF PicInOnePlace
  <2>1. \A x, q : Times(x, q) = Count(q, {x})
    <3> SUFFICES ASSUME NEW x, NEW q PROVE Times(x, q) = Count(q, {x})
      OBVIOUS
    <3>1. {i \in DOMAIN q : q[i] = x} = At(q, {x})
      BY DEF At
    <3> QED
      BY <3>1 DEF Times, Count
  <2>2. {i \in DOMAIN pq.ongoingJpegQ : pq.ongoingJpegQ[i].pic = p}
          = At(pq.ongoingJpegQ, JobsOf(p))
    <3>1. \A i \in DOMAIN pq.ongoingJpegQ : pq.ongoingJpegQ[i] \in JpegJob
      BY DEF PpInv, PpTyped
    <3> QED
      BY <3>1 DEF At, JobsOf
  <2>3. Placed(p) + freed[p] = Due(p)
    BY DEF PpInv, EachAccounted
  <2>4. Cardinality({i \in DOMAIN pq.ongoingJpegQ : pq.ongoingJpegQ[i].pic = p}) = Encoded(p)
    BY <2>2 DEF Encoded, Count
  <2>5. Places(p) = Placed(p)
    BY <2>1, <2>4 DEF Places, Placed, AtNotifier
  <2>6. mishap[p] = "twice" => freed[p] = 2
    <3>1. mishap[p] = "twice" => Due(p) = 2 /\ freed[p] >= 2
      BY DEF Due, Mishandled
    <3>2. Placed(p) \in 0 .. 1 /\ freed[p] \in Nat
      <4>1. PpTyped /\ EachAccounted
        BY DEF PpInv
      <4> QED
        BY <4>1, PlacedOnce, PlaceCounts
    <3> QED
      BY <2>3, <3>1, <3>2
  <2> QED
    BY <2>3, <2>5, <2>6
<1>2. NothingOngoing
  <2> SUFFICES ASSUME hal.pc = "stopped"
               PROVE  /\ pq.ongoingPPQ = <<>> /\ pq.ongoingJpegQ = <<>>
                      /\ ext.encoder = {} /\ ext.reproc = <<>> /\ ~ext.open
    BY DEF NothingOngoing
  <2>1. pt.pc = "cmd" /\ pq.ongoingPPQ = <<>> /\ pq.ongoingJpegQ = <<>> /\ ~ext.open
    BY DEF PpInv, Commands, Reprocessed
  <2>2. ext.reproc = <<>>
    BY <2>1 DEF PpInv, Reprocessed
  <2>3. \A p \in Pic : Encoded(p) = 0
    BY <2>1, CountEmpty DEF Encoded
  <2>4. ext.encoder = {}
    BY <2>3 DEF PpInv, Encoding, PpTyped
  <2> QED
    BY <2>1, <2>2, <2>4
<1>3. ReprocInOrder
  BY DEF PpInv, Reprocessed, ReprocInOrder
<1> QED
  BY <1>1, <1>2, <1>3 DEF PicsAccounted

\* Nothing is mishandled at first.
LEMMA PpFull ==
  /\ PpInit => PpInv /\ Mishandled
  /\ PpInv /\ Mishandled /\ [PpNext]_ppVars => PpInv' /\ Mishandled'
<1>1. PpInit => Mishandled
  BY DEF PpInit, Mishandled
<1> QED
  BY <1>1, PpInvInit, PpInvStep, MishandledStep

\* Every super buffer that has come is in one place until it is released, once,
\* but for the raw frames the code keeps or releases twice and those it has no
\* memory for; and when the postprocessor has stopped none is ongoing.
THEOREM PicsReachTheirEnd == PpSpec => []PicsAccounted
<1>1. PpInv /\ Mishandled => PicsAccounted
  BY PpInvPics
<1> QED
  BY <1>1, PpFull, PTL DEF PpSpec

\* The reprocess channel's frames come back in the order of their jobs.
THEOREM FramesJoinTheirSource == PpSpec => []ReprocInOrder
<1>1. PpInv /\ Mishandled => ReprocInOrder
  BY PpInvPics
<1> QED
  BY <1>1, PpFull, PTL DEF PpSpec

\* Type correctness: a super buffer is released at most twice.
THEOREM PostProcTyped == PpSpec => []PpTypeOK
<1>1. PpInv /\ Mishandled => PpTypeOK
  <2> SUFFICES ASSUME PpInv, Mishandled PROVE PpTypeOK
    OBVIOUS
  <2>1. ASSUME NEW p \in Pic PROVE freed[p] \in 0 .. 2
    <3>1. PpTyped /\ EachAccounted
      BY DEF PpInv
    <3>2. Placed(p) \in 0 .. 1 /\ freed[p] \in Nat /\ Due(p) \in 0 .. 2
      BY <3>1, PlacedOnce, PlaceCounts
    <3>3. Placed(p) + freed[p] = Due(p)
      BY <3>1 DEF EachAccounted
    <3> QED
      BY <3>2, <3>3
  <2>2. freed \in [Pic -> 0 .. 2]
    BY <2>1 DEF PpInv, PpTyped
  <2>3. \A q \in {"inputPPQ", "ongoingPPQ", "inputJpegQ"} : pq[q] \in Seq(Pic)
    BY DEF PpInv, PpTyped
  <2> QED
    BY <2>2, <2>3 DEF PpInv, PpTyped, PpTypeOK, PpCmds
<1> QED
  BY <1>1, PpFull, PTL DEF PpSpec
=============================================================================
