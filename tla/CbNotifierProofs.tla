-------------------------- MODULE CbNotifierProofs --------------------------
(* A theorem about the notifier, for every set of senders and notifications.  *)
(* CbInv is inductive: it counts who has a notification, the queue, the       *)
(* thread, a sender or nobody any more, over the sends, the flushes of a stop *)
(* and the end of the thread.                                                 *)
EXTENDS CbNotifier, QueuesProofs

\* A set in which one member has come or gone.
LEMMA OneChanged ==
  ASSUME NEW S, IsFiniteSet(S), NEW A \in SUBSET S, NEW B \in SUBSET S,
         NEW s, A \ {s} = B \ {s}
  PROVE  /\ Cardinality(A) \in Nat /\ Cardinality(B) \in Nat
         /\ Cardinality(B) + (IF s \in A THEN 1 ELSE 0)
               = Cardinality(A) + (IF s \in B THEN 1 ELSE 0)
<1>1. IsFiniteSet(A) /\ IsFiniteSet(B)
  BY FS_Subset
<1>2. Cardinality(A) \in Nat /\ Cardinality(B) \in Nat
  BY <1>1, FS_CardinalityType
<1>3. Cardinality(A \ {s}) = IF s \in A THEN Cardinality(A) - 1 ELSE Cardinality(A)
  BY <1>1, FS_RemoveElement
<1>4. Cardinality(B \ {s}) = IF s \in B THEN Cardinality(B) - 1 ELSE Cardinality(B)
  BY <1>1, FS_RemoveElement
<1> QED
  BY <1>2, <1>3, <1>4

-----------------------------------------------------------------------------
(* The notifier.                                                           *)

CbTyped ==
    /\ cb \in [mActive : BOOLEAN, dataQ : Seq(Note),
               cmds : Seq({"JOB", "START", "STOP", "EXIT"}),
               modes : Nat, mode : {"START", "STOP"}, sent : SUBSET Note]
    /\ cbTh \in [pc : {"none", "wait", "sync", "call", "ended", "destroyed"},
                 note : Note \cup {NoNote}, isSnapshotActive : BOOLEAN,
                 longShot : BOOLEAN, expected : Nat, rcvd : Nat, done : Nat]
    /\ sender \in [Sender -> [pc : {"idle", "checked", "queued"}, note : Note \cup {NoNote}]]
    /\ released \in [Note -> Nat]

\* Who has a notification, counted.
InQueue(n) == Count(cb.dataQ, {n})
ThreadsNote(n) == IF cbTh.note = n THEN 1 ELSE 0
SendersOf(n) == {s \in Sender : sender[s].note = n}
Sent(n) == IF n \in cb.sent THEN 1 ELSE 0

\* A sender and the thread have a notification at these places only.
HasNote ==
    /\ \A s \in Sender : sender[s].note # NoNote <=> sender[s].pc = "checked"
    /\ cbTh.note # NoNote <=> cbTh.pc \in {"sync", "call"}

OneHolder ==
    \A n \in Note : InQueue(n) + ThreadsNote(n) + Cardinality(SendersOf(n)) + released[n] = Sent(n)

\* Jobs come for what is in the queue, also when no thread would take it.
Queued == {s \in Sender : sender[s].pc = "queued"}
JobsSuffice == Len(cb.dataQ) <= Count(cb.cmds, {"JOB"}) + Cardinality(Queued)

\* While pictures are expected the end of the picture was not told.
PictureOpen == cbTh.isSnapshotActive /\ cbTh.rcvd < cbTh.expected => cbTh.done = 0

CbInv == CbTyped /\ HasNote /\ OneHolder /\ JobsSuffice /\ PictureOpen /\ SnapshotDoneOnce

\* The counts are numbers.
LEMMA HolderCounts ==
  ASSUME CbTyped, NEW n \in Note
  PROVE  /\ InQueue(n) \in Nat /\ ThreadsNote(n) \in 0 .. 1 /\ Sent(n) \in 0 .. 1
         /\ Cardinality(SendersOf(n)) \in Nat /\ released[n] \in Nat
         /\ IsFiniteSet(Sender)
         /\ InQueue(n) # 0 <=> InQ(n)
<1>1. cb.dataQ \in Seq(Note)
  BY DEF CbTyped
<1>2. InQueue(n) \in Nat /\ (InQueue(n) # 0 <=> InQ(n))
  BY <1>1, CountType DEF InQueue, InQ
<1>3. ThreadsNote(n) \in 0 .. 1 /\ Sent(n) \in 0 .. 1
  BY DEF ThreadsNote, Sent
<1>4. IsFiniteSet(Sender) /\ SendersOf(n) \in SUBSET Sender
  BY CbAssumption DEF SendersOf
<1>5. Cardinality(SendersOf(n)) \in Nat
  BY <1>4, FS_Subset, FS_CardinalityType
<1>6. released[n] \in Nat
  BY DEF CbTyped
<1> QED
  BY <1>2, <1>3, <1>4, <1>5, <1>6

\* What a flush leaves: those of the other kinds, and it is no longer.
LEMMA FlushedQueue ==
  ASSUME CbTyped, NEW k
  PROVE  /\ NotOfKind(k) \in Seq(Note) /\ Len(NotOfKind(k)) <= Len(cb.dataQ)
         /\ \A n \in Note :
               Count(NotOfKind(k), {n}) = IF Kind[n] = k THEN 0 ELSE InQueue(n)
<1> DEFINE q == cb.dataQ
           K == {i \in DOMAIN q : Kind[q[i]] # k}
<1>1. q \in Seq(Note) /\ K \in SUBSET (1 .. Len(q)) /\ NotOfKind(k) = Kept(q, K)
  <2>1. q \in Seq(Note) /\ DOMAIN q = 1 .. Len(q)
    BY DEF CbTyped
  <2>2. NotOfKind(k) = Kept(q, K)
    BY DEF NotOfKind
  <2> QED
    BY <2>1, <2>2
<1>2. Kept(q, K) \in Seq(Note) /\ Len(Kept(q, K)) <= Len(q)
  <2> HIDE DEF q, K
  <2> QED
    BY <1>1, KeptNodes
<1>3. ASSUME NEW n \in Note
      PROVE  Count(Kept(q, K), {n}) = IF Kind[n] = k THEN 0 ELSE Count(q, {n})
  <2>1. At(q, {n}) \cap K = IF Kind[n] = k THEN {} ELSE At(q, {n})
    BY DEF At
  <2>2. Count(Kept(q, K), {n}) = Cardinality(At(q, {n}) \cap K)
    <3> HIDE DEF q, K
    <3> QED
      BY <1>1, CountKept
  <2> QED
    BY <2>1, <2>2, FS_EmptySet DEF Count
<1> QED
  BY <1>1, <1>2, <1>3 DEF InQueue

\* What is released once more.
LEMMA ReleasedAll ==
  ASSUME CbTyped, NEW S, released' = ReleaseAll(S)
  PROVE  /\ released' \in [Note -> Nat]
         /\ \A n \in Note : released'[n] = released[n] + (IF n \in S THEN 1 ELSE 0)
BY DEF CbTyped, ReleaseAll

\* What a step leaves alone is counted as before.
LEMMA SameHolders ==
  ASSUME CbTyped
  PROVE  /\ UNCHANGED sender => /\ Queued' = Queued
                                /\ \A n \in Note : SendersOf(n)' = SendersOf(n)
         /\ cbTh'.note = cbTh.note => \A n \in Note : ThreadsNote(n)' = ThreadsNote(n)
         /\ cb'.dataQ = cb.dataQ => \A n \in Note : InQueue(n)' = InQueue(n)
         /\ cb'.sent = cb.sent => \A n \in Note : Sent(n)' = Sent(n)
         /\ IsFiniteSet(Queued) /\ Cardinality(Queued) \in Nat
         /\ Count(cb.cmds, {"JOB"}) \in Nat /\ Len(cb.dataQ) \in Nat
<1>1. Queued \in SUBSET Sender /\ IsFiniteSet(Sender)
  BY CbAssumption DEF Queued
<1>2. IsFiniteSet(Queued) /\ Cardinality(Queued) \in Nat
  BY <1>1, FS_Subset, FS_CardinalityType
<1>3. Count(cb.cmds, {"JOB"}) \in Nat /\ Len(cb.dataQ) \in Nat
  BY CountType DEF CbTyped
<1> QED
  BY <1>2, <1>3 DEF Queued, SendersOf, ThreadsNote, InQueue, Sent

\* The thread starts.
LEMMA CallbacksSet ==
  ASSUME CbInv, SetCallbacks
  PROVE  CbInv'
<1> USE DEF CbInv, SetCallbacks
<1>1. CbTyped'
  BY DEF CbTyped
<1>2. cb'.dataQ = cb.dataQ /\ cb'.sent = cb.sent /\ cb'.cmds = cb.cmds /\ cbTh'.note = cbTh.note
  BY DEF CbTyped
<1>3. HasNote'
  BY <1>2 DEF HasNote, CbTyped
<1>4. OneHolder' /\ JobsSuffice'
  BY <1>2, SameHolders DEF OneHolder, JobsSuffice
<1>5. PictureOpen' /\ SnapshotDoneOnce'
  BY DEF PictureOpen, SnapshotDoneOnce, CbTyped
<1> QED
  BY <1>1, <1>3, <1>4, <1>5

\* A sender comes with a notification nobody had.
LEMMA NoteComes ==
  ASSUME CbInv, NEW s \in Sender, NotifyCallback(s)
  PROVE  CbInv'
<1> USE DEF CbInv
<1>1. PICK n \in Note \ cb.sent :
        /\ cb' = [cb EXCEPT !.sent = @ \cup {n}]
        /\ IF cb.mActive
           THEN /\ sender' = [sender EXCEPT ![s] = [pc |-> "checked", note |-> n]]
                /\ UNCHANGED released
           ELSE released' = ReleaseAll({n}) /\ UNCHANGED sender
  BY DEF NotifyCallback
<1>2. UNCHANGED cbTh /\ sender[s].pc = "idle" /\ n # NoNote
  BY CbAssumption DEF NotifyCallback
<1>3. /\ cb'.dataQ = cb.dataQ /\ cb'.cmds = cb.cmds /\ cbTh'.note = cbTh.note
      /\ cb'.sent = cb.sent \cup {n}
  BY <1>1, <1>2 DEF CbTyped
<1>4. released' \in [Note -> Nat]
  BY <1>1, ReleasedAll DEF CbTyped
<1>5. sender' \in [Sender -> [pc : {"idle", "checked", "queued"}, note : Note \cup {NoNote}]]
  <2>1. [pc |-> "checked", note |-> n] \in
           [pc : {"idle", "checked", "queued"}, note : Note \cup {NoNote}]
    OBVIOUS
  <2> QED
    BY <1>1, <2>1 DEF CbTyped
<1>6. CbTyped'
  BY <1>1, <1>2, <1>4, <1>5 DEF CbTyped
<1>13. \A t \in Sender :
          \/ sender'[t] = sender[t]
          \/ /\ t = s /\ sender[t].pc = "idle"
             /\ sender'[t].pc = "checked" /\ sender'[t].note = n
  <2>1. CASE cb.mActive
    <3>1. sender' = [sender EXCEPT ![s] = [pc |-> "checked", note |-> n]]
      BY <1>1, <2>1
    <3>2. sender'[s] = [pc |-> "checked", note |-> n] /\ \A t \in Sender \ {s} : sender'[t] = sender[t]
      BY <3>1 DEF CbTyped
    <3>3. [pc |-> "checked", note |-> n].pc = "checked" /\ [pc |-> "checked", note |-> n].note = n
      OBVIOUS
    <3> QED
      BY <1>2, <3>2, <3>3
  <2>2. CASE ~cb.mActive
    BY <1>1, <2>2
  <2> QED
    BY <2>1, <2>2
<1>7. HasNote'
  <2>1. cbTh'.note # NoNote <=> cbTh'.pc \in {"sync", "call"}
    BY <1>2 DEF HasNote
  <2>2. \A t \in Sender : sender'[t].note # NoNote <=> sender'[t].pc = "checked"
    BY <1>2, <1>13 DEF HasNote
  <2> QED
    BY <2>1, <2>2 DEF HasNote
<1>8. PictureOpen' /\ SnapshotDoneOnce'
  BY <1>2 DEF PictureOpen, SnapshotDoneOnce
<1>9. Queued' = Queued
  BY <1>13 DEF Queued
<1>10. JobsSuffice'
  BY <1>3, <1>9 DEF JobsSuffice
<1>11. ASSUME NEW m \in Note
       PROVE  (InQueue(m) + ThreadsNote(m) + Cardinality(SendersOf(m)) + released[m] = Sent(m))'
  <2>1. /\ InQueue(m)' = InQueue(m) /\ ThreadsNote(m)' = ThreadsNote(m)
        /\ Sent(m)' = IF m = n THEN 1 ELSE Sent(m)
    BY <1>3, SameHolders DEF Sent
  <2>2. Sent(n) = 0
    BY DEF Sent
  <2>3. InQueue(m) + ThreadsNote(m) + Cardinality(SendersOf(m)) + released[m] = Sent(m)
    BY DEF OneHolder
  <2>4. CASE cb.mActive
    <3>1. sender' = [sender EXCEPT ![s] = [pc |-> "checked", note |-> n]] /\ released' = released
      BY <1>1, <2>4
    <3>2. sender[s].note = NoNote /\ m # NoNote
      BY <1>2, CbAssumption DEF HasNote
    <3>3. s \notin SendersOf(m) /\ (s \in SendersOf(m)' <=> m = n)
      BY <3>1, <3>2 DEF SendersOf, CbTyped
    <3>4. SendersOf(m)' \ {s} = SendersOf(m) \ {s}
      BY <3>1 DEF SendersOf, CbTyped
    <3>5. SendersOf(m) \in SUBSET Sender /\ SendersOf(m)' \in SUBSET Sender
      BY DEF SendersOf
    <3>6. Cardinality(SendersOf(m)') + 0 = Cardinality(SendersOf(m)) + (IF m = n THEN 1 ELSE 0)
      BY <3>3, <3>4, <3>5, HolderCounts, OneChanged
    <3>7. Cardinality(SendersOf(m)') \in Nat
      BY <3>3, <3>4, <3>5, HolderCounts, OneChanged
    <3> QED
      BY <2>1, <2>2, <2>3, <3>1, <3>6, <3>7, HolderCounts
  <2>5. CASE ~cb.mActive
    <3>1. released' = ReleaseAll({n}) /\ UNCHANGED sender
      BY <1>1, <2>5
    <3>2. released'[m] = released[m] + (IF m = n THEN 1 ELSE 0)
      BY <3>1, ReleasedAll
    <3>3. SendersOf(m)' = SendersOf(m)
      BY <3>1, SameHolders
    <3> QED
      BY <2>1, <2>2, <2>3, <3>2, <3>3, HolderCounts
  <2> QED
    BY <2>4, <2>5
<1>12. OneHolder'
  BY <1>11 DEF OneHolder
<1> QED
  BY <1>6, <1>7, <1>8, <1>10, <1>12

\* It goes from the sender to the queue.
LEMMA NoteQueued ==
  ASSUME CbInv, NEW s \in Sender, Enqueue(s)
  PROVE  CbInv'
<1> USE DEF CbInv
<1> DEFINE n == sender[s].note
<1>1. /\ cb' = [cb EXCEPT !.dataQ = Append(@, n)]
      /\ sender' = [sender EXCEPT ![s] = [pc |-> "queued", note |-> NoNote]]
      /\ UNCHANGED <<cbTh, released>> /\ sender[s].pc = "checked"
  BY DEF Enqueue
<1>2. n \in Note /\ n # NoNote /\ cb.dataQ \in Seq(Note)
  BY <1>1, CbAssumption DEF HasNote, CbTyped
<1>3. /\ cb'.dataQ = Append(cb.dataQ, n) /\ cb'.cmds = cb.cmds /\ cbTh'.note = cbTh.note
      /\ cb'.sent = cb.sent
  BY <1>1 DEF CbTyped
<1>4. sender' \in [Sender -> [pc : {"idle", "checked", "queued"}, note : Note \cup {NoNote}]]
  <2>1. [pc |-> "queued", note |-> NoNote] \in
           [pc : {"idle", "checked", "queued"}, note : Note \cup {NoNote}]
    OBVIOUS
  <2> QED
    BY <1>1, <2>1 DEF CbTyped
<1>5. CbTyped'
  <2>1. Append(cb.dataQ, n) \in Seq(Note)
    BY <1>2
  <2> HIDE DEF n
  <2> QED
    BY <1>1, <2>1, <1>4 DEF CbTyped
<1>6. HasNote'
  BY <1>1 DEF HasNote, CbTyped
<1>7. PictureOpen' /\ SnapshotDoneOnce'
  BY <1>1 DEF PictureOpen, SnapshotDoneOnce
<1>8. JobsSuffice'
  <2>1. s \notin Queued /\ s \in Queued' /\ Queued' \ {s} = Queued \ {s}
    BY <1>1 DEF Queued, CbTyped
  <2>2. Queued \in SUBSET Sender /\ Queued' \in SUBSET Sender
    BY DEF Queued
  <2>3. /\ Cardinality(Queued) \in Nat /\ Cardinality(Queued') \in Nat
        /\ Cardinality(Queued') + 0 = Cardinality(Queued) + 1
    BY <2>1, <2>2, HolderCounts, OneChanged, CbAssumption
  <2>4. Len(cb'.dataQ) = Len(cb.dataQ) + 1
    BY <1>2, <1>3
  <2> QED
    BY <1>3, <2>3, <2>4, SameHolders DEF JobsSuffice
<1>9. ASSUME NEW m \in Note
      PROVE  (InQueue(m) + ThreadsNote(m) + Cardinality(SendersOf(m)) + released[m] = Sent(m))'
  <2>1. InQueue(m)' = InQueue(m) + (IF n \in {m} THEN 1 ELSE 0)
    <3> HIDE DEF n
    <3> QED
      BY <1>2, <1>3, CountAppend DEF InQueue
  <2>2. ThreadsNote(m)' = ThreadsNote(m) /\ Sent(m)' = Sent(m)
    BY <1>3, SameHolders
  <2>3. InQueue(m) + ThreadsNote(m) + Cardinality(SendersOf(m)) + released[m] = Sent(m)
    BY DEF OneHolder
  <2>4. (s \in SendersOf(m) <=> m = n) /\ s \notin SendersOf(m)'
    BY <1>1, CbAssumption DEF SendersOf, CbTyped
  <2>5. SendersOf(m)' \ {s} = SendersOf(m) \ {s}
    BY <1>1 DEF SendersOf, CbTyped
  <2>6. SendersOf(m) \in SUBSET Sender /\ SendersOf(m)' \in SUBSET Sender
    BY DEF SendersOf
  <2>7. /\ Cardinality(SendersOf(m)') + (IF m = n THEN 1 ELSE 0) = Cardinality(SendersOf(m)) + 0
        /\ Cardinality(SendersOf(m)') \in Nat
    BY <2>4, <2>5, <2>6, HolderCounts, OneChanged
  <2>8. released' = released
    BY <1>1
  <2> HIDE DEF n
  <2> QED
    BY <2>1, <2>2, <2>3, <2>7, <2>8, HolderCounts
<1>10. OneHolder'
  BY <1>9 DEF OneHolder
<1> QED
  BY <1>5, <1>6, <1>7, <1>8, <1>10

\* Or the sender releases it.
LEMMA NoteRefused ==
  ASSUME CbInv, NEW s \in Sender, EnqueueFails(s)
  PROVE  CbInv'
<1> USE DEF CbInv
<1> DEFINE n == sender[s].note
<1>1. /\ released' = ReleaseAll({n})
      /\ sender' = [sender EXCEPT ![s] = [pc |-> "idle", note |-> NoNote]]
      /\ UNCHANGED <<cb, cbTh>> /\ sender[s].pc = "checked"
  BY DEF EnqueueFails
<1>2. n \in Note /\ n # NoNote
  BY <1>1, CbAssumption DEF HasNote, CbTyped
<1>3. released' \in [Note -> Nat] /\ \A m \in Note : released'[m] = released[m] + (IF m = n THEN 1 ELSE 0)
  <2>1. released' = ReleaseAll({n})
    BY <1>1
  <2> HIDE DEF n
  <2>2. /\ released' \in [Note -> Nat]
        /\ \A m \in Note : released'[m] = released[m] + (IF m \in {n} THEN 1 ELSE 0)
    BY <2>1, ReleasedAll
  <2> QED
    BY <2>2
<1>4. sender' \in [Sender -> [pc : {"idle", "checked", "queued"}, note : Note \cup {NoNote}]]
  <2>1. [pc |-> "idle", note |-> NoNote] \in
           [pc : {"idle", "checked", "queued"}, note : Note \cup {NoNote}]
    OBVIOUS
  <2> QED
    BY <1>1, <2>1 DEF CbTyped
<1>5. CbTyped'
  BY <1>1, <1>3, <1>4 DEF CbTyped
<1>6. HasNote'
  BY <1>1 DEF HasNote, CbTyped
<1>7. PictureOpen' /\ SnapshotDoneOnce'
  BY <1>1 DEF PictureOpen, SnapshotDoneOnce
<1>8. JobsSuffice'
  <2>1. Queued' = Queued
    BY <1>1 DEF Queued, CbTyped
  <2> QED
    BY <1>1, <2>1 DEF JobsSuffice
<1>9. ASSUME NEW m \in Note
      PROVE  (InQueue(m) + ThreadsNote(m) + Cardinality(SendersOf(m)) + released[m] = Sent(m))'
  <2>1. InQueue(m)' = InQueue(m) /\ ThreadsNote(m)' = ThreadsNote(m) /\ Sent(m)' = Sent(m)
    BY <1>1 DEF InQueue, ThreadsNote, Sent
  <2>2. InQueue(m) + ThreadsNote(m) + Cardinality(SendersOf(m)) + released[m] = Sent(m)
    BY DEF OneHolder
  <2>3. (s \in SendersOf(m) <=> m = n) /\ s \notin SendersOf(m)'
    BY <1>1, <1>2, CbAssumption DEF SendersOf, CbTyped
  <2>4. SendersOf(m)' \ {s} = SendersOf(m) \ {s}
    BY <1>1 DEF SendersOf, CbTyped
  <2>5. SendersOf(m) \in SUBSET Sender /\ SendersOf(m)' \in SUBSET Sender
    BY DEF SendersOf
  <2>6. /\ Cardinality(SendersOf(m)') \in Nat
        /\ Cardinality(SendersOf(m)') + (IF m = n THEN 1 ELSE 0) = Cardinality(SendersOf(m)) + 0
    BY <2>3, <2>4, <2>5, HolderCounts, OneChanged
  <2>7. released'[m] = released[m] + (IF m = n THEN 1 ELSE 0)
    BY <1>3
  <2> HIDE DEF n
  <2> QED
    BY <2>1, <2>2, <2>6, <2>7, HolderCounts
<1>10. OneHolder'
  BY <1>9 DEF OneHolder
<1> QED
  BY <1>5, <1>6, <1>7, <1>8, <1>10

\* The sender sends its job command.
LEMMA JobSent ==
  ASSUME CbInv, NEW s \in Sender, SendJob(s)
  PROVE  CbInv'
<1> USE DEF CbInv
<1>1. /\ cb' = [cb EXCEPT !.cmds = Append(@, "JOB")]
      /\ sender' = [sender EXCEPT ![s].pc = "idle"]
      /\ UNCHANGED <<cbTh, released>> /\ sender[s].pc = "queued"
  BY DEF SendJob
<1>2. /\ cb'.dataQ = cb.dataQ /\ cb'.cmds = Append(cb.cmds, "JOB") /\ cbTh'.note = cbTh.note
      /\ cb'.sent = cb.sent
  BY <1>1 DEF CbTyped
<1>3. cb.cmds \in Seq({"JOB", "START", "STOP", "EXIT"})
  BY DEF CbTyped
<1>4. /\ Append(cb.cmds, "JOB") \in Seq({"JOB", "START", "STOP", "EXIT"})
      /\ Count(Append(cb.cmds, "JOB"), {"JOB"}) = Count(cb.cmds, {"JOB"}) + 1
  BY <1>3, CountAppend
<1>5. CbTyped'
  BY <1>1, <1>4 DEF CbTyped
<1>6. HasNote'
  BY <1>1 DEF HasNote, CbTyped
<1>7. PictureOpen' /\ SnapshotDoneOnce'
  BY <1>1 DEF PictureOpen, SnapshotDoneOnce
<1>8. JobsSuffice'
  <2>1. s \in Queued /\ s \notin Queued' /\ Queued' \ {s} = Queued \ {s}
    BY <1>1 DEF Queued, CbTyped
  <2>2. Queued \in SUBSET Sender /\ Queued' \in SUBSET Sender
    BY DEF Queued
  <2>3. /\ Cardinality(Queued) \in Nat /\ Cardinality(Queued') \in Nat
        /\ Cardinality(Queued') + 1 = Cardinality(Queued) + 0
    BY <2>1, <2>2, HolderCounts, OneChanged, CbAssumption
  <2> QED
    BY <1>2, <1>4, <2>3, SameHolders DEF JobsSuffice
<1>9. \A m \in Note : SendersOf(m)' = SendersOf(m)
  BY <1>1 DEF SendersOf, CbTyped
<1>10. OneHolder'
  BY <1>1, <1>2, <1>9, SameHolders DEF OneHolder
<1> QED
  BY <1>5, <1>6, <1>7, <1>8, <1>10

\* What leaves the queue by a flush of one kind is released.
LEMMA KindFlushed ==
  ASSUME CbInv, NEW k, released' = ReleaseAll(OfKind(k)), cb'.dataQ = NotOfKind(k),
         UNCHANGED sender, cbTh'.note = cbTh.note, cb'.sent = cb.sent
  PROVE  OneHolder' /\ Len(cb'.dataQ) <= Len(cb.dataQ) /\ Len(cb'.dataQ) \in Nat
<1> USE DEF CbInv
<1>1. ASSUME NEW m \in Note
      PROVE  (InQueue(m) + ThreadsNote(m) + Cardinality(SendersOf(m)) + released[m] = Sent(m))'
  <2>1. InQueue(m)' = IF Kind[m] = k THEN 0 ELSE InQueue(m)
    <3>1. Count(NotOfKind(k), {m}) = IF Kind[m] = k THEN 0 ELSE InQueue(m)
      BY FlushedQueue
    <3>2. InQueue(m)' = Count(cb'.dataQ, {m})
      BY DEF InQueue
    <3> QED
      BY <3>1, <3>2
  <2>2. released'[m] = released[m] + (IF InQueue(m) # 0 /\ Kind[m] = k THEN 1 ELSE 0)
    BY ReleasedAll, HolderCounts DEF OfKind
  <2>3. /\ ThreadsNote(m)' = ThreadsNote(m) /\ Sent(m)' = Sent(m)
        /\ SendersOf(m)' = SendersOf(m)
    BY SameHolders
  <2>4. InQueue(m) + ThreadsNote(m) + Cardinality(SendersOf(m)) + released[m] = Sent(m)
    BY DEF OneHolder
  <2> QED
    BY <2>1, <2>2, <2>3, <2>4, HolderCounts
<1>2. Len(cb'.dataQ) <= Len(cb.dataQ) /\ Len(cb'.dataQ) \in Nat
  BY FlushedQueue
<1> QED
  BY <1>1, <1>2 DEF OneHolder

\* What leaves the queue as it is emptied is released.
LEMMA AllFlushed ==
  ASSUME CbInv, released' = ReleaseAll({n \in Note : InQ(n)}), cb'.dataQ = <<>>,
         UNCHANGED sender, cbTh'.note = cbTh.note, cb'.sent = cb.sent
  PROVE  OneHolder' /\ Len(cb'.dataQ) = 0
<1> USE DEF CbInv
<1>1. ASSUME NEW m \in Note
      PROVE  (InQueue(m) + ThreadsNote(m) + Cardinality(SendersOf(m)) + released[m] = Sent(m))'
  <2>1. InQueue(m)' = 0
    <3>1. <<>> \in Seq(Note) /\ Len(<<>>) = 0
      OBVIOUS
    <3> QED
      BY <3>1, CountType DEF InQueue
  <2>2. released'[m] = released[m] + (IF InQueue(m) # 0 THEN 1 ELSE 0)
    BY ReleasedAll, HolderCounts
  <2>3. /\ ThreadsNote(m)' = ThreadsNote(m) /\ Sent(m)' = Sent(m)
        /\ SendersOf(m)' = SendersOf(m)
    BY SameHolders
  <2>4. InQueue(m) + ThreadsNote(m) + Cardinality(SendersOf(m)) + released[m] = Sent(m)
    BY DEF OneHolder
  <2>5. /\ InQueue(m) \in Nat /\ ThreadsNote(m) \in 0 .. 1 /\ Sent(m) \in 0 .. 1
        /\ Cardinality(SendersOf(m)) \in Nat /\ released[m] \in Nat
    BY HolderCounts
  <2>6. (InQueue(m) + ThreadsNote(m) + Cardinality(SendersOf(m)) + released[m] = Sent(m))'
           <=> InQueue(m)' + ThreadsNote(m)' + Cardinality(SendersOf(m)') + released'[m] = Sent(m)'
    OBVIOUS
  <2>7. Cardinality(SendersOf(m)') = Cardinality(SendersOf(m))
    BY <2>3
  <2>8. InQueue(m) = 0 \/ InQueue(m) = 1
    BY <2>4, <2>5
  <2>9. released'[m] = released[m] + InQueue(m)
    BY <2>2, <2>5, <2>8
  <2> QED
    BY <2>1, <2>3, <2>4, <2>5, <2>6, <2>7, <2>9
<1>2. Len(cb'.dataQ) = 0
  OBVIOUS
<1> QED
  BY <1>1, <1>2 DEF OneHolder

\* Videos are flushed.
LEMMA VideosFlushed ==
  ASSUME CbInv, FlushVideoNotifications
  PROVE  CbInv'
<1> USE DEF CbInv
<1>1. /\ released' = ReleaseAll(OfKind("video"))
      /\ cb' = [cb EXCEPT !.dataQ = NotOfKind("video")]
      /\ UNCHANGED <<cbTh, sender>>
  BY DEF FlushVideoNotifications
<1>2. /\ cb'.dataQ = NotOfKind("video") /\ cb'.cmds = cb.cmds /\ cbTh'.note = cbTh.note
      /\ cb'.sent = cb.sent
  BY <1>1 DEF CbTyped
<1>3. CbTyped'
  <2>1. NotOfKind("video") \in Seq(Note) /\ released' \in [Note -> Nat]
    BY <1>1, FlushedQueue, ReleasedAll
  <2> QED
    BY <1>1, <2>1 DEF CbTyped
<1>4. OneHolder' /\ Len(cb'.dataQ) <= Len(cb.dataQ) /\ Len(cb'.dataQ) \in Nat
  BY <1>1, <1>2, KindFlushed
<1>5. JobsSuffice'
  BY <1>1, <1>2, <1>4, SameHolders DEF JobsSuffice
<1>6. HasNote' /\ PictureOpen' /\ SnapshotDoneOnce'
  BY <1>1 DEF HasNote, PictureOpen, SnapshotDoneOnce
<1> QED
  BY <1>3, <1>4, <1>5, <1>6

\* A command that is no job goes to the head.
LEMMA OtherCommand ==
  ASSUME CbInv, NEW c \in {"START", "STOP", "EXIT"}
  PROVE  /\ <<c>> \o cb.cmds \in Seq({"JOB", "START", "STOP", "EXIT"})
         /\ Count(<<c>> \o cb.cmds, {"JOB"}) = Count(cb.cmds, {"JOB"})
<1>1. cb.cmds \in Seq({"JOB", "START", "STOP", "EXIT"})
  BY DEF CbInv, CbTyped
<1>2. c \in {"JOB", "START", "STOP", "EXIT"} /\ c # "JOB"
  OBVIOUS
<1>3. <<c>> \o cb.cmds \in Seq({"JOB", "START", "STOP", "EXIT"})
  BY <1>1, <1>2
<1>4. Count(<<c>> \o cb.cmds, {"JOB"}) = Count(cb.cmds, {"JOB"}) + 0
  BY <1>1, <1>2, CountCons
<1>5. Count(cb.cmds, {"JOB"}) \in Nat
  BY <1>1, CountType
<1> QED
  BY <1>3, <1>4, <1>5

\* A start or a stop of snapshots: the mode, and a command at the front or end.
LEMMA ModeSet ==
  ASSUME CbInv, NEW m \in {"START", "STOP"}, SetMode(m)
  PROVE  CbInv'
<1> USE DEF CbInv
<1>1. /\ cb' = [cb EXCEPT !.cmds = <<m>> \o @, !.mode = m, !.modes = @ + 1]
      /\ UNCHANGED <<cbTh, sender, released>>
  BY DEF SetMode
<1>2. /\ cb'.dataQ = cb.dataQ /\ cb'.cmds = <<m>> \o cb.cmds /\ cbTh'.note = cbTh.note
      /\ cb'.sent = cb.sent
  BY <1>1 DEF CbTyped
<1>3. /\ <<m>> \o cb.cmds \in Seq({"JOB", "START", "STOP", "EXIT"})
      /\ Count(<<m>> \o cb.cmds, {"JOB"}) = Count(cb.cmds, {"JOB"})
  BY OtherCommand
<1>4. CbTyped'
  <2>1. cb.modes + 1 \in Nat
    BY DEF CbTyped
  <2>2. cb' = [[cb EXCEPT !.cmds = <<m>> \o cb.cmds] EXCEPT !.mode = m, !.modes = cb.modes + 1]
    BY <1>1 DEF CbTyped
  <2> QED
    BY <1>1, <1>3, <2>1, <2>2 DEF CbTyped
<1>5. OneHolder' /\ JobsSuffice'
  BY <1>1, <1>2, <1>3, SameHolders DEF OneHolder, JobsSuffice
<1>6. HasNote' /\ PictureOpen' /\ SnapshotDoneOnce'
  BY <1>1 DEF HasNote, PictureOpen, SnapshotDoneOnce
<1> QED
  BY <1>4, <1>5, <1>6

\* The destructor asks the thread to exit.
LEMMA ExitAsked ==
  ASSUME CbInv, CbExit
  PROVE  CbInv'
<1> USE DEF CbInv
<1>1. /\ cb' = [cb EXCEPT !.mActive = FALSE, !.cmds = <<"EXIT">> \o @]
      /\ UNCHANGED <<cbTh, sender, released>>
  BY DEF CbExit
<1>2. /\ cb'.dataQ = cb.dataQ /\ cb'.cmds = <<"EXIT">> \o cb.cmds /\ cbTh'.note = cbTh.note
      /\ cb'.sent = cb.sent
  BY <1>1 DEF CbTyped
<1>3. /\ <<"EXIT">> \o cb.cmds \in Seq({"JOB", "START", "STOP", "EXIT"})
      /\ Count(<<"EXIT">> \o cb.cmds, {"JOB"}) = Count(cb.cmds, {"JOB"})
  BY OtherCommand
<1>4. CbTyped'
  BY <1>1, <1>3 DEF CbTyped
<1>5. OneHolder' /\ JobsSuffice'
  BY <1>1, <1>2, <1>3, SameHolders DEF OneHolder, JobsSuffice
<1>6. HasNote' /\ PictureOpen' /\ SnapshotDoneOnce'
  BY <1>1 DEF HasNote, PictureOpen, SnapshotDoneOnce
<1> QED
  BY <1>4, <1>5, <1>6

\* The rest of the destructor flushes what nobody took.
LEMMA NotifierDestroyed ==
  ASSUME CbInv, Destroy
  PROVE  CbInv'
<1> USE DEF CbInv
<1>1. /\ cbTh.pc = "ended" /\ cbTh' = [cbTh EXCEPT !.pc = "destroyed"]
      /\ released' = ReleaseAll({n \in Note : InQ(n)})
      /\ cb' = [cb EXCEPT !.dataQ = <<>>]
      /\ UNCHANGED sender
  BY DEF Destroy
<1>2. /\ cb'.dataQ = <<>> /\ cb'.cmds = cb.cmds /\ cbTh'.note = cbTh.note
      /\ cb'.sent = cb.sent
  BY <1>1 DEF CbTyped
<1>3. CbTyped'
  <2>1. <<>> \in Seq(Note) /\ released' \in [Note -> Nat]
    BY <1>1, ReleasedAll
  <2> QED
    BY <1>1, <2>1 DEF CbTyped
<1>4. OneHolder' /\ Len(cb'.dataQ) = 0
  BY <1>1, <1>2, AllFlushed
<1>5. JobsSuffice'
  BY <1>1, <1>2, <1>4, SameHolders DEF JobsSuffice
<1>6. HasNote' /\ PictureOpen' /\ SnapshotDoneOnce'
  BY <1>1 DEF HasNote, PictureOpen, SnapshotDoneOnce, CbTyped
<1> QED
  BY <1>3, <1>4, <1>5, <1>6

\* The thread takes a command.
LEMMA CommandTaken ==
  ASSUME CbInv, NEW c, CbTake(c)
  PROVE  /\ Tail(cb.cmds) \in Seq({"JOB", "START", "STOP", "EXIT"})
         /\ Count(Tail(cb.cmds), {"JOB"})
               = Count(cb.cmds, {"JOB"}) - (IF c = "JOB" THEN 1 ELSE 0)
         /\ Count(Tail(cb.cmds), {"JOB"}) \in Nat
         /\ cbTh.note = NoNote
<1>1. cb.cmds \in Seq({"JOB", "START", "STOP", "EXIT"}) /\ cb.cmds # <<>> /\ Head(cb.cmds) = c
  BY DEF CbInv, CbTyped, CbTake
<1>2. Tail(cb.cmds) \in Seq({"JOB", "START", "STOP", "EXIT"})
  BY <1>1
<1>3. Count(Tail(cb.cmds), {"JOB"})
         = Count(cb.cmds, {"JOB"}) - (IF Head(cb.cmds) \in {"JOB"} THEN 1 ELSE 0)
  BY <1>1, CountTail
<1>4. Count(Tail(cb.cmds), {"JOB"}) \in Nat
  BY <1>2, CountType
<1>5. cbTh.note = NoNote
  BY DEF CbInv, HasNote, CbTake
<1> QED
  BY <1>1, <1>2, <1>3, <1>4, <1>5

\* The thread takes a START: a new picture is expected.
LEMMA SnapshotsStarted ==
  ASSUME CbInv, StartDataProc
  PROVE  CbInv'
<1> USE DEF CbInv
<1>1. CbTake("START") /\ cb' = [cb EXCEPT !.cmds = Tail(@)] /\ UNCHANGED <<sender, released>>
  BY DEF StartDataProc
<1>2. PICK n \in 1 .. MaxExpected, l \in BOOLEAN :
        cbTh' = [cbTh EXCEPT !.isSnapshotActive = TRUE, !.expected = n, !.longShot = l,
                             !.rcvd = 0, !.done = 0]
  BY DEF StartDataProc
<1>3. /\ cb'.dataQ = cb.dataQ /\ cb'.cmds = Tail(cb.cmds) /\ cbTh'.note = cbTh.note
      /\ cb'.sent = cb.sent /\ cbTh'.pc = cbTh.pc /\ cbTh'.done = 0 /\ cbTh.pc = "wait"
  BY <1>1, <1>2 DEF CbTyped, CbTake
<1>4. n \in Nat
  BY CbAssumption
<1>5. CbTyped'
  BY <1>1, <1>2, <1>4, CommandTaken DEF CbTyped
<1>6. OneHolder'
  BY <1>1, <1>3, SameHolders DEF OneHolder
<1>7. JobsSuffice'
  BY <1>1, <1>3, SameHolders, CommandTaken DEF JobsSuffice
<1>8. HasNote' /\ PictureOpen' /\ SnapshotDoneOnce'
  BY <1>1, <1>3 DEF HasNote, PictureOpen, SnapshotDoneOnce
<1> QED
  BY <1>5, <1>6, <1>7, <1>8

\* The thread takes a STOP: what it flushes is released, and the end is told once.
LEMMA SnapshotsStopped ==
  ASSUME CbInv, StopDataProc
  PROVE  CbInv'
<1> USE DEF CbInv
<1>1. /\ CbTake("STOP") /\ UNCHANGED sender
      /\ cbTh' = [cbTh EXCEPT !.isSnapshotActive = FALSE, !.expected = 0, !.rcvd = 0]
      /\ cb' = [cb EXCEPT !.cmds = Tail(@), !.dataQ = NotOfKind("snapshot")]
      /\ released' = ReleaseAll(OfKind("snapshot"))
  BY DEF StopDataProc
<1>2. /\ cb'.dataQ = NotOfKind("snapshot") /\ cb'.cmds = Tail(cb.cmds)
      /\ cbTh'.note = cbTh.note /\ cb'.sent = cb.sent /\ cbTh'.pc = cbTh.pc
      /\ cbTh'.done = cbTh.done /\ cbTh.pc = "wait" /\ cbTh'.isSnapshotActive = FALSE
  BY <1>1 DEF CbTyped, CbTake
<1>3. CbTyped'
  <2>1. NotOfKind("snapshot") \in Seq(Note) /\ released' \in [Note -> Nat]
    BY <1>1, FlushedQueue, ReleasedAll
  <2> QED
    BY <1>1, <2>1, CommandTaken DEF CbTyped
<1>4. OneHolder' /\ Len(cb'.dataQ) <= Len(cb.dataQ) /\ Len(cb'.dataQ) \in Nat
  BY <1>1, <1>2, KindFlushed
<1>5. JobsSuffice'
  <2>1. Count(cb'.cmds, {"JOB"}) = Count(cb.cmds, {"JOB"})
    BY <1>1, <1>2, CommandTaken, SameHolders
  <2> QED
    BY <1>1, <1>4, <2>1, SameHolders DEF JobsSuffice
<1>6. HasNote' /\ PictureOpen' /\ SnapshotDoneOnce'
  BY <1>1, <1>2 DEF HasNote, PictureOpen, SnapshotDoneOnce
<1> QED
  BY <1>3, <1>4, <1>5, <1>6

\* The first of the queue is taken out.
LEMMA FirstTaken ==
  ASSUME CbInv, cb.dataQ # <<>>
  PROVE  /\ Head(cb.dataQ) \in Note /\ Tail(cb.dataQ) \in Seq(Note)
         /\ Len(Tail(cb.dataQ)) = Len(cb.dataQ) - 1
         /\ \A m \in Note :
               Count(Tail(cb.dataQ), {m}) = InQueue(m) - (IF m = Head(cb.dataQ) THEN 1 ELSE 0)
<1>1. cb.dataQ \in Seq(Note)
  BY DEF CbInv, CbTyped
<1>2. ASSUME NEW m \in Note
      PROVE  Count(Tail(cb.dataQ), {m})
                = Count(cb.dataQ, {m}) - (IF Head(cb.dataQ) \in {m} THEN 1 ELSE 0)
  BY <1>1, CountTail
<1> QED
  BY <1>1, <1>2 DEF InQueue

\* The thread takes a JOB and with it the first notification, if there is one.
LEMMA JobIsDone ==
  ASSUME CbInv, DoNextJob
  PROVE  CbInv'
<1> USE DEF CbInv
<1>1. CbTake("JOB") /\ UNCHANGED <<sender, released>> /\ cbTh.pc = "wait"
  BY DEF DoNextJob, CbTake
<1>2. CASE cb.dataQ = <<>>
  <2>1. cb' = [cb EXCEPT !.cmds = Tail(@)] /\ UNCHANGED cbTh
    BY <1>2 DEF DoNextJob
  <2>2. /\ cb'.dataQ = cb.dataQ /\ cb'.cmds = Tail(cb.cmds) /\ cbTh'.note = cbTh.note
        /\ cb'.sent = cb.sent /\ Len(cb'.dataQ) = 0
    BY <1>2, <2>1 DEF CbTyped
  <2>3. CbTyped'
    BY <1>1, <2>1, CommandTaken DEF CbTyped
  <2>4. OneHolder'
    BY <1>1, <2>2, SameHolders DEF OneHolder
  <2>5. JobsSuffice'
    BY <1>1, <2>2, SameHolders, CommandTaken DEF JobsSuffice
  <2>6. HasNote' /\ PictureOpen' /\ SnapshotDoneOnce'
    BY <1>1, <2>1 DEF HasNote, PictureOpen, SnapshotDoneOnce
  <2> QED
    BY <2>3, <2>4, <2>5, <2>6
<1>3. CASE cb.dataQ # <<>>
  <2> DEFINE counts == Kind[Head(cb.dataQ)] = "snapshot" /\ cbTh.isSnapshotActive /\ ~cbTh.longShot
  <2>1. cb' = [cb EXCEPT !.cmds = Tail(@), !.dataQ = Tail(@)]
    BY <1>3 DEF DoNextJob
  <2>2. \/ /\ counts
           /\ cbTh' = [cbTh EXCEPT !.note = Head(cb.dataQ), !.rcvd = @ + 1,
                          !.pc = IF cbTh.expected = cbTh.rcvd + 1 THEN "sync" ELSE "call"]
        \/ ~counts /\ cbTh' = [cbTh EXCEPT !.note = Head(cb.dataQ), !.pc = "call"]
    BY <1>3 DEF DoNextJob
  <2>3. /\ cb'.dataQ = Tail(cb.dataQ) /\ cb'.cmds = Tail(cb.cmds) /\ cb'.sent = cb.sent
    BY <2>1 DEF CbTyped
  <2>4. Head(cb.dataQ) \in Note /\ Head(cb.dataQ) # NoNote /\ Tail(cb.dataQ) \in Seq(Note)
    BY <1>3, FirstTaken, CbAssumption
  <2>5. /\ cbTh'.note = Head(cb.dataQ) /\ cbTh'.pc \in {"sync", "call"}
        /\ cbTh'.done = cbTh.done /\ cbTh'.expected = cbTh.expected
        /\ cbTh'.isSnapshotActive = cbTh.isSnapshotActive
        /\ \/ cbTh.isSnapshotActive /\ cbTh'.rcvd = cbTh.rcvd + 1
              /\ cbTh'.pc = IF cbTh.expected = cbTh.rcvd + 1 THEN "sync" ELSE "call"
           \/ cbTh'.rcvd = cbTh.rcvd /\ cbTh'.pc = "call"
    BY <2>2 DEF CbTyped
  <2>6. CbTyped'
    <3>1. Tail(cb.cmds) \in Seq({"JOB", "START", "STOP", "EXIT"})
      BY <1>1, CommandTaken
    <3>2. cb' \in [mActive : BOOLEAN, dataQ : Seq(Note),
                  cmds : Seq({"JOB", "START", "STOP", "EXIT"}),
                  modes : Nat, mode : {"START", "STOP"}, sent : SUBSET Note]
      BY <2>1, <2>4, <3>1 DEF CbTyped
    <3>3. cbTh.rcvd + 1 \in Nat
      BY DEF CbTyped
    <3>4. cbTh' \in [pc : {"none", "wait", "sync", "call", "ended", "destroyed"},
                    note : Note \cup {NoNote}, isSnapshotActive : BOOLEAN,
                    longShot : BOOLEAN, expected : Nat, rcvd : Nat, done : Nat]
      BY <2>2, <2>4, <3>3, ZenonT(60) DEF CbTyped
    <3> QED
      BY <1>1, <3>2, <3>4 DEF CbTyped
  <2>7. HasNote'
    BY <1>1, <2>4, <2>5 DEF HasNote
  <2>8. JobsSuffice'
    BY <1>1, <1>3, <2>3, SameHolders, FirstTaken, CommandTaken DEF JobsSuffice
  <2>9. PictureOpen' /\ SnapshotDoneOnce'
    <3>1. cbTh.rcvd \in Nat /\ cbTh.expected \in Nat
      BY DEF CbTyped
    <3> QED
      BY <2>5, <3>1 DEF PictureOpen, SnapshotDoneOnce
  <2>10. ASSUME NEW m \in Note
         PROVE  (InQueue(m) + ThreadsNote(m) + Cardinality(SendersOf(m)) + released[m] = Sent(m))'
    <3>1. InQueue(m)' = InQueue(m) - (IF m = Head(cb.dataQ) THEN 1 ELSE 0)
      BY <1>3, <2>3, FirstTaken DEF InQueue
    <3>2. ThreadsNote(m) = 0 /\ ThreadsNote(m)' = IF m = Head(cb.dataQ) THEN 1 ELSE 0
      BY <1>1, <2>5, CommandTaken, CbAssumption DEF ThreadsNote
    <3>3. Sent(m)' = Sent(m) /\ SendersOf(m)' = SendersOf(m) /\ released' = released
      BY <1>1, <2>3, SameHolders
    <3>4. InQueue(m) + ThreadsNote(m) + Cardinality(SendersOf(m)) + released[m] = Sent(m)
      BY DEF OneHolder
    <3> QED
      BY <3>1, <3>2, <3>3, <3>4, HolderCounts
  <2> QED
    BY <2>6, <2>7, <2>8, <2>9, <2>10 DEF OneHolder
<1> QED
  BY <1>2, <1>3

\* A notification the application has not enabled is released at once.
LEMMA DisabledSkipped ==
  ASSUME CbInv, SkipDisabled
  PROVE  CbInv'
<1> USE DEF CbInv
<1>1. /\ CbTake("JOB") /\ cb.dataQ # <<>>
      /\ cb' = [cb EXCEPT !.cmds = Tail(@), !.dataQ = Tail(@)]
      /\ released' = ReleaseAll({Head(cb.dataQ)})
      /\ UNCHANGED <<cbTh, sender>>
  BY DEF SkipDisabled
<1>2. /\ cb'.dataQ = Tail(cb.dataQ) /\ cb'.cmds = Tail(cb.cmds) /\ cb'.sent = cb.sent
  BY <1>1 DEF CbTyped
<1>3. CbTyped'
  <2>1. released' \in [Note -> Nat]
    BY <1>1, ReleasedAll
  <2> QED
    BY <1>1, <2>1, CommandTaken, FirstTaken DEF CbTyped
<1>4. JobsSuffice'
  BY <1>1, <1>2, SameHolders, FirstTaken, CommandTaken DEF JobsSuffice
<1>5. HasNote' /\ PictureOpen' /\ SnapshotDoneOnce'
  BY <1>1 DEF HasNote, PictureOpen, SnapshotDoneOnce
<1>6. ASSUME NEW m \in Note
      PROVE  (InQueue(m) + ThreadsNote(m) + Cardinality(SendersOf(m)) + released[m] = Sent(m))'
  <2>1. InQueue(m)' = InQueue(m) - (IF m = Head(cb.dataQ) THEN 1 ELSE 0)
    BY <1>1, <1>2, FirstTaken DEF InQueue
  <2>2. released'[m] = released[m] + (IF m = Head(cb.dataQ) THEN 1 ELSE 0)
    <3> DEFINE h == Head(cb.dataQ)
    <3>1. released' = ReleaseAll({h})
      BY <1>1
    <3> HIDE DEF h
    <3>2. released'[m] = released[m] + (IF m \in {h} THEN 1 ELSE 0)
      BY <3>1, ReleasedAll
    <3> QED
      BY <3>2 DEF h
  <2>3. /\ Sent(m)' = Sent(m) /\ SendersOf(m)' = SendersOf(m)
        /\ ThreadsNote(m)' = ThreadsNote(m)
    BY <1>1, <1>2, SameHolders
  <2>4. InQueue(m) + ThreadsNote(m) + Cardinality(SendersOf(m)) + released[m] = Sent(m)
    BY DEF OneHolder
  <2> QED
    BY <2>1, <2>2, <2>3, <2>4, HolderCounts
<1> QED
  BY <1>3, <1>4, <1>5, <1>6 DEF OneHolder

\* The last picture of a snapshot: its end is told, before the picture.
LEMMA SnapshotDoneTold ==
  ASSUME CbInv, SnapshotDoneAnswered
  PROVE  CbInv'
<1> USE DEF CbInv
<1>1. /\ cbTh.pc = "sync" /\ cbTh' = [cbTh EXCEPT !.pc = "call", !.done = @ + 1]
      /\ UNCHANGED <<cb, sender, released>>
  BY DEF SnapshotDoneAnswered
<1>2. /\ cbTh'.pc = "call" /\ cbTh'.done = cbTh.done + 1 /\ cbTh'.note = cbTh.note
      /\ cbTh'.rcvd = cbTh.rcvd /\ cbTh'.expected = cbTh.expected
      /\ cbTh'.isSnapshotActive = cbTh.isSnapshotActive
  BY <1>1 DEF CbTyped
<1>3. CbTyped'
  <2>1. cbTh.done + 1 \in Nat
    BY DEF CbTyped
  <2>2. cbTh' = [[cbTh EXCEPT !.pc = "call"] EXCEPT !.done = cbTh.done + 1]
    BY <1>1 DEF CbTyped
  <2> QED
    BY <1>1, <2>1, <2>2 DEF CbTyped
<1>4. HasNote'
  BY <1>1, <1>2 DEF HasNote
<1>5. OneHolder' /\ JobsSuffice'
  BY <1>1, <1>2, SameHolders DEF OneHolder, JobsSuffice
<1>6. PictureOpen' /\ SnapshotDoneOnce'
  <2>1. cbTh.rcvd \in Nat /\ cbTh.expected \in Nat
    BY DEF CbTyped
  <2> QED
    BY <1>1, <1>2, <2>1 DEF PictureOpen, SnapshotDoneOnce
<1> QED
  BY <1>3, <1>4, <1>5, <1>6

\* The callback has returned, and the notification is released.
LEMMA CallbackReturned ==
  ASSUME CbInv, CallbackReturns
  PROVE  CbInv'
<1> USE DEF CbInv
<1>1. /\ cbTh.pc = "call" /\ released' = ReleaseAll({cbTh.note})
      /\ cbTh' = [cbTh EXCEPT !.pc = "wait", !.note = NoNote]
      /\ UNCHANGED <<cb, sender>>
  BY DEF CallbackReturns
<1>2. /\ cbTh'.pc = "wait" /\ cbTh'.done = cbTh.done /\ cbTh'.note = NoNote
      /\ cbTh'.rcvd = cbTh.rcvd /\ cbTh'.expected = cbTh.expected
      /\ cbTh'.isSnapshotActive = cbTh.isSnapshotActive
  BY <1>1 DEF CbTyped
<1>3. CbTyped'
  <2>1. released' \in [Note -> Nat]
    BY <1>1, ReleasedAll
  <2> QED
    BY <1>1, <2>1 DEF CbTyped
<1>4. HasNote'
  BY <1>1, <1>2 DEF HasNote
<1>5. JobsSuffice'
  BY <1>1, <1>2, SameHolders DEF JobsSuffice
<1>6. PictureOpen' /\ SnapshotDoneOnce'
  BY <1>1, <1>2 DEF PictureOpen, SnapshotDoneOnce
<1>7. ASSUME NEW m \in Note
      PROVE  (InQueue(m) + ThreadsNote(m) + Cardinality(SendersOf(m)) + released[m] = Sent(m))'
  <2>1. ThreadsNote(m)' = 0 /\ ThreadsNote(m) = IF m = cbTh.note THEN 1 ELSE 0
    BY <1>2, CbAssumption DEF ThreadsNote
  <2>2. released'[m] = released[m] + (IF m = cbTh.note THEN 1 ELSE 0)
    BY <1>1, ReleasedAll, ZenonT(60)
  <2>3. /\ Sent(m)' = Sent(m) /\ SendersOf(m)' = SendersOf(m)
        /\ InQueue(m)' = InQueue(m)
    BY <1>1, <1>2, SameHolders
  <2>4. InQueue(m) + ThreadsNote(m) + Cardinality(SendersOf(m)) + released[m] = Sent(m)
    BY DEF OneHolder
  <2> QED
    BY <2>1, <2>2, <2>3, <2>4, HolderCounts
<1> QED
  BY <1>3, <1>4, <1>5, <1>6, <1>7 DEF OneHolder

\* The thread ends; what is queued waits for the destructor.
LEMMA RoutineExits ==
  ASSUME CbInv, ExitRoutine
  PROVE  CbInv'
<1> USE DEF CbInv
<1>1. /\ CbTake("EXIT") /\ cbTh.pc = "wait" /\ cbTh' = [cbTh EXCEPT !.pc = "ended"]
      /\ released' = ReleaseAll({n \in Note : InQ(n)})
      /\ cb' = [cb EXCEPT !.cmds = Tail(@), !.dataQ = <<>>]
      /\ UNCHANGED sender
  BY DEF ExitRoutine, CbTake
<1>2. /\ cb'.dataQ = <<>> /\ cb'.cmds = Tail(cb.cmds) /\ cbTh'.note = cbTh.note
      /\ cb'.sent = cb.sent
  BY <1>1 DEF CbTyped
<1>3. CbTyped'
  <2>1. <<>> \in Seq(Note) /\ released' \in [Note -> Nat]
    BY <1>1, ReleasedAll
  <2> QED
    BY <1>1, <2>1, CommandTaken DEF CbTyped
<1>4. OneHolder' /\ Len(cb'.dataQ) = 0
  BY <1>1, <1>2, AllFlushed
<1>5. JobsSuffice'
  BY <1>1, <1>2, <1>4, SameHolders, CommandTaken DEF JobsSuffice
<1>6. HasNote' /\ PictureOpen' /\ SnapshotDoneOnce'
  BY <1>1 DEF HasNote, PictureOpen, SnapshotDoneOnce, CbTyped
<1> QED
  BY <1>3, <1>4, <1>5, <1>6

\* It holds at first,
LEMMA CbInvInit == CbInit => CbInv
<1> SUFFICES ASSUME CbInit PROVE CbInv
  OBVIOUS
<1>1. <<>> \in Seq(Note) /\ <<>> \in Seq({"JOB", "START", "STOP", "EXIT"}) /\ Len(<<>>) = 0
  OBVIOUS
<1>2. CbTyped
  <2>1. [s \in Sender |-> [pc |-> "idle", note |-> NoNote]] \in
           [Sender -> [pc : {"idle", "checked", "queued"}, note : Note \cup {NoNote}]]
    OBVIOUS
  <2> QED
    BY <1>1, <2>1 DEF CbInit, CbTyped
<1>3. HasNote /\ PictureOpen /\ SnapshotDoneOnce
  BY DEF HasNote, PictureOpen, SnapshotDoneOnce, CbInit
<1>4. ASSUME NEW n \in Note
      PROVE  InQueue(n) + ThreadsNote(n) + Cardinality(SendersOf(n)) + released[n] = Sent(n)
  <2>1. InQueue(n) = 0
    BY <1>1, CountType DEF InQueue, CbInit
  <2>2. ThreadsNote(n) = 0 /\ Sent(n) = 0 /\ released[n] = 0
    BY CbAssumption DEF ThreadsNote, Sent, CbInit
  <2>3. SendersOf(n) = {}
    BY CbAssumption DEF SendersOf, CbInit
  <2> QED
    BY <2>1, <2>2, <2>3, FS_EmptySet
<1>5. JobsSuffice
  <2>1. Len(cb.dataQ) = 0
    BY DEF CbInit
  <2> QED
    BY <1>2, <2>1, SameHolders DEF JobsSuffice
<1> QED
  BY <1>2, <1>3, <1>4, <1>5 DEF CbInv, OneHolder

\* every step keeps it,
LEMMA CbInvStep == CbInv /\ [CbNext]_cbVars => CbInv'
<1> SUFFICES ASSUME CbInv, [CbNext]_cbVars PROVE CbInv'
  OBVIOUS
<1>1. CASE NotifierThread
  BY <1>1, SnapshotsStarted, SnapshotsStopped, JobIsDone, DisabledSkipped, SnapshotDoneTold,
     CallbackReturned, RoutineExits DEF NotifierThread
<1>2. CASE SetCallbacks \/ FlushVideoNotifications \/ CbExit \/ Destroy
  BY <1>2, CallbacksSet, VideosFlushed, ExitAsked, NotifierDestroyed
<1>3. CASE \E s \in Sender : NotifyCallback(s) \/ Enqueue(s) \/ EnqueueFails(s) \/ SendJob(s)
  BY <1>3, NoteComes, NoteQueued, NoteRefused, JobSent
<1>4. CASE \E m \in {"START", "STOP"} : SetMode(m)
  BY <1>4, ModeSet
<1>5. CASE UNCHANGED cbVars
  <2>1. cb' = cb /\ cbTh' = cbTh /\ sender' = sender /\ released' = released
    BY <1>5 DEF cbVars
  <2>2. CbTyped' /\ HasNote' /\ PictureOpen' /\ SnapshotDoneOnce'
    BY <2>1 DEF CbInv, CbTyped, HasNote, PictureOpen, SnapshotDoneOnce
  <2>3. OneHolder' /\ JobsSuffice'
    BY <2>1, SameHolders DEF CbInv, OneHolder, JobsSuffice
  <2> QED
    BY <2>2, <2>3 DEF CbInv
<1> QED
  BY <1>1, <1>2, <1>3, <1>4, <1>5 DEF CbNext

\* and it says what the run checks.
LEMMA CbInvNotes == CbInv => NotesHandledOnce
<1> SUFFICES ASSUME CbInv PROVE NotesHandledOnce
  OBVIOUS
<1>1. NoteReleasedOnce
  <2> SUFFICES ASSUME NEW n \in Note
               PROVE  Holders(n) + released[n] = (IF n \in cb.sent THEN 1 ELSE 0)
    BY DEF NoteReleasedOnce
  <2>1. {i \in DOMAIN cb.dataQ : cb.dataQ[i] = n} = At(cb.dataQ, {n})
    BY DEF At
  <2>2. InQueue(n) + ThreadsNote(n) + Cardinality(SendersOf(n)) + released[n] = Sent(n)
    BY DEF CbInv, OneHolder
  <2> QED
    BY <2>1, <2>2 DEF Holders, InQueue, Count, ThreadsNote, SendersOf, Sent
<1>2. NoNoteStranded
  <2>1. {i \in DOMAIN cb.cmds : cb.cmds[i] = "JOB"} = At(cb.cmds, {"JOB"})
    BY DEF At
  <2> QED
    BY <2>1 DEF CbInv, JobsSuffice, NoNoteStranded, JobsIn, Count, Queued
<1> QED
  BY <1>1, <1>2 DEF NotesHandledOnce, CbInv

\* Every notification has one holder until it is released, once, a job comes
\* for each that is queued, and the end of a picture is told once.
THEOREM NotesReachTheirEnd == CbSpec => []NotesHandledOnce
<1>1. CbInit => CbInv
  BY CbInvInit
<1>2. CbInv /\ [CbNext]_cbVars => CbInv'
  BY CbInvStep
<1>3. CbInv => NotesHandledOnce
  BY CbInvNotes
<1> QED
  BY <1>1, <1>2, <1>3, PTL DEF CbSpec

\* Type correctness: a notification is released at most once.
THEOREM NotifierTyped == CbSpec => []CbTypeOK
<1>1. CbInit => CbInv
  BY CbInvInit
<1>2. CbInv /\ [CbNext]_cbVars => CbInv'
  BY CbInvStep
<1>3. CbInv => CbTypeOK
  <2> SUFFICES ASSUME CbInv PROVE CbTypeOK
    OBVIOUS
  <2>1. ASSUME NEW n \in Note PROVE released[n] \in {0, 1}
    <3>1. InQueue(n) + ThreadsNote(n) + Cardinality(SendersOf(n)) + released[n] = Sent(n)
      BY DEF CbInv, OneHolder
    <3>2. /\ InQueue(n) \in Nat /\ ThreadsNote(n) \in Nat /\ Sent(n) \in 0 .. 1
          /\ Cardinality(SendersOf(n)) \in Nat /\ released[n] \in Nat
      BY HolderCounts DEF CbInv
    <3> QED
      BY <3>1, <3>2
  <2>2. released \in [Note -> {0, 1}]
    BY <2>1 DEF CbInv, CbTyped
  <2> QED
    BY <2>2 DEF CbInv, CbTyped, CbTypeOK
<1> QED
  BY <1>1, <1>2, <1>3, PTL DEF CbSpec
=============================================================================
