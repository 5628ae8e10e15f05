------------------------- MODULE DeferredWorkProofs -------------------------
(* Theorems about the work the HAL defers, for every number of slots and      *)
(* channels.  DwInv is inductive: jobs have slots of their own, what is left  *)
(* of a plan waits for each stream it adds, and a stream that has no buffers  *)
(* yet has its job pending.  ChannelInv says, when the info of a stream can   *)
(* be allocated, that every pending job is of the channel that is built and   *)
(* is waited for before it goes.                                              *)
EXTENDS DeferredWork, FiniteSetTheorems, WellFoundedInduction, TLAPS

Steps == [op : {"add", "wait"}, of : Member \cup {"preview"}]
Hwi == [pc : {"idle", "build", "fail", "delete", "built", "postview", "start", "capturing",
              "startFailed", "cancel", "unstart", "stop"},
        plan : [kind : {"preview", "raw", "capture", "none"}, steps : Seq(Steps)],
        ch : 0 .. MaxChannels, built : 0 .. MaxChannels,
        streams : SUBSET Deferred, tried : SUBSET Deferred, bufs : SUBSET Deferred]
Jobs == {w \in DwWork : w.cmd # "none" /\ w.id \in Slot}

DwTyped ==
    /\ dw \in [busy : [Slot -> BOOLEAN], queue : Seq(Jobs), asleep : SUBSET {"hwi", "cb"}]
    /\ jobOf \in [Member -> Slot \cup {NoJob}]
    /\ work \in Jobs \cup {NoWork}
    /\ hwi \in Hwi
    /\ frameCb \in [pc : {"idle", "wait"}, frames : Nat]
    /\ pp \in BOOLEAN

\* Jobs have slots of their own, which are the ones in use.
JobsApart ==
    /\ \A i, j \in 1 .. Len(dw.queue) : dw.queue[i].id = dw.queue[j].id => i = j
    /\ \A i \in 1 .. Len(dw.queue) : work # NoWork => dw.queue[i].id # work.id
    /\ \A s \in Slot : dw.busy[s] <=> \E w \in Pending : w.id = s

\* What is left of a plan adds a stream once, and waits for it afterwards.
AddedOnce(steps, streams) ==
    \A i \in 1 .. Len(steps) :
        steps[i].op = "add" /\ steps[i].of \in Deferred \ {"postview"} =>
            /\ steps[i].of \notin streams
            /\ \E j \in i + 1 .. Len(steps) : steps[j] = Wait(steps[i].of)
            /\ \A j \in i + 1 .. Len(steps) : steps[j] # steps[i]
PlanInv == AddedOnce(hwi.plan.steps, hwi.streams)

\* The worker has, or will have, the job that allocates a stream's buffers.
Allocating(s) ==
    \E w \in Pending :
        w.cmd = "ALLOCATE_BUFF" /\ w.stream = s /\ w.ch = hwi.ch /\ w.id = jobOf[s]
ToWaitFor(s) == \E i \in 1 .. Len(hwi.plan.steps) : hwi.plan.steps[i] = Wait(s)

AllocInv ==
    \A s \in hwi.streams \ hwi.tried :
        /\ hwi.pc \notin {"start", "capturing", "startFailed"}
        /\ hwi.pc = "build" /\ s # "postview" => Allocating(s) /\ ToWaitFor(s)
        /\ hwi.pc = "postview" => s = "postview" /\ Allocating(s)

StartInv ==
    \A w \in Pending : w.cmd = "PPROC_START" =>
        /\ w.id = jobOf["reproc"]
        /\ hwi.pc \in {"start", "capturing", "startFailed", "cancel", "unstart"}

DwInv == DwTyped /\ JobsApart /\ PlanInv /\ AllocInv /\ StartInv

\* What is pending is waited for before the channel is deleted.
ChannelInv ==
    \A w \in Pending :
        /\ w.ch = hwi.ch
        /\ hwi.pc \notin {"idle", "delete", "built", "stop"}
        /\ w.cmd = "ALLOCATE_BUFF" =>
             /\ w.id = jobOf[w.stream]
             /\ hwi.pc \in {"build", "fail", "postview"}
             /\ hwi.pc = "build" => w.stream \in hwi.streams /\ ToWaitFor(w.stream)
             /\ hwi.pc = "postview" => w.stream = "postview"

-----------------------------------------------------------------------------
\* A set of numbers that is not empty has a least one.
LEMMA LowestExists ==
  ASSUME NEW S, S \subseteq Nat, S # {}
  PROVE  \E i \in S : \A j \in S : i <= j
<1> DEFINE R == OpToRel(<, Nat)
<1>1. IsWellFoundedOn(R, Nat)
  BY NatLessThanWellFounded
<1>2. \A i, j \in Nat : i < j => <<i, j>> \in R
  BY DEF OpToRel
<1> HIDE DEF R
<1>3. PICK i \in S : \A j \in S : ~(<<j, i>> \in R)
  BY <1>1, WFMin
<1>4. \A j \in S : ~(j < i)
  BY <1>2, <1>3
<1>5. \A j \in S : i <= j
  BY <1>3, <1>4
<1> QED
  BY <1>3, <1>5

\* The slot that is taken was free.
LEMMA LowestIsFree ==
  ASSUME DwTyped, FreeSlots # {}
  PROVE  LowestFree \in Slot /\ ~dw.busy[LowestFree]
<1>1. FreeSlots \subseteq Nat
  BY DwAssumption DEF FreeSlots, Slot
<1>2. \E i \in FreeSlots : \A j \in FreeSlots : i <= j
  BY <1>1, LowestExists
<1>3. LowestFree \in FreeSlots
  BY <1>2 DEF LowestFree
<1> QED
  BY <1>3 DEF FreeSlots

\* What the HAL builds, as sequences without a choice.
LEMMA PlansAddOnce ==
  ASSUME NEW p \in Plans
  PROVE  /\ p \in [kind : {"preview", "raw", "capture", "none"}, steps : Seq(Steps)]
         /\ AddedOnce(p.steps, {})
<1> DEFINE a == <<Add("metadata"), Add("preview"), Wait("metadata")>>
           b == <<Add("metadata"), Wait("metadata"), Add("raw"), Wait("raw")>>
           c == <<Add("metadata"), Add("postview"), Add("snapshot"),
                  Wait("snapshot"), Wait("metadata"), Wait("raw")>>
           d == <<Add("metadata"), Add("postview"), Add("snapshot"), Add("raw"),
                  Wait("snapshot"), Wait("metadata"), Wait("raw")>>
<1>1. p.steps \in {a, b, c, d} /\ p \in [kind : {"preview", "raw", "capture"}, steps : {a, b, c, d}]
  BY DEF Plans
<1>2. /\ \A m \in Member \cup {"preview"} : Add(m) \in Steps /\ Wait(m) \in Steps
      /\ \A m : Add(m).op = "add" /\ Wait(m).op = "wait" /\ Add(m).of = m /\ Wait(m).of = m
  BY DEF Add, Wait, Steps
<1>3. a \in Seq(Steps) /\ AddedOnce(a, {})
  <2>1. a \in Seq(Steps) /\ Len(a) = 3 /\ a[1] = Add("metadata") /\ a[2] = Add("preview")
        /\ a[3] = Wait("metadata")
    BY <1>2 DEF Member
  <2> HIDE DEF a
  <2>2. \A i \in 1 .. 3 : i = 1 \/ i = 2 \/ i = 3
    OBVIOUS
  <2>3. \A j \in 2 .. 3 : a[j] # a[1]
    BY <1>2, <2>1
  <2> QED
    BY <1>2, <2>1, <2>2, <2>3 DEF AddedOnce, Deferred
<1>4. b \in Seq(Steps) /\ AddedOnce(b, {})
  <2>1. b \in Seq(Steps) /\ Len(b) = 4 /\ b[1] = Add("metadata") /\ b[2] = Wait("metadata")
        /\ b[3] = Add("raw") /\ b[4] = Wait("raw")
    BY <1>2 DEF Member
  <2> HIDE DEF b
  <2>2. \A i \in 1 .. 4 : i = 1 \/ i = 2 \/ i = 3 \/ i = 4
    OBVIOUS
  <2>3. (\A j \in 2 .. 4 : b[j] # b[1]) /\ \A j \in 4 .. 4 : b[j] # b[3]
    BY <1>2, <2>1
  <2> QED
    BY <1>2, <2>1, <2>2, <2>3 DEF AddedOnce, Deferred
<1>5. c \in Seq(Steps) /\ AddedOnce(c, {})
  <2>1. c \in Seq(Steps) /\ Len(c) = 6 /\ c[1] = Add("metadata") /\ c[2] = Add("postview")
        /\ c[3] = Add("snapshot") /\ c[4] = Wait("snapshot") /\ c[5] = Wait("metadata")
        /\ c[6] = Wait("raw")
    BY <1>2 DEF Member
  <2> HIDE DEF c
  <2>2. \A i \in 1 .. 6 : i = 1 \/ i = 2 \/ i = 3 \/ i = 4 \/ i = 5 \/ i = 6
    OBVIOUS
  <2>3. (\A j \in 2 .. 6 : c[j] # c[1]) /\ \A j \in 4 .. 6 : c[j] # c[3]
    BY <1>2, <2>1
  <2> QED
    BY <1>2, <2>1, <2>2, <2>3 DEF AddedOnce, Deferred
<1>6. d \in Seq(Steps) /\ AddedOnce(d, {})
  <2>1. d \in Seq(Steps) /\ Len(d) = 7 /\ d[1] = Add("metadata") /\ d[2] = Add("postview")
        /\ d[3] = Add("snapshot") /\ d[4] = Add("raw") /\ d[5] = Wait("snapshot")
        /\ d[6] = Wait("metadata") /\ d[7] = Wait("raw")
    BY <1>2 DEF Member
  <2> HIDE DEF d
  <2>2. \A i \in 1 .. 7 : i = 1 \/ i = 2 \/ i = 3 \/ i = 4 \/ i = 5 \/ i = 6 \/ i = 7
    OBVIOUS
  <2>3. (\A j \in 2 .. 7 : d[j] # d[1]) /\ (\A j \in 4 .. 7 : d[j] # d[3])
        /\ \A j \in 5 .. 7 : d[j] # d[4]
    BY <1>2, <2>1
  <2> QED
    BY <1>2, <2>1, <2>2, <2>3 DEF AddedOnce, Deferred
<1> HIDE DEF a, b, c, d
<1> QED
  BY <1>1, <1>3, <1>4, <1>5, <1>6

\* What is left of a plan after a step.
LEMMA RestOfPlan ==
  ASSUME NEW steps \in Seq(Steps), steps # <<>>, NEW streams, NEW more,
         AddedOnce(steps, streams),
         \A s \in more : s \in streams \/ (Head(steps).op = "add" /\ s = Head(steps).of)
  PROVE  /\ Tail(steps) \in Seq(Steps) /\ Head(steps) \in Steps
         /\ AddedOnce(Tail(steps), more)
         /\ \A s : (\E i \in 1 .. Len(steps) : steps[i] = Wait(s)) =>
                Head(steps) = Wait(s) \/ \E i \in 1 .. Len(Tail(steps)) : Tail(steps)[i] = Wait(s)
         /\ Head(steps).op = "add" /\ Head(steps).of \in Deferred \ {"postview"} =>
                /\ Head(steps).of \notin streams
                /\ \E i \in 1 .. Len(Tail(steps)) : Tail(steps)[i] = Wait(Head(steps).of)
<1> DEFINE t == Tail(steps)
<1>1. /\ t \in Seq(Steps) /\ Len(t) = Len(steps) - 1 /\ Len(steps) \in Nat \ {0} /\ Len(t) \in Nat
      /\ Head(steps) = steps[1] /\ Head(steps) \in Steps
      /\ \A i \in 1 .. Len(t) : t[i] = steps[i + 1] /\ i + 1 \in 1 .. Len(steps) /\ t[i] \in Steps
  OBVIOUS
<1> HIDE DEF t
<1>2. \A i \in 2 .. Len(steps) : i - 1 \in 1 .. Len(t) /\ t[i - 1] = steps[i]
  <2> SUFFICES ASSUME NEW i \in 2 .. Len(steps)
               PROVE  i - 1 \in 1 .. Len(t) /\ t[i - 1] = steps[i]
    OBVIOUS
  <2>1. i - 1 \in 1 .. Len(t) /\ (i - 1) + 1 = i
    BY <1>1
  <2> QED
    BY <1>1, <2>1
<1>3. ASSUME NEW s, NEW i \in 1 .. Len(steps), steps[i] = Wait(s)
      PROVE  Head(steps) = Wait(s) \/ \E j \in 1 .. Len(t) : t[j] = Wait(s)
  <2>1. i = 1 \/ i \in 2 .. Len(steps)
    BY <1>1
  <2> QED
    BY <1>1, <1>2, <1>3, <2>1
<1>4. ASSUME Head(steps).op = "add", Head(steps).of \in Deferred \ {"postview"}
      PROVE  /\ Head(steps).of \notin streams
             /\ \E i \in 1 .. Len(t) : t[i] = Wait(Head(steps).of)
             /\ \A i \in 1 .. Len(t) : t[i] # Head(steps)
  <2>1. /\ steps[1].of \notin streams
        /\ \E j \in 1 + 1 .. Len(steps) : steps[j] = Wait(steps[1].of)
        /\ \A j \in 1 + 1 .. Len(steps) : steps[j] # steps[1]
    <3>1. 1 \in 1 .. Len(steps)
      BY <1>1
    <3> QED
      BY <1>1, <1>4, <3>1 DEF AddedOnce
  <2>2. \A i \in 1 .. Len(t) : i + 1 \in 1 + 1 .. Len(steps)
    BY <1>1
  <2>3. PICK j \in 2 .. Len(steps) : steps[j] = Wait(steps[1].of)
    BY <2>1
  <2> QED
    BY <1>1, <1>2, <2>1, <2>2, <2>3
<1>5. AddedOnce(t, more)
  <2> SUFFICES ASSUME NEW i \in 1 .. Len(t), t[i].op = "add", t[i].of \in Deferred \ {"postview"}
               PROVE  /\ t[i].of \notin more
                      /\ \E j \in i + 1 .. Len(t) : t[j] = Wait(t[i].of)
                      /\ \A j \in i + 1 .. Len(t) : t[j] # t[i]
    BY DEF AddedOnce
  <2>1. i + 1 \in 1 .. Len(steps) /\ t[i] = steps[i + 1] /\ t[i] \in Steps
    BY <1>1
  <2>2. /\ steps[i + 1].of \notin streams
        /\ \E j \in (i + 1) + 1 .. Len(steps) : steps[j] = Wait(steps[i + 1].of)
        /\ \A j \in (i + 1) + 1 .. Len(steps) : steps[j] # steps[i + 1]
    BY <2>1 DEF AddedOnce
  <2>3. t[i].of \notin more
    <3> SUFFICES ASSUME t[i].of \in more PROVE FALSE
      OBVIOUS
    <3>1. Head(steps).op = "add" /\ Head(steps).of = t[i].of
      BY <2>1, <2>2
    <3>2. Head(steps) = t[i]
      <4>1. \A x, y \in Steps : x.op = y.op /\ x.of = y.of => x = y
        BY DEF Steps
      <4> QED
        BY <1>1, <2>1, <3>1, <4>1
    <3> QED
      BY <1>4, <3>1, <3>2
  <2>4. \E j \in i + 1 .. Len(t) : t[j] = Wait(t[i].of)
    <3>1. PICK j \in (i + 1) + 1 .. Len(steps) : steps[j] = Wait(steps[i + 1].of)
      BY <2>2
    <3>2. j \in 2 .. Len(steps) /\ j - 1 \in i + 1 .. Len(t)
      BY <1>1, <3>1
    <3> QED
      BY <1>2, <2>1, <3>1, <3>2
  <2>5. \A j \in i + 1 .. Len(t) : t[j] # t[i]
    <3> SUFFICES ASSUME NEW j \in i + 1 .. Len(t) PROVE t[j] # t[i]
      OBVIOUS
    <3>1. j \in 1 .. Len(t) /\ j + 1 \in (i + 1) + 1 .. Len(steps)
      BY <1>1
    <3> QED
      BY <1>1, <2>1, <2>2, <3>1
  <2> QED
    BY <2>3, <2>4, <2>5
<1> QED
  BY <1>1, <1>3, <1>4, <1>5 DEF t

-----------------------------------------------------------------------------
DwT == [busy : [Slot -> BOOLEAN], queue : Seq(Jobs), asleep : SUBSET {"hwi", "cb"}]

\* A job is not what the worker has without work.
LEMMA JobsAreWork ==
  ASSUME DwTyped
  PROVE  /\ NoWork \notin Jobs
         /\ Pending = {dw.queue[i] : i \in 1 .. Len(dw.queue)} \cup ({work} \ {NoWork})
         /\ \A w \in Pending : w \in Jobs
         /\ \A i \in 1 .. Len(dw.queue) : dw.queue[i] \in Jobs /\ dw.queue[i] \in Pending
<1>1. NoWork \notin Jobs
  BY DEF NoWork, Jobs
<1>2. dw.queue \in Seq(Jobs)
  BY DEF DwTyped
<1>3. DOMAIN dw.queue = 1 .. Len(dw.queue) /\ \A i \in 1 .. Len(dw.queue) : dw.queue[i] \in Jobs
  BY <1>2
<1> QED
  BY <1>1, <1>3 DEF Pending, DwTyped

\* The worker takes the first job.
LEMMA TakenPending ==
  ASSUME DwTyped, JobsApart, TakeWork
  PROVE  /\ Pending' = Pending /\ JobsApart' /\ dw' \in DwT /\ work' \in Jobs \cup {NoWork}
<1>1. /\ work.cmd = "none" /\ dw.queue # <<>> /\ work' = Head(dw.queue)
      /\ dw' = [dw EXCEPT !.queue = Tail(@)]
  BY DEF TakeWork
<1>2. dw \in DwT
  BY DEF DwTyped, DwT
<1>3. /\ dw' \in DwT /\ dw'.queue = Tail(dw.queue) /\ dw'.busy = dw.busy
      /\ dw.queue \in Seq(Jobs)
  BY <1>1, <1>2, SMTT(30) DEF DwT
<1>4. work = NoWork
  BY <1>1 DEF DwTyped, Jobs
<1>5. /\ Len(dw.queue) \in Nat \ {0} /\ Len(dw'.queue) = Len(dw.queue) - 1
      /\ work' = dw.queue[1] /\ 1 \in 1 .. Len(dw.queue)
      /\ \A i \in 1 .. Len(dw'.queue) : dw'.queue[i] = dw.queue[i + 1] /\ i + 1 \in 1 .. Len(dw.queue)
      /\ DOMAIN dw'.queue = 1 .. Len(dw'.queue)
  BY <1>1, <1>3
<1>6. work' \in Jobs /\ work' # NoWork
  BY <1>5, JobsAreWork
<1>7. Pending' = {dw'.queue[i] : i \in 1 .. Len(dw'.queue)} \cup {work'}
  BY <1>5, <1>6 DEF Pending
<1>8. Pending = {dw.queue[i] : i \in 1 .. Len(dw.queue)}
  BY <1>4, JobsAreWork
<1>9. Pending' = Pending
  <2>1. ASSUME NEW i \in 1 .. Len(dw.queue) PROVE dw.queue[i] \in Pending'
    <3>1. CASE i = 1
      BY <1>5, <1>7, <3>1
    <3>2. CASE i # 1
      <4>1. i - 1 \in 1 .. Len(dw'.queue) /\ (i - 1) + 1 = i
        BY <1>5, <3>2
      <4> QED
        BY <1>5, <1>7, <4>1, ZenonT(60)
    <3> QED
      BY <3>1, <3>2
  <2>2. \A i \in 1 .. Len(dw'.queue) : dw'.queue[i] \in Pending
    BY <1>5, <1>8
  <2> QED
    BY <1>5, <1>7, <1>8, <2>1, <2>2
<1>10. JobsApart'
  <2>1. ASSUME NEW i \in 1 .. Len(dw'.queue), NEW j \in 1 .. Len(dw'.queue),
               dw'.queue[i].id = dw'.queue[j].id
        PROVE  i = j
    <3> DEFINE a == i + 1
               b == j + 1
    <3>1. /\ a \in 1 .. Len(dw.queue) /\ b \in 1 .. Len(dw.queue)
          /\ dw.queue[a].id = dw.queue[b].id /\ i = a - 1 /\ j = b - 1
      BY <1>5, <2>1, SMTT(30)
    <3> HIDE DEF a, b
    <3>2. a = b
      BY <3>1 DEF JobsApart
    <3> QED
      BY <3>1, <3>2
  <2>2. ASSUME NEW i \in 1 .. Len(dw'.queue) PROVE dw'.queue[i].id # work'.id
    <3>1. i + 1 # 1 /\ i + 1 \in 1 .. Len(dw.queue) /\ dw'.queue[i] = dw.queue[i + 1]
      BY <1>5
    <3> QED
      BY <1>5, <3>1 DEF JobsApart
  <2> QED
    BY <1>3, <1>9, <2>1, <2>2 DEF JobsApart
<1> QED
  BY <1>3, <1>6, <1>9, <1>10

\* A job is done and its slot free.
LEMMA DonePending ==
  ASSUME DwTyped, JobsApart, work.cmd # "none", work' = NoWork, NEW left \in SUBSET dw.asleep,
         dw' = [dw EXCEPT !.busy[work.id] = FALSE, !.asleep = left]
  PROVE  /\ Pending' = Pending \ {work} /\ JobsApart' /\ dw' \in DwT /\ work' \in Jobs \cup {NoWork}
         /\ work \in Pending
<1>1. dw \in DwT /\ work \in Jobs /\ work # NoWork /\ work.id \in Slot
  BY DEF DwTyped, DwT, Jobs, NoWork
<1>2. /\ dw' \in DwT /\ dw'.queue = dw.queue /\ dw'.busy = [dw.busy EXCEPT ![work.id] = FALSE]
  BY <1>1 DEF DwT
<1>3. Pending = {dw.queue[i] : i \in 1 .. Len(dw.queue)} \cup {work} /\ \A w \in Pending : w.id \in Slot
  BY <1>1, JobsAreWork DEF Jobs
<1>4. Pending' = {dw.queue[i] : i \in 1 .. Len(dw.queue)}
  <2>1. DOMAIN dw.queue = 1 .. Len(dw.queue)
    BY <1>1 DEF DwT
  <2> QED
    BY <1>2, <2>1 DEF Pending
<1>5. \A i \in 1 .. Len(dw.queue) : dw.queue[i].id # work.id
  BY <1>1 DEF JobsApart
<1>6. Pending' = Pending \ {work}
  BY <1>3, <1>4, <1>5
<1>7. \A w \in Pending' : w.id # work.id
  BY <1>4, <1>5
<1>8. \A s \in Slot : dw'.busy[s] <=> \E w \in Pending' : w.id = s
  <2>1. \A s \in Slot : dw'.busy[s] <=> dw.busy[s] /\ s # work.id
    BY <1>1, <1>2 DEF DwT
  <2> QED
    BY <1>6, <1>7, <2>1 DEF JobsApart
<1>9. JobsApart'
  BY <1>2, <1>8 DEF JobsApart
<1> QED
  BY <1>2, <1>3, <1>6, <1>9

\* A job is queued with a slot of its own, or there is no slot.
LEMMA QueuedPending ==
  ASSUME DwTyped, JobsApart, NEW cmd \in {"ALLOCATE_BUFF", "PPROC_START"},
         NEW m \in Member, NEW s \in Deferred, QueueWork(cmd, m, s), UNCHANGED work
  PROVE  /\ jobOf' \in [Member -> Slot \cup {NoJob}] /\ dw' \in DwT /\ JobsApart'
         /\ \A n \in Member : n # m => jobOf'[n] = jobOf[n]
         /\ \/ UNCHANGED dw /\ jobOf'[m] = NoJob /\ Pending' = Pending
            \/ \E w \in Jobs :
                  /\ w.cmd = cmd /\ w.stream = s /\ w.ch = hwi.ch /\ w.id = jobOf'[m]
                  /\ jobOf'[m] # NoJob /\ Pending' = Pending \cup {w}
                  /\ \A v \in Pending : v.id # w.id
<1>1. jobOf \in [Member -> Slot \cup {NoJob}] /\ dw \in DwT /\ hwi.ch \in 0 .. MaxChannels
  BY DEF DwTyped, DwT, Hwi
<1>2. CASE FreeSlots = {}
  <2>1. UNCHANGED dw /\ jobOf' = [jobOf EXCEPT ![m] = NoJob]
    BY <1>2 DEF QueueWork
  <2> QED
    BY <1>1, <2>1 DEF JobsApart, Pending
<1>3. CASE FreeSlots # {}
  <2> DEFINE f == LowestFree
             w == [cmd |-> cmd, id |-> f, ch |-> hwi.ch, stream |-> s]
  <2>1. /\ jobOf' = [jobOf EXCEPT ![m] = f]
        /\ dw' = [dw EXCEPT !.busy[f] = TRUE, !.queue = Append(@, w)]
    BY <1>3 DEF QueueWork
  <2>2. f \in Slot /\ ~dw.busy[f] /\ f # NoJob
    BY <1>3, LowestIsFree DEF Slot, NoJob
  <2>3. w \in Jobs /\ w # NoWork
    BY <1>1, <2>2 DEF Jobs, DwWork, NoWork
  <2>4. w.cmd = cmd /\ w.stream = s /\ w.ch = hwi.ch /\ w.id = f
    OBVIOUS
  <2> HIDE DEF f, w
  <2>5. /\ dw' \in DwT /\ dw'.queue = Append(dw.queue, w) /\ dw'.busy = [dw.busy EXCEPT ![f] = TRUE]
    <3>1. dw' = [dw EXCEPT !.busy = [dw.busy EXCEPT ![f] = TRUE], !.queue = Append(dw.queue, w)]
      BY <1>1, <2>1 DEF DwT
    <3>2. [dw.busy EXCEPT ![f] = TRUE] \in [Slot -> BOOLEAN] /\ Append(dw.queue, w) \in Seq(Jobs)
      BY <1>1, <2>2, <2>3 DEF DwT
    <3> QED
      BY <1>1, <3>1, <3>2 DEF DwT
  <2>6. /\ Len(dw.queue) \in Nat /\ Len(dw'.queue) = Len(dw.queue) + 1
        /\ dw'.queue[Len(dw.queue) + 1] = w
        /\ \A i \in 1 .. Len(dw.queue) : dw'.queue[i] = dw.queue[i] /\ i \in 1 .. Len(dw'.queue)
        /\ DOMAIN dw'.queue = 1 .. Len(dw'.queue) /\ Len(dw.queue) + 1 \in 1 .. Len(dw'.queue)
        /\ \A i \in 1 .. Len(dw'.queue) : i \in 1 .. Len(dw.queue) \/ i = Len(dw.queue) + 1
    BY <1>1, <2>3, <2>5 DEF DwT
  <2>7. Pending' = Pending \cup {w}
    <3>1. Pending = {dw.queue[i] : i \in 1 .. Len(dw.queue)} \cup ({work} \ {NoWork})
      BY JobsAreWork
    <3>2. Pending' = {dw'.queue[i] : i \in 1 .. Len(dw'.queue)} \cup ({work} \ {NoWork})
      BY <2>6 DEF Pending
    <3> QED
      BY <2>6, <3>1, <3>2
  <2>8. \A v \in Pending : v.id # f
    BY <2>2 DEF JobsApart
  <2>9. \A i \in 1 .. Len(dw.queue) : dw.queue[i].id # f
    BY <2>8, JobsAreWork
  <2>10. work # NoWork => work.id # f
    BY <2>8 DEF Pending
  <2>11. \A t \in Slot : dw'.busy[t] <=> dw.busy[t] \/ t = f
    BY <1>1, <2>2, <2>5 DEF DwT
  <2>12. \A t \in Slot : dw'.busy[t] <=> \E v \in Pending' : v.id = t
    BY <2>4, <2>7, <2>11 DEF JobsApart
  <2>13. \A i, j \in 1 .. Len(dw'.queue) : dw'.queue[i].id = dw'.queue[j].id => i = j
    <3>1. ASSUME NEW i \in 1 .. Len(dw'.queue), NEW j \in 1 .. Len(dw'.queue),
                 dw'.queue[i].id = dw'.queue[j].id
          PROVE  i = j
      <4>1. CASE i \in 1 .. Len(dw.queue) /\ j \in 1 .. Len(dw.queue)
        BY <2>6, <3>1, <4>1 DEF JobsApart
      <4>2. CASE i = Len(dw.queue) + 1 \/ j = Len(dw.queue) + 1
        BY <2>4, <2>6, <2>9, <3>1, <4>2
      <4> QED
        BY <2>6, <4>1, <4>2
    <3> QED
      BY <3>1
  <2>14. \A i \in 1 .. Len(dw'.queue) : work # NoWork => dw'.queue[i].id # work.id
    BY <2>4, <2>6, <2>10 DEF JobsApart
  <2>15. JobsApart'
    BY <2>12, <2>13, <2>14 DEF JobsApart
  <2>16. jobOf' \in [Member -> Slot \cup {NoJob}] /\ jobOf'[m] = f /\ \A n \in Member : n # m => jobOf'[n] = jobOf[n]
    BY <1>1, <2>1, <2>2
  <2> QED
    BY <2>2, <2>3, <2>4, <2>5, <2>7, <2>8, <2>15, <2>16
<1> QED
  BY <1>2, <1>3

\* A member whose job is done names no job that is pending.
LEMMA DoneIsNotPending ==
  ASSUME DwTyped, JobsApart, NEW m \in Member, IsDone(m)
  PROVE  \A w \in Pending : w.id # jobOf[m]
<1>1. \A w \in Pending : w.id \in Slot /\ dw.busy[w.id]
  BY JobsAreWork DEF JobsApart, Jobs
<1> QED
  BY <1>1 DEF IsDone, FreeSlots

-----------------------------------------------------------------------------
Starting == {"start", "capturing", "startFailed", "cancel", "unstart"}
FrameT == [pc : {"idle", "wait"}, frames : Nat]

\* Without jobs the invariant holds.
LEMMA InitDwInv == DwInit => DwInv /\ ChannelInv
<1> SUFFICES ASSUME DwInit PROVE DwInv /\ ChannelInv
  OBVIOUS
<1>1. /\ dw = [busy |-> [i \in Slot |-> FALSE], queue |-> <<>>, asleep |-> {}]
      /\ jobOf = [m \in Member |-> NoJob] /\ work = NoWork
      /\ hwi = [pc |-> "idle", plan |-> NoPlan, ch |-> 0, built |-> 0,
                streams |-> {}, tried |-> {}, bufs |-> {}]
      /\ frameCb = [pc |-> "idle", frames |-> 0] /\ pp = FALSE
  BY DEF DwInit
<1>2. <<>> \in Seq(Steps) /\ <<>> \in Seq(Jobs) /\ Len(<<>>) = 0 /\ DOMAIN <<>> = {}
  OBVIOUS
<1>3. hwi \in Hwi
  <2>1. 0 \in 0 .. MaxChannels
    BY DwAssumption
  <2> QED
    BY <1>1, <1>2, <2>1 DEF Hwi, NoPlan
<1>4. DwTyped
  BY <1>1, <1>2, <1>3 DEF DwTyped
<1>5. Pending = {}
  BY <1>1, <1>2 DEF Pending
<1>6. JobsApart
  BY <1>1, <1>2, <1>5 DEF JobsApart
<1>7. PlanInv /\ AllocInv /\ StartInv /\ ChannelInv
  BY <1>1, <1>2, <1>5 DEF PlanInv, AddedOnce, NoPlan, AllocInv, StartInv, ChannelInv
<1> QED
  BY <1>4, <1>6, <1>7 DEF DwInv

\* A step that leaves what is pending, the members and the HAL's thread.
LEMMA AsideKeeps ==
  ASSUME DwInv, UNCHANGED <<jobOf, hwi>>, Pending' = Pending, JobsApart', dw' \in DwT,
         work' \in Jobs \cup {NoWork}, frameCb' \in FrameT, pp' \in BOOLEAN
  PROVE  DwInv'
<1>1. DwTyped' /\ PlanInv'
  BY DEF DwInv, DwTyped, DwT, FrameT, PlanInv
<1>2. AllocInv' /\ StartInv'
  BY DEF DwInv, AllocInv, Allocating, ToWaitFor, StartInv
<1> QED
  BY <1>1, <1>2 DEF DwInv

\* A thread falls asleep.
LEMMA SleepKeeps ==
  ASSUME DwInv, NEW t \in {"hwi", "cb"}, NEW m, Sleep(t, m)
  PROVE  DwInv' /\ Pending' = Pending /\ UNCHANGED <<jobOf, hwi>>
<1>1. dw' = [dw EXCEPT !.asleep = @ \cup {t}] /\ UNCHANGED <<jobOf, work, hwi, frameCb, pp>>
  BY DEF Sleep
<1>2. dw \in DwT /\ DwTyped
  BY DEF DwInv, DwTyped, DwT
<1>3. dw' \in DwT /\ dw'.queue = dw.queue /\ dw'.busy = dw.busy
  BY <1>1, <1>2 DEF DwT
<1>4. Pending' = Pending
  BY <1>1, <1>3 DEF Pending
<1>5. JobsApart'
  BY <1>1, <1>3, <1>4 DEF DwInv, JobsApart
<1>6. DwInv'
  BY <1>1, <1>2, <1>3, <1>4, <1>5, AsideKeeps DEF DwTyped, FrameT
<1> QED
  BY <1>1, <1>4, <1>6

\* The HAL's thread goes on without a job.
LEMMA GotoKeeps ==
  ASSUME DwInv, NEW pc \in {"fail", "delete", "built", "capturing", "startFailed", "cancel",
                            "unstart", "stop"},
         HwiGoto(pc), UNCHANGED <<dw, jobOf, work, frameCb>>, pp' \in BOOLEAN,
         pc \in {"capturing", "startFailed"} => hwi.pc = "start",
         \A w \in Pending : w.cmd = "PPROC_START" => pc \in Starting
  PROVE  DwInv' /\ Pending' = Pending
<1>1. hwi \in Hwi /\ hwi' = [hwi EXCEPT !.pc = pc]
  BY DEF DwInv, DwTyped, HwiGoto
<1>2. /\ hwi' \in Hwi /\ hwi'.pc = pc /\ hwi'.plan = hwi.plan /\ hwi'.ch = hwi.ch
      /\ hwi'.streams = hwi.streams /\ hwi'.tried = hwi.tried
  BY <1>1 DEF Hwi
<1>3. Pending' = Pending /\ JobsApart'
  BY DEF Pending, JobsApart, DwInv
<1>4. DwTyped' /\ PlanInv'
  BY <1>2 DEF DwInv, DwTyped, PlanInv
<1>5. AllocInv' /\ StartInv'
  BY <1>2, <1>3 DEF DwInv, AllocInv, StartInv, Starting
<1> QED
  BY <1>3, <1>4, <1>5 DEF DwInv

\* The worker ends a job.
LEMMA DoneKeeps ==
  ASSUME DwInv, AllocateDone \/ PprocStartDone
  PROVE  DwInv' /\ Pending' = Pending \ {work}
<1>ty. DwTyped /\ JobsApart /\ hwi \in Hwi /\ dw \in DwT /\ work.cmd # "none"
  BY DEF DwInv, DwTyped, DwT, AllocateDone, PprocStartDone
<1>1. PICK left \in SUBSET dw.asleep :
         dw' = [dw EXCEPT !.busy[work.id] = FALSE, !.asleep = left]
  <2>1. CASE AllocateDone
    <3>1. PICK woken : dw' = [dw EXCEPT !.busy[work.id] = FALSE, !.asleep = @ \ woken]
      BY <2>1 DEF AllocateDone
    <3>2. dw' = [dw EXCEPT !.busy[work.id] = FALSE, !.asleep = dw.asleep \ woken]
      BY <1>ty, <3>1 DEF DwT
    <3> QED
      BY <3>2
  <2>2. CASE PprocStartDone
    BY <2>2 DEF PprocStartDone
  <2> QED
    BY <2>1, <2>2
<1>2. work' = NoWork /\ UNCHANGED <<jobOf, frameCb>> /\ pp' \in BOOLEAN
  BY DEF AllocateDone, PprocStartDone, DwInv, DwTyped
<1>3. /\ Pending' = Pending \ {work} /\ JobsApart' /\ dw' \in DwT /\ work' \in Jobs \cup {NoWork}
      /\ work \in Pending /\ work \in Jobs
  <2>1. work \in Jobs
    BY <1>ty DEF DwTyped, NoWork
  <2> QED
    BY <1>ty, <1>1, <1>2, <2>1, DonePending
<1>4. /\ hwi' \in Hwi /\ hwi'.pc = hwi.pc /\ hwi'.plan = hwi.plan /\ hwi'.ch = hwi.ch
      /\ hwi'.streams = hwi.streams /\ hwi.tried \subseteq hwi'.tried
      /\ work.cmd = "ALLOCATE_BUFF" /\ work.ch = hwi.ch => work.stream \in hwi'.tried
  <2>1. CASE AllocateDone
    <3>1. /\ work.cmd = "ALLOCATE_BUFF"
          /\ hwi' \in IF hwi.ch = work.ch THEN Allocated(work.stream) ELSE {hwi}
      BY <2>1 DEF AllocateDone
    <3>2. work.stream \in Deferred
      BY <1>3 DEF Jobs, DwWork
    <3>3. CASE hwi.ch = work.ch
      <4>1. PICK b \in SUBSET Deferred :
                hwi' = [hwi EXCEPT !.tried = hwi.tried \cup {work.stream}, !.bufs = b]
        BY <1>ty, <3>1, <3>2, <3>3 DEF Allocated, Hwi
      <4> QED
        BY <1>ty, <3>2, <4>1 DEF Hwi
    <3>4. CASE hwi.ch # work.ch
      BY <1>ty, <3>1, <3>4
    <3> QED
      BY <3>3, <3>4
  <2>2. CASE PprocStartDone
    BY <1>ty, <2>2 DEF PprocStartDone
  <2> QED
    BY <2>1, <2>2
<1>5. DwTyped' /\ PlanInv'
  BY <1>2, <1>3, <1>4 DEF DwInv, DwTyped, DwT, PlanInv
<1>6. AllocInv'
  <2> SUFFICES ASSUME NEW s \in hwi'.streams \ hwi'.tried
               PROVE  /\ hwi'.pc \notin {"start", "capturing", "startFailed"}
                      /\ hwi'.pc = "build" /\ s # "postview" => Allocating(s)' /\ ToWaitFor(s)'
                      /\ hwi'.pc = "postview" => s = "postview" /\ Allocating(s)'
    BY DEF AllocInv
  <2>1. s \in hwi.streams \ hwi.tried
    BY <1>4
  <2>2. Allocating(s) => Allocating(s)'
    BY <1>2, <1>3, <1>4 DEF Allocating
  <2>3. ToWaitFor(s)' <=> ToWaitFor(s)
    BY <1>4 DEF ToWaitFor
  <2> QED
    BY <1>4, <2>1, <2>2, <2>3 DEF DwInv, AllocInv
<1>7. StartInv'
  BY <1>2, <1>3, <1>4 DEF DwInv, StartInv
<1> QED
  BY <1>3, <1>5, <1>6, <1>7 DEF DwInv

\* A channel is begun without streams.
LEMMA NewChannelKeeps ==
  ASSUME DwInv, NewChannel
  PROVE  DwInv' /\ (ChannelInv => ChannelInv')
<1>1. PICK p \in Plans :
         hwi' = [pc |-> "build", plan |-> p, ch |-> hwi.built + 1, built |-> hwi.built + 1,
                 streams |-> {}, tried |-> {}, bufs |-> {}]
  BY DEF NewChannel
<1>2. hwi.pc = "idle" /\ hwi.built < MaxChannels /\ UNCHANGED <<dw, jobOf, work, frameCb, pp>>
  BY DEF NewChannel
<1>3. hwi.built + 1 \in 0 .. MaxChannels
  BY <1>2, DwAssumption DEF DwInv, DwTyped, Hwi
<1>4. p \in [kind : {"preview", "raw", "capture", "none"}, steps : Seq(Steps)] /\ AddedOnce(p.steps, {})
  BY PlansAddOnce
<1>5. hwi' \in Hwi /\ hwi'.pc = "build" /\ hwi'.plan = p /\ hwi'.streams = {}
  BY <1>1, <1>3, <1>4 DEF Hwi
<1>6. Pending' = Pending /\ JobsApart'
  BY <1>2 DEF Pending, JobsApart, DwInv
<1>7. DwTyped' /\ PlanInv' /\ AllocInv'
  BY <1>2, <1>4, <1>5 DEF DwInv, DwTyped, PlanInv, AllocInv
<1>8. StartInv'
  BY <1>2, <1>6 DEF DwInv, StartInv
<1>9. ChannelInv => ChannelInv'
  BY <1>2, <1>6 DEF ChannelInv
<1> QED
  BY <1>6, <1>7, <1>8, <1>9 DEF DwInv

\* A channel is deleted with its streams.
LEMMA DeleteChannelKeeps ==
  ASSUME DwInv, DeleteChannel
  PROVE  DwInv' /\ (ChannelInv => ChannelInv')
<1>1. hwi' = [hwi EXCEPT !.pc = "idle", !.plan = NoPlan, !.ch = 0,
                         !.streams = {}, !.tried = {}, !.bufs = {}]
  BY DEF DeleteChannel
<1>2. hwi.pc \in {"delete", "built"} /\ UNCHANGED <<dw, jobOf, work, frameCb, pp>>
  BY DEF DeleteChannel
<1>3. NoPlan \in [kind : {"preview", "raw", "capture", "none"}, steps : Seq(Steps)] /\ Len(NoPlan.steps) = 0
  BY DEF NoPlan
<1>4. hwi \in Hwi /\ 0 \in 0 .. MaxChannels
  BY DwAssumption DEF DwInv, DwTyped
<1>5. hwi' \in Hwi /\ hwi'.pc = "idle" /\ hwi'.plan = NoPlan /\ hwi'.streams = {}
  BY <1>1, <1>3, <1>4 DEF Hwi
<1>6. Pending' = Pending /\ JobsApart'
  BY <1>2 DEF Pending, JobsApart, DwInv
<1>7. DwTyped' /\ PlanInv' /\ AllocInv'
  BY <1>2, <1>3, <1>5 DEF DwInv, DwTyped, PlanInv, AddedOnce, AllocInv
<1>8. StartInv'
  BY <1>2, <1>6 DEF DwInv, StartInv
<1>9. ChannelInv => ChannelInv'
  BY <1>2, <1>6 DEF ChannelInv
<1> QED
  BY <1>6, <1>7, <1>8, <1>9 DEF DwInv

\* A stream is added, with its job if its buffers are allocated early.
LEMMA AddStreamKeeps ==
  ASSUME DwInv, AddStream
  PROVE  DwInv' /\ (ChannelInv => ChannelInv')
<1>s. PICK s : s = StepOf
  OBVIOUS
<1> DEFINE t == Tail(hwi.plan.steps)
           more == hwi.streams \cup ({s} \cap Deferred)
           early == s \in Deferred \ {"postview"}
           pc == IF early /\ jobOf'[s] = NoJob THEN "fail" ELSE "build"
<1>1. /\ hwi.pc = "build" /\ hwi.plan.steps # <<>> /\ Head(hwi.plan.steps).op = "add"
      /\ IF early THEN QueueWork("ALLOCATE_BUFF", s, s) ELSE UNCHANGED <<dw, jobOf>>
      /\ hwi' = [hwi EXCEPT !.plan.steps = Tail(@), !.streams = @ \cup ({s} \cap Deferred), !.pc = pc]
      /\ UNCHANGED <<work, frameCb, pp>>
  BY <1>s DEF AddStream, Doing
<1>ty. DwTyped /\ JobsApart /\ hwi \in Hwi /\ dw \in DwT /\ hwi.plan.steps \in Seq(Steps)
  BY DEF DwInv, DwTyped, DwT, Hwi
<1>2. s = Head(hwi.plan.steps).of
  BY <1>s DEF StepOf
<1>3. /\ t \in Seq(Steps) /\ AddedOnce(t, more)
      /\ \A m : ToWaitFor(m) => Head(hwi.plan.steps) = Wait(m) \/ \E i \in 1 .. Len(t) : t[i] = Wait(m)
      /\ early => s \notin hwi.streams /\ \E i \in 1 .. Len(t) : t[i] = Wait(s)
  <2>1. AddedOnce(hwi.plan.steps, hwi.streams)
    BY DEF DwInv, PlanInv
  <2> QED
    BY <1>1, <1>2, <1>ty, <2>1, RestOfPlan DEF ToWaitFor
<1>4. \A m : ToWaitFor(m) => \E i \in 1 .. Len(t) : t[i] = Wait(m)
  <2>1. \A m : Wait(m).op = "wait"
    BY DEF Wait
  <2> QED
    BY <1>1, <1>3, <2>1
<1>5. more \in SUBSET Deferred /\ s \in Member \cup {"preview"}
  <2>1. Head(hwi.plan.steps) \in Steps
    BY <1>1, <1>ty
  <2> QED
    BY <1>2, <1>ty, <2>1 DEF Hwi, Steps
<1> HIDE DEF t, more, pc
<1>6. /\ hwi' \in Hwi /\ hwi'.pc = pc /\ hwi'.plan.steps = t /\ hwi'.ch = hwi.ch
      /\ hwi'.streams = more /\ hwi'.tried = hwi.tried
  <2>1. hwi' = [hwi EXCEPT !.plan = [hwi.plan EXCEPT !.steps = t], !.streams = more, !.pc = pc]
    BY <1>1, <1>ty DEF Hwi, t, more
  <2>2. [hwi.plan EXCEPT !.steps = t] \in [kind : {"preview", "raw", "capture", "none"}, steps : Seq(Steps)]
        /\ [hwi.plan EXCEPT !.steps = t].steps = t
    BY <1>3, <1>ty DEF Hwi
  <2>3. pc \in {"build", "fail"}
    BY DEF pc
  <2> QED
    BY <1>5, <1>ty, <2>1, <2>2, <2>3 DEF Hwi
<1>7. \A m : ToWaitFor(m) => ToWaitFor(m)'
  BY <1>4, <1>6 DEF ToWaitFor
<1>8. CASE ~early
  <2>1. UNCHANGED <<dw, jobOf, work>> /\ pc = "build"
    BY <1>1, <1>8 DEF pc
  <2>2. Pending' = Pending /\ JobsApart'
    BY <1>ty, <2>1 DEF Pending, JobsApart
  <2>3. DwTyped' /\ PlanInv'
    BY <1>1, <1>3, <1>6, <1>ty, <2>1 DEF DwTyped, PlanInv
  <2>4. \A m \in more : m \in hwi.streams \/ m = "postview"
    BY <1>8 DEF more
  <2>5. AllocInv'
    BY <1>1, <1>6, <1>7, <2>1, <2>2, <2>4 DEF DwInv, AllocInv, Allocating
  <2>6. StartInv'
    BY <1>1, <2>1, <2>2 DEF DwInv, StartInv
  <2>7. ChannelInv => ChannelInv'
    BY <1>1, <1>6, <1>7, <2>1, <2>2 DEF ChannelInv, more
  <2> QED
    BY <2>2, <2>3, <2>5, <2>6, <2>7 DEF DwInv
<1>9. CASE early
  <2>1. s \in Member /\ s \in Deferred /\ s # "postview" /\ more = hwi.streams \cup {s}
    BY <1>9 DEF Deferred, Member, more
  <2>2. /\ jobOf' \in [Member -> Slot \cup {NoJob}] /\ dw' \in DwT /\ JobsApart'
        /\ \A n \in Member : n # s => jobOf'[n] = jobOf[n]
        /\ \/ UNCHANGED dw /\ jobOf'[s] = NoJob /\ Pending' = Pending
           \/ \E w \in Jobs :
                 /\ w.cmd = "ALLOCATE_BUFF" /\ w.stream = s /\ w.ch = hwi.ch /\ w.id = jobOf'[s]
                 /\ jobOf'[s] # NoJob /\ Pending' = Pending \cup {w}
                 /\ \A v \in Pending : v.id # w.id
    BY <1>1, <1>9, <1>ty, <2>1, QueuedPending
  <2>3. DwTyped' /\ PlanInv'
    BY <1>1, <1>3, <1>6, <1>ty, <2>2 DEF DwTyped, DwT, PlanInv
  <2>4. \A w \in Pending : w.cmd # "PPROC_START"
    BY <1>1 DEF DwInv, StartInv
  <2>5. \A w \in Pending' : w.cmd # "PPROC_START"
    BY <2>2, <2>4
  <2>6. StartInv'
    BY <2>5 DEF StartInv
  <2>7. CASE jobOf'[s] = NoJob
    <3>1. pc = "fail" /\ Pending' = Pending
      BY <1>9, <2>2, <2>7 DEF pc
    <3>2. AllocInv'
      BY <1>6, <3>1 DEF AllocInv
    <3>3. ChannelInv => ChannelInv'
      <4>1. \A w \in Pending : w.cmd = "ALLOCATE_BUFF" /\ w.stream \in hwi.streams =>
                w.stream \in Member /\ w.stream # s
        <5>1. \A w \in Pending : w.stream \in Deferred
          BY <1>ty, JobsAreWork DEF Jobs, DwWork
        <5> QED
          BY <1>3, <1>9, <5>1 DEF Deferred, Member
      <4> QED
        BY <1>1, <1>6, <2>1, <2>2, <3>1, <4>1 DEF ChannelInv
    <3> QED
      BY <2>2, <2>3, <2>6, <3>2, <3>3 DEF DwInv
  <2>8. CASE jobOf'[s] # NoJob
    <3>1. PICK w \in Jobs :
             /\ w.cmd = "ALLOCATE_BUFF" /\ w.stream = s /\ w.ch = hwi.ch /\ w.id = jobOf'[s]
             /\ Pending' = Pending \cup {w}
      BY <2>2, <2>8
    <3>2. pc = "build"
      BY <2>8 DEF pc
    <3>3. ToWaitFor(s)' /\ Allocating(s)'
      BY <1>3, <1>6, <1>9, <3>1 DEF ToWaitFor, Allocating
    <3>4. ASSUME NEW m \in hwi.streams, Allocating(m) PROVE Allocating(m)'
      <4>1. m \in Member /\ m # s
        BY <1>3, <1>9, <1>ty, <3>4 DEF Hwi, Deferred, Member
      <4> QED
        BY <1>6, <2>2, <3>1, <3>4, <4>1 DEF Allocating
    <3>5. AllocInv'
      BY <1>1, <1>6, <1>7, <2>1, <3>2, <3>3, <3>4 DEF DwInv, AllocInv
    <3>6. ChannelInv => ChannelInv'
      <4> SUFFICES ASSUME ChannelInv, NEW v \in Pending'
                   PROVE  /\ v.ch = hwi'.ch
                          /\ v.cmd = "ALLOCATE_BUFF" =>
                               v.id = jobOf'[v.stream] /\ v.stream \in more /\ ToWaitFor(v.stream)'
        BY <1>6, <3>2 DEF ChannelInv
      <4>1. CASE v = w
        BY <1>6, <2>1, <3>1, <3>3, <4>1
      <4>2. CASE v \in Pending
        <5>1. /\ v.ch = hwi.ch
              /\ v.cmd = "ALLOCATE_BUFF" =>
                   v.id = jobOf[v.stream] /\ v.stream \in hwi.streams /\ ToWaitFor(v.stream)
          BY <1>1, <4>2 DEF ChannelInv
        <5>2. v.stream \in Deferred
          BY <1>ty, <4>2, JobsAreWork DEF Jobs, DwWork
        <5>3. v.cmd = "ALLOCATE_BUFF" => v.stream \in Member /\ v.stream # s
          BY <1>3, <1>9, <5>1, <5>2 DEF Deferred, Member
        <5> QED
          BY <1>6, <1>7, <2>1, <2>2, <5>1, <5>3
      <4> QED
        BY <3>1, <4>1, <4>2
    <3> QED
      BY <2>2, <2>3, <2>6, <3>5, <3>6 DEF DwInv
  <2> QED
    BY <2>7, <2>8
<1> QED
  BY <1>8, <1>9

\* A wait for a job that is done ends.
LEMMA WaitNextKeeps ==
  ASSUME DwInv, WaitNext
  PROVE  DwInv' /\ (ChannelInv => ChannelInv')
<1>s. PICK s : s = StepOf
  OBVIOUS
<1> DEFINE t == Tail(hwi.plan.steps)
<1>1. /\ hwi.pc = "build" /\ hwi.plan.steps # <<>> /\ Head(hwi.plan.steps).op = "wait" /\ IsDone(s)
      /\ hwi' = [hwi EXCEPT !.plan.steps = Tail(@)]
      /\ UNCHANGED <<dw, jobOf, work, frameCb, pp>>
  BY <1>s DEF WaitNext, Doing
<1>ty. DwTyped /\ JobsApart /\ hwi \in Hwi /\ hwi.plan.steps \in Seq(Steps)
  BY DEF DwInv, DwTyped, Hwi
<1>2. /\ t \in Seq(Steps) /\ AddedOnce(t, hwi.streams)
      /\ \A m : ToWaitFor(m) => Head(hwi.plan.steps) = Wait(m) \/ \E i \in 1 .. Len(t) : t[i] = Wait(m)
  <2>1. AddedOnce(hwi.plan.steps, hwi.streams)
    BY DEF DwInv, PlanInv
  <2>2. \A m \in hwi.streams : m \in hwi.streams
    OBVIOUS
  <2>3. t \in Seq(Steps) /\ AddedOnce(t, hwi.streams)
    BY <1>1, <1>ty, <2>1, <2>2, RestOfPlan
  <2>4. \A m : (\E i \in 1 .. Len(hwi.plan.steps) : hwi.plan.steps[i] = Wait(m)) =>
              Head(hwi.plan.steps) = Wait(m) \/ \E i \in 1 .. Len(t) : t[i] = Wait(m)
    BY <1>1, <1>ty, <2>1, <2>2, RestOfPlan
  <2> QED
    BY <2>3, <2>4 DEF ToWaitFor
<1>3. \A m : m # s /\ ToWaitFor(m) => \E i \in 1 .. Len(t) : t[i] = Wait(m)
  <2>1. \A m : Wait(m).of = m
    BY DEF Wait
  <2> QED
    BY <1>2, <1>s, <2>1 DEF StepOf
<1> HIDE DEF t
<1>4. /\ hwi' \in Hwi /\ hwi'.pc = "build" /\ hwi'.plan.steps = t /\ hwi'.ch = hwi.ch
      /\ hwi'.streams = hwi.streams /\ hwi'.tried = hwi.tried
  <2>1. hwi' = [hwi EXCEPT !.plan = [hwi.plan EXCEPT !.steps = t]]
    BY <1>1, <1>ty DEF Hwi, t
  <2>2. [hwi.plan EXCEPT !.steps = t] \in [kind : {"preview", "raw", "capture", "none"}, steps : Seq(Steps)]
        /\ [hwi.plan EXCEPT !.steps = t].steps = t
    BY <1>2, <1>ty DEF Hwi
  <2> QED
    BY <1>1, <1>ty, <2>1, <2>2 DEF Hwi
<1>5. \A m : m # s /\ ToWaitFor(m) => ToWaitFor(m)'
  BY <1>3, <1>4 DEF ToWaitFor
<1>6. Pending' = Pending /\ JobsApart' /\ DwTyped' /\ PlanInv'
  BY <1>1, <1>2, <1>4, <1>ty DEF Pending, JobsApart, DwTyped, PlanInv
<1>7. s \in Member => \A w \in Pending : w.id # jobOf[s]
  BY <1>1, <1>ty, DoneIsNotPending
<1>8. \A m \in Deferred : m \in Member
  BY DEF Deferred, Member
<1>9. AllocInv'
  <2>1. \A m \in hwi.streams : Allocating(m) => m # s
    BY <1>7, <1>8, <1>ty DEF Hwi, Allocating
  <2> QED
    BY <1>1, <1>4, <1>5, <1>6, <2>1 DEF DwInv, AllocInv, Allocating
<1>10. StartInv'
  BY <1>1, <1>4, <1>6 DEF DwInv, StartInv
<1>11. ChannelInv => ChannelInv'
  <2>1. \A w \in Pending : w.stream \in Member
    BY <1>8, <1>ty, JobsAreWork DEF Jobs, DwWork
  <2>2. \A w \in Pending : w.id = jobOf[w.stream] => w.stream # s
    BY <1>7, <2>1
  <2> QED
    BY <1>1, <1>4, <1>5, <1>6, <2>2 DEF ChannelInv
<1> QED
  BY <1>6, <1>9, <1>10, <1>11 DEF DwInv

\* The postview buffers are allocated when the plan is done.
LEMMA QueuePostviewKeeps ==
  ASSUME DwInv, QueuePostview
  PROVE  DwInv' /\ (ChannelInv => ChannelInv')
<1> DEFINE pc == IF jobOf'["postview"] = NoJob THEN "built" ELSE "postview"
<1>1. /\ hwi.pc = "build" /\ hwi.plan.steps = <<>>
      /\ QueueWork("ALLOCATE_BUFF", "postview", "postview")
      /\ hwi' = [hwi EXCEPT !.pc = pc] /\ UNCHANGED <<work, frameCb, pp>>
  BY DEF QueuePostview, Done, HwiGoto
<1>ty. DwTyped /\ JobsApart /\ hwi \in Hwi /\ dw \in DwT
  BY DEF DwInv, DwTyped, DwT
<1>2. /\ jobOf' \in [Member -> Slot \cup {NoJob}] /\ dw' \in DwT /\ JobsApart'
      /\ \A n \in Member : n # "postview" => jobOf'[n] = jobOf[n]
      /\ \/ UNCHANGED dw /\ jobOf'["postview"] = NoJob /\ Pending' = Pending
         \/ \E w \in Jobs :
               /\ w.cmd = "ALLOCATE_BUFF" /\ w.stream = "postview" /\ w.ch = hwi.ch
               /\ w.id = jobOf'["postview"] /\ jobOf'["postview"] # NoJob /\ Pending' = Pending \cup {w}
               /\ \A v \in Pending : v.id # w.id
  BY <1>1, <1>ty, QueuedPending DEF Member, Deferred
<1> HIDE DEF pc
<1>3. /\ hwi' \in Hwi /\ hwi'.pc = pc /\ hwi'.plan = hwi.plan /\ hwi'.ch = hwi.ch
      /\ hwi'.streams = hwi.streams /\ hwi'.tried = hwi.tried
  <2>1. pc \in {"built", "postview"}
    BY DEF pc
  <2> QED
    BY <1>1, <1>ty, <2>1 DEF Hwi
<1>4. \A m : ~ToWaitFor(m)
  BY <1>1 DEF ToWaitFor
<1>5. DwTyped' /\ PlanInv'
  BY <1>1, <1>2, <1>3, <1>ty DEF DwInv, DwTyped, DwT, PlanInv
<1>6. \A w \in Pending' : w.cmd # "PPROC_START"
  BY <1>1, <1>2 DEF DwInv, StartInv
<1>7. StartInv'
  BY <1>6 DEF StartInv
<1>8. pc # "build" /\ pc \notin {"start", "capturing", "startFailed"}
  BY DEF pc
<1>9. CASE jobOf'["postview"] = NoJob
  <2>1. pc = "built" /\ Pending' = Pending
    BY <1>2, <1>9 DEF pc
  <2>2. AllocInv'
    BY <1>3, <2>1 DEF AllocInv
  <2>3. ChannelInv => Pending = {}
    <3>1. \A w \in Pending : w.cmd = "ALLOCATE_BUFF"
      BY <1>1, <1>ty, JobsAreWork DEF DwInv, StartInv, Jobs, DwWork
    <3> QED
      BY <1>1, <1>4, <3>1 DEF ChannelInv
  <2> QED
    BY <1>2, <1>5, <1>7, <2>1, <2>2, <2>3 DEF DwInv, ChannelInv
<1>10. CASE jobOf'["postview"] # NoJob
  <2>1. PICK w \in Jobs :
           /\ w.cmd = "ALLOCATE_BUFF" /\ w.stream = "postview" /\ w.ch = hwi.ch
           /\ w.id = jobOf'["postview"] /\ Pending' = Pending \cup {w}
    BY <1>2, <1>10
  <2>2. Allocating("postview")'
    BY <1>3, <2>1 DEF Allocating
  <2>3. AllocInv'
    BY <1>1, <1>3, <1>4, <1>8, <2>2 DEF DwInv, AllocInv
  <2>4. ChannelInv => Pending = {}
    <3>1. \A v \in Pending : v.cmd = "ALLOCATE_BUFF"
      BY <1>1, <1>ty, JobsAreWork DEF DwInv, StartInv, Jobs, DwWork
    <3> QED
      BY <1>1, <1>4, <3>1 DEF ChannelInv
  <2>5. pc = "postview"
    BY <1>10 DEF pc
  <2> QED
    BY <1>2, <1>3, <1>5, <1>7, <2>1, <2>3, <2>4, <2>5 DEF DwInv, ChannelInv
<1> QED
  BY <1>9, <1>10

\* The start of the postprocessor is queued when the buffers are allocated.
LEMMA ConfigCaptureKeeps ==
  ASSUME DwInv, ConfigCapture
  PROVE  DwInv' /\ (ChannelInv => ChannelInv')
<1>1. hwi.pc = "postview" /\ IsDone("postview") /\ UNCHANGED <<work, frameCb, pp>>
  BY DEF ConfigCapture
<1>ty. DwTyped /\ JobsApart /\ hwi \in Hwi /\ dw \in DwT
  BY DEF DwInv, DwTyped, DwT
<1>2. /\ \A w \in Pending : w.cmd # "PPROC_START"
      /\ \A w \in Pending : w.id # jobOf["postview"]
  BY <1>1, <1>ty, DoneIsNotPending DEF DwInv, StartInv, Member
<1>3. hwi.streams \subseteq hwi.tried
  BY <1>1, <1>2 DEF DwInv, AllocInv, Allocating
<1>4. ChannelInv => Pending = {}
  <2>1. \A w \in Pending : w.cmd = "ALLOCATE_BUFF"
    BY <1>2, <1>ty, JobsAreWork DEF Jobs, DwWork
  <2> QED
    BY <1>1, <1>2, <2>1 DEF ChannelInv
<1>5. CASE UNCHANGED <<dw, jobOf>> /\ HwiGoto("delete")
  <2>1. pp' \in BOOLEAN
    BY <1>1, <1>ty DEF DwTyped
  <2>2. DwInv' /\ Pending' = Pending
    BY <1>1, <1>2, <1>5, <2>1, GotoKeeps
  <2> QED
    BY <1>4, <2>2 DEF ChannelInv
<1>6. CASE QueueWork("PPROC_START", "reproc", "metadata") /\ HwiGoto("start")
  <2>1. /\ jobOf' \in [Member -> Slot \cup {NoJob}] /\ dw' \in DwT /\ JobsApart'
        /\ \/ Pending' = Pending
           \/ \E w \in Jobs :
                 /\ w.cmd = "PPROC_START" /\ w.stream = "metadata" /\ w.ch = hwi.ch
                 /\ w.id = jobOf'["reproc"] /\ Pending' = Pending \cup {w}
    BY <1>1, <1>6, <1>ty, QueuedPending DEF Member, Deferred
  <2>2. /\ hwi' \in Hwi /\ hwi'.pc = "start" /\ hwi'.plan = hwi.plan /\ hwi'.ch = hwi.ch
        /\ hwi'.streams = hwi.streams /\ hwi'.tried = hwi.tried
    BY <1>6, <1>ty DEF Hwi, HwiGoto
  <2>3. DwTyped' /\ PlanInv' /\ AllocInv'
    BY <1>1, <1>3, <1>ty, <2>1, <2>2 DEF DwInv, DwTyped, DwT, PlanInv, AllocInv
  <2>4. StartInv'
    BY <1>2, <2>1, <2>2 DEF StartInv
  <2>5. ChannelInv => ChannelInv'
    BY <1>4, <2>1, <2>2 DEF ChannelInv
  <2> QED
    BY <2>1, <2>3, <2>4, <2>5 DEF DwInv
<1> QED
  BY <1>5, <1>6 DEF ConfigCapture

\* ChannelInv where the HAL's thread goes on: the jobs that are pending have
\* ended, or the new state waits for them, too.
LEMMA GotoKeepsChannel ==
  ASSUME DwInv, ChannelInv, NEW pc \in {"fail", "delete", "built", "capturing", "startFailed", "cancel",
                            "unstart", "stop"},
         HwiGoto(pc), UNCHANGED <<dw, jobOf, work>>,
         \/ Pending = {}
         \/ hwi.pc \in {"build"} /\ pc = "fail"
         \/ hwi.pc \in Starting /\ pc \in Starting
  PROVE  ChannelInv'
<1>1. hwi \in Hwi /\ hwi' = [hwi EXCEPT !.pc = pc]
  BY DEF DwInv, DwTyped, HwiGoto
<1>2. /\ hwi' \in Hwi /\ hwi'.pc = pc /\ hwi'.ch = hwi.ch
      /\ hwi'.streams = hwi.streams
  BY <1>1 DEF Hwi
<1>3. Pending' = Pending
  BY DEF Pending
<1> QED
  BY <1>2, <1>3 DEF ChannelInv, Starting

\* Every step keeps DwInv, and ChannelInv unless a stream has no info.
LEMMA NextDwInv == DwInv /\ [DwNext]_dwVars => DwInv' /\ (ChannelInv /\ ~InfoMayFail => ChannelInv')
<1> SUFFICES ASSUME DwInv, [DwNext]_dwVars
             PROVE  DwInv' /\ (ChannelInv /\ ~InfoMayFail => ChannelInv')
  OBVIOUS
<1>ty. /\ DwTyped /\ JobsApart /\ dw \in DwT /\ frameCb \in FrameT /\ pp \in BOOLEAN
       /\ work \in Jobs \cup {NoWork} /\ hwi \in Hwi
  BY DEF DwInv, DwTyped, DwT, FrameT
<1>st. \A w \in Pending : w.cmd = "PPROC_START" => hwi.pc \in Starting /\ w.id = jobOf["reproc"]
  BY DEF DwInv, StartInv, Starting
<1>al. \A w \in Pending : w.cmd = "ALLOCATE_BUFF" \/ w.cmd = "PPROC_START"
  BY <1>ty, JobsAreWork DEF Jobs, DwWork
<1>1. CASE TakeWork
  <2>1. Pending' = Pending /\ JobsApart' /\ dw' \in DwT /\ work' \in Jobs \cup {NoWork}
    BY <1>1, <1>ty, TakenPending
  <2>2. UNCHANGED <<jobOf, hwi, frameCb, pp>>
    BY <1>1 DEF TakeWork
  <2> QED
    BY <1>ty, <2>1, <2>2, AsideKeeps DEF ChannelInv, ToWaitFor
<1>2. CASE AllocateDone \/ PprocStartDone
  <2>1. DwInv' /\ Pending' = Pending \ {work}
    BY <1>2, DoneKeeps
  <2>2. /\ hwi'.pc = hwi.pc /\ hwi'.plan = hwi.plan /\ hwi'.ch = hwi.ch /\ hwi'.streams = hwi.streams
        /\ jobOf' = jobOf
    <3>1. \A g \in Allocated(work.stream) :
              /\ g.pc = hwi.pc /\ g.plan = hwi.plan /\ g.ch = hwi.ch /\ g.streams = hwi.streams
      BY <1>ty DEF Allocated, Hwi
    <3> QED
      BY <1>2, <3>1 DEF AllocateDone, PprocStartDone
  <2> QED
    BY <2>1, <2>2 DEF ChannelInv, ToWaitFor
<1>3. ASSUME NEW t \in {"hwi", "cb"}, NEW m, Sleep(t, m)
      PROVE  DwInv' /\ (ChannelInv => ChannelInv')
  BY <1>3, SleepKeeps DEF ChannelInv, ToWaitFor
<1>4. CASE FailSleeps \/ WaitSleeps \/ PostviewSleeps \/ CancelSleeps \/ FrameSleeps
  BY <1>3, <1>4 DEF FailSleeps, WaitSleeps, PostviewSleeps, CancelSleeps, FrameSleeps
<1>5. CASE FrameArrives \/ ProcessData
  <2>1. UNCHANGED <<dw, jobOf, work, hwi, pp>> /\ frameCb' \in FrameT
    BY <1>5, <1>ty DEF FrameArrives, ProcessData, FrameT
  <2>2. Pending' = Pending /\ JobsApart'
    BY <1>ty, <2>1 DEF Pending, JobsApart
  <2> QED
    BY <1>ty, <2>1, <2>2, AsideKeeps DEF ChannelInv, ToWaitFor
<1>6. CASE NewChannel
  BY <1>6, NewChannelKeeps
<1>7. CASE DeleteChannel
  BY <1>7, DeleteChannelKeeps
<1>8. CASE AddStream
  BY <1>8, AddStreamKeeps
<1>9. CASE WaitNext
  BY <1>9, WaitNextKeeps
<1>10. CASE QueuePostview
  BY <1>10, QueuePostviewKeeps
<1>11. CASE ConfigCapture
  BY <1>11, ConfigCaptureKeeps
<1>12. CASE NoStreamInfo
  <2>1. hwi.pc = "build" /\ HwiGoto("delete") /\ InfoMayFail /\ UNCHANGED <<dw, jobOf, work, frameCb, pp>>
    BY <1>12 DEF NoStreamInfo, Doing
  <2>2. \A w \in Pending : w.cmd # "PPROC_START"
    BY <1>st, <2>1 DEF Starting
  <2> QED
    BY <1>ty, <2>1, <2>2, GotoKeeps
<1>13. CASE AddStreamFails
  <2>1. hwi.pc = "build" /\ HwiGoto("fail") /\ UNCHANGED <<dw, jobOf, work, frameCb, pp>>
    BY <1>13 DEF AddStreamFails, Doing
  <2>2. \A w \in Pending : w.cmd # "PPROC_START"
    BY <1>st, <2>1 DEF Starting
  <2> QED
    BY <1>ty, <2>1, <2>2, GotoKeeps, GotoKeepsChannel
<1>14. CASE FailWaits
  <2>1. /\ hwi.pc = "fail" /\ HwiGoto("delete") /\ UNCHANGED <<dw, jobOf, work, frameCb, pp>>
        /\ \A m \in Deferred : IsDone(m)
    BY <1>14 DEF FailWaits
  <2>2. \A w \in Pending : w.cmd # "PPROC_START"
    BY <1>st, <2>1 DEF Starting
  <2>3. ChannelInv => Pending = {}
    <3>1. \A w \in Pending : w.stream \in Deferred /\ w.stream \in Member
      BY <1>ty, JobsAreWork DEF Jobs, DwWork, Deferred, Member
    <3>2. \A w \in Pending : w.id # jobOf[w.stream]
      BY <1>ty, <2>1, <3>1, DoneIsNotPending
    <3> QED
      BY <1>al, <2>2, <3>2 DEF ChannelInv
  <2> QED
    BY <1>ty, <2>1, <2>2, <2>3, GotoKeeps, GotoKeepsChannel
<1>15. CASE ChannelBuilt
  <2>1. /\ hwi.pc = "build" /\ hwi.plan.steps = <<>> /\ HwiGoto("built")
        /\ UNCHANGED <<dw, jobOf, work, frameCb, pp>>
    BY <1>15 DEF ChannelBuilt, Done
  <2>2. \A w \in Pending : w.cmd # "PPROC_START"
    BY <1>st, <2>1 DEF Starting
  <2>3. \A m : ~ToWaitFor(m)
    BY <2>1 DEF ToWaitFor
  <2>4. ChannelInv => Pending = {}
    BY <1>al, <2>1, <2>2, <2>3 DEF ChannelInv
  <2> QED
    BY <1>ty, <2>1, <2>2, <2>4, GotoKeeps, GotoKeepsChannel
<1>16. CASE StartCapture
  <2>1. /\ hwi.pc = "start" /\ UNCHANGED <<dw, jobOf, work, frameCb, pp>>
        /\ HwiGoto("capturing") \/ HwiGoto("startFailed")
    BY <1>16 DEF StartCapture
  <2> QED
    BY <1>ty, <2>1, GotoKeeps, GotoKeepsChannel DEF Starting
<1>17. CASE Cancel
  <2>1. /\ hwi.pc \in {"capturing", "startFailed"} /\ UNCHANGED <<dw, jobOf, work, frameCb, pp>>
        /\ HwiGoto("cancel") \/ HwiGoto("unstart")
    BY <1>17 DEF Cancel
  <2> QED
    BY <1>ty, <2>1, GotoKeeps, GotoKeepsChannel DEF Starting
<1>18. CASE StopPostproc
  <2>1. /\ hwi.pc \in {"cancel", "unstart"} /\ IsDone("reproc") /\ HwiGoto("stop")
        /\ pp' \in BOOLEAN /\ UNCHANGED <<dw, jobOf, work, frameCb>>
    BY <1>18, <1>ty DEF StopPostproc
  <2>2. \A w \in Pending : w.id # jobOf["reproc"]
    BY <1>ty, <2>1, DoneIsNotPending DEF Member
  <2>3. \A w \in Pending : w.cmd # "PPROC_START"
    BY <1>st, <2>2
  <2>4. ChannelInv => Pending = {}
    BY <1>al, <2>1, <2>3 DEF ChannelInv
  <2> QED
    BY <2>1, <2>3, <2>4, GotoKeeps, GotoKeepsChannel
<1>19. CASE StopCapture
  <2>1. /\ hwi.pc = "stop" /\ HwiGoto("delete") /\ UNCHANGED <<dw, jobOf, work, frameCb, pp>>
    BY <1>19 DEF StopCapture
  <2>2. \A w \in Pending : w.cmd # "PPROC_START"
    BY <1>st, <2>1 DEF Starting
  <2>3. ChannelInv => Pending = {}
    BY <2>1 DEF ChannelInv
  <2> QED
    BY <1>ty, <2>1, <2>2, <2>3, GotoKeeps, GotoKeepsChannel
<1>20. CASE UNCHANGED dwVars
  <2>1. UNCHANGED <<dw, jobOf, work, hwi, frameCb, pp>>
    BY <1>20 DEF dwVars
  <2>2. Pending' = Pending /\ JobsApart'
    BY <1>ty, <2>1 DEF Pending, JobsApart
  <2> QED
    BY <1>ty, <2>1, <2>2, AsideKeeps DEF ChannelInv, ToWaitFor
<1> QED
  BY <1>1, <1>2, <1>4, <1>5, <1>6, <1>7, <1>8, <1>9, <1>10, <1>11, <1>12, <1>13, <1>14, <1>15,
     <1>16, <1>17, <1>18, <1>19, <1>20
     DEF DwNext, Worker, HwiStep, FrameStep

\* Which streams have buffers: the start of a capture that succeeds has seen
\* them all, and none loses them while it runs.
BufsInv ==
    /\ hwi.bufs \subseteq hwi.tried
    /\ hwi.pc \in {"capturing", "cancel"} => hwi.streams \subseteq hwi.bufs

LEMMA NextBufsInv == DwInv /\ BufsInv /\ [DwNext]_dwVars => BufsInv'
<1> SUFFICES ASSUME DwInv, BufsInv, [DwNext]_dwVars PROVE BufsInv'
  OBVIOUS
<1>ty. hwi \in Hwi
  BY DEF DwInv, DwTyped
<1>1. ASSUME NEW pc, HwiGoto(pc),
             pc \in {"capturing", "cancel"} =>
                 hwi.pc \in {"capturing", "cancel"} \/ hwi.streams \subseteq hwi.bufs
      PROVE  BufsInv'
  <2>1. /\ hwi'.pc = pc /\ hwi'.streams = hwi.streams
        /\ hwi'.tried = hwi.tried /\ hwi'.bufs = hwi.bufs
    BY <1>1, <1>ty DEF HwiGoto, Hwi
  <2> QED
    BY <1>1, <2>1 DEF BufsInv
<1>2. CASE AllocateDone
  <2>1. \A g \in Allocated(work.stream) :
            /\ g.pc = hwi.pc /\ g.streams = hwi.streams /\ hwi.bufs \subseteq g.bufs
            /\ hwi.bufs \subseteq hwi.tried => g.bufs \subseteq g.tried
    BY <1>ty DEF Allocated, Hwi
  <2> QED
    BY <1>2, <2>1 DEF AllocateDone, BufsInv
<1>3. CASE NewChannel \/ DeleteChannel
  <2>1. hwi'.pc \in {"build", "idle"} /\ hwi'.bufs = {} /\ hwi'.tried = {}
    <3>1. CASE NewChannel
      BY <3>1 DEF NewChannel
    <3>2. CASE DeleteChannel
      BY <3>2, <1>ty DEF DeleteChannel, Hwi
    <3> QED
      BY <1>3, <3>1, <3>2
  <2> QED
    BY <2>1 DEF BufsInv
<1>4. CASE AddStream \/ WaitNext
  <2>1. /\ hwi'.pc \in {"build", "fail"} /\ hwi'.bufs = hwi.bufs /\ hwi'.tried = hwi.tried
    BY <1>4, <1>ty DEF AddStream, WaitNext, Doing, Hwi
  <2> QED
    BY <2>1 DEF BufsInv
<1>5. CASE StartCapture
  BY <1>1, <1>5 DEF StartCapture
<1>6. CASE Cancel \/ StopPostproc
  BY <1>1, <1>6 DEF Cancel, StopPostproc
<1>7. CASE NoStreamInfo \/ AddStreamFails \/ FailWaits \/ ChannelBuilt \/ StopCapture
  BY <1>1, <1>7 DEF NoStreamInfo, AddStreamFails, FailWaits, ChannelBuilt, StopCapture
<1>8. CASE QueuePostview \/ ConfigCapture
  BY <1>1, <1>8 DEF QueuePostview, ConfigCapture
<1>9. CASE UNCHANGED hwi
  BY <1>9 DEF BufsInv
<1>10. CASE \/ TakeWork \/ PprocStartDone \/ FrameArrives \/ ProcessData \/ FailSleeps
            \/ WaitSleeps \/ PostviewSleeps \/ CancelSleeps \/ FrameSleeps
            \/ UNCHANGED dwVars
  BY <1>9, <1>10 DEF TakeWork, PprocStartDone, FrameArrives, ProcessData, FailSleeps,
     WaitSleeps, PostviewSleeps, CancelSleeps, FrameSleeps, Sleep, dwVars
<1> QED
  BY <1>2, <1>3, <1>4, <1>5, <1>6, <1>7, <1>8, <1>10 DEF DwNext, Worker, HwiStep, FrameStep

\* DwInv says that jobs have their own slots and end in order.
LEMMA DwInvImplies == DwInv /\ BufsInv => DeferredInOrder
<1> SUFFICES ASSUME DwInv, BufsInv PROVE SlotIsOneJob /\ AllocatedBeforeStart /\ StartEndsFirst
  BY DEF DeferredInOrder
<1>ty. DwTyped /\ JobsApart
  BY DEF DwInv
<1> DEFINE n == Len(dw.queue)
           Q == {dw.queue[i] : i \in 1 .. n}
           Ids == {w.id : w \in Pending}
<1>1. /\ Pending = Q \cup ({work} \ {NoWork}) /\ n \in Nat
      /\ NoWork \notin Jobs /\ \A w \in Pending : w \in Jobs
  BY <1>ty, JobsAreWork DEF DwTyped
<1>2. \A v, w \in Pending : v.id = w.id => v = w
  <2>1. ASSUME NEW v \in Pending, NEW w \in Pending, v.id = w.id PROVE v = w
    <3>1. CASE v \in Q /\ w \in Q
      <4>1. PICK i \in 1 .. n, j \in 1 .. n : v = dw.queue[i] /\ w = dw.queue[j]
        BY <3>1
      <4> QED
        BY <1>ty, <2>1, <4>1 DEF JobsApart
    <3>2. CASE v \notin Q /\ w \in Q
      <4>1. v = work /\ work # NoWork
        BY <1>1, <3>2
      <4>2. PICK j \in 1 .. n : w = dw.queue[j]
        BY <3>2
      <4> QED
        BY <1>ty, <2>1, <4>1, <4>2 DEF JobsApart
    <3>3. CASE v \in Q /\ w \notin Q
      <4>1. w = work /\ work # NoWork
        BY <1>1, <3>3
      <4>2. PICK j \in 1 .. n : v = dw.queue[j]
        BY <3>3
      <4> QED
        BY <1>ty, <2>1, <4>1, <4>2 DEF JobsApart
    <3>4. CASE v \notin Q /\ w \notin Q
      BY <1>1, <3>4
    <3> QED
      BY <3>1, <3>2, <3>3, <3>4
  <2> QED
    BY <2>1
<1>3. IsFiniteSet(Q) /\ Cardinality(Q) = n
  <2> DEFINE f == [i \in 1 .. n |-> dw.queue[i]]
  <2>1. f \in Bijection(1 .. n, Q)
    <3>1. f \in [1 .. n -> Q] /\ \A q \in Q : \E i \in 1 .. n : f[i] = q
      OBVIOUS
    <3>2. \A i, j \in 1 .. n : f[i] = f[j] => i = j
      BY <1>ty DEF JobsApart
    <3> QED
      BY <3>1, <3>2 DEF Bijection, Injection, Surjection, IsInjective
  <2>2. IsFiniteSet(1 .. n) /\ Cardinality(1 .. n) = n
    BY <1>1, FS_Interval
  <2> QED
    BY <2>1, <2>2, FS_Bijection DEF ExistsBijection
<1>4. IsFiniteSet(Pending) /\ Cardinality(Pending) = n + (IF work = NoWork THEN 0 ELSE 1)
  <2>1. CASE work = NoWork
    <3>1. Pending = Q
      BY <1>1, <2>1
    <3> HIDE DEF Q, n
    <3> QED
      BY <1>1, <1>3, <2>1, <3>1
  <2>2. CASE work # NoWork
    <3>1. Pending = Q \cup {work} /\ work \notin Q
      BY <1>1, <1>ty, <2>2 DEF JobsApart
    <3> HIDE DEF Q, n
    <3>2. IsFiniteSet(Pending) /\ Cardinality(Pending) = n + 1
      BY <1>3, <3>1, FS_AddElement
    <3> QED
      BY <2>2, <3>2
  <2> QED
    BY <2>1, <2>2
<1>5. Cardinality(Pending) = Cardinality(Ids)
  <2> DEFINE f == [w \in Pending |-> w.id]
  <2>1. f \in [Pending -> Ids] /\ \A i \in Ids : \E w \in Pending : f[w] = i
    OBVIOUS
  <2>2. \A v, w \in Pending : f[v] = f[w] => v = w
    BY <1>2
  <2>3. f \in Bijection(Pending, Ids)
    BY <2>1, <2>2 DEF Bijection, Injection, Surjection, IsInjective
  <2> QED
    BY <1>4, <2>3, FS_Bijection DEF ExistsBijection
<1>6. SlotIsOneJob
  BY <1>4, <1>5, <1>ty DEF SlotIsOneJob, JobsApart
<1>7. AllocatedBeforeStart
  BY DEF DwInv, AllocInv, BufsInv, AllocatedBeforeStart
<1>8. StartEndsFirst
  BY DEF DwInv, StartInv, StartEndsFirst
<1> QED
  BY <1>6, <1>7, <1>8

\* The jobs that are pending have slots of their own, the ones in use; the
\* allocations of a capture's streams have ended when it is configured and
\* started, failed or not, and one that failed fails the start; and no start of
\* the postprocessor outlives the picture (defferedWorkRoutine, takePicture).
THEOREM JobsInOrder == DwSpec => []DeferredInOrder
<1>1. DwInit => DwInv /\ BufsInv
  BY InitDwInv DEF DwInit, BufsInv
<1>2. DwInv /\ BufsInv /\ [DwNext]_dwVars => (DwInv /\ BufsInv)'
  BY NextDwInv, NextBufsInv
<1>3. DwInv /\ BufsInv => DeferredInOrder
  BY DwInvImplies
<1> QED
  BY <1>1, <1>2, <1>3, PTL DEF DwSpec

\* Unless a stream's info cannot be allocated (where a run shows the contrary)
\* no channel is deleted while the worker has a job in it.
THEOREM NoJobOutlivesChannel == ASSUME ~InfoMayFail PROVE DwSpec => []NoJobOnDeletedChannel
<1>1. DwInit => DwInv /\ ChannelInv
  BY InitDwInv
<1>2. DwInv /\ ChannelInv /\ [DwNext]_dwVars => (DwInv /\ ChannelInv)'
  BY NextDwInv
<1>3. DwInv /\ ChannelInv => NoJobOnDeletedChannel
  BY DEF ChannelInv, NoJobOnDeletedChannel
<1> QED
  BY <1>1, <1>2, <1>3, PTL DEF DwSpec

\* Type correctness of the jobs, their slots and the threads.
THEOREM DeferredTyped == DwSpec => []DwTypeOK
<1>1. DwInit => DwInv /\ BufsInv
  BY InitDwInv DEF DwInit, BufsInv
<1>2. DwInv /\ BufsInv /\ [DwNext]_dwVars => (DwInv /\ BufsInv)'
  BY NextDwInv, NextBufsInv
<1>3. DwInv /\ BufsInv => DwTypeOK
  <2> SUFFICES ASSUME DwInv, BufsInv PROVE DwTypeOK
    OBVIOUS
  <2>1. NoWork \in DwWork /\ \A w \in Jobs : w \in DwWork
    BY DwAssumption DEF NoWork, DwWork, Deferred, Jobs
  <2>2. dw.queue \in Seq(DwWork) /\ work \in DwWork
    BY <2>1 DEF DwInv, DwTyped
  <2> QED
    BY <2>2 DEF DwInv, DwTyped, DwTypeOK, BufsInv, Hwi
<1> QED
  BY <1>1, <1>2, <1>3, PTL DEF DwSpec
=============================================================================
