----------------------------- MODULE DeferredWork -----------------------------
(* The deferred work of the camera HAL.  While the state machine's thread     *)
(* builds a channel, a worker thread allocates the buffers of its streams and *)
(* starts the postprocessor; jobs have slots, members of the HAL remember the *)
(* slots, and who needs a job's result waits for its slot to be free.  The    *)
(* callback thread of the capture channel waits too, before it hands a frame  *)
(* to the postprocessor.  An allocation that fails frees its slot as one that *)
(* succeeds does: the waiter is not told, and the start of the channel fails. *)

EXTENDS Integers, Sequences, FiniteSets

CONSTANTS
    MaxJobs,        \* MAX_ONGOING_JOBS, 25 in the code
    MaxChannels,    \* bound on channels built, told apart by number
    InfoMayFail,    \* may allocateStreamInfoBuf fail
    DwMayFail       \* may the other calls fail

ASSUME DwAssumption ==
    /\ MaxJobs \in Nat \ {0} /\ MaxChannels \in Nat
    /\ InfoMayFail \in BOOLEAN /\ DwMayFail \in BOOLEAN

VARIABLES
    dw,         \* mDeffOngoingJobs, mCmdQueue, who waits at mDeffCond
    jobOf,      \* mSnapshotJob, mPostviewJob, mMetadataJob, mRawdataJob, mReprocJob
    work,       \* defferedWorkRoutine
    hwi,        \* the state machine's thread, the channel it builds, the streams of the
                \* channel, whose allocation was tried, and which have buffers
    frameCb,    \* capture_channel_cb_routine
    pp          \* is the postprocessor started

dwVars == <<dw, jobOf, work, hwi, frameCb, pp>>

Slot == 0 .. MaxJobs - 1
NoJob == -1
Member == {"metadata", "postview", "snapshot", "raw", "reproc"}
Deferred == {"metadata", "postview", "snapshot", "raw"}
NoWork == [cmd |-> "none", id |-> NoJob, ch |-> 0, stream |-> "metadata"]

\* What the HAL builds: streams in the order they are added, and the members
\* waited for.  A capture channel may have a raw stream.
Add(s) == [op |-> "add", of |-> s]
Wait(s) == [op |-> "wait", of |-> s]

Plans == {
    [kind |-> "preview", steps |-> <<Add("metadata"), Add("preview"), Wait("metadata")>>],
    [kind |-> "raw",
     steps |-> <<Add("metadata"), Wait("metadata"), Add("raw"), Wait("raw")>>],
    [kind |-> "capture",
     steps |-> <<Add("metadata"), Add("postview"), Add("snapshot"),
                 Wait("snapshot"), Wait("metadata"), Wait("raw")>>],
    [kind |-> "capture",
     steps |-> <<Add("metadata"), Add("postview"), Add("snapshot"), Add("raw"),
                 Wait("snapshot"), Wait("metadata"), Wait("raw")>>]}

NoPlan == [kind |-> "none", steps |-> <<>>]

DwInit ==
    /\ dw = [busy |-> [i \in Slot |-> FALSE], queue |-> <<>>, asleep |-> {}]
    /\ jobOf = [m \in Member |-> NoJob]
    /\ work = NoWork
    /\ hwi = [pc |-> "idle", plan |-> NoPlan, ch |-> 0, built |-> 0,
              streams |-> {}, tried |-> {}, bufs |-> {}]
    /\ frameCb = [pc |-> "idle", frames |-> 0]
    /\ pp = FALSE

-----------------------------------------------------------------------------
(* queueDefferedWork and waitDefferedWork.                                 *)

FreeSlots == {i \in Slot : ~dw.busy[i]}
LowestFree == CHOOSE i \in FreeSlots : \A j \in FreeSlots : i <= j

\* mutant: the loop's counter is returned when there is no free slot.
QueueWorkOverflow(cmd, member, stream) ==
    IF FreeSlots = {}
    THEN jobOf' = [jobOf EXCEPT ![member] = MaxJobs] /\ UNCHANGED dw
    ELSE /\ jobOf' = [jobOf EXCEPT ![member] = LowestFree]
         /\ dw' = [dw EXCEPT !.busy[LowestFree] = TRUE,
                     !.queue = Append(@, [cmd |-> cmd, id |-> LowestFree,
                                          ch |-> hwi.ch, stream |-> stream])]

\* The lowest free slot is taken; without one the job is not queued.
QueueWork(cmd, member, stream) ==
    IF FreeSlots = {}
    THEN jobOf' = [jobOf EXCEPT ![member] = NoJob] /\ UNCHANGED dw
    ELSE /\ jobOf' = [jobOf EXCEPT ![member] = LowestFree]
         /\ dw' = [dw EXCEPT !.busy[LowestFree] = TRUE,
                     !.queue = Append(@, [cmd |-> cmd, id |-> LowestFree,
                                          ch |-> hwi.ch, stream |-> stream])]

IsDone(m) == jobOf[m] \notin Slot \ FreeSlots

\* A thread goes to sleep, having seen the slot in use; it looks again when
\* woken.
Sleep(t, m) ==
    /\ ~IsDone(m) /\ t \notin dw.asleep
    /\ dw' = [dw EXCEPT !.asleep = @ \cup {t}]
    /\ UNCHANGED <<jobOf, work, hwi, frameCb, pp>>

Awake(t) == t \notin dw.asleep

-----------------------------------------------------------------------------
(* defferedWorkRoutine.                                                    *)

\* mutant: the slot is free when its work is taken.
TakeWorkFreeing ==
    /\ work.cmd = "none" /\ dw.queue # <<>>
    /\ work' = Head(dw.queue)
    /\ dw' = [dw EXCEPT !.queue = Tail(@), !.busy[Head(dw.queue).id] = FALSE]
    /\ UNCHANGED <<jobOf, hwi, frameCb, pp>>

TakeWork ==
    /\ work.cmd = "none" /\ dw.queue # <<>>
    /\ work' = Head(dw.queue)
    /\ dw' = [dw EXCEPT !.queue = Tail(@)]
    /\ UNCHANGED <<jobOf, hwi, frameCb, pp>>

\* What allocateBuffers leaves: buffers, or none when it failed.
Allocated(s) ==
    {[hwi EXCEPT !.tried = @ \cup {s}, !.bufs = @ \cup {s}]}
        \cup (IF DwMayFail THEN {[hwi EXCEPT !.tried = @ \cup {s}]} ELSE {})

\* The allocation has ended, in either way; one waiter is signalled.
AllocateDone ==
    /\ work.cmd = "ALLOCATE_BUFF"
    /\ hwi' \in IF hwi.ch = work.ch THEN Allocated(work.stream) ELSE {hwi}
    /\ \E woken \in IF dw.asleep = {} THEN {{}} ELSE {{t} : t \in dw.asleep} :
        dw' = [dw EXCEPT !.busy[work.id] = FALSE, !.asleep = @ \ woken]
    /\ work' = NoWork
    /\ UNCHANGED <<jobOf, frameCb, pp>>

\* mutant: one waiter is signalled.
PprocStartDoneSignal ==
    /\ work.cmd = "PPROC_START"
    /\ pp' \in {TRUE} \cup (IF DwMayFail THEN {pp} ELSE {})
    /\ \E woken \in IF dw.asleep = {} THEN {{}} ELSE {{t} : t \in dw.asleep} :
        dw' = [dw EXCEPT !.busy[work.id] = FALSE, !.asleep = @ \ woken]
    /\ work' = NoWork
    /\ UNCHANGED <<jobOf, hwi, frameCb>>

\* The postprocessor is started, or an error is notified; all are woken.
PprocStartDone ==
    /\ work.cmd = "PPROC_START"
    /\ pp' \in {TRUE} \cup (IF DwMayFail THEN {pp} ELSE {})
    /\ dw' = [dw EXCEPT !.busy[work.id] = FALSE, !.asleep = {}]
    /\ work' = NoWork
    /\ UNCHANGED <<jobOf, hwi, frameCb>>

Worker == TakeWork \/ AllocateDone \/ PprocStartDone

-----------------------------------------------------------------------------
(* The state machine's thread.                                             *)

Doing(op) == hwi.pc = "build" /\ hwi.plan.steps # <<>> /\ Head(hwi.plan.steps).op = op
Done(kinds) == hwi.pc = "build" /\ hwi.plan.steps = <<>> /\ hwi.plan.kind \in kinds
StepOf == Head(hwi.plan.steps).of

HwiGoto(pc) == hwi' = [hwi EXCEPT !.pc = pc]

\* addCaptureChannel, addPreviewChannel: a channel without streams.
NewChannel ==
    /\ hwi.pc = "idle" /\ hwi.built < MaxChannels
    /\ \E p \in Plans :
        hwi' = [pc |-> "build", plan |-> p, ch |-> hwi.built + 1, built |-> hwi.built + 1,
                streams |-> {}, tried |-> {}, bufs |-> {}]
    /\ UNCHANGED <<dw, jobOf, work, frameCb, pp>>

\* Without memory for the stream's info addStreamToChannel returns at once,
\* and the channel is deleted.
NoStreamInfo ==
    /\ InfoMayFail
    /\ Doing("add")
    /\ HwiGoto("delete")
    /\ UNCHANGED <<dw, jobOf, work, frameCb, pp>>

\* Metadata, snapshot and raw streams get a job.  The postview stream, whose
\* buffers are deferred too, gets it when the others are done.
AddStream ==
    /\ Doing("add")
    /\ IF StepOf \in Deferred \ {"postview"}
       THEN QueueWork("ALLOCATE_BUFF", StepOf, StepOf)
       ELSE UNCHANGED <<dw, jobOf>>
    /\ hwi' = [hwi EXCEPT !.plan.steps = Tail(@),
                  !.streams = @ \cup ({StepOf} \cap Deferred),
                  !.pc = IF StepOf \in Deferred \ {"postview"} /\ jobOf'[StepOf] = NoJob
                         THEN "fail" ELSE "build"]
    /\ UNCHANGED <<work, frameCb, pp>>

\* A stream that cannot be added: jobs of the streams before may be running.
AddStreamFails ==
    /\ DwMayFail
    /\ Doing("add")
    /\ HwiGoto("fail")
    /\ UNCHANGED <<dw, jobOf, work, frameCb, pp>>

\* mutant: it waits for the metadata's job only.
FailWaitsMetadata ==
    /\ hwi.pc = "fail" /\ Awake("hwi")
    /\ IsDone("metadata")
    /\ HwiGoto("delete")
    /\ UNCHANGED <<dw, jobOf, work, frameCb, pp>>

\* The channel is deleted when the jobs the members name are done.
FailWaits ==
    /\ hwi.pc = "fail" /\ Awake("hwi")
    /\ \A m \in Deferred : IsDone(m)
    /\ HwiGoto("delete")
    /\ UNCHANGED <<dw, jobOf, work, frameCb, pp>>

FailSleeps ==
    /\ hwi.pc = "fail"
    /\ \E m \in Deferred : Sleep("hwi", m)

\* It waits for a member's job,
WaitNext ==
    /\ Doing("wait") /\ Awake("hwi") /\ IsDone(StepOf)
    /\ hwi' = [hwi EXCEPT !.plan.steps = Tail(@)]
    /\ UNCHANGED <<dw, jobOf, work, frameCb, pp>>

WaitSleeps == Doing("wait") /\ Sleep("hwi", StepOf)

\* a preview or raw channel is then built (and later deleted),
ChannelBuilt ==
    /\ Done({"preview", "raw"})
    /\ HwiGoto("built")
    /\ UNCHANGED <<dw, jobOf, work, frameCb, pp>>

\* takePicture allocates the postview stream's buffers,
QueuePostview ==
    /\ Done({"capture"})
    /\ QueueWork("ALLOCATE_BUFF", "postview", "postview")
    /\ HwiGoto(IF jobOf'["postview"] = NoJob THEN "built" ELSE "postview")
    /\ UNCHANGED <<work, frameCb, pp>>

PostviewSleeps == hwi.pc = "postview" /\ Sleep("hwi", "postview")

\* mutant: it does not wait for the postview buffers.
ConfigCaptureEarly ==
    /\ hwi.pc = "postview"
    /\ QueueWork("PPROC_START", "reproc", "metadata")
    /\ HwiGoto("start")
    /\ UNCHANGED <<work, frameCb, pp>>

\* configures the channel and has the postprocessor started meanwhile;
ConfigCapture ==
    /\ hwi.pc = "postview" /\ Awake("hwi") /\ IsDone("postview")
    /\ \/ /\ QueueWork("PPROC_START", "reproc", "metadata")
          /\ HwiGoto("start")
       \/ /\ DwMayFail
          /\ HwiGoto("delete")
          /\ UNCHANGED <<dw, jobOf>>
    /\ UNCHANGED <<work, frameCb, pp>>

\* mutant: the start does not see that a stream has no buffers.
StartCaptureBlind ==
    /\ hwi.pc = "start"
    /\ \/ HwiGoto("capturing")
       \/ DwMayFail /\ HwiGoto("startFailed")
    /\ UNCHANGED <<dw, jobOf, work, frameCb, pp>>

\* The channel starts if each stream has buffers (get_bufs_deffered) and
\* nothing else fails.
StartCapture ==
    /\ hwi.pc = "start"
    /\ \/ hwi.streams \subseteq hwi.bufs /\ HwiGoto("capturing")
       \/ DwMayFail /\ HwiGoto("startFailed")
    /\ UNCHANGED <<dw, jobOf, work, frameCb, pp>>

\* cancelPicture, and a start that failed, wait for the start's job.
Cancel ==
    /\ hwi.pc \in {"capturing", "startFailed"}
    /\ HwiGoto(IF hwi.pc = "capturing" THEN "cancel" ELSE "unstart")
    /\ UNCHANGED <<dw, jobOf, work, frameCb, pp>>

CancelSleeps == hwi.pc \in {"cancel", "unstart"} /\ Sleep("hwi", "reproc")

\* mutant: the postprocessor is stopped without waiting for its start.
StopPostprocEarly ==
    /\ hwi.pc \in {"cancel", "unstart"}
    /\ pp' = IF hwi.pc = "cancel" THEN FALSE ELSE pp
    /\ HwiGoto("stop")
    /\ UNCHANGED <<dw, jobOf, work, frameCb>>

\* Stopping the postprocessor, then the channel, which waits for its callback.
StopPostproc ==
    /\ hwi.pc \in {"cancel", "unstart"} /\ Awake("hwi") /\ IsDone("reproc")
    /\ pp' = IF hwi.pc = "cancel" THEN FALSE ELSE pp
    /\ HwiGoto("stop")
    /\ UNCHANGED <<dw, jobOf, work, frameCb>>

StopCapture ==
    /\ hwi.pc = "stop" /\ frameCb.pc = "idle"
    /\ HwiGoto("delete")
    /\ UNCHANGED <<dw, jobOf, work, frameCb, pp>>

DeleteChannel ==
    /\ hwi.pc \in {"delete", "built"}
    /\ hwi' = [hwi EXCEPT !.pc = "idle", !.plan = NoPlan, !.ch = 0,
                          !.streams = {}, !.tried = {}, !.bufs = {}]
    /\ UNCHANGED <<dw, jobOf, work, frameCb, pp>>

-----------------------------------------------------------------------------
(* capture_channel_cb_routine.                                             *)

FrameArrives ==
    /\ hwi.pc \in {"capturing", "cancel"} /\ frameCb.pc = "idle" /\ frameCb.frames < MaxChannels
    /\ frameCb' = [pc |-> "wait", frames |-> frameCb.frames + 1]
    /\ UNCHANGED <<dw, jobOf, work, hwi, pp>>

FrameSleeps == frameCb.pc = "wait" /\ Sleep("cb", "reproc")

ProcessData ==
    /\ frameCb.pc = "wait" /\ Awake("cb") /\ IsDone("reproc")
    /\ frameCb' = [frameCb EXCEPT !.pc = "idle"]
    /\ UNCHANGED <<dw, jobOf, work, hwi, pp>>

HwiStep ==
    \/ NoStreamInfo \/ AddStream \/ AddStreamFails \/ FailWaits \/ FailSleeps
    \/ WaitNext \/ WaitSleeps \/ ChannelBuilt \/ QueuePostview
    \/ PostviewSleeps \/ ConfigCapture \/ StartCapture \/ CancelSleeps
    \/ StopPostproc \/ StopCapture \/ DeleteChannel

FrameStep == FrameSleeps \/ ProcessData

DwNext == Worker \/ NewChannel \/ Cancel \/ HwiStep \/ FrameArrives \/ FrameStep

DwSpec == DwInit /\ [][DwNext]_dwVars

-----------------------------------------------------------------------------
(* Properties.                                                             *)

DwWork == [cmd : {"none", "ALLOCATE_BUFF", "PPROC_START"}, id : Slot \cup {NoJob},
           ch : 0 .. MaxChannels, stream : Deferred]

\* Types of the jobs, the members and the threads.
DwTypeOK ==
    /\ dw \in [busy : [Slot -> BOOLEAN], queue : Seq(DwWork), asleep : SUBSET {"hwi", "cb"}]
    /\ jobOf \in [Member -> Slot \cup {NoJob}]
    /\ work \in DwWork
    /\ hwi.ch \in 0 .. MaxChannels /\ hwi.built \in 0 .. MaxChannels
    /\ hwi.streams \subseteq Deferred /\ hwi.tried \subseteq Deferred
    /\ hwi.bufs \subseteq hwi.tried
    /\ frameCb \in [pc : {"idle", "wait"}, frames : Nat]
    /\ pp \in BOOLEAN

Pending == {dw.queue[i] : i \in DOMAIN dw.queue} \cup ({work} \ {NoWork})

\* A slot is in use exactly for a job that is queued or worked at, and two
\* jobs never share one.
SlotIsOneJob ==
    /\ \A i \in Slot : dw.busy[i] <=> \E w \in Pending : w.id = i
    /\ Cardinality(Pending) = Cardinality({w.id : w \in Pending})
    /\ Cardinality(Pending) = Len(dw.queue) + (IF work = NoWork THEN 0 ELSE 1)

\* A channel is not deleted while the worker allocates buffers in it
\* (the comment in addStreamToChannel).
NoJobOnDeletedChannel == \A w \in Pending : w.ch = hwi.ch

\* The capture channel is configured and started, which reads what the worker
\* writes of a stream's buffers, only when the allocations of all its deferred
\* streams have ended; and it does not run without buffers of one of them,
\* though a failed allocation is only logged.
AllocatedBeforeStart ==
    /\ hwi.pc \in {"start", "capturing", "startFailed"} => hwi.streams \subseteq hwi.tried
    /\ hwi.pc \in {"capturing", "cancel"} => hwi.streams \subseteq hwi.bufs

\* A frame is handed to the postprocessor when its start has ended, and the
\* postprocessor is stopped after it, so no start outlives its picture.
StartEndsFirst ==
    hwi.pc \in {"stop", "idle"} => \A w \in Pending : w.cmd # "PPROC_START"

\* Every wait for a job ends: a waiter that is not signalled is not needed.
DeferredWaitEnds == []<>("hwi" \notin dw.asleep) /\ []<>(frameCb.pc = "idle")
\* A picture's deferred jobs have ended when it needs them, each in a slot of
\* its own: the allocations before the start of the capture, which fails if one
\* of them did, and the start of the postprocessor before its stop.
DeferredInOrder == SlotIsOneJob /\ AllocatedBeforeStart /\ StartEndsFirst
=============================================================================
