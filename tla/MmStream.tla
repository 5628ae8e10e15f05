------------------------------ MODULE MmStream ------------------------------
(* A stream of mm-camera-interface with the poll thread of its channel.     *)
(* The poll thread takes frames from the kernel and hands each one to the   *)
(* bundle, to a linked channel and to the stream's callback thread; the     *)
(* last of them to be done gives the buffer back to the kernel.  The        *)
(* control thread starts and stops the stream through the pipe of the poll  *)
(* thread.  Locks make each action one region of the code.                  *)

EXTENDS Integers, Sequences, FiniteSets

CONSTANTS
    Buf,        \* buffers of the stream
    NoBuf,      \* no buffer
    InitReg,    \* those with initial_reg_flag: the kernel gets them first
    Bundled, Linked, HasCb,     \* to whom a frame goes
    MaxSkip,    \* bound on previewSkipCnt
    MaxPipe,    \* bound on commands in the pipe when buffers are registered
    MsMayFail   \* may calls of the kernel fail

ASSUME MmStreamAssumption ==
    /\ IsFiniteSet(Buf) /\ NoBuf \notin Buf
    /\ InitReg \subseteq Buf /\ InitReg # {}     \* the HAL keeps some, not all
    /\ Bundled \in BOOLEAN /\ Linked \in BOOLEAN /\ HasCb \in BOOLEAN
    /\ MaxSkip \in Nat /\ MaxPipe \in Nat /\ MsMayFail \in BOOLEAN
    /\ Bundled => HasCb        \* so in this HAL; see Link

VARIABLES
    ms,         \* mm_stream_t, its kernel queue and its poll entry
    poll,       \* the poll thread
    app,        \* the stream's cmd_thread
    held,       \* who has which frames: bundle, linked channel, HAL, returns
    ctl         \* the control thread

msVars == <<ms, poll, app, held, ctl>>

StreamState == {"NOTUSED", "INITED", "ACQUIRED", "CFG", "BUFFED", "REG", "ACTIVE"}
Pipe == {"UPDATED", "UPDATED_ASYNC", "COMMIT"}
Holder == {"bundle", "linked", "user"}

Stream ==
    [state : StreamState, on : BOOLEAN,        \* on: between STREAMON and STREAMOFF
     queued : SUBSET Buf,                      \* the kernel's queue
     queued_buffer_count : Nat, buf_refcnt : [Buf -> Nat], in_kernel : [Buf -> BOOLEAN],
     previewSkipCnt : Nat,
     failed : SUBSET Buf,                      \* those QBUF has refused
     entry : BOOLEAN]                          \* poll_entries has the stream

MsInit ==
    /\ \E n \in 0 .. MaxSkip :
        ms = [state |-> "NOTUSED", on |-> FALSE, queued |-> {}, queued_buffer_count |-> 0,
              buf_refcnt |-> [b \in Buf |-> 0], in_kernel |-> [b \in Buf |-> FALSE],
              previewSkipCnt |-> n, failed |-> {}, entry |-> FALSE]
    /\ poll = [pc |-> "poll", buf |-> NoBuf, pipe |-> <<>>, fds |-> FALSE]
    /\ app = [active |-> FALSE, queue |-> <<>>, buf |-> NoBuf]
    /\ held = [h \in Holder \cup {"return"} |-> {}]
    /\ ctl = [pc |-> "idle", signalled |-> FALSE]

-----------------------------------------------------------------------------
(* Poll entries and the pipe.                                              *)

Send(cmd) == poll' = [poll EXCEPT !.pipe = Append(@, cmd)]

\* The asynchronous command that a change of the queue count asks for: at 1
\* the stream enters poll_entries, at 0 it leaves them if it is there.
Async(p, old, new) ==
    IF \/ old.entry # new.entry
       \/ old.queued_buffer_count = 0 /\ (old.queued # new.queued \/ old.failed # new.failed)
    THEN [p EXCEPT !.pipe = Append(@, "UPDATED_ASYNC")] ELSE p

\* mm_stream_qbuf, by which the kernel gets a buffer, or refuses it.
Qbuf(s, b) ==
    [s EXCEPT !.queued = @ \cup {b}, !.queued_buffer_count = @ + 1,
              !.entry = @ \/ s.queued_buffer_count = 0]

QbufFails(s, b) ==
    [s EXCEPT !.failed = @ \cup {b}, !.entry = @ /\ s.queued_buffer_count # 0]

\* mm_stream_buf_done, under buf_lock: the last one gives the buffer back.
BufDoneOk(s, b) ==
    IF s.buf_refcnt[b] = 0 THEN s
    ELSE IF s.buf_refcnt[b] > 1 THEN [s EXCEPT !.buf_refcnt[b] = @ - 1]
    ELSE [Qbuf(s, b) EXCEPT !.buf_refcnt[b] = 0, !.in_kernel[b] = TRUE]

\* mutant: a buffer nobody has is not recognised.
BufDoneUnchecked(s, b) ==
    {IF s.buf_refcnt[b] # 1 THEN [s EXCEPT !.buf_refcnt[b] = @ - 1]
     ELSE [Qbuf(s, b) EXCEPT !.buf_refcnt[b] = 0, !.in_kernel[b] = TRUE]}

\* mutant: whoever is done gives the buffer back.
BufDoneEach(s, b) ==
    IF s.buf_refcnt[b] = 0 THEN {s}
    ELSE {[Qbuf(s, b) EXCEPT !.buf_refcnt[b] = @ - 1, !.in_kernel[b] = TRUE]}

BufDone(s, b) ==
    {BufDoneOk(s, b)} \cup
    (IF MsMayFail /\ s.buf_refcnt[b] = 1
     THEN {[QbufFails(s, b) EXCEPT !.buf_refcnt[b] = 0]} ELSE {})

-----------------------------------------------------------------------------
(* The poll thread.                                                        *)

\* mutant: the sender of a commit is not woken.
ProcPipeCommitSilent ==
    /\ poll.pc = "poll" /\ poll.pipe # <<>>
    /\ LET cmd == Head(poll.pipe) IN
        /\ poll' = [poll EXCEPT !.pipe = Tail(@),
                        !.fds = IF cmd = "COMMIT" THEN @ ELSE ms.entry]
        /\ ctl' = [ctl EXCEPT !.signalled = @ \/ cmd = "UPDATED"]
    /\ UNCHANGED <<ms, app, held>>

\* mm_camera_poll_proc_pipe: poll_fds is built again from the entries, and
\* the sender of a synchronous command is woken.
ProcPipe ==
    /\ poll.pc = "poll" /\ poll.pipe # <<>>
    /\ LET cmd == Head(poll.pipe) IN
        /\ poll' = [poll EXCEPT !.pipe = Tail(@),
                        !.fds = IF cmd = "COMMIT" THEN @ ELSE ms.entry]
        /\ ctl' = [ctl EXCEPT !.signalled = @ \/ cmd # "UPDATED_ASYNC"]
    /\ UNCHANGED <<ms, app, held>>

\* poll returns for the stream when a frame is ready and the pipe is empty.
PollReturns ==
    /\ poll.pc = "poll" /\ poll.pipe = <<>>
    /\ poll.fds /\ ms.on /\ ms.queued # {}
    /\ poll' = [poll EXCEPT !.pc = "data"]
    /\ UNCHANGED <<ms, app, held, ctl>>

\* mutant: polling goes on without buffers.
DequeueKeepsPolling(b) ==
    /\ ms' = [ms EXCEPT !.queued = @ \ {b}, !.queued_buffer_count = @ - 1]
    /\ poll' = [poll EXCEPT !.pc = "mark", !.buf = b]

\* mm_stream_read_msm_frame takes a frame; without buffers polling ends.
Dequeue(b) ==
    LET n == ms.queued_buffer_count - 1 IN
    /\ ms' = [ms EXCEPT !.queued = @ \ {b}, !.queued_buffer_count = n,
                        !.entry = @ /\ n # 0]
    /\ poll' = [Async(poll, ms, ms') EXCEPT !.pc = "mark", !.buf = b]

\* mm_stream_data_notify, if the entry is still there and the stream active.
DataNotify ==
    /\ poll.pc = "data"
    /\ IF ms.entry /\ ms.state = "ACTIVE" /\ ms.on /\ ms.queued # {}
       THEN \E b \in ms.queued : Dequeue(b)
       ELSE poll' = [poll EXCEPT !.pc = "poll"] /\ UNCHANGED ms
    /\ UNCHANGED <<app, held, ctl>>

Bit(b) == IF b THEN 1 ELSE 0

\* The frame is counted for the bundle and the callback; the bundle gets it.
Mark ==
    /\ poll.pc = "mark"
    /\ LET b == poll.buf IN
        /\ ms' = [ms EXCEPT !.in_kernel[b] = FALSE,
                            !.buf_refcnt[b] = @ + Bit(Bundled) + Bit(HasCb)]
        /\ held' = IF Bundled THEN [held EXCEPT !["bundle"] = @ \cup {b}] ELSE held
    /\ poll' = [poll EXCEPT !.pc = "link"]
    /\ UNCHANGED <<app, ctl>>

\* mutant: the linked channel is not counted.
LinkUncounted ==
    /\ poll.pc = "link"
    /\ UNCHANGED ms
    /\ held' = IF Linked THEN [held EXCEPT !["linked"] = @ \cup {poll.buf}] ELSE held
    /\ poll' = [poll EXCEPT !.pc = "app"]
    /\ UNCHANGED <<app, ctl>>

\* A linked channel gets it.  The count is raised only now, so a bundle that
\* is done already must not have been the only one counted.
Link ==
    /\ poll.pc = "link"
    /\ LET b == poll.buf IN
        IF Linked
        THEN /\ ms' = [ms EXCEPT !.buf_refcnt[b] = @ + 1]
             /\ held' = [held EXCEPT !["linked"] = @ \cup {b}]
        ELSE UNCHANGED <<ms, held>>
    /\ poll' = [poll EXCEPT !.pc = "app"]
    /\ UNCHANGED <<app, ctl>>

\* mutant: a skipped frame is not given back.
SkipFrameKeeping ==
    /\ poll.pc = "app" /\ ms.previewSkipCnt > 0
    /\ ms' = [ms EXCEPT !.previewSkipCnt = @ - 1]
    /\ poll' = [poll EXCEPT !.pc = "poll", !.buf = NoBuf]
    /\ UNCHANGED <<app, held, ctl>>

\* A preview frame to be skipped is done for the callback.
SkipFrame ==
    /\ poll.pc = "app" /\ ms.previewSkipCnt > 0
    /\ \E s \in BufDone([ms EXCEPT !.previewSkipCnt = @ - 1], poll.buf) :
        /\ ms' = s
        /\ poll' = [Async(poll, ms, s) EXCEPT !.pc = "poll", !.buf = NoBuf]
    /\ UNCHANGED <<app, held, ctl>>

\* The callback thread gets it; the lock is not to be had while it is ended.
EnqueueForApp ==
    /\ poll.pc = "app" /\ ms.previewSkipCnt = 0 /\ ctl.pc # "join"
    /\ app' = IF HasCb /\ app.active THEN [app EXCEPT !.queue = Append(@, poll.buf)] ELSE app
    /\ poll' = [poll EXCEPT !.pc = "poll", !.buf = NoBuf]
    /\ UNCHANGED <<ms, held, ctl>>

PollThread ==
    \/ ProcPipe \/ PollReturns \/ DataNotify \/ Mark \/ Link
    \/ SkipFrame \/ EnqueueForApp

-----------------------------------------------------------------------------
(* Those who hold frames.                                                  *)

\* mm_stream_dispatch_app_data counts the frame for the callback's user,
AppCallback ==
    /\ app.buf = NoBuf /\ app.queue # <<>>
    /\ LET b == Head(app.queue) IN
        /\ app' = [app EXCEPT !.queue = Tail(@), !.buf = b]
        /\ ms' = [ms EXCEPT !.buf_refcnt[b] = @ + 1]
        /\ held' = [held EXCEPT !["user"] = @ \cup {b}]
    /\ UNCHANGED <<poll, ctl>>

\* and is done with it when the callbacks have returned.
AppDone ==
    /\ app.buf # NoBuf
    /\ \E s \in BufDone(ms, app.buf) : ms' = s /\ poll' = Async(poll, ms, s)
    /\ app' = [app EXCEPT !.buf = NoBuf]
    /\ UNCHANGED <<held, ctl>>

\* mm_channel_qbuf: an active stream takes the buffer back, after this look
\* at its state; otherwise the buffer is forgotten.  What the HAL has from the
\* registration on is with the display, and comes back when a frame is shown.
Return(h, b) ==
    /\ b \in held[h]
    /\ ~(ctl.pc = "idle" /\ ms.state = "REG")
    /\ held' = [held EXCEPT ![h] = @ \ {b},
                    !["return"] = @ \cup (IF ms.state = "ACTIVE" THEN {<<h, b>>} ELSE {})]
    /\ UNCHANGED <<ms, poll, app, ctl>>

ReturnDone ==
    /\ \E r \in held["return"] :
        /\ \E s \in BufDone(ms, r[2]) : ms' = s /\ poll' = Async(poll, ms, s)
        /\ held' = [held EXCEPT !["return"] = @ \ {r}]
    /\ UNCHANGED <<app, ctl>>

-----------------------------------------------------------------------------
(* The control thread, with the channel locked.  mm_channel_start gets,    *)
(* registers and starts; mm_channel_stop, and a start that failed, unwind. *)

\* An event that only changes the stream.
Event(at, from, s) ==
    /\ ctl.pc = at /\ ms.state = from
    /\ ms' = s
    /\ UNCHANGED <<poll, app, held, ctl>>

MsInitStream == Event("idle", "NOTUSED", [ms EXCEPT !.state = "INITED"])
Acquire == Event("idle", "INITED", [ms EXCEPT !.state = "ACQUIRED"])
SetFmt == \E from \in {"ACQUIRED", "CFG"} : Event("idle", from, [ms EXCEPT !.state = "CFG"])
Release == \E from \in {"ACQUIRED", "CFG"} : Event("idle", from, [ms EXCEPT !.state = "NOTUSED"])
GetBuf ==
    Event("idle", "CFG", [ms EXCEPT !.state = "BUFFED", !.buf_refcnt = [b \in Buf |-> 0],
                            !.in_kernel = [b \in Buf |-> FALSE], !.failed = {}])
\* What a frame that outlived the stop (NoFrameAfterStop) would do with the
\* freed buffers is not followed.
PutBuf ==
    /\ ctl.pc = "unwind" /\ ms.state = "BUFFED"
    /\ poll.buf = NoBuf
    /\ ms' = [ms EXCEPT !.state = "CFG"]
    /\ ctl' = [ctl EXCEPT !.pc = "idle"]
    /\ UNCHANGED <<poll, app, held>>

\* mm_stream_reg_buf: the kernel gets the buffers of `given`.  The HAL has
\* given back what it had of an earlier start.
Register(given) ==
    LET n == Cardinality(given) IN
    [ms EXCEPT !.queued = given, !.queued_buffer_count = n, !.entry = @ \/ n > 0,
        !.buf_refcnt = [b \in Buf |-> IF b \in given THEN 0
                                      ELSE IF b \notin InitReg THEN 1 ELSE @[b]],
        !.in_kernel = [b \in Buf |-> b \in given]]

RegBuf ==
    /\ ctl.pc = "idle" /\ ms.state = "BUFFED"
    /\ Len(poll.pipe) <= MaxPipe
    /\ \A h \in DOMAIN held : held[h] = {}
    /\ \/ /\ ms' = [Register(InitReg) EXCEPT !.state = "REG"]
          /\ held' = [held EXCEPT !["user"] = Buf \ InitReg]
          /\ UNCHANGED ctl
       \/ /\ MsMayFail
          /\ \E given \in SUBSET InitReg : given # InitReg /\ ms' = Register(given)
          /\ ctl' = [ctl EXCEPT !.pc = "unwind"]
          /\ UNCHANGED held
    /\ poll' = IF ms'.queued_buffer_count > 0
               THEN [poll EXCEPT !.pipe = Append(@, "UPDATED_ASYNC")] ELSE poll
    /\ UNCHANGED app

UnregBuf ==
    Event("unwind", "REG", [ms EXCEPT !.state = "BUFFED", !.queued = {},
                     !.buf_refcnt = [b \in Buf |-> 0], !.in_kernel = [b \in Buf |-> FALSE]])

Start ==
    /\ ctl.pc = "idle" /\ ms.state = "REG"
    /\ ms' = [ms EXCEPT !.state = "ACTIVE", !.on = TRUE]
    /\ app' = [app EXCEPT !.active = HasCb]
    /\ UNCHANGED <<poll, held, ctl>>

\* mm_camera_poll_thread_del_poll_fd, the caller waits.
DelPollFd ==
    /\ ms.entry
    /\ ms' = [ms EXCEPT !.entry = FALSE]
    /\ Send("UPDATED")

\* STREAMON fails: the stream leaves the entries, the thread ends.
StartFails ==
    /\ MsMayFail
    /\ ctl.pc = "idle" /\ ms.state = "REG"
    /\ \/ DelPollFd /\ ctl' = [pc |-> "unstart", signalled |-> FALSE]
       \/ ~ms.entry /\ ctl' = [ctl EXCEPT !.pc = "join"] /\ UNCHANGED <<ms, poll>>
    /\ app' = [app EXCEPT !.active = HasCb]
    /\ UNCHANGED held

Unstart ==
    /\ ctl.pc = "unstart" /\ ctl.signalled
    /\ ctl' = [ctl EXCEPT !.pc = "join"]
    /\ UNCHANGED <<ms, poll, app, held>>

\* mm_stream_streamoff: leave the entries or, if some asynchronous command
\* did that, wait for the commands sent so far,
Stop ==
    /\ ctl.pc = "idle" /\ ms.state = "ACTIVE"
    /\ \/ DelPollFd
       \/ ~ms.entry /\ Send("COMMIT") /\ UNCHANGED ms
    /\ ctl' = [pc |-> "off", signalled |-> FALSE]
    /\ UNCHANGED <<app, held>>

\* then STREAMOFF, by which the kernel forgets the buffers,
StreamOff ==
    /\ ctl.pc = "off" /\ ctl.signalled
    /\ ms' = [ms EXCEPT !.on = FALSE, !.queued = {}]
    /\ ctl' = [ctl EXCEPT !.pc = "join"]
    /\ UNCHANGED <<poll, app, held>>

\* then the callback thread works off its queue and ends.
Join ==
    /\ ctl.pc = "join"
    /\ app.queue = <<>> /\ app.buf = NoBuf
    /\ app' = [app EXCEPT !.active = FALSE]
    /\ ms' = [ms EXCEPT !.state = "REG"]
    /\ ctl' = [ctl EXCEPT !.pc = "unwind"]
    /\ UNCHANGED <<poll, held>>

Control ==
    \/ MsInitStream \/ Acquire \/ SetFmt \/ Release \/ GetBuf \/ PutBuf
    \/ RegBuf \/ UnregBuf \/ Start \/ StartFails \/ Unstart
    \/ Stop \/ StreamOff \/ Join

MsNext ==
    \/ PollThread \/ AppCallback \/ AppDone \/ ReturnDone
    \/ \E h \in Holder, b \in Buf : Return(h, b)
    \/ Control

MsSpec == MsInit /\ [][MsNext]_msVars

\* A call that has begun goes on: the poll thread, the callback thread and
\* the control thread run when they can.
ProgressOf(t) ==
    CASE t = "poll" -> PollThread
      [] t = "app" -> AppCallback \/ AppDone
      [] t = "control" -> Unstart \/ StreamOff \/ Join

-----------------------------------------------------------------------------
(* Properties.                                                             *)

\* Types of the stream, its threads and the holders.
MsTypeOK ==
    /\ ms \in Stream
    /\ poll \in [pc : {"poll", "data", "mark", "link", "app"}, buf : Buf \cup {NoBuf},
                 pipe : Seq(Pipe), fds : BOOLEAN]
    /\ app \in [active : BOOLEAN, queue : Seq(Buf), buf : Buf \cup {NoBuf}]
    /\ \A h \in Holder : held[h] \subseteq Buf
    /\ held["return"] \subseteq Holder \X Buf
    /\ ctl \in [pc : {"idle", "unstart", "off", "join", "unwind"}, signalled : BOOLEAN]

\* How many still have to say that they are done with b.
Users(b) ==
    Cardinality({h \in Holder : b \in held[h]})
    + Cardinality({r \in held["return"] : r[2] = b})
    + Cardinality({i \in DOMAIN app.queue : app.queue[i] = b}) + Bit(app.buf = b)

\* While the stream is on the count of a buffer is the number of those who
\* have it, the callback's share being counted before it is handed over.
RefcntIsUsers ==
    ms.on => \A b \in Buf :
        ms.buf_refcnt[b] = Users(b) + Bit(HasCb /\ poll.buf = b /\ poll.pc \in {"link", "app"})

\* The kernel never writes to a buffer that somebody has (the bundle, a
\* linked channel, the callback thread, the HAL).
KernelOwnsAlone ==
    ms.on => \A b \in ms.queued : Users(b) = 0 /\ poll.buf # b

\* A buffer that is not with the kernel is with somebody, or was refused.
NoBufferLost ==
    ms.on => \A b \in Buf :
        b \in ms.queued \/ b \in ms.failed \/ Users(b) > 0 \/ poll.buf = b

\* Whenever the commands in the pipe have been worked off, the stream is
\* polled exactly if the kernel has buffers of it.
PolledIfQueued ==
    ms.on /\ ctl.pc = "idle" /\ poll.pipe = <<>> => (poll.fds <=> ms.queued # {})

\* A start that fails and a stop end: the pipe is read and its answer wakes
\* the control thread (mm_camera_poll_sig), the callback thread drains.
StopEnds == []<>(ctl.pc \notin {"unstart", "off", "join"})

\* A stream that has been stopped has no frame at the poll thread: its
\* buffers can be unregistered and freed.
NoFrameAfterStop ==
    ms.state # "ACTIVE" => poll.pc \notin {"mark", "link", "app"}
\* Every buffer of a stream that is on has its owners: the kernel alone, or
\* as many as its count says, and the stream is polled while the kernel has one.
BuffersOwned == RefcntIsUsers /\ KernelOwnsAlone /\ NoBufferLost /\ PolledIfQueued
=============================================================================
