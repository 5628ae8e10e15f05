------------------------------ MODULE SuperBuf ------------------------------
(* The super buffer queue of a channel of mm-camera-interface.  The poll    *)
(* thread hands the frames of the bundled streams to the channel's command  *)
(* thread, which joins frames of one number to a super buffer, keeps or     *)
(* drops it as requests, metadata and flushes say, and passes it to the     *)
(* callback thread.  A buffer leaves the channel by mm_channel_qbuf only.   *)

EXTENDS Integers, Sequences, FiniteSets

CONSTANTS
    Stream,        \* streams of the bundle
    Meta,          \* the stream of metadata
    NBuf,          \* buffers of a stream
    MaxFrame,      \* bound on frame numbers
    Metas,         \* what the metadata of a frame may say
    Attrs,         \* attributes a channel may be added with
    Modes,         \* notify modes the HAL configures later on
    FutureOffset,  \* max_future_frame_offset, 100 in the code
    MaxCmds,       \* bound on commands that wait when another one comes
    MaxStarts      \* bound on starts of the channel

BURST == "BURST"
CONTINUOUS == "CONTINUOUS"

\* What metadata can say, as far as the queue is concerned.
MetaInfo == [kind : {"plain", "reset", "invalid", "future", "prepared", "range",
                     "prepared_range"},
             crop1x : BOOLEAN, min : 0 .. MaxFrame, max : 0 .. MaxFrame]

Plain == [kind |-> "plain", crop1x |-> FALSE, min |-> 0, max |-> 0]

\* mm_camera_channel_attr_t
Attr == [notify_mode : {BURST, CONTINUOUS}, water_mark : Nat, look_back : Nat,
         post_frame_skip : Nat, max_unmatched_frames : Nat]

ASSUME SuperBufAssumption ==
    /\ Meta \in Stream
    /\ NBuf \in Nat /\ MaxFrame \in Nat
    /\ Metas \subseteq MetaInfo
    /\ Attrs \subseteq Attr
    /\ Modes \subseteq {BURST, CONTINUOUS}
    /\ FutureOffset \in Nat /\ MaxCmds \in Nat /\ MaxStarts \in Nat

VARIABLES
    ch,         \* mm_channel_t and its super buffer queue
    cmds,       \* cmd_thread.cmd_queue
    app,        \* super buffers in cb_thread.cmd_queue or with the HAL
    last        \* number of the last frame of each stream

sbVars == <<ch, cmds, app, last>>

\* A super buffer: the frames of these streams that have this number.
Node == [idx : Nat, bufs : SUBSET Stream, matched : BOOLEAN]

Channel ==
    [state : {"STOPPED", "ACTIVE", "STOPPING"}, starts : Nat, attr : Attr,
     list : Seq(Node), match_cnt : Int,
     expected_frame_id : Nat, expected_frame_id_without_led : Nat,
     notify_mode : {BURST, CONTINUOUS}, pending_cnt : Nat,
     needLEDFlash : BOOLEAN, bracketingState : {"OFF", "WAIT", "ACTIVE"},
     manualZSLSnapshot : BOOLEAN, startZSlSnapshotCalled : BOOLEAN,
     isFlashBracketingEnabled : BOOLEAN, isZoom1xFrameRequested : BOOLEAN,
     zsl : BOOLEAN,              \* the daemon takes snapshots
     out : [Stream -> Int],      \* buffers of a stream outside the kernel
     stuck : BOOLEAN]            \* a loop of the command thread does not end

Data(s, n, m) == [cmd |-> "DATA", stream |-> s, idx |-> n, meta |-> m]
Ask(c, n) == [cmd |-> c, stream |-> Meta, idx |-> n, meta |-> Plain]
HalCmd == {"REQ", "CONFIG_NOTIFY", "FLUSH", "START_ZSL", "STOP_ZSL",
           "BRACKETING", "FLASH_BRACKETING", "ZOOM_1X"}
SbCmd == [cmd : HalCmd \cup {"DATA"}, stream : Stream, idx : Nat, meta : MetaInfo]

SbInit ==
    /\ \E a \in Attrs :
        ch = [state |-> "STOPPED", starts |-> 0, attr |-> a, list |-> <<>>, match_cnt |-> 0,
              expected_frame_id |-> 0, expected_frame_id_without_led |-> 0,
              notify_mode |-> a.notify_mode, pending_cnt |-> 0, needLEDFlash |-> FALSE,
              bracketingState |-> "OFF", manualZSLSnapshot |-> FALSE,
              startZSlSnapshotCalled |-> FALSE, isFlashBracketingEnabled |-> FALSE,
              isZoom1xFrameRequested |-> FALSE, zsl |-> FALSE,
              out |-> [s \in Stream |-> 0], stuck |-> FALSE]
    /\ cmds = <<>> /\ app = <<>>
    /\ last = [s \in Stream |-> 0]

-----------------------------------------------------------------------------
(* The queue.  An operator gives the channel after the function it models.  *)

Bit(b) == IF b THEN 1 ELSE 0

\* mm_channel_qbuf of these streams' buffers: only an active stream takes them.
Qbuf(c, bufs) ==
    IF c.state # "ACTIVE" THEN c
    ELSE [c EXCEPT !.out = [s \in Stream |-> @[s] - Bit(s \in bufs)]]

\* The same for every super buffer of a list.
QbufAll(c, list) ==
    IF c.state # "ACTIVE" THEN c
    ELSE [c EXCEPT !.out =
            [s \in Stream |-> @[s] - Cardinality({i \in DOMAIN list : s \in list[i].bufs})]]

MatchedIn(list) == Cardinality({i \in DOMAIN list : list[i].matched})

Drop(list, n) == SubSeq(list, n + 1, Len(list))

\* How many super buffers dequeue can take before it meets an unmatched one.
Ready(c) == CHOOSE n \in 0 .. Len(c.list) :
                /\ \A i \in 1 .. n : c.list[i].matched
                /\ n = Len(c.list) \/ ~c.list[n + 1].matched

\* mutant: dequeued super buffers stay counted.
TakeUncounted(c, n) == [c EXCEPT !.list = Drop(@, n)]

\* n super buffers are dequeued.
Take(c, n) ==
    [c EXCEPT !.list = Drop(@, n), !.match_cnt = @ - MatchedIn(SubSeq(c.list, 1, n))]

\* Matched super buffers are dropped while the count exceeds the limit, with
\* the queue locked.  Nothing ends the loop when too few are there.
DropExcess(c, limit) ==
    LET n == c.match_cnt - limit IN
    IF c.notify_mode = CONTINUOUS \/ n <= 0 THEN c
    ELSE IF n <= Ready(c) THEN QbufAll(Take(c, n), SubSeq(c.list, 1, n))
    ELSE [QbufAll(Take(c, Ready(c)), SubSeq(c.list, 1, Ready(c))) EXCEPT !.stuck = TRUE]

\* mutant: the incomplete super buffers are forgotten.
FlushMatchedOnly(c) ==
    QbufAll(Take(c, Len(c.list)), SelectSeq(c.list, LAMBDA b : b.matched))

Flush(c) == QbufAll(Take(c, Len(c.list)), c.list)
FlushMatched(c) == QbufAll(Take(c, Ready(c)), SubSeq(c.list, 1, Ready(c)))

-----------------------------------------------------------------------------
(* Metadata.                                                               *)

\* Metadata that makes mm_channel_handle_metadata fail.
Unusable(m) == m.kind \in {"invalid", "prepared_range"}

\* Frame numbers start again: what was collected is of no use.
FrameIdReset(c, m) ==
    IF m.kind = "reset" THEN [Flush(c) EXCEPT !.expected_frame_id = 1] ELSE c

\* A frame without zoom was asked for, and this is it or not.
Zoom1x(c, n, m) ==
    IF m.crop1x
    THEN [c EXCEPT !.isZoom1xFrameRequested = FALSE, !.expected_frame_id = n + 1]
    ELSE [FlushMatched(c) EXCEPT !.expected_frame_id = @ + FutureOffset]

PrepSnapshotDone(c, m) ==
    IF m.kind = "future"
    THEN [Flush(c) EXCEPT !.expected_frame_id = @ + FutureOffset, !.needLEDFlash = TRUE]
    ELSE [c EXCEPT !.needLEDFlash = FALSE]

\* The daemon says which frames are good.
GoodFrameRange(c, m) ==
    IF c.isFlashBracketingEnabled
    THEN [c EXCEPT !.expected_frame_id = m.min,
                   !.expected_frame_id_without_led = m.max]
    ELSE [c EXCEPT !.expected_frame_id = m.min, !.bracketingState = "ACTIVE"]

WaitForGoodFrame(c) ==
    IF c.bracketingState = "WAIT"
    THEN [FlushMatched(c) EXCEPT !.expected_frame_id = @ + FutureOffset] ELSE c

HandleMetadata(c, n, m) ==
    LET d == FrameIdReset(c, m) IN
    CASE Unusable(m) -> d
      [] ~Unusable(m) /\ d.isZoom1xFrameRequested -> Zoom1x(d, n, m)
      [] ~Unusable(m) /\ ~d.isZoom1xFrameRequested ->
            CASE m.kind \in {"future", "prepared"} -> PrepSnapshotDone(d, m)
              [] m.kind = "range" -> GoodFrameRange(d, m)
              [] OTHER -> WaitForGoodFrame(d)

-----------------------------------------------------------------------------
(* A frame joins the queue.                                                *)

Unmatched(list) == {i \in DOMAIN list : ~list[i].matched}
Same(list, n) == {i \in Unmatched(list) : list[i].idx = n}
Older(list, n) == {i \in Unmatched(list) : list[i].idx < n}
Newer(list, n) == {i \in Unmatched(list) : list[i].idx > n}
First(S) == CHOOSE i \in S : \A j \in S : i <= j

Without(list, i, j) == SubSeq(list, 1, i - 1) \o Drop(list, j)

\* mutant: a super buffer joins at the end.
InsertLast(list, n, node) == Append(list, node)

InsertBefore(list, n, node) ==
    IF Newer(list, n) = {} THEN Append(list, node)
    ELSE LET i == First(Newer(list, n)) IN
         SubSeq(list, 1, i - 1) \o <<node>> \o Drop(list, i - 1)

\* The older incomplete super buffers before i, from the first one on.
DropOlder(c, i, n) ==
    LET old == {j \in Older(c.list, n) : j < i} IN
    IF old = {} THEN c
    ELSE LET j == First(old) IN
         [QbufAll(c, SubSeq(c.list, j, i - 1)) EXCEPT !.list = Without(@, j, i - 1)]

\* The number from which the frames after a match count.
Expect(c, n) ==
    IF c.isFlashBracketingEnabled
    THEN [c EXCEPT !.expected_frame_id = c.expected_frame_id_without_led,
                   !.isFlashBracketingEnabled = FALSE]
    ELSE [c EXCEPT !.expected_frame_id = n + c.attr.post_frame_skip]

\* The frame completes a super buffer, or brings it nearer.
JoinSuperBuf(c, i, s, n) ==
    LET bufs == c.list[i].bufs \cup {s}
        d == [c EXCEPT !.list[i].bufs = bufs, !.list[i].matched = (bufs = Stream)]
    IN  IF bufs # Stream THEN d
        ELSE DropOlder([Expect(d, n) EXCEPT !.match_cnt = @ + 1], i, n)

\* mutant: one more incomplete super buffer is kept.
MakeRoomLate(c, n) ==
    IF Cardinality(Unmatched(c.list)) <= c.attr.max_unmatched_frames + 1
       \/ Older(c.list, n) = {} THEN c
    ELSE LET i == First(Older(c.list, n)) IN
         [QbufAll(c, <<c.list[i]>>) EXCEPT !.list = Without(@, i, i)]

\* Too many incomplete super buffers are there: one older than n goes.
MakeRoom(c, n) ==
    IF Cardinality(Unmatched(c.list)) <= c.attr.max_unmatched_frames THEN c
    ELSE LET i == First(Older(c.list, n)) IN
         [QbufAll(c, <<c.list[i]>>) EXCEPT !.list = Without(@, i, i)]

NewSuperBuf(c, s, n) ==
    LET alone == Stream = {s}
        node == [idx |-> n, bufs |-> {s}, matched |-> alone]
        d == [MakeRoom(c, n) EXCEPT !.list = InsertBefore(@, n, node)]
    IN  IF ~alone THEN d
        ELSE [d EXCEPT !.expected_frame_id = n + c.attr.post_frame_skip, !.match_cnt = @ + 1]

CompAndEnqueue(c, s, n, m) ==
    LET d == IF s = Meta THEN HandleMetadata(c, n, m) ELSE c IN
    IF (s = Meta /\ Unusable(m)) \/ n < d.expected_frame_id THEN Qbuf(d, {s})
    ELSE IF Same(d.list, n) # {} THEN JoinSuperBuf(d, First(Same(d.list, n)), s, n)
    ELSE IF Cardinality(Unmatched(d.list)) > c.attr.max_unmatched_frames /\ Older(d.list, n) = {}
         THEN Qbuf(d, {s})
    ELSE NewSuperBuf(d, s, n)

-----------------------------------------------------------------------------
(* The command thread.                                                     *)

StartZsl(c) == [c EXCEPT !.zsl = TRUE]
StopZsl(c) == [c EXCEPT !.zsl = FALSE]

\* mutant: the request's end leaves the daemon taking snapshots.
RequestDoneLit(c) ==
    IF c.pending_cnt = 0 /\ c.startZSlSnapshotCalled /\ ~c.manualZSLSnapshot
    THEN [c EXCEPT !.startZSlSnapshotCalled = FALSE, !.bracketingState = "OFF"] ELSE c

\* A request is served, or cancelled: so is the snapshot started for it.
RequestDone(c) ==
    IF c.pending_cnt = 0 /\ c.startZSlSnapshotCalled /\ ~c.manualZSLSnapshot
    THEN [StopZsl(c) EXCEPT !.startZSlSnapshotCalled = FALSE, !.bracketingState = "OFF"]
    ELSE c

NeedsSnapshot(c) ==
    /\ c.pending_cnt > 0
    /\ c.needLEDFlash \/ c.bracketingState # "OFF"
    /\ ~c.manualZSLSnapshot /\ ~c.startZSlSnapshotCalled

\* What a request does once the unwanted super buffers are gone.
StartSnapshot(c) ==
    IF NeedsSnapshot(c)
    THEN [StartZsl(c) EXCEPT !.startZSlSnapshotCalled = TRUE, !.needLEDFlash = FALSE]
    ELSE IF c.pending_cnt = 0 /\ c.startZSlSnapshotCalled /\ ~c.manualZSLSnapshot
    THEN [RequestDone(c) EXCEPT !.needLEDFlash = FALSE] ELSE c

Request(c, n) ==
    LET d == DropExcess([c EXCEPT !.pending_cnt = n], c.attr.look_back) IN
    IF d.stuck THEN d ELSE StartSnapshot(d)

Bracketing(c, on) ==
    [Flush(c) EXCEPT !.bracketingState = IF on THEN "WAIT" ELSE "OFF"]

Handle(c, q) ==
    CASE q.cmd = "DATA" -> CompAndEnqueue(c, q.stream, q.idx, q.meta)
      [] q.cmd = "REQ" -> Request(c, q.idx)
      [] q.cmd = "CONFIG_NOTIFY" ->
            [c EXCEPT !.notify_mode = IF q.idx = 0 THEN BURST ELSE CONTINUOUS]
      [] q.cmd = "FLUSH" -> Flush([c EXCEPT !.expected_frame_id = q.idx])
      [] q.cmd = "START_ZSL" -> [StartZsl(c) EXCEPT !.manualZSLSnapshot = TRUE]
      [] q.cmd = "STOP_ZSL" -> [StopZsl(c) EXCEPT !.manualZSLSnapshot = FALSE]
      [] q.cmd = "BRACKETING" -> Bracketing(c, q.idx = 1)
      [] q.cmd = "FLASH_BRACKETING" -> [c EXCEPT !.isFlashBracketingEnabled = (q.idx = 1)]
      [] q.cmd = "ZOOM_1X" -> [c EXCEPT !.isZoom1xFrameRequested = (q.idx = 1)]

\* mutant: more super buffers are dispatched than are asked for.
WantedAll(c) == Ready(c)

\* How many super buffers are dispatched.
Wanted(c) ==
    IF c.notify_mode = BURST /\ c.pending_cnt < Ready(c) THEN c.pending_cnt ELSE Ready(c)

Dispatch(c) ==
    LET n == Wanted(c)
        d == [Take(c, n) EXCEPT !.pending_cnt = IF c.notify_mode = BURST THEN @ - n ELSE @]
    IN  IF n > 0 /\ c.notify_mode = BURST THEN RequestDone(d) ELSE d

\* mm_channel_process_stream_buf: a flush returns early.
ProcessStreamBuf ==
    /\ cmds # <<>> /\ ~ch.stuck
    /\ cmds' = Tail(cmds)
    /\ LET c == Handle(ch, Head(cmds))
           d == DropExcess(c, c.attr.water_mark)
       IN  IF Head(cmds).cmd = "FLUSH" \/ c.stuck \/ d.stuck
           THEN /\ ch' = IF c.stuck \/ Head(cmds).cmd = "FLUSH" THEN c ELSE d
                /\ UNCHANGED app
           ELSE /\ ch' = Dispatch(d)
                /\ app' = app \o SubSeq(d.list, 1, Wanted(d))
    /\ UNCHANGED last

-----------------------------------------------------------------------------
(* The threads around it.                                                  *)

\* A frame comes from the kernel, which may skip one, to a bundled stream.
\* Once MaxFrame is behind expected_frame_id only a reset is of interest.
HandleRcvdBuf(s) ==
    /\ ch.state = "ACTIVE" /\ ch.out[s] < NBuf
    /\ Len(cmds) <= MaxCmds
    /\ \E m \in IF s = Meta THEN Metas ELSE {Plain} :
       \E n \in IF m.kind = "reset" THEN {1} ELSE {last[s] + 1, last[s] + 2} :
        /\ n <= MaxFrame
        /\ ch.expected_frame_id <= MaxFrame \/ m.kind = "reset"
        /\ cmds' = Append(cmds, Data(s, n, m))
        /\ last' = [t \in Stream |-> IF t = s THEN n
                                     ELSE IF m.kind = "reset" THEN 0 ELSE last[t]]
    /\ ch' = [ch EXCEPT !.out[s] = @ + 1]
    /\ UNCHANGED app

\* The HAL, having got a super buffer by the callback, gives its buffers back.
BufDone ==
    /\ \E i \in DOMAIN app :
        /\ ch' = Qbuf(ch, app[i].bufs)
        /\ app' = Without(app, i, i)
    /\ UNCHANGED <<cmds, last>>

\* The HAL waits for a flush with the channel locked.
Locked == \E i \in DOMAIN cmds : cmds[i].cmd = "FLUSH"

\* The operations on an active channel, with their argument.
Command(q, n) ==
    /\ ch.state = "ACTIVE" /\ ~Locked
    /\ Len(cmds) <= MaxCmds
    /\ cmds' = Append(cmds, Ask(q, n))
    /\ UNCHANGED <<ch, app, last>>

RequestSuperBuf == \E n \in 1 .. 2 : Command("REQ", n)
CancelSuperBufRequest == Command("REQ", 0)
FlushSuperBufQueue == \E n \in 0 .. MaxFrame : Command("FLUSH", n)
ZslSnapshot == Command("START_ZSL", 0) \/ Command("STOP_ZSL", 0)
ConfigNotifyMode ==
    \E m \in Modes : Command("CONFIG_NOTIFY", Bit(m = CONTINUOUS))

\* startAdvancedCapture and stopAdvancedCapture: a picture has one kind.
Kinds == {"BRACKETING", "FLASH_BRACKETING", "ZOOM_1X"}
IsOn(q) ==
    \/ q = "BRACKETING" /\ ch.bracketingState # "OFF"
    \/ q = "FLASH_BRACKETING" /\ ch.isFlashBracketingEnabled
    \/ q = "ZOOM_1X" /\ ch.isZoom1xFrameRequested
    \/ \E i \in DOMAIN cmds : cmds[i].cmd = q
StartAdvancedCapture ==
    \E q \in Kinds : (\A k \in Kinds \ {q} : ~IsOn(k)) /\ Command(q, 1)
StopAdvancedCapture == \E q \in Kinds : Command(q, 0)

\* mm_channel_start of a bundled channel.  The HAL has given back the super
\* buffers of the time before.  The count of matched ones is not reset.
ChannelStart ==
    /\ ch.state = "STOPPED" /\ app = <<>>
    /\ ch.starts < MaxStarts
    /\ ch' = [ch EXCEPT !.state = "ACTIVE", !.starts = @ + 1, !.list = <<>>,
                 !.expected_frame_id = 0, !.expected_frame_id_without_led = 0]
    /\ last' = [s \in Stream |-> 0]
    /\ UNCHANGED <<cmds, app>>

\* mm_channel_stop first stops the streams and takes their buffers away,
ChannelStop ==
    /\ ch.state = "ACTIVE" /\ ~Locked
    /\ ch' = [ch EXCEPT !.state = "STOPPING", !.out = [s \in Stream |-> 0]]
    /\ UNCHANGED <<cmds, app, last>>

\* then waits for its command thread and callback thread, and frees the queue.
ChannelStopped ==
    /\ ch.state = "STOPPING" /\ cmds = <<>>
    /\ ch' = [ch EXCEPT !.state = "STOPPED", !.list = <<>>]
    /\ UNCHANGED <<cmds, app, last>>

SbNext ==
    \/ ProcessStreamBuf \/ BufDone
    \/ \E s \in Stream : HandleRcvdBuf(s)
    \/ RequestSuperBuf \/ CancelSuperBufRequest \/ FlushSuperBufQueue
    \/ ZslSnapshot \/ ConfigNotifyMode
    \/ StartAdvancedCapture \/ StopAdvancedCapture
    \/ ChannelStart \/ ChannelStop \/ ChannelStopped

SbSpec == SbInit /\ [][SbNext]_sbVars

-----------------------------------------------------------------------------
(* Properties.                                                             *)

\* Types of the channel, the commands and the super buffers.
SbTypeOK ==
    /\ ch \in Channel
    /\ cmds \in Seq(SbCmd)
    /\ app \in Seq(Node)
    /\ last \in [Stream -> Nat]

\* The matched super buffers are the first ones, and as many as the count by
\* which the loops drop them says (mm_channel_superbuf_bufdone_overflow looks
\* at the head only), until the channel is started again.
MatchCountExact ==
    ch.starts <= 1 /\ ch.state # "STOPPED" /\ ~ch.stuck =>
        /\ ch.match_cnt \in 0 .. Len(ch.list)
        /\ \A i \in DOMAIN ch.list : ch.list[i].matched <=> i <= ch.match_cnt

\* No loop that drops matched super buffers runs for ever with the queue
\* locked (mm_channel_superbuf_skip, mm_channel_superbuf_bufdone_overflow).
SbLoopsEnd == ~ch.stuck

HeldIn(list, s) == Cardinality({i \in DOMAIN list : s \in list[i].bufs})

\* Every buffer that is not with the kernel is in one place: on its way to
\* the queue, in it, on its way to the HAL or with it.  None is lost when
\* super buffers are dropped, and none is given back twice.
BuffersAccounted ==
    ch.state = "ACTIVE" => \A s \in Stream :
        ch.out[s] = Cardinality({i \in DOMAIN cmds : cmds[i].cmd = "DATA" /\ cmds[i].stream = s})
                      + HeldIn(ch.list, s) + HeldIn(app, s)

\* Between commands the queue is no longer than the attributes allow, or the
\* streams run out of buffers (water_mark, max_unmatched_frames).
QueueBounded ==
    /\ Cardinality(Unmatched(ch.list)) <= ch.attr.max_unmatched_frames + 1
    /\ ch.notify_mode = BURST /\ ~ch.stuck => MatchedIn(ch.list) <= ch.attr.water_mark

\* The daemon takes snapshots only while a request waits for them or the HAL
\* asked for them itself (start_zsl_snapshot and stop_zsl_snapshot pair up).
SnapshotEnds == ch.zsl => ch.manualZSLSnapshot \/ ch.pending_cnt > 0

\* Super buffers are kept in the order of their numbers, so that the head of
\* the queue is the oldest one, though the streams' frames come in any order.
SuperBufsInOrder ==
    \A i, j \in DOMAIN ch.list : i < j => ch.list[i].idx < ch.list[j].idx
\* What the queue holds is what its counters, its attributes and the streams'
\* buffers say.
QueueAccounted == MatchCountExact /\ BuffersAccounted /\ QueueBounded
=============================================================================
