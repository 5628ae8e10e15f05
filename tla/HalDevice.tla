----------------------------- MODULE HalDevice -----------------------------
(* The operations of QCamera2HardwareInterface on the camera: channels,    *)
(* parameters, the postprocessor and the live snapshot thread.  Every      *)
(* operation maps the device to the set of its possible outcomes, each the *)
(* device left behind and whether the code returned NO_ERROR, because a    *)
(* call into the camera stack below may fail (MayFail names which).  The   *)
(* device record is the part of the hardware interface that the state      *)
(* machine thread reads and changes.                                       *)

EXTENDS Naturals

CONSTANTS
    MayFail,        \* which of FailureKinds happen in this instance
    JpegFormats,    \* whether the picture format may be JPEG or NV16/NV21
                    \* (TRUE), raw (FALSE), or either
    RestartPreview, \* the property read by isPreviewRestartEnabled
    LiveChannel,    \* what a live snapshot uses: "SNAPSHOT", "VIDEO" (low
                    \* power), or "NONE" (4k video: no snapshot channel)
    MaxPics         \* pictures are numbered modulo MaxPics

FailureKinds == {"add", "start", "request", "postproc", "advanced",
                 "deferred", "link", "params", "commit", "prepare", "thread"}

ASSUME DeviceAssumption ==
    /\ MayFail \subseteq FailureKinds
    /\ JpegFormats \subseteq BOOLEAN
    /\ RestartPreview \in BOOLEAN
    /\ LiveChannel \in {"SNAPSHOT", "VIDEO", "NONE"}
    /\ MaxPics \in Nat \ {0}

-----------------------------------------------------------------------------
(* The device.                                                             *)

MState == {"PREVIEW_STOPPED", "PREVIEW_READY", "PREVIEWING",
           "PREPARE_SNAPSHOT", "PIC_TAKING", "RECORDING",
           "VIDEO_PIC_TAKING", "PREVIEW_PIC_TAKING"}

ChType == {"ZSL", "CAPTURE", "PREVIEW", "VIDEO", "SNAPSHOT", "RAW"}

\* No object; an object whose handle was deleted; configured; streaming.
ChStatus == {"none", "closed", "idle", "active"}

\* What the postprocessor and the callback notifier do for the picture:
\* count its frames ("armed"), have sent the frame to be reprocessed
\* ("captured"), have reported SNAPSHOT_DONE, or never report (longshot).
PostProc == {"stopped", "armed", "captured", "reported", "longshot"}

Live == {"none", "created", "exited"}

Device == [m_state : MState,
           ch : [ChType -> ChStatus],
           window : BOOLEAN,               \* mPreviewWindow != NULL
           zsl : BOOLEAN,                  \* m_bZslMode
           zslNew : BOOLEAN,               \* m_bZslMode_new and the ZSL key
           hint : BOOLEAN,                 \* m_bRecordingHint
           hintNew : BOOLEAN,              \* m_bRecordingHint_new
           hintKey : BOOLEAN,              \* the recording-hint key
           hintTmp : BOOLEAN,              \* its value when m_tempMap is set
           longshot : BOOLEAN,             \* mLongshotEnabled
           jpeg : BOOLEAN,                 \* the picture format is not raw
           postproc : PostProc,
           live : Live,                    \* mLiveSnapshotThread
           prep : BOOLEAN,                 \* the daemon is preparing
           pic : 0 .. MaxPics - 1,         \* number of the latest picture
           posted : BOOLEAN]               \* SNAPSHOT_DONE posted meanwhile

\* The device when the camera is opened, with the picture format jpeg.
InitDevice(jpeg) ==
    [m_state |-> "PREVIEW_STOPPED", ch |-> [t \in ChType |-> "none"],
     window |-> FALSE, zsl |-> FALSE, zslNew |-> FALSE, hint |-> FALSE,
     hintNew |-> FALSE, hintKey |-> FALSE, hintTmp |-> FALSE,
     longshot |-> FALSE, jpeg |-> jpeg, postproc |-> "stopped",
     live |-> "none", prep |-> FALSE, pic |-> 0, posted |-> FALSE]

\* Outcomes of a step, and of a step followed by another (Then), or undone
\* by a clean-up that keeps the error (OrElse).
Out(h, ok) == [h |-> h, ok |-> ok]
Done(h) == {Out(h, TRUE)}
Error(h) == {Out(h, FALSE)}
Rc(kind) == IF kind \in MayFail THEN BOOLEAN ELSE {TRUE}
Then(S, F(_)) == {o \in S : ~o.ok} \cup UNION {F(o.h) : o \in {p \in S : p.ok}}
OrElse(S, Undo(_)) ==
    {o \in S : o.ok} \cup {Out(Undo(o.h), FALSE) : o \in {p \in S : ~p.ok}}
Always(S, F(_)) == UNION {F(o.h) : o \in S}

Goto(h, s) == [h EXCEPT !.m_state = s]

-----------------------------------------------------------------------------
(* Channels.                                                               *)

SetCh(h, t, s) == [h EXCEPT !.ch = [@ EXCEPT ![t] = s]]

DelChannel(h, t) == SetCh(h, t, "none")

\* delChannel(type, false): the object stays with its handle deleted.
CloseChannel(h, t) == IF h.ch[t] = "none" THEN h ELSE SetCh(h, t, "closed")

\* mutant: a state that no channel has.
StopChannelOpen(h, t) == IF h.ch[t] = "active" THEN SetCh(h, t, "open") ELSE h

StopChannel(h, t) == IF h.ch[t] = "active" THEN SetCh(h, t, "idle") ELSE h

\* Each add*Channel first deletes a channel of its type (ZSL: preview too).
AddChannel(h, t) ==
    LET d == IF t = "ZSL" THEN DelChannel(h, "PREVIEW") ELSE h
    IN  {Out(SetCh(d, t, IF rc THEN "idle" ELSE "none"), rc) : rc \in Rc("add")}

\* config() and start() of the channel object, when there is one.
StartChannel(h, t) ==
    IF h.ch[t] \in {"none", "closed"} THEN Error(h)
    ELSE {Out(IF rc THEN SetCh(h, t, "active") ELSE h, rc) : rc \in Rc("start")}

\* request_super_buf is accepted by a running channel only.
RequestPicture(h, t) ==
    {Out(h, rc) : rc \in IF h.ch[t] = "active" THEN Rc("request") ELSE {FALSE}}

-----------------------------------------------------------------------------
(* Parameters.                                                             *)

\* The application's parameter string, as far as the channels depend on it;
\* other is a change of another parameter that needs a restart.
Params == [zsl : BOOLEAN, hint : BOOLEAN, other : BOOLEAN]

\* initBatchUpdate forgets the values m_tempMap held, and only those.
InitBatchUpdate(h) == [h EXCEPT !.hintTmp = h.hintKey]

SetRecordingHintValue(h, v) == [h EXCEPT !.hintNew = v]

UpdateParameters(h, p) ==
    LET z == [InitBatchUpdate(h) EXCEPT !.zslNew = p.zsl]
    IN  IF p.hint = h.hintKey THEN z
        ELSE [SetRecordingHintValue(z, p.hint) EXCEPT !.hintTmp = p.hint]

NeedRestart(h, p) ==
    \/ p.other
    \/ p.zsl # h.zslNew
    \/ p.hint # h.hintKey /\ p.hint # h.hint

CommitParamChanges(h) ==
    [h EXCEPT !.hintKey = h.hintTmp, !.hint = h.hintNew, !.zsl = h.zslNew]

\* commitSetBatch: nothing is committed when the daemon refuses the batch.
CommitParameters(h) ==
    {Out(IF rc THEN CommitParamChanges(h) ELSE h, rc) : rc \in Rc("commit")}

UpdateRecordingHintValue(h, v) ==
    CommitParameters(SetRecordingHintValue(InitBatchUpdate(h), v))

\* Any batch commits every pending mode.
SetLongshotEnable(h) == CommitParameters(InitBatchUpdate(h))

-----------------------------------------------------------------------------
(* Pictures: cancelling them, and the longshot command.                    *)

CaptureRunning(h) ==
    h.m_state \in {"PIC_TAKING", "VIDEO_PIC_TAKING", "PREVIEW_PIC_TAKING"}

PreviewRunning(h) ==
    h.m_state \in {"PREVIEWING", "RECORDING", "VIDEO_PIC_TAKING",
                   "PREVIEW_PIC_TAKING", "PREPARE_SNAPSHOT", "PREVIEW_READY"}

StopPostProc(h) == [h EXCEPT !.postproc = "stopped"]

\* m_postprocessor.start: the notifier counts frames unless in longshot.
StartPostProc(h) ==
    {Out(IF rc THEN [h EXCEPT !.postproc = IF h.longshot THEN "longshot"
                                           ELSE "armed"]
         ELSE h, rc) : rc \in Rc("postproc")}

\* mutants: the postprocessor, or the channel of the picture, is forgotten.
CancelPictureKeepsPostProc(h) ==
    IF h.zsl THEN h ELSE DelChannel(h, IF h.jpeg THEN "CAPTURE" ELSE "RAW")
CancelPictureKeepsChannel(h) == StopPostProc(h)

CancelPicture(h) ==
    LET s == StopPostProc(h)
    IN  IF h.zsl THEN s
        ELSE DelChannel(s, IF h.jpeg THEN "CAPTURE" ELSE "RAW")

LongshotOff(h) ==
    LET c == IF h.longshot /\ CaptureRunning(h)
             THEN [CancelPicture(h) EXCEPT !.posted = TRUE] ELSE h
    IN  SetLongshotEnable([c EXCEPT !.longshot = FALSE])

\* LONGSHOT_ON is refused while a picture is taken.
LongshotOn(h) ==
    IF CaptureRunning(h) THEN Error(h)
    ELSE SetLongshotEnable([h EXCEPT !.longshot = TRUE])

\* The preview must restart when ZSL was set up with too few buffers.
MayNeedRestart(h) == h.zsl /\ PreviewRunning(h) /\ h.ch["ZSL"] # "none"

LongShot(h) == RequestPicture(h, IF h.zsl THEN "ZSL" ELSE "CAPTURE")

-----------------------------------------------------------------------------
(* Preview and recording.                                                  *)

PreviewType(h) == IF h.zsl /\ ~h.hint THEN "ZSL" ELSE "PREVIEW"

\* mutant: the ZSL channel is forgotten.
UnpreparePreviewKeepsZsl(h) ==
    [h EXCEPT !.ch = [t \in ChType |->
        IF t \in {"PREVIEW", "VIDEO", "SNAPSHOT"} THEN "none" ELSE h.ch[t]]]

UnpreparePreview(h) ==
    [h EXCEPT !.ch = [t \in ChType |->
        IF t \in {"ZSL", "PREVIEW", "VIDEO", "SNAPSHOT"} THEN "none" ELSE h.ch[t]]]

\* Stops ZSL and PREVIEW, then deletes the preview channels.
StopPreview(h) == UnpreparePreview(h)

DelSnapshot(h) == DelChannel(h, "SNAPSHOT")
DelVideoAndSnapshot(h) == DelChannel(DelSnapshot(h), "VIDEO")
AddSnapshot(h) ==
    IF LiveChannel = "SNAPSHOT" THEN AddChannel(h, "SNAPSHOT") ELSE Done(h)
AddVideo(h) == OrElse(AddChannel(h, "VIDEO"), DelSnapshot)
AddPreviewForVideo(h) == OrElse(AddChannel(h, "PREVIEW"), DelVideoAndSnapshot)

PreparePreview(h) ==
    IF ~h.hint THEN AddChannel(h, PreviewType(h))
    ELSE Then(Then(Always(IF h.longshot THEN LongshotOff(h) ELSE Done(h),
                          AddSnapshot), AddVideo), AddPreviewForVideo)

StartPreview(h) == StartChannel(h, PreviewType(h))

StartOrUnprepare(h) == OrElse(StartPreview(h), UnpreparePreview)

\* mutant: prepared and not started.
PrepareOnly(h) == PreparePreview(h)

PrepareAndStart(h) == Then(PreparePreview(h), StartOrUnprepare)

\* mutant: the rebuilt preview is not started.
StartPreviewChannelForgotten(h) == Done(h)

StartPreviewChannel(h) == StartChannel(h, "PREVIEW")
StartVideo(h) == StartChannel(h, "VIDEO")

\* In low power mode the metadata stream of a preview channel is linked to
\* the video channel, and the status of that replaces the one before.
LinkMetadata(o) ==
    IF LiveChannel = "VIDEO" /\ o.h.ch["PREVIEW"] # "none"
    THEN {Out(o.h, rc) : rc \in Rc("link")} ELSE {o}

\* Without the recording hint the preview is rebuilt with a video channel.
StartRecording(h) ==
    LET u == UpdateRecordingHintValue(StopPreview(h), TRUE)
        prepared == IF h.hint THEN Done(h)
                    ELSE Then(Always(u, PreparePreview), StartPreviewChannel)
    IN  Then(UNION {LinkMetadata(o) : o \in prepared}, StartVideo)

\* mutant: the video channel goes on.
StopRecordingForgotten(h) == h

StopRecording(h) == StopChannel(h, "VIDEO")

-----------------------------------------------------------------------------
(* Taking pictures.                                                        *)

RequestZSL(h) == OrElse(RequestPicture(h, "ZSL"), StopPostProc)
StartAdvanced(h) == {Out(h, rc) : rc \in Rc("advanced")}
AdvancedThenRequestZSL(h) == Then(StartAdvanced(h), RequestZSL)

TakeZSLPicture(h) ==
    IF h.ch["ZSL"] = "none" THEN Error(h)
    ELSE Then(StartPostProc(h), AdvancedThenRequestZSL)

DelCapture(h) == DelChannel(h, "CAPTURE")
DelPreview(h) == DelChannel(h, "PREVIEW")
\* mutant: the preview channel stays beside the capture channel.
DelPreviewForgotten(h) == Done(h)

DelPreviewOk(h) == Done(DelPreview(h))
AddCapture(h) == AddChannel(h, "CAPTURE")
PostviewJob(h) == {Out(h, rc) : rc \in Rc("deferred")}
ConfigCapture(h) == OrElse({Out(h, rc) : rc \in Rc("start")}, DelCapture)
StartCapture(h) == OrElse(StartChannel(h, "CAPTURE"), DelCapture)
\* The postprocessor starts in a deferred job whose result nobody reads.
DeferredPostProc(h) == {Out(o.h, TRUE) : o \in StartPostProc(h)}
LongShotOrDel(h) ==
    IF h.longshot THEN OrElse(LongShot(h), DelCapture) ELSE Done(h)

TakeCapturePicture(h) ==
    LET added == IF h.longshot THEN AddCapture(DelPreview(h))
                 ELSE Then(Then(OrElse(AddCapture(h), DelPreview), DelPreviewOk),
                           PostviewJob)
        started == Then(Then(Then(added, ConfigCapture), DeferredPostProc),
                        StartCapture)
    IN  Then(Then(started, StartAdvanced), LongShotOrDel)

DelRaw(h) == DelChannel(h, "RAW")
StopPostProcDelRaw(h) == DelRaw(StopPostProc(h))
StartRaw(h) == OrElse(StartChannel(h, "RAW"), StopPostProcDelRaw)
StartPostProcRaw(h) == OrElse(StartPostProc(h), DelRaw)

TakeRawPicture(h) ==
    Then(Then(AddChannel(DelPreview(h), "RAW"), StartPostProcRaw), StartRaw)

TakePicture(h) ==
    IF h.zsl THEN TakeZSLPicture(h)
    ELSE IF h.jpeg THEN TakeCapturePicture(h)
    ELSE TakeRawPicture(h)

StopCaptureChannel(h, destroy) ==
    IF ~h.jpeg THEN h
    ELSE LET s == StopChannel(h, "CAPTURE")
         IN  IF destroy THEN CloseChannel(s, "CAPTURE") ELSE s

-----------------------------------------------------------------------------
(* The live snapshot thread.                                               *)

\* mutant: the snapshot channel is not stopped.
CancelLiveSnapshotKeepsChannel(h) == StopPostProc([h EXCEPT !.live = "none"])

\* The thread is joined before this is called.
CancelLiveSnapshot(h) ==
    StopChannel(StopPostProc([h EXCEPT !.live = "none"]), "SNAPSHOT")

RequestOrStartLive(h) ==
    IF LiveChannel = "VIDEO" THEN RequestPicture(h, "VIDEO")
    ELSE {Out(IF rc THEN SetCh(h, "SNAPSHOT", "active") ELSE h, rc) : rc \in Rc("start")}

\* takeLiveSnapshot_internal, the body of the thread.
LiveSnapshot(h) ==
    LET x == [h EXCEPT !.live = "exited"]
    IN  IF LiveChannel = "NONE" \/ h.ch[LiveChannel] = "none" THEN Error(x)
        ELSE Then(StartPostProc(x), RequestOrStartLive)
=============================================================================
