-------------------------- MODULE HalStateMachine --------------------------
(* QCameraStateMachine and the threads around it.  Application threads     *)
(* enter an operation of the camera device, post an API event and wait for *)
(* its result (lockAPI, processAPI, waitAPIResult); the callback notifier  *)
(* reports SNAPSHOT_DONE and waits until it is handled (processSyncEvt);   *)
(* metadata, the postprocessor and the live snapshot thread post without   *)
(* waiting.  One thread takes API events before other events and handles   *)
(* each by the state it is in.                                             *)

EXTENDS HalDevice, Sequences

CONSTANTS
    Caller,      \* threads that call the operations of the camera device
    Calls,       \* the API events the callers use in this instance
    ParamValues, \* the parameters they set, a subset of Params
    MaxResults,  \* results that may lie unclaimed when a call is made
    MaxEvents    \* events that may lie in evt_queue when a call is made

ApiEvt == {"SET_PREVIEW_WINDOW", "CLEAR_PREVIEW_WINDOW", "SET_PARAMS",
           "START_PREVIEW", "START_NODISPLAY_PREVIEW", "STOP_PREVIEW",
           "START_RECORDING", "STOP_RECORDING", "PREPARE_SNAPSHOT",
           "TAKE_PICTURE", "CANCEL_PICTURE", "LONGSHOT_ON", "LONGSHOT_OFF",
           "REG_FACE_IMAGE", "RELEASE", "GET_PARAMS"}

WindowEvts == {"SET_PREVIEW_WINDOW", "CLEAR_PREVIEW_WINDOW"}
CommandEvts == {"LONGSHOT_ON", "LONGSHOT_OFF"}

\* API events nobody waits for, and events of the event queue.  Every state
\* ignores PREP_SNAPSHOT_DONE except PREPARE_SNAPSHOT, the only state in
\* which it can be handled, as no other event leaves that state.
PostedEvt == {"STOP_CAPTURE_CHANNEL", "PREP_SNAPSHOT_DONE", "SNAPSHOT_DONE"}

ASSUME StateMachineAssumption ==
    /\ Calls \subseteq ApiEvt
    /\ ParamValues \subseteq Params
    /\ MaxResults \in Nat
    /\ MaxEvents \in Nat

VARIABLES
    hal,             \* m_state and the device
    cur,             \* the command the state machine thread works on
    api_queue, evt_queue,
    m_apiResultList,
    call,            \* what each caller waits for
    notifier         \* the callback notifier waits in processSyncEvt

vars == <<hal, cur, api_queue, evt_queue, m_apiResultList, call, notifier>>

-----------------------------------------------------------------------------
(* Commands, results and calls.                                            *)

NoParams == [zsl |-> FALSE, hint |-> FALSE, other |-> FALSE]

Evt == ApiEvt \cup PostedEvt \cup {"none"}

Cmd == [evt : Evt, params : Params, pic : 0 .. MaxPics - 1]

NoCmd == [evt |-> "none", params |-> NoParams, pic |-> 0]
ApiCmd(e, p) == [evt |-> e, params |-> p, pic |-> 0]
Post(e, n) == [evt |-> e, params |-> NoParams, pic |-> n]

Result == [evt : Evt, ok : BOOLEAN]

\* A call: the event waited for ("none" between calls), and whether m_cond
\* was broadcast since the wait began.
CallState == [evt : ApiEvt \cup {"none"}, woken : BOOLEAN]

Waiting(e) == [evt |-> e, woken |-> FALSE]
Idle == Waiting("none")

Init ==
    /\ \E jpeg \in JpegFormats : hal = InitDevice(jpeg)
    /\ cur = NoCmd
    /\ api_queue = <<>>
    /\ evt_queue = <<>>
    /\ m_apiResultList = <<>>
    /\ call = [c \in Caller |-> Idle]
    /\ notifier = "idle"

-----------------------------------------------------------------------------
(* The callers.                                                            *)

\* lockAPI, processAPI and the start of waitAPIResult.  take_picture first
\* asks for PREPARE_SNAPSHOT when the flash is needed, and nothing else does.
Enter(c) ==
    /\ call[c].evt = "none"
    /\ Len(m_apiResultList) <= MaxResults
    /\ Len(evt_queue) <= MaxEvents
    /\ \E e \in Calls :
        \E p \in IF e = "SET_PARAMS" THEN ParamValues ELSE {NoParams} :
            /\ api_queue' = Append(api_queue, ApiCmd(e, p))
            /\ call' = [call EXCEPT ![c] = Waiting(e)]
    /\ UNCHANGED <<hal, cur, evt_queue, m_apiResultList, notifier>>

\* The event code of a call: one for both windows, one for all commands.
Code(e) ==
    IF e \in WindowEvts THEN "SET_PREVIEW_WINDOW"
    ELSE IF e \in CommandEvts THEN "SEND_COMMAND" ELSE e

\* mutant: the head of the list is taken, whatever its event.
MineIsFirst(c, i) == i = 1

\* The first result of the event the caller waits for, whoever asked for it.
Mine(c, i) ==
    /\ Code(m_apiResultList[i].evt) = Code(call[c].evt)
    /\ \A j \in 1 .. i - 1 : Code(m_apiResultList[j].evt) # Code(call[c].evt)

Without(s, i) == SubSeq(s, 1, i - 1) \o SubSeq(s, i + 1, Len(s))

\* waitAPIResult returns.  It looks at the list only after a broadcast.
\* take_picture goes on to TAKE_PICTURE whatever became of PREPARE_SNAPSHOT.
WaitAPIResult(c) ==
    /\ call[c].evt # "none" /\ call[c].woken
    /\ \E i \in 1 .. Len(m_apiResultList) :
        /\ Mine(c, i)
        /\ m_apiResultList' = Without(m_apiResultList, i)
    /\ IF call[c].evt = "PREPARE_SNAPSHOT"
       THEN /\ api_queue' = Append(api_queue, ApiCmd("TAKE_PICTURE", NoParams))
            /\ call' = [call EXCEPT ![c] = Waiting("TAKE_PICTURE")]
       ELSE /\ call' = [call EXCEPT ![c] = Idle]
            /\ UNCHANGED api_queue
    /\ UNCHANGED <<hal, cur, evt_queue, notifier>>

-----------------------------------------------------------------------------
(* The other threads.                                                      *)

\* The callback notifier delivered the last frame of the picture, and waits.
\* No frame comes of a picture whose request failed.
SnapshotDone ==
    /\ notifier = "idle"
    /\ CaptureRunning(hal)
    /\ hal.postproc \in {"armed", "captured"}
    /\ hal' = [hal EXCEPT !.postproc = "reported"]
    /\ evt_queue' = Append(evt_queue, Post("SNAPSHOT_DONE", hal.pic))
    /\ notifier' = "waiting"
    /\ UNCHANGED <<cur, api_queue, m_apiResultList, call>>

\* mutant: posted as an event (processEvt) instead of an API event.
StopCaptureAsEvt ==
    /\ hal.postproc = "armed"
    /\ hal.ch["CAPTURE"] = "active"
    /\ ~hal.longshot /\ ~hal.hint /\ ~hal.zsl
    /\ hal' = [hal EXCEPT !.postproc = "captured"]
    /\ evt_queue' = Append(evt_queue, Post("STOP_CAPTURE_CHANNEL", hal.pic))
    /\ UNCHANGED <<cur, api_queue, m_apiResultList, call, notifier>>

\* The postprocessor sent the only frame of a regular capture to be
\* reprocessed: the capture channel is not needed any more.
StopCapture ==
    /\ hal.postproc = "armed"
    /\ hal.ch["CAPTURE"] = "active"
    /\ ~hal.longshot /\ ~hal.hint /\ ~hal.zsl
    /\ hal' = [hal EXCEPT !.postproc = "captured"]
    /\ api_queue' = Append(api_queue, Post("STOP_CAPTURE_CHANNEL", hal.pic))
    /\ UNCHANGED <<cur, evt_queue, m_apiResultList, call, notifier>>

\* A metadata frame of a running channel says that the daemon is prepared.
PrepSnapshotDone ==
    /\ hal.prep
    /\ "active" \in {hal.ch["ZSL"], hal.ch["PREVIEW"]}
    /\ hal' = [hal EXCEPT !.prep = FALSE]
    /\ evt_queue' = Append(evt_queue, Post("PREP_SNAPSHOT_DONE", hal.pic))
    /\ UNCHANGED <<cur, api_queue, m_apiResultList, call, notifier>>

\* The live snapshot thread runs.  On an error it posts CANCEL_PICTURE
\* without m_lock and does not wait for the result.
LiveSnapshotThread ==
    /\ hal.live = "created"
    /\ \E o \in LiveSnapshot(hal) :
        /\ hal' = o.h
        /\ api_queue' = IF o.ok THEN api_queue
                        ELSE Append(api_queue, Post("CANCEL_PICTURE", hal.pic))
    /\ UNCHANGED <<cur, evt_queue, m_apiResultList, call, notifier>>

-----------------------------------------------------------------------------
(* The state machine thread: smEvtProcRoutine.                             *)

Dequeue ==
    /\ cur = NoCmd
    /\ IF api_queue # <<>>
       THEN /\ cur' = Head(api_queue)
            /\ api_queue' = Tail(api_queue)
            /\ UNCHANGED evt_queue
       ELSE /\ evt_queue # <<>>
            /\ cur' = Head(evt_queue)
            /\ evt_queue' = Tail(evt_queue)
            /\ UNCHANGED api_queue
    /\ UNCHANGED <<hal, m_apiResultList, call, notifier>>

Handling(s, E) == hal.m_state = s /\ cur.evt \in E

\* The handler returns, having signalled the results res to all that wait;
\* SNAPSHOT_DONE may have been posted by LONGSHOT_OFF meanwhile.
Handled(h, res) ==
    /\ hal' = [h EXCEPT !.posted = FALSE]
    /\ evt_queue' = IF h.posted THEN Append(evt_queue, Post("SNAPSHOT_DONE", h.pic))
                    ELSE evt_queue
    /\ m_apiResultList' = m_apiResultList \o res
    /\ call' = [c \in Caller |->
          [call[c] EXCEPT !.woken = @ \/ (call[c].evt # "none" /\ res # <<>>)]]
    /\ cur' = NoCmd
    /\ UNCHANGED api_queue

\* ... with signalAPIResult, with signalEvtResult, or without a result.
Reply(h, ok) ==
    /\ Handled(h, <<[evt |-> cur.evt, ok |-> ok]>>)
    /\ UNCHANGED notifier
ReplyEvt(h) ==
    /\ Handled(h, <<>>)
    /\ notifier' = "idle"
Ignore(h) ==
    /\ Handled(h, <<>>)
    /\ UNCHANGED notifier

ReplyOk(h) == Reply(h, TRUE)
Refuse(h) == Reply(h, FALSE)

\* The operation's status is the result; the state depends on it.
ReplyGoto(S, onOk, onError) ==
    \E o \in S : Reply(Goto(o.h, IF o.ok THEN onOk ELSE onError), o.ok)
ReplyStay(S) == ReplyGoto(S, hal.m_state, hal.m_state)

SetWindow(h) ==
    [h EXCEPT !.window = cur.evt = "SET_PREVIEW_WINDOW"]
\* SEND_COMMAND LONGSHOT_ON or LONGSHOT_OFF.
SendCommand(h) ==
    IF cur.evt = "LONGSHOT_ON" THEN LongshotOn(h) ELSE LongshotOff(h)

\* updateParameters; then what the handler does when a restart is needed
\* and when it is not.
Update(h) == {Out(UpdateParameters(h, cur.params), rc) : rc \in Rc("params")}
UpdateAndCommit == Then(Update(hal), CommitParameters)

NewPic(h) == [h EXCEPT !.pic = (h.pic + 1) % MaxPics]

\* SET_PARAMS in a state where the channels may be rebuilt by Rebuild.
SetParams(Rebuild(_), onError) ==
    \E u \in Update(hal) :
        \/ ~u.ok /\ Refuse(u.h)
        \/ /\ u.ok /\ ~NeedRestart(hal, cur.params)
           /\ ReplyStay(CommitParameters(u.h))
        \/ /\ u.ok /\ NeedRestart(hal, cur.params)
           /\ ReplyGoto(Rebuild(u.h), hal.m_state, onError)

RestartedPreview(h) == PrepareAndStart(StopPreview(h))

\* mutant: the channels are not prepared again.
RebuildReadyUnprepared(h) == CommitParameters(UnpreparePreview(h))

RebuildReady(h) == Always(CommitParameters(UnpreparePreview(h)), PreparePreview)
RebuildPreview(h) == Always(CommitParameters(StopPreview(h)), PrepareAndStart)

-----------------------------------------------------------------------------
(* procEvtPreviewStoppedState.                                             *)

Stopped(E) == Handling("PREVIEW_STOPPED", E)

StoppedSetWindow == Stopped(WindowEvts) /\ ReplyOk(SetWindow(hal))
StoppedSetParams == Stopped({"SET_PARAMS"}) /\ ReplyStay(UpdateAndCommit)
StoppedStartPreview ==
    /\ Stopped({"START_PREVIEW"})
    /\ IF hal.window
       THEN ReplyGoto(PrepareAndStart(hal), "PREVIEWING", "PREVIEW_STOPPED")
       ELSE ReplyGoto(PreparePreview(hal), "PREVIEW_READY", "PREVIEW_STOPPED")
StoppedStartNoDisplay ==
    /\ Stopped({"START_NODISPLAY_PREVIEW"})
    /\ ReplyGoto(PrepareAndStart(hal), "PREVIEWING", "PREVIEW_STOPPED")
StoppedRelease ==
    /\ Stopped({"RELEASE"})
    /\ ReplyOk([hal EXCEPT !.ch = [t \in ChType |-> "none"]])
StoppedCommand == Stopped(CommandEvts) /\ ReplyStay(SendCommand(hal))
StoppedNoOp ==
    /\ Stopped({"STOP_PREVIEW", "CANCEL_PICTURE", "REG_FACE_IMAGE", "GET_PARAMS"})
    /\ ReplyOk(hal)
StoppedInvalid ==
    /\ Stopped({"START_RECORDING", "STOP_RECORDING", "PREPARE_SNAPSHOT",
                "TAKE_PICTURE"})
    /\ Refuse(hal)
\* mutant: signalEvtResult is forgotten.
StoppedSnapshotDoneSilent == Stopped({"SNAPSHOT_DONE"}) /\ Ignore(hal)

StoppedSnapshotDone == Stopped({"SNAPSHOT_DONE"}) /\ ReplyEvt(hal)
StoppedIgnore ==
    Stopped({"STOP_CAPTURE_CHANNEL", "PREP_SNAPSHOT_DONE"}) /\ Ignore(hal)

PreviewStoppedState ==
    \/ StoppedSetWindow \/ StoppedSetParams \/ StoppedStartPreview
    \/ StoppedStartNoDisplay \/ StoppedRelease \/ StoppedCommand
    \/ StoppedNoOp \/ StoppedInvalid \/ StoppedSnapshotDone \/ StoppedIgnore

-----------------------------------------------------------------------------
(* procEvtPreviewReadyState.                                               *)

Ready(E) == Handling("PREVIEW_READY", E)

ReadySetWindow ==
    /\ Ready(WindowEvts)
    /\ LET h == SetWindow(hal)
       IN  IF h.window
           THEN ReplyGoto(StartOrUnprepare(h), "PREVIEWING", "PREVIEW_STOPPED")
           ELSE ReplyOk(h)
ReadySetParams ==
    Ready({"SET_PARAMS"}) /\ SetParams(RebuildReady, "PREVIEW_STOPPED")
ReadyStopPreview ==
    /\ Ready({"STOP_PREVIEW"})
    /\ ReplyOk(Goto(UnpreparePreview(hal), "PREVIEW_STOPPED"))
ReadyCommand == Ready(CommandEvts) /\ ReplyStay(SendCommand(hal))
ReadyNoOp ==
    Ready({"START_PREVIEW", "REG_FACE_IMAGE", "GET_PARAMS"}) /\ ReplyOk(hal)
ReadyInvalid ==
    /\ Ready({"START_NODISPLAY_PREVIEW", "START_RECORDING", "STOP_RECORDING",
              "PREPARE_SNAPSHOT", "TAKE_PICTURE", "CANCEL_PICTURE", "RELEASE"})
    /\ Refuse(hal)
ReadySnapshotDone == Ready({"SNAPSHOT_DONE"}) /\ ReplyEvt(hal)
ReadyIgnore == Ready({"STOP_CAPTURE_CHANNEL", "PREP_SNAPSHOT_DONE"}) /\ Ignore(hal)

PreviewReadyState ==
    \/ ReadySetWindow \/ ReadySetParams \/ ReadyStopPreview \/ ReadyCommand
    \/ ReadyNoOp \/ ReadyInvalid \/ ReadySnapshotDone \/ ReadyIgnore

-----------------------------------------------------------------------------
(* procEvtPreviewingState.                                                 *)

Previewing(E) == Handling("PREVIEWING", E)

PreviewingSetParams ==
    Previewing({"SET_PARAMS"}) /\ SetParams(RebuildPreview, "PREVIEW_STOPPED")
PreviewingStopPreview ==
    /\ Previewing({"STOP_PREVIEW"})
    /\ ReplyOk(Goto(StopPreview(hal), "PREVIEW_STOPPED"))
PreviewingStartRecording ==
    /\ Previewing({"START_RECORDING"})
    /\ ReplyGoto(StartRecording(hal), "RECORDING", "PREVIEWING")

\* No result yet when the daemon accepts; PREP_SNAPSHOT_DONE brings it.
PreviewingPrepareSnapshot ==
    /\ Previewing({"PREPARE_SNAPSHOT"})
    /\ \/ Ignore([Goto(hal, "PREPARE_SNAPSHOT") EXCEPT !.prep = TRUE])
       \/ "prepare" \in MayFail /\ Refuse(hal)

\* The recording hint is dropped first and the preview rebuilt; an error of
\* that is overwritten by the status of takePicture.
WithoutHint(h) ==
    IF ~h.hint THEN Done(h)
    ELSE Always(UpdateRecordingHintValue(StopPreview(h), FALSE), PrepareAndStart)
TakeInPreview(h) ==
    IF h.zsl \/ h.longshot
    THEN {Out(Goto(o.h, IF o.ok THEN "PREVIEW_PIC_TAKING" ELSE "PREVIEWING"), o.ok) :
            o \in TakePicture(Goto(h, "PREVIEW_PIC_TAKING"))}
    ELSE {Out(Goto(o.h, IF o.ok THEN "PIC_TAKING" ELSE "PREVIEW_STOPPED"), o.ok) :
            o \in TakePicture(Goto(h, "PIC_TAKING"))}
PreviewingTakePicture ==
    /\ Previewing({"TAKE_PICTURE"})
    /\ \E o \in Always(WithoutHint(NewPic(hal)), TakeInPreview) : Reply(o.h, o.ok)

PreviewingCommand ==
    /\ Previewing(CommandEvts)
    /\ \/ ReplyStay(SendCommand(hal))
       \/ /\ cur.evt = "LONGSHOT_ON" /\ MayNeedRestart(hal)
          /\ ReplyStay(Always(SendCommand(hal), RestartedPreview))
PreviewingNoOp ==
    /\ Previewing({"START_PREVIEW", "START_NODISPLAY_PREVIEW", "REG_FACE_IMAGE",
                   "GET_PARAMS"})
    /\ ReplyOk(hal)
PreviewingInvalid ==
    /\ Previewing(WindowEvts \cup {"CANCEL_PICTURE", "STOP_RECORDING", "RELEASE"})
    /\ Refuse(hal)
PreviewingSnapshotDone == Previewing({"SNAPSHOT_DONE"}) /\ ReplyEvt(hal)
PreviewingIgnore ==
    Previewing({"STOP_CAPTURE_CHANNEL", "PREP_SNAPSHOT_DONE"}) /\ Ignore(hal)

PreviewingState ==
    \/ PreviewingSetParams \/ PreviewingStopPreview \/ PreviewingStartRecording
    \/ PreviewingPrepareSnapshot \/ PreviewingTakePicture \/ PreviewingCommand
    \/ PreviewingNoOp \/ PreviewingInvalid \/ PreviewingSnapshotDone
    \/ PreviewingIgnore

-----------------------------------------------------------------------------
(* procEvtPrepareSnapshotState.                                            *)

Preparing(E) == Handling("PREPARE_SNAPSHOT", E)

PreparingInvalid == Preparing(ApiEvt \ {"REG_FACE_IMAGE"}) /\ Refuse(hal)

\* mutant: the state is not left.
PreparingDoneStays ==
    /\ Preparing({"PREP_SNAPSHOT_DONE"})
    /\ Handled(hal, <<[evt |-> "PREPARE_SNAPSHOT", ok |-> TRUE]>>)
    /\ UNCHANGED notifier
\* mutant: the caller of PREPARE_SNAPSHOT is not answered.
PreparingDoneSilent ==
    Preparing({"PREP_SNAPSHOT_DONE"}) /\ Ignore(Goto(hal, "PREVIEWING"))

PreparingDone ==
    /\ Preparing({"PREP_SNAPSHOT_DONE"})
    /\ Handled(Goto(hal, "PREVIEWING"),
               <<[evt |-> "PREPARE_SNAPSHOT", ok |-> TRUE]>>)
    /\ UNCHANGED notifier
PreparingSnapshotDone == Preparing({"SNAPSHOT_DONE"}) /\ ReplyEvt(hal)

\* REG_FACE_IMAGE is in no case of this handler: no result is signalled.
PreparingIgnore ==
    Preparing({"REG_FACE_IMAGE", "STOP_CAPTURE_CHANNEL"}) /\ Ignore(hal)

PrepareSnapshotState ==
    PreparingInvalid \/ PreparingDone \/ PreparingSnapshotDone \/ PreparingIgnore

-----------------------------------------------------------------------------
(* procEvtPicTakingState.                                                  *)

PicTaking(E) == Handling("PIC_TAKING", E)

PicTakingSetParams == PicTaking({"SET_PARAMS"}) /\ ReplyStay(UpdateAndCommit)
PicTakingCancel ==
    /\ PicTaking({"STOP_PREVIEW", "CANCEL_PICTURE"})
    /\ ReplyOk(Goto(CancelPicture(hal), "PREVIEW_STOPPED"))
PicTakingLongshotOn == PicTaking({"LONGSHOT_ON"}) /\ ReplyStay(LongshotOn(hal))
PicTakingLongshotOff ==
    /\ PicTaking({"LONGSHOT_OFF"})
    /\ ReplyGoto(LongshotOff(hal), "PREVIEWING", "PREVIEWING")
PicTakingTakePicture ==
    /\ PicTaking({"TAKE_PICTURE"})
    /\ IF hal.longshot THEN ReplyStay(LongShot(hal)) ELSE Refuse(hal)
PicTakingNoOp == PicTaking({"REG_FACE_IMAGE", "GET_PARAMS"}) /\ ReplyOk(hal)
PicTakingInvalid ==
    /\ PicTaking(WindowEvts \cup {"PREPARE_SNAPSHOT", "START_RECORDING",
                 "STOP_RECORDING", "START_PREVIEW", "START_NODISPLAY_PREVIEW",
                 "RELEASE"})
    /\ Refuse(hal)
PicTakingStopCapture ==
    /\ PicTaking({"STOP_CAPTURE_CHANNEL"})
    /\ LET h == StopCaptureChannel(hal, RestartPreview)
       IN  \E o \in IF RestartPreview
                    THEN Then(PreparePreview(h), StartPreview) ELSE Done(h) :
            Ignore(o.h)
AfterPicture == IF RestartPreview THEN "PREVIEWING" ELSE "PREVIEW_STOPPED"
\* mutant: the picture goes on.
PicTakingSnapshotDoneStays == PicTaking({"SNAPSHOT_DONE"}) /\ ReplyEvt(hal)

PicTakingSnapshotDone ==
    PicTaking({"SNAPSHOT_DONE"}) /\ ReplyEvt(Goto(CancelPicture(hal), AfterPicture))

PicTakingState ==
    \/ PicTakingSetParams \/ PicTakingCancel \/ PicTakingLongshotOn
    \/ PicTakingLongshotOff \/ PicTakingTakePicture \/ PicTakingNoOp
    \/ PicTakingInvalid \/ PicTakingStopCapture \/ PicTakingSnapshotDone

-----------------------------------------------------------------------------
(* procEvtRecordingState.                                                  *)

Recording(E) == Handling("RECORDING", E)

\* A change that needs a restart is refused after updateParameters took it.
SetParamsNoRestart ==
    \E u \in Update(hal) :
        IF u.ok /\ ~NeedRestart(hal, cur.params)
        THEN ReplyStay(CommitParameters(u.h))
        ELSE Refuse(u.h)

RecordingSetParams == Recording({"SET_PARAMS"}) /\ SetParamsNoRestart
RecordingTakePicture ==
    /\ Recording({"TAKE_PICTURE"})
    /\ \/ ReplyOk([Goto(NewPic(hal), "VIDEO_PIC_TAKING") EXCEPT !.live = "created"])
       \/ "thread" \in MayFail /\ Refuse(NewPic(hal))
RecordingStopRecording ==
    /\ Recording({"STOP_RECORDING"})
    /\ ReplyOk(Goto(StopRecording(hal), "PREVIEWING"))
RecordingStopPreview ==
    /\ Recording({"STOP_PREVIEW"})
    /\ ReplyOk(Goto(StopPreview(StopRecording(hal)), "PREVIEW_STOPPED"))
RecordingCommand == Recording(CommandEvts) /\ ReplyStay(SendCommand(hal))
RecordingNoOp ==
    /\ Recording(WindowEvts \cup {"START_PREVIEW", "START_RECORDING",
                 "PREPARE_SNAPSHOT", "REG_FACE_IMAGE", "GET_PARAMS"})
    /\ ReplyOk(hal)
RecordingInvalid ==
    /\ Recording({"CANCEL_PICTURE", "START_NODISPLAY_PREVIEW", "RELEASE"})
    /\ Refuse(hal)
RecordingSnapshotDone == Recording({"SNAPSHOT_DONE"}) /\ ReplyEvt(hal)
RecordingIgnore ==
    Recording({"STOP_CAPTURE_CHANNEL", "PREP_SNAPSHOT_DONE"}) /\ Ignore(hal)

RecordingState ==
    \/ RecordingSetParams \/ RecordingTakePicture \/ RecordingStopRecording
    \/ RecordingStopPreview \/ RecordingCommand \/ RecordingNoOp
    \/ RecordingInvalid \/ RecordingSnapshotDone \/ RecordingIgnore

-----------------------------------------------------------------------------
(* procEvtVideoPicTakingState.                                             *)

VideoPic(E) == Handling("VIDEO_PIC_TAKING", E)

\* cancelLiveSnapshot first joins the live snapshot thread.
Joined == hal.live # "created"

VideoPicSetParams == VideoPic({"SET_PARAMS"}) /\ SetParamsNoRestart
VideoPicCancel ==
    /\ VideoPic({"CANCEL_PICTURE"}) /\ Joined
    /\ ReplyOk(Goto(CancelLiveSnapshot(hal), "RECORDING"))
VideoPicStopRecording ==
    /\ VideoPic({"STOP_RECORDING"}) /\ Joined
    /\ ReplyOk(Goto(StopRecording(CancelLiveSnapshot(hal)), "PREVIEWING"))
VideoPicStopPreview ==
    /\ VideoPic({"STOP_PREVIEW"}) /\ Joined
    /\ LET h == StopRecording(CancelLiveSnapshot(hal))
       IN  ReplyOk(Goto(StopPreview(h), "PREVIEW_STOPPED"))
VideoPicCommand == VideoPic(CommandEvts) /\ ReplyStay(SendCommand(hal))
VideoPicNoOp == VideoPic({"REG_FACE_IMAGE", "GET_PARAMS"}) /\ ReplyOk(hal)
VideoPicInvalid ==
    /\ VideoPic(WindowEvts \cup {"START_RECORDING", "START_PREVIEW",
                "START_NODISPLAY_PREVIEW", "PREPARE_SNAPSHOT", "TAKE_PICTURE",
                "RELEASE"})
    /\ Refuse(hal)
VideoPicSnapshotDone ==
    /\ VideoPic({"SNAPSHOT_DONE"}) /\ Joined
    /\ ReplyEvt(Goto(CancelLiveSnapshot(hal), "RECORDING"))
VideoPicIgnore ==
    VideoPic({"STOP_CAPTURE_CHANNEL", "PREP_SNAPSHOT_DONE"}) /\ Ignore(hal)

VideoPicTakingState ==
    \/ VideoPicSetParams \/ VideoPicCancel \/ VideoPicStopRecording
    \/ VideoPicStopPreview \/ VideoPicCommand \/ VideoPicNoOp
    \/ VideoPicInvalid \/ VideoPicSnapshotDone \/ VideoPicIgnore

-----------------------------------------------------------------------------
(* procEvtPreviewPicTakingState.                                           *)

PreviewPic(E) == Handling("PREVIEW_PIC_TAKING", E)

CancelInPreview(h) ==
    IF h.zsl \/ h.longshot THEN CancelPicture(h) ELSE CancelLiveSnapshot(h)

PreviewPicSetParams ==
    PreviewPic({"SET_PARAMS"}) /\ SetParams(RebuildPreview, "PIC_TAKING")
PreviewPicCancel ==
    /\ PreviewPic({"CANCEL_PICTURE"})
    /\ ReplyOk(Goto(CancelInPreview(hal), "PREVIEWING"))
PreviewPicStopPreview ==
    /\ PreviewPic({"STOP_PREVIEW"})
    /\ ReplyOk(Goto(UnpreparePreview(CancelInPreview(hal)), "PREVIEW_STOPPED"))
PreviewPicStartRecording ==
    /\ PreviewPic({"START_RECORDING"})
    /\ IF hal.zsl \/ hal.longshot THEN Refuse(hal)
       ELSE ReplyGoto(StartRecording(hal), "VIDEO_PIC_TAKING", "PREVIEW_PIC_TAKING")
PreviewPicLongshotOn == PreviewPic({"LONGSHOT_ON"}) /\ ReplyStay(LongshotOn(hal))
PreviewPicLongshotOff ==
    /\ PreviewPic({"LONGSHOT_OFF"})
    /\ ReplyGoto(LongshotOff(hal), "PREVIEWING", "PREVIEWING")
PreviewPicTakePicture ==
    /\ PreviewPic({"TAKE_PICTURE"})
    /\ IF hal.longshot THEN ReplyStay(LongShot(hal)) ELSE Refuse(hal)
PreviewPicNoOp == PreviewPic({"REG_FACE_IMAGE", "GET_PARAMS"}) /\ ReplyOk(hal)
PreviewPicInvalid ==
    /\ PreviewPic(WindowEvts \cup {"PREPARE_SNAPSHOT", "STOP_RECORDING",
                  "START_PREVIEW", "START_NODISPLAY_PREVIEW", "RELEASE"})
    /\ Refuse(hal)
PreviewPicSnapshotDone ==
    /\ PreviewPic({"SNAPSHOT_DONE"})
    /\ ReplyEvt(Goto(CancelInPreview(hal), "PREVIEWING"))
PreviewPicIgnore ==
    PreviewPic({"STOP_CAPTURE_CHANNEL", "PREP_SNAPSHOT_DONE"}) /\ Ignore(hal)

PreviewPicTakingState ==
    \/ PreviewPicSetParams \/ PreviewPicCancel \/ PreviewPicStopPreview
    \/ PreviewPicStartRecording \/ PreviewPicLongshotOn \/ PreviewPicLongshotOff
    \/ PreviewPicTakePicture \/ PreviewPicNoOp \/ PreviewPicInvalid
    \/ PreviewPicSnapshotDone \/ PreviewPicIgnore

-----------------------------------------------------------------------------
(* The specification.                                                      *)

StateMachine ==
    \/ PreviewStoppedState \/ PreviewReadyState \/ PreviewingState
    \/ PrepareSnapshotState \/ PicTakingState \/ RecordingState
    \/ VideoPicTakingState \/ PreviewPicTakingState

Next ==
    \/ \E c \in Caller : Enter(c) \/ WaitAPIResult(c)
    \/ SnapshotDone \/ StopCapture \/ PrepSnapshotDone \/ LiveSnapshotThread
    \/ Dequeue \/ StateMachine

Spec == Init /\ [][Next]_vars

\* Threads that can run do: the state machine thread, the live snapshot
\* thread, a caller whose result has come, the threads that bring frames.
Fairness ==
    /\ WF_vars(Dequeue \/ StateMachine)
    /\ WF_vars(LiveSnapshotThread)
    /\ WF_vars(SnapshotDone)
    /\ WF_vars(PrepSnapshotDone)
    /\ \A c \in Caller : WF_vars(WaitAPIResult(c))

FairSpec == Spec /\ Fairness

-----------------------------------------------------------------------------
(* Properties.                                                             *)

\* Every variable has its type: the state machine is in one of its eight
\* states, a channel in one of four, and the queues hold commands.
TypeOK ==
    /\ hal \in Device
    /\ cur \in Cmd
    /\ api_queue \in Seq(Cmd)
    /\ evt_queue \in Seq(Cmd)
    /\ m_apiResultList \in Seq(Result)
    /\ call \in [Caller -> CallState]
    /\ notifier \in {"idle", "waiting"}

Streams(T) == \E t \in T : hal.ch[t] = "active"

\* The video channel streams exactly in the two recording states, whatever
\* fails and however the recording was entered and left.
VideoIffRecording ==
    Streams({"VIDEO"}) <=> hal.m_state \in {"RECORDING", "VIDEO_PIC_TAKING"}

\* While the state machine says that the preview runs, frames come from the
\* ZSL or the preview channel: what PREPARE_SNAPSHOT and ZSL rely on.
PreviewStreams ==
    hal.m_state \in {"PREVIEWING", "PREPARE_SNAPSHOT", "PREVIEW_PIC_TAKING"} =>
        Streams({"ZSL", "PREVIEW"})

\* A recording has its own preview channel, never a ZSL channel only: the
\* metadata of the video frames comes from it.
RecordingHasPreview ==
    hal.m_state \in {"RECORDING", "VIDEO_PIC_TAKING"} => Streams({"PREVIEW"})

\* PREVIEW_READY means that setting the window only has to start a channel
\* that is there and not started.
ReadyIsPrepared ==
    hal.m_state = "PREVIEW_READY" =>
        \E t \in {"ZSL", "PREVIEW"} : hal.ch[t] = "idle"

\* The camera never has a ZSL and a preview channel at a time: both would
\* stream to the one window.
OnePreview == \E t \in {"ZSL", "PREVIEW"} : hal.ch[t] = "none"

\* A live snapshot, its thread and its channel, does not outlive the state
\* VIDEO_PIC_TAKING, on whichever of its exits that is left.
LiveSnapshotOnlyInVideo ==
    hal.live # "none" \/ Streams({"SNAPSHOT"}) => hal.m_state = "VIDEO_PIC_TAKING"

\* The postprocessor and the notifier work only while a picture is taken:
\* every exit of the picture taking states stops them.
PostProcOnlyForPicture == ~CaptureRunning(hal) => hal.postproc = "stopped"

\* Nothing streams when the preview is stopped.
QuietWhenStopped == hal.m_state = "PREVIEW_STOPPED" => ~Streams(ChType)

\* A capture or raw channel exists only in PIC_TAKING and has the sensor
\* for itself: no preview and no recording streams beside it.
PictureIsAlone ==
    hal.ch["CAPTURE"] # "none" \/ hal.ch["RAW"] # "none" =>
        hal.m_state = "PIC_TAKING" /\ ~Streams({"ZSL", "PREVIEW", "VIDEO"})

Queued(e) == cur.evt = e \/ \E i \in 1 .. Len(evt_queue) : evt_queue[i].evt = e

\* PREPARE_SNAPSHOT is never left without a way out: the daemon still
\* prepares, or its event is queued (or being handled).
PrepareWillEnd ==
    hal.m_state = "PREPARE_SNAPSHOT" => hal.prep \/ Queued("PREP_SNAPSHOT_DONE")

\* A notifier that waits in processSyncEvt has its SNAPSHOT_DONE queued:
\* every state answers the event with signalEvtResult.
NotifierAnswered == notifier = "waiting" => Queued("SNAPSHOT_DONE")

\* STOP_CAPTURE_CHANNEL stops the channel of the picture it was posted for.
StopCaptureIsForThisPicture ==
    cur.evt = "STOP_CAPTURE_CHANNEL" /\ hal.m_state = "PIC_TAKING" =>
        cur.pic = hal.pic

\* SNAPSHOT_DONE ends the picture whose frames were delivered, not a later
\* one that was started meanwhile.
DoneIsForThisPicture ==
    cur.evt = "SNAPSHOT_DONE" /\ CaptureRunning(hal) => cur.pic = hal.pic

\* While a recording runs, no call changes a mode that needs a restart.
ModesFixedWhileRecording ==
    [][hal.m_state = "RECORDING" /\ hal'.m_state = "RECORDING" =>
        hal'.zsl = hal.zsl /\ hal'.hint = hal.hint]_vars

\* Every call of the camera device returns.
EveryCallReturns == \A c \in Caller : []<>(call[c].evt = "none")

\* When the callers make no more calls, a picture that is being taken comes
\* to its end (a caller that keeps calling can hold SNAPSHOT_DONE back for
\* ever, because api_queue goes before evt_queue).
PictureEnds ==
    <>[][\A c \in Caller : ~Enter(c)]_vars => []<>(~CaptureRunning(hal))
\* The preview streams, from one channel, in the states that have a preview,
\* and PREVIEW_READY has a channel prepared for it.
PreviewFollowsState == PreviewStreams /\ OnePreview /\ ReadyIsPrepared

\* The channels are those of the state: a recording has its preview, nothing
\* streams when stopped, a capture channel is alone.
ChannelsFollowState == RecordingHasPreview /\ QuietWhenStopped /\ PictureIsAlone

\* Every caller of the API is answered, and a picture ends once its caller
\* falls silent.
CallsAndPicturesEnd == EveryCallReturns /\ PictureEnds
=============================================================================
