------------------------ MODULE HalStateMachineProofs ------------------------
(* Theorems about the state machine, for any callers, calls, failures and  *)
(* picture formats.  IInv is inductive.  Its part about the device, Good,  *)
(* is kept because every handler ends in a device that is Good for the     *)
(* state it enters: outside a recording the device is Calm (no video, no   *)
(* live snapshot) and every operation keeps it so, and only StartRecording *)
(* and the thread of a live snapshot start one of the two channels.        *)
(* What the operations of the device preserve comes first: a Quiet outcome *)
(* keeps the state and the live snapshot thread and starts neither the     *)
(* video nor the snapshot channel; a Keep outcome leaves these two alone.  *)
(* Then the machine implements HalApi.  For a camera that does not fail    *)
(* and callers that send no longshot command, FInv is inductive too: the   *)
(* channels, the modes and the postprocessor fit the state (Fits).  Last,  *)
(* with one caller, STOP_CAPTURE_CHANNEL comes in time (StopsInTime).      *)

EXTENDS HalStateMachineApi, QueuesProofs

Started(g, h, t) == g.ch[t] = "active" => h.ch[t] = "active"

Quiet(h) == {g \in Device : /\ g.m_state = h.m_state
                            /\ g.live = h.live
                            /\ Started(g, h, "VIDEO")
                            /\ Started(g, h, "SNAPSHOT")}

Keep(h) == {g \in Device : /\ g.m_state = h.m_state
                           /\ g.live = h.live
                           /\ g.ch["VIDEO"] = h.ch["VIDEO"]
                           /\ g.ch["SNAPSHOT"] = h.ch["SNAPSHOT"]}

QuietOut(h) == [h : Quiet(h), ok : BOOLEAN]
KeepOut(h) == [h : Keep(h), ok : BOOLEAN]

-----------------------------------------------------------------------------
(* The relations are reflexive and transitive, and Keep is the stronger.   *)

LEMMA QuietSelf == ASSUME NEW h \in Device PROVE h \in Quiet(h)
BY DEF Quiet, Started

LEMMA QuietDevice == ASSUME NEW h, NEW g \in Quiet(h) PROVE g \in Device
BY DEF Quiet

LEMMA QuietTrans ==
    ASSUME NEW h, NEW g \in Quiet(h), NEW f \in Quiet(g) PROVE f \in Quiet(h)
BY DEF Quiet, Started

LEMMA KeepIsQuiet == ASSUME NEW h, NEW g \in Keep(h) PROVE g \in Quiet(h)
BY DEF Quiet, Keep, Started

LEMMA KeepSelf == ASSUME NEW h \in Device PROVE h \in Keep(h)
BY DEF Keep

LEMMA KeepDevice == ASSUME NEW h, NEW g \in Keep(h) PROVE g \in Device
BY DEF Keep

LEMMA KeepTrans ==
    ASSUME NEW h, NEW g \in Keep(h), NEW f \in Keep(g) PROVE f \in Keep(h)
BY DEF Keep

-----------------------------------------------------------------------------
(* Sets of outcomes.                                                       *)

LEMMA OutQuiet ==
    ASSUME NEW h, NEW g \in Quiet(h), NEW ok \in BOOLEAN
    PROVE  Out(g, ok) \in QuietOut(h)
BY DEF Out, QuietOut

LEMMA OutKeep ==
    ASSUME NEW h, NEW g \in Keep(h), NEW ok \in BOOLEAN
    PROVE  Out(g, ok) \in KeepOut(h)
BY DEF Out, KeepOut

LEMMA KeepOutQuiet == ASSUME NEW h PROVE KeepOut(h) \subseteq QuietOut(h)
BY KeepIsQuiet DEF KeepOut, QuietOut

LEMMA QuietOutTrans ==
    ASSUME NEW h, NEW g \in Quiet(h) PROVE QuietOut(g) \subseteq QuietOut(h)
BY QuietTrans DEF QuietOut

LEMMA KeepOutTrans ==
    ASSUME NEW h, NEW g \in Keep(h) PROVE KeepOut(g) \subseteq KeepOut(h)
BY KeepTrans DEF KeepOut

LEMMA RcBoolean == ASSUME NEW kind PROVE Rc(kind) \subseteq BOOLEAN
BY DEF Rc

-----------------------------------------------------------------------------
(* Channels.                                                               *)

LEMMA SetChDevice ==
    ASSUME NEW h \in Device, NEW t \in ChType, NEW s \in ChStatus
    PROVE  SetCh(h, t, s) \in Device
BY DEF SetCh, Device

LEMMA SetChFields ==
    ASSUME NEW h \in Device, NEW t \in ChType, NEW s \in ChStatus
    PROVE  /\ SetCh(h, t, s).m_state = h.m_state
           /\ SetCh(h, t, s).live = h.live
           /\ \A u \in ChType :
                  SetCh(h, t, s).ch[u] = IF u = t THEN s ELSE h.ch[u]
<1>1. SetCh(h, t, s).m_state = h.m_state /\ SetCh(h, t, s).live = h.live
  BY DEF SetCh, Device
<1>2. SetCh(h, t, s).ch = [h.ch EXCEPT ![t] = s]
  BY DEF SetCh, Device
<1>3. h.ch \in [ChType -> ChStatus]
  BY DEF Device
<1> QED
  BY <1>1, <1>2, <1>3

LEMMA SetChQuiet ==
    ASSUME NEW h \in Device, NEW t \in ChType, NEW s \in ChStatus,
           s # "active" \/ t \notin {"VIDEO", "SNAPSHOT"}
    PROVE  SetCh(h, t, s) \in Quiet(h)
<1>1. "VIDEO" \in ChType /\ "SNAPSHOT" \in ChType
  BY DEF ChType
<1> QED
  BY <1>1, SetChDevice, SetChFields DEF Quiet, Started

LEMMA SetChKeep ==
    ASSUME NEW h \in Device, NEW t \in ChType, NEW s \in ChStatus,
           t \notin {"VIDEO", "SNAPSHOT"}
    PROVE  SetCh(h, t, s) \in Keep(h)
<1>1. "VIDEO" \in ChType /\ "SNAPSHOT" \in ChType
  BY DEF ChType
<1> QED
  BY <1>1, SetChDevice, SetChFields DEF Keep

LEMMA DelChannelQuiet ==
    ASSUME NEW h \in Device, NEW t \in ChType PROVE DelChannel(h, t) \in Quiet(h)
BY SetChQuiet DEF DelChannel, ChStatus

LEMMA DelChannelKeep ==
    ASSUME NEW h \in Device, NEW t \in ChType, t \notin {"VIDEO", "SNAPSHOT"}
    PROVE  DelChannel(h, t) \in Keep(h)
BY SetChKeep DEF DelChannel, ChStatus

LEMMA StopChannelQuiet ==
    ASSUME NEW h \in Device, NEW t \in ChType
    PROVE  StopChannel(h, t) \in Quiet(h)
BY SetChQuiet, QuietSelf DEF StopChannel, ChStatus

LEMMA AddChannelQuiet ==
    ASSUME NEW h \in Device, NEW t \in ChType
    PROVE  AddChannel(h, t) \subseteq QuietOut(h)
<1> DEFINE d == IF t = "ZSL" THEN DelChannel(h, "PREVIEW") ELSE h
<1>1. d \in Quiet(h) /\ d \in Device
  BY DelChannelQuiet, QuietSelf, QuietDevice DEF ChType
<1> HIDE DEF d
<1>2. \A rc \in BOOLEAN : SetCh(d, t, IF rc THEN "idle" ELSE "none") \in Quiet(h)
  BY <1>1, SetChQuiet, QuietTrans DEF ChStatus
<1>3. \A rc \in Rc("add") :
          Out(SetCh(d, t, IF rc THEN "idle" ELSE "none"), rc) \in QuietOut(h)
  BY <1>2, OutQuiet, RcBoolean
<1> QED
  BY <1>3 DEF AddChannel, d

LEMMA StartChannelOut ==
    ASSUME NEW h \in Device, NEW t \in ChType, NEW o \in StartChannel(h, t)
    PROVE  /\ o.ok \in BOOLEAN
           /\ o.h = h \/ o.h = SetCh(h, t, "active")
           /\ ~o.ok => o.h = h
           /\ o.ok => o.h = SetCh(h, t, "active")
<1>1. CASE h.ch[t] \in {"none", "closed"}
  <2>1. o = Out(h, FALSE)
    BY <1>1 DEF StartChannel, Error
  <2> QED
    BY <2>1 DEF Out
<1>2. CASE h.ch[t] \notin {"none", "closed"}
  <2>1. PICK rc \in Rc("start") :
            o = Out(IF rc THEN SetCh(h, t, "active") ELSE h, rc)
    BY <1>2 DEF StartChannel
  <2> QED
    BY <2>1, RcBoolean DEF Out
<1> QED
  BY <1>1, <1>2

LEMMA StartChannelQuiet ==
    ASSUME NEW h \in Device, NEW t \in ChType, t \notin {"VIDEO", "SNAPSHOT"}
    PROVE  StartChannel(h, t) \subseteq QuietOut(h)
<1> SUFFICES ASSUME NEW o \in StartChannel(h, t) PROVE o \in QuietOut(h)
  OBVIOUS
<1>1. h \in Quiet(h) /\ SetCh(h, t, "active") \in Quiet(h)
  BY QuietSelf, SetChQuiet DEF ChStatus
<1>2. PICK g, ok : o = Out(g, ok) /\ g \in Quiet(h) /\ ok \in BOOLEAN
  BY <1>1 DEF StartChannel, Error, Rc
<1> QED
  BY <1>2, OutQuiet

LEMMA RequestPictureKeep ==
    ASSUME NEW h \in Device, NEW t
    PROVE  RequestPicture(h, t) \subseteq KeepOut(h)
<1>1. \A rc \in BOOLEAN : Out(h, rc) \in KeepOut(h)
  BY KeepSelf, OutKeep
<1> QED
  BY <1>1, RcBoolean DEF RequestPicture

-----------------------------------------------------------------------------
(* Parameters.                                                             *)

LEMMA InitBatchUpdateKeep ==
    ASSUME NEW h \in Device PROVE InitBatchUpdate(h) \in Keep(h)
BY DEF InitBatchUpdate, Keep, Device

LEMMA SetRecordingHintValueKeep ==
    ASSUME NEW h \in Device, NEW v \in BOOLEAN
    PROVE  SetRecordingHintValue(h, v) \in Keep(h)
BY DEF SetRecordingHintValue, Keep, Device

LEMMA UpdateParametersKeep ==
    ASSUME NEW h \in Device, NEW p \in Params
    PROVE  UpdateParameters(h, p) \in Keep(h)
<1> DEFINE b == InitBatchUpdate(h)
           z == [b EXCEPT !.zslNew = p.zsl]
           r == SetRecordingHintValue(z, p.hint)
           f == [r EXCEPT !.hintTmp = p.hint]
<1>1. p.zsl \in BOOLEAN /\ p.hint \in BOOLEAN
  BY DEF Params
<1>2. b \in Keep(h) /\ b \in Device
  BY InitBatchUpdateKeep, KeepDevice
<1> HIDE DEF b
<1>3. z \in Keep(b)
  BY <1>1, <1>2 DEF Keep, Device
<1>4. z \in Keep(h) /\ z \in Device
  BY <1>2, <1>3, KeepTrans, KeepDevice
<1> HIDE DEF z
<1>5. r \in Keep(z) /\ r \in Device
  BY <1>1, <1>4, SetRecordingHintValueKeep, KeepDevice
<1> HIDE DEF r
<1>6. f \in Keep(r)
  BY <1>1, <1>5 DEF Keep, Device
<1>7. f \in Keep(h)
  BY <1>4, <1>5, <1>6, KeepTrans
<1> QED
  BY <1>4, <1>7 DEF UpdateParameters, f, r, z, b

LEMMA CommitParamChangesKeep ==
    ASSUME NEW h \in Device PROVE CommitParamChanges(h) \in Keep(h)
BY DEF CommitParamChanges, Keep, Device

LEMMA CommitParametersKeep ==
    ASSUME NEW h \in Device PROVE CommitParameters(h) \subseteq KeepOut(h)
<1>1. \A rc \in BOOLEAN :
          Out(IF rc THEN CommitParamChanges(h) ELSE h, rc) \in KeepOut(h)
  BY CommitParamChangesKeep, KeepSelf, OutKeep
<1> QED
  BY <1>1, RcBoolean DEF CommitParameters

LEMMA UpdateRecordingHintValueKeep ==
    ASSUME NEW h \in Device, NEW v \in BOOLEAN
    PROVE  UpdateRecordingHintValue(h, v) \subseteq KeepOut(h)
<1> DEFINE b == InitBatchUpdate(h)
           s == SetRecordingHintValue(b, v)
<1>1. b \in Keep(h) /\ b \in Device
  BY InitBatchUpdateKeep, KeepDevice
<1>2. s \in Keep(h) /\ s \in Device
  BY <1>1, SetRecordingHintValueKeep, KeepTrans, KeepDevice
<1> HIDE DEF s
<1>3. CommitParameters(s) \subseteq KeepOut(h)
  BY <1>2, CommitParametersKeep, KeepOutTrans
<1> QED
  BY <1>3 DEF UpdateRecordingHintValue, s

LEMMA SetLongshotEnableKeep ==
    ASSUME NEW h \in Device PROVE SetLongshotEnable(h) \subseteq KeepOut(h)
<1>1. InitBatchUpdate(h) \in Keep(h) /\ InitBatchUpdate(h) \in Device
  BY InitBatchUpdateKeep, KeepDevice
<1> QED
  BY <1>1, CommitParametersKeep, KeepOutTrans DEF SetLongshotEnable

-----------------------------------------------------------------------------
(* Pictures and the longshot command.                                      *)

LEMMA StopPostProcKeep ==
    ASSUME NEW h \in Device PROVE StopPostProc(h) \in Keep(h)
BY DEF StopPostProc, Keep, Device, PostProc

LEMMA StartPostProcKeep ==
    ASSUME NEW h \in Device PROVE StartPostProc(h) \subseteq KeepOut(h)
<1> DEFINE g == [h EXCEPT !.postproc = IF h.longshot THEN "longshot" ELSE "armed"]
<1>1. g \in Keep(h)
  BY DEF Keep, Device, PostProc
<1> HIDE DEF g
<1>2. \A rc \in BOOLEAN : Out(IF rc THEN g ELSE h, rc) \in KeepOut(h)
  BY <1>1, KeepSelf, OutKeep
<1> QED
  BY <1>2, RcBoolean DEF StartPostProc, g

LEMMA CancelPictureKeep ==
    ASSUME NEW h \in Device PROVE CancelPicture(h) \in Keep(h)
<1>1. StopPostProc(h) \in Keep(h) /\ StopPostProc(h) \in Device
  BY StopPostProcKeep, KeepDevice
<1>2. \A t \in {"CAPTURE", "RAW"} : DelChannel(StopPostProc(h), t) \in Keep(h)
  BY <1>1, DelChannelKeep, KeepTrans DEF ChType
<1> QED
  BY <1>1, <1>2 DEF CancelPicture

LEMMA LongshotOffKeep ==
    ASSUME NEW h \in Device PROVE LongshotOff(h) \subseteq KeepOut(h)
<1> DEFINE p == CancelPicture(h)
           q == [p EXCEPT !.posted = TRUE]
           c == IF h.longshot /\ CaptureRunning(h) THEN q ELSE h
           d == [c EXCEPT !.longshot = FALSE]
<1>1. p \in Keep(h) /\ p \in Device
  BY CancelPictureKeep, KeepDevice
<1> HIDE DEF p
<1>2. q \in Keep(p)
  BY <1>1 DEF Keep, Device
<1> HIDE DEF q
<1>3. c \in Keep(h) /\ c \in Device
  BY <1>1, <1>2, KeepSelf, KeepTrans, KeepDevice
<1> HIDE DEF c
<1>4. d \in Keep(c)
  BY <1>3 DEF Keep, Device
<1> HIDE DEF d
<1>5. d \in Keep(h) /\ d \in Device
  BY <1>3, <1>4, KeepTrans, KeepDevice
<1>6. SetLongshotEnable(d) \subseteq KeepOut(h)
  BY <1>5, SetLongshotEnableKeep, KeepOutTrans
<1> QED
  BY <1>6 DEF LongshotOff, d, c, q, p

LEMMA LongshotOnKeep ==
    ASSUME NEW h \in Device PROVE LongshotOn(h) \subseteq KeepOut(h)
<1> DEFINE g == [h EXCEPT !.longshot = TRUE]
<1>1. g \in Keep(h) /\ g \in Device
  BY DEF Keep, Device
<1> HIDE DEF g
<1>2. SetLongshotEnable(g) \subseteq KeepOut(h)
  BY <1>1, SetLongshotEnableKeep, KeepOutTrans
<1>3. Error(h) \subseteq KeepOut(h)
  BY KeepSelf, OutKeep DEF Error
<1> QED
  BY <1>2, <1>3 DEF LongshotOn, g

LEMMA LongShotKeep ==
    ASSUME NEW h \in Device PROVE LongShot(h) \subseteq KeepOut(h)
BY RequestPictureKeep DEF LongShot

-----------------------------------------------------------------------------
(* Preview.                                                                *)

LEMMA UnpreparePreviewQuiet ==
    ASSUME NEW h \in Device
    PROVE  /\ UnpreparePreview(h) \in Quiet(h)
           /\ UnpreparePreview(h).ch["VIDEO"] = "none"
           /\ UnpreparePreview(h).ch["SNAPSHOT"] = "none"
<1> DEFINE g == UnpreparePreview(h)
           c == [t \in ChType |-> IF t \in {"ZSL", "PREVIEW", "VIDEO", "SNAPSHOT"}
                                  THEN "none" ELSE h.ch[t]]
<1>1. c \in [ChType -> ChStatus] /\ c["VIDEO"] = "none" /\ c["SNAPSHOT"] = "none"
  BY DEF Device, ChType, ChStatus
<1>2. g = [h EXCEPT !.ch = c]
  BY DEF UnpreparePreview
<1> HIDE DEF c, g
<1>3. g \in Device /\ g.ch = c /\ g.m_state = h.m_state /\ g.live = h.live
  BY <1>1, <1>2 DEF Device
<1>4. g \in Quiet(h) /\ g.ch["VIDEO"] = "none" /\ g.ch["SNAPSHOT"] = "none"
  BY <1>1, <1>3 DEF Quiet, Started
<1> QED
  BY <1>4 DEF g

LEMMA StopPreviewQuiet ==
    ASSUME NEW h \in Device
    PROVE  /\ StopPreview(h) \in Quiet(h)
           /\ StopPreview(h).ch["VIDEO"] = "none"
           /\ StopPreview(h).ch["SNAPSHOT"] = "none"
BY UnpreparePreviewQuiet DEF StopPreview

LEMMA DelVideoAndSnapshotQuiet ==
    ASSUME NEW h \in Device
    PROVE  DelSnapshot(h) \in Quiet(h) /\ DelVideoAndSnapshot(h) \in Quiet(h)
<1>1. DelSnapshot(h) \in Quiet(h) /\ DelSnapshot(h) \in Device
  BY DelChannelQuiet, QuietDevice DEF DelSnapshot, ChType
<1>2. DelChannel(DelSnapshot(h), "VIDEO") \in Quiet(DelSnapshot(h))
  BY <1>1, DelChannelQuiet DEF ChType
<1> QED
  BY <1>1, <1>2, QuietTrans DEF DelVideoAndSnapshot

\* The device of a quiet outcome, and the outcomes of what comes after it.
LEMMA QuietOutDevice ==
    ASSUME NEW h, NEW o \in QuietOut(h)
    PROVE  o.h \in Quiet(h) /\ o.h \in Device /\ o.ok \in BOOLEAN
BY QuietDevice DEF QuietOut

LEMMA AddSnapshotQuiet ==
    ASSUME NEW h \in Device PROVE AddSnapshot(h) \subseteq QuietOut(h)
<1>1. AddChannel(h, "SNAPSHOT") \subseteq QuietOut(h)
  BY AddChannelQuiet DEF ChType
<1>2. Done(h) \subseteq QuietOut(h)
  BY QuietSelf, OutQuiet DEF Done
<1> QED
  BY <1>1, <1>2 DEF AddSnapshot

LEMMA AddVideoQuiet ==
    ASSUME NEW h \in Device PROVE AddVideo(h) \subseteq QuietOut(h)
<1>1. AddChannel(h, "VIDEO") \subseteq QuietOut(h)
  BY AddChannelQuiet DEF ChType
<1>2. \A o \in AddChannel(h, "VIDEO") : DelSnapshot(o.h) \in Quiet(h)
  BY <1>1, QuietOutDevice, DelVideoAndSnapshotQuiet, QuietTrans
<1>3. \A o \in AddChannel(h, "VIDEO") : Out(DelSnapshot(o.h), FALSE) \in QuietOut(h)
  BY <1>2, OutQuiet
<1> QED
  BY <1>1, <1>3 DEF AddVideo, OrElse

LEMMA AddPreviewForVideoQuiet ==
    ASSUME NEW h \in Device PROVE AddPreviewForVideo(h) \subseteq QuietOut(h)
<1>1. AddChannel(h, "PREVIEW") \subseteq QuietOut(h)
  BY AddChannelQuiet DEF ChType
<1>2. \A o \in AddChannel(h, "PREVIEW") : DelVideoAndSnapshot(o.h) \in Quiet(h)
  BY <1>1, QuietOutDevice, DelVideoAndSnapshotQuiet, QuietTrans
<1>3. \A o \in AddChannel(h, "PREVIEW") :
          Out(DelVideoAndSnapshot(o.h), FALSE) \in QuietOut(h)
  BY <1>2, OutQuiet
<1> QED
  BY <1>1, <1>3 DEF AddPreviewForVideo, OrElse

LEMMA PreparePreviewQuiet ==
    ASSUME NEW h \in Device PROVE PreparePreview(h) \subseteq QuietOut(h)
<1> DEFINE a == IF h.longshot THEN LongshotOff(h) ELSE Done(h)
           b == Always(a, AddSnapshot)
           c == Then(b, AddVideo)
           d == Then(c, AddPreviewForVideo)
<1>1. a \subseteq QuietOut(h)
  BY LongshotOffKeep, KeepOutQuiet, QuietSelf, OutQuiet DEF Done
<1> HIDE DEF a
<1>2. \A o \in a : AddSnapshot(o.h) \subseteq QuietOut(h)
  BY <1>1, QuietOutDevice, AddSnapshotQuiet, QuietOutTrans
<1>3. b \subseteq QuietOut(h)
  BY <1>2 DEF Always
<1> HIDE DEF b
<1>4. \A o \in b : AddVideo(o.h) \subseteq QuietOut(h)
  BY <1>3, QuietOutDevice, AddVideoQuiet, QuietOutTrans
<1>5. c \subseteq QuietOut(h)
  BY <1>3, <1>4 DEF Then
<1> HIDE DEF c
<1>6. \A o \in c : AddPreviewForVideo(o.h) \subseteq QuietOut(h)
  BY <1>5, QuietOutDevice, AddPreviewForVideoQuiet, QuietOutTrans
<1>7. d \subseteq QuietOut(h)
  BY <1>5, <1>6 DEF Then
<1>8. AddChannel(h, PreviewType(h)) \subseteq QuietOut(h)
  BY AddChannelQuiet DEF PreviewType, ChType
<1> QED
  BY <1>7, <1>8 DEF PreparePreview, d, c, b, a

LEMMA StartPreviewQuiet ==
    ASSUME NEW h \in Device PROVE StartPreview(h) \subseteq QuietOut(h)
BY StartChannelQuiet DEF StartPreview, PreviewType, ChType

LEMMA StartOrUnprepareQuiet ==
    ASSUME NEW h \in Device PROVE StartOrUnprepare(h) \subseteq QuietOut(h)
<1>1. StartPreview(h) \subseteq QuietOut(h)
  BY StartPreviewQuiet
<1>2. \A o \in StartPreview(h) : UnpreparePreview(o.h) \in Quiet(h)
  BY <1>1, QuietOutDevice, UnpreparePreviewQuiet, QuietTrans
<1>3. \A o \in StartPreview(h) : Out(UnpreparePreview(o.h), FALSE) \in QuietOut(h)
  BY <1>2, OutQuiet
<1> QED
  BY <1>1, <1>3 DEF StartOrUnprepare, OrElse

LEMMA PrepareAndStartQuiet ==
    ASSUME NEW h \in Device PROVE PrepareAndStart(h) \subseteq QuietOut(h)
<1>1. PreparePreview(h) \subseteq QuietOut(h)
  BY PreparePreviewQuiet
<1>2. \A o \in PreparePreview(h) : StartOrUnprepare(o.h) \subseteq QuietOut(h)
  BY <1>1, QuietOutDevice, StartOrUnprepareQuiet, QuietOutTrans
<1> QED
  BY <1>1, <1>2 DEF PrepareAndStart, Then

-----------------------------------------------------------------------------
(* Recording: the video channel starts in the last step, or not at all.    *)

LEMMA LinkMetadataQuiet ==
    ASSUME NEW h, NEW o \in QuietOut(h) PROVE LinkMetadata(o) \subseteq QuietOut(h)
<1>1. \A rc \in Rc("link") : Out(o.h, rc) \in QuietOut(h)
  BY QuietOutDevice, OutQuiet, RcBoolean
<1> QED
  BY <1>1 DEF LinkMetadata

LEMMA StartPreviewChannelQuiet ==
    ASSUME NEW h \in Device PROVE StartPreviewChannel(h) \subseteq QuietOut(h)
BY StartChannelQuiet DEF StartPreviewChannel, ChType

LEMMA StartRecordingOut ==
    ASSUME NEW h \in Device, NEW o \in StartRecording(h)
    PROVE  /\ o.ok \in BOOLEAN
           /\ ~o.ok => o.h \in Quiet(h)
           /\ o.ok => \E g \in Quiet(h) : o.h = SetCh(g, "VIDEO", "active")
<1> DEFINE s == StopPreview(h)
           u == UpdateRecordingHintValue(s, TRUE)
           a == Always(u, PreparePreview)
           b == Then(a, StartPreviewChannel)
           prepared == IF h.hint THEN Done(h) ELSE b
           linked == UNION {LinkMetadata(p) : p \in prepared}
<1>1. s \in Quiet(h) /\ s \in Device
  BY StopPreviewQuiet, QuietDevice
<1> HIDE DEF s
<1>2. u \subseteq QuietOut(h)
  BY <1>1, UpdateRecordingHintValueKeep, KeepOutQuiet, QuietOutTrans
<1> HIDE DEF u
<1>3. \A p \in u : PreparePreview(p.h) \subseteq QuietOut(h)
  BY <1>2, QuietOutDevice, PreparePreviewQuiet, QuietOutTrans
<1>4. a \subseteq QuietOut(h)
  BY <1>3 DEF Always
<1> HIDE DEF a
<1>5. \A p \in a : StartPreviewChannel(p.h) \subseteq QuietOut(h)
  BY <1>4, QuietOutDevice, StartPreviewChannelQuiet, QuietOutTrans
<1>6. b \subseteq QuietOut(h)
  BY <1>4, <1>5 DEF Then
<1> HIDE DEF b
<1>7. Done(h) \subseteq QuietOut(h)
  BY QuietSelf, OutQuiet DEF Done
<1>8. prepared \subseteq QuietOut(h)
  BY <1>6, <1>7
<1> HIDE DEF prepared
<1>9. linked \subseteq QuietOut(h)
  BY <1>8, LinkMetadataQuiet
<1> HIDE DEF linked
<1>10. o \in Then(linked, StartVideo)
  BY DEF StartRecording, linked, prepared, b, a, u, s
<1>11. CASE o \in linked /\ ~o.ok
  BY <1>9, <1>11, QuietOutDevice
<1>12. CASE \E p \in linked : o \in StartVideo(p.h)
  <2>1. PICK p \in linked : o \in StartChannel(p.h, "VIDEO")
    BY <1>12 DEF StartVideo
  <2>2. p.h \in Quiet(h) /\ p.h \in Device
    BY <1>9, QuietOutDevice
  <2> QED
    BY <2>1, <2>2, StartChannelOut DEF ChType
<1> QED
  BY <1>10, <1>11, <1>12 DEF Then

LEMMA StopRecordingQuiet ==
    ASSUME NEW h \in Device
    PROVE  StopRecording(h) \in Quiet(h) /\ StopRecording(h).ch["VIDEO"] # "active"
<1>1. StopRecording(h) \in Quiet(h)
  BY StopChannelQuiet DEF StopRecording, ChType
<1>2. CASE h.ch["VIDEO"] = "active"
  <2>1. StopRecording(h) = SetCh(h, "VIDEO", "idle")
    BY <1>2 DEF StopRecording, StopChannel
  <2> QED
    BY <1>1, <2>1, SetChFields DEF ChType, ChStatus
<1>3. CASE h.ch["VIDEO"] # "active"
  BY <1>1, <1>3 DEF StopRecording, StopChannel
<1> QED
  BY <1>2, <1>3

-----------------------------------------------------------------------------
(* Pictures: no step of taking one starts the video or snapshot channel.   *)

LEMMA DoneQuiet == ASSUME NEW h \in Device PROVE Done(h) \subseteq QuietOut(h)
BY QuietSelf, OutQuiet DEF Done

LEMMA ErrorQuiet == ASSUME NEW h \in Device PROVE Error(h) \subseteq QuietOut(h)
BY QuietSelf, OutQuiet DEF Error

LEMMA StartPostProcQuiet ==
    ASSUME NEW h \in Device PROVE StartPostProc(h) \subseteq QuietOut(h)
BY StartPostProcKeep, KeepOutQuiet

LEMMA RequestZSLQuiet ==
    ASSUME NEW h \in Device PROVE RequestZSL(h) \subseteq QuietOut(h)
<1>1. RequestPicture(h, "ZSL") \subseteq QuietOut(h)
  BY RequestPictureKeep, KeepOutQuiet
<1>2. \A o \in RequestPicture(h, "ZSL") : StopPostProc(o.h) \in Quiet(h)
  BY <1>1, QuietOutDevice, StopPostProcKeep, KeepIsQuiet, QuietTrans
<1>3. \A o \in RequestPicture(h, "ZSL") : Out(StopPostProc(o.h), FALSE) \in QuietOut(h)
  BY <1>2, OutQuiet
<1> QED
  BY <1>1, <1>3 DEF RequestZSL, OrElse

LEMMA StartAdvancedQuiet ==
    ASSUME NEW h \in Device PROVE StartAdvanced(h) \subseteq QuietOut(h)
<1>1. \A rc \in Rc("advanced") : Out(h, rc) \in QuietOut(h)
  BY QuietSelf, OutQuiet, RcBoolean
<1> QED
  BY <1>1 DEF StartAdvanced

LEMMA TakeZSLPictureQuiet ==
    ASSUME NEW h \in Device PROVE TakeZSLPicture(h) \subseteq QuietOut(h)
<1>1. ASSUME NEW g \in Quiet(h), g \in Device
      PROVE  AdvancedThenRequestZSL(g) \subseteq QuietOut(h)
  <2>1. StartAdvanced(g) \subseteq QuietOut(g)
    BY <1>1, StartAdvancedQuiet
  <2>2. \A o \in StartAdvanced(g) : RequestZSL(o.h) \subseteq QuietOut(g)
    BY <2>1, QuietOutDevice, RequestZSLQuiet, QuietOutTrans
  <2>3. AdvancedThenRequestZSL(g) \subseteq QuietOut(g)
    BY <2>1, <2>2 DEF AdvancedThenRequestZSL, Then
  <2> QED
    BY <2>3, QuietOutTrans
<1>2. StartPostProc(h) \subseteq QuietOut(h)
  BY StartPostProcQuiet
<1>3. \A o \in StartPostProc(h) : AdvancedThenRequestZSL(o.h) \subseteq QuietOut(h)
  BY <1>1, <1>2, QuietOutDevice
<1> QED
  BY <1>2, <1>3, ErrorQuiet DEF TakeZSLPicture, Then

\* The clean-ups and the single steps of a regular capture.
LEMMA CaptureStepsQuiet ==
    ASSUME NEW h \in Device
    PROVE  /\ DelCapture(h) \in Quiet(h)
           /\ DelPreview(h) \in Quiet(h)
           /\ DelPreviewOk(h) \subseteq QuietOut(h)
           /\ AddCapture(h) \subseteq QuietOut(h)
           /\ PostviewJob(h) \subseteq QuietOut(h)
           /\ DeferredPostProc(h) \subseteq QuietOut(h)
<1>1. DelCapture(h) \in Quiet(h) /\ DelPreview(h) \in Quiet(h)
  BY DelChannelQuiet DEF DelCapture, DelPreview, ChType
<1>2. DelPreviewOk(h) \subseteq QuietOut(h)
  BY <1>1, OutQuiet DEF DelPreviewOk, Done
<1>3. AddCapture(h) \subseteq QuietOut(h)
  BY AddChannelQuiet DEF AddCapture, ChType
<1>4. \A rc \in Rc("deferred") : Out(h, rc) \in QuietOut(h)
  BY QuietSelf, OutQuiet, RcBoolean
<1>5. \A o \in StartPostProc(h) : Out(o.h, TRUE) \in QuietOut(h)
  BY StartPostProcQuiet, QuietOutDevice, OutQuiet
<1> QED
  BY <1>1, <1>2, <1>3, <1>4, <1>5 DEF PostviewJob, DeferredPostProc

LEMMA UndoCaptureQuiet ==
    ASSUME NEW h \in Device, NEW S \in SUBSET QuietOut(h)
    PROVE  /\ OrElse(S, DelCapture) \subseteq QuietOut(h)
           /\ OrElse(S, DelPreview) \subseteq QuietOut(h)
<1>1. \A o \in S : DelCapture(o.h) \in Quiet(h) /\ DelPreview(o.h) \in Quiet(h)
  BY QuietOutDevice, CaptureStepsQuiet, QuietTrans
<1>2. \A o \in S : /\ Out(DelCapture(o.h), FALSE) \in QuietOut(h)
                   /\ Out(DelPreview(o.h), FALSE) \in QuietOut(h)
  BY <1>1, OutQuiet
<1> QED
  BY <1>2 DEF OrElse

LEMMA CaptureChannelQuiet ==
    ASSUME NEW h \in Device
    PROVE  /\ ConfigCapture(h) \subseteq QuietOut(h)
           /\ StartCapture(h) \subseteq QuietOut(h)
           /\ LongShotOrDel(h) \subseteq QuietOut(h)
<1> DEFINE config == {Out(h, rc) : rc \in Rc("start")}
<1>1. \A rc \in Rc("start") : Out(h, rc) \in QuietOut(h)
  BY QuietSelf, OutQuiet, RcBoolean
<1>2. config \in SUBSET QuietOut(h)
  BY <1>1
<1> HIDE DEF config
<1>3. ConfigCapture(h) \subseteq QuietOut(h)
  BY <1>2, UndoCaptureQuiet DEF ConfigCapture, config
<1>4. StartCapture(h) \subseteq QuietOut(h)
  BY StartChannelQuiet, UndoCaptureQuiet DEF StartCapture, ChType
<1>5. LongShot(h) \subseteq QuietOut(h)
  BY LongShotKeep, KeepOutQuiet
<1>6. LongShotOrDel(h) \subseteq QuietOut(h)
  BY <1>5, UndoCaptureQuiet, DoneQuiet DEF LongShotOrDel
<1> QED
  BY <1>3, <1>4, <1>6

LEMMA TakeCapturePictureQuiet ==
    ASSUME NEW h \in Device PROVE TakeCapturePicture(h) \subseteq QuietOut(h)
<1> DEFINE a == OrElse(AddCapture(h), DelPreview)
           b == Then(a, DelPreviewOk)
           c == Then(b, PostviewJob)
           added == IF h.longshot THEN AddCapture(DelPreview(h)) ELSE c
           d == Then(added, ConfigCapture)
           e == Then(d, DeferredPostProc)
           started == Then(e, StartCapture)
           f == Then(started, StartAdvanced)
           g == Then(f, LongShotOrDel)
<1>1. a \subseteq QuietOut(h)
  BY CaptureStepsQuiet, UndoCaptureQuiet
<1> HIDE DEF a
<1>2. \A o \in a : DelPreviewOk(o.h) \subseteq QuietOut(h)
  BY <1>1, QuietOutDevice, CaptureStepsQuiet, QuietOutTrans
<1>3. b \subseteq QuietOut(h)
  BY <1>1, <1>2 DEF Then
<1> HIDE DEF b
<1>4. \A o \in b : PostviewJob(o.h) \subseteq QuietOut(h)
  BY <1>3, QuietOutDevice, CaptureStepsQuiet, QuietOutTrans
<1>5. c \subseteq QuietOut(h)
  BY <1>3, <1>4 DEF Then
<1> HIDE DEF c
<1>6. AddCapture(DelPreview(h)) \subseteq QuietOut(h)
  BY CaptureStepsQuiet, QuietDevice, QuietOutTrans
<1>7. added \subseteq QuietOut(h)
  BY <1>5, <1>6
<1> HIDE DEF added
<1>8. \A o \in added : ConfigCapture(o.h) \subseteq QuietOut(h)
  BY <1>7, QuietOutDevice, CaptureChannelQuiet, QuietOutTrans
<1>9. d \subseteq QuietOut(h)
  BY <1>7, <1>8 DEF Then
<1> HIDE DEF d
<1>10. \A o \in d : DeferredPostProc(o.h) \subseteq QuietOut(h)
  BY <1>9, QuietOutDevice, CaptureStepsQuiet, QuietOutTrans
<1>11. e \subseteq QuietOut(h)
  BY <1>9, <1>10 DEF Then
<1> HIDE DEF e
<1>12. \A o \in e : StartCapture(o.h) \subseteq QuietOut(h)
  BY <1>11, QuietOutDevice, CaptureChannelQuiet, QuietOutTrans
<1>13. started \subseteq QuietOut(h)
  BY <1>11, <1>12 DEF Then
<1> HIDE DEF started
<1>14. \A o \in started : StartAdvanced(o.h) \subseteq QuietOut(h)
  BY <1>13, QuietOutDevice, StartAdvancedQuiet, QuietOutTrans
<1>15. f \subseteq QuietOut(h)
  BY <1>13, <1>14 DEF Then
<1> HIDE DEF f
<1>16. \A o \in f : LongShotOrDel(o.h) \subseteq QuietOut(h)
  BY <1>15, QuietOutDevice, CaptureChannelQuiet, QuietOutTrans
<1>17. g \subseteq QuietOut(h)
  BY <1>15, <1>16 DEF Then
<1> QED
  BY <1>17 DEF TakeCapturePicture, g, f, started, e, d, added, c, b, a

LEMMA RawStepsQuiet ==
    ASSUME NEW h \in Device
    PROVE  StartPostProcRaw(h) \subseteq QuietOut(h) /\ StartRaw(h) \subseteq QuietOut(h)
<1>1. \A g \in Device : DelRaw(g) \in Quiet(g)
  BY DelChannelQuiet DEF DelRaw, ChType
<1>2. \A g \in Device : StopPostProc(g) \in Quiet(g) /\ StopPostProc(g) \in Device
  BY StopPostProcKeep, KeepIsQuiet, KeepDevice
<1>3. \A g \in Device : StopPostProcDelRaw(g) \in Quiet(g)
  BY <1>1, <1>2, QuietTrans DEF StopPostProcDelRaw
<1>4. StartPostProc(h) \subseteq QuietOut(h)
  BY StartPostProcQuiet
<1>5. \A o \in StartPostProc(h) : Out(DelRaw(o.h), FALSE) \in QuietOut(h)
  BY <1>1, <1>4, QuietOutDevice, QuietTrans, OutQuiet
<1>6. StartChannel(h, "RAW") \subseteq QuietOut(h)
  BY StartChannelQuiet DEF ChType
<1>7. \A o \in StartChannel(h, "RAW") :
          Out(StopPostProcDelRaw(o.h), FALSE) \in QuietOut(h)
  BY <1>3, <1>6, QuietOutDevice, QuietTrans, OutQuiet
<1>8. StartPostProcRaw(h) \subseteq QuietOut(h)
  BY <1>4, <1>5 DEF StartPostProcRaw, OrElse
<1>9. StartRaw(h) \subseteq QuietOut(h)
  BY <1>6, <1>7 DEF StartRaw, OrElse
<1> QED
  BY <1>8, <1>9

LEMMA TakeRawPictureQuiet ==
    ASSUME NEW h \in Device PROVE TakeRawPicture(h) \subseteq QuietOut(h)
<1> DEFINE a == AddChannel(DelPreview(h), "RAW")
           b == Then(a, StartPostProcRaw)
           c == Then(b, StartRaw)
<1>1. a \subseteq QuietOut(h)
  <2>1. DelPreview(h) \in Quiet(h) /\ DelPreview(h) \in Device
    BY CaptureStepsQuiet, QuietDevice
  <2>2. a \subseteq QuietOut(DelPreview(h))
    BY <2>1, AddChannelQuiet DEF ChType
  <2> QED
    BY <2>1, <2>2, QuietOutTrans
<1> HIDE DEF a
<1>2. \A o \in a : StartPostProcRaw(o.h) \subseteq QuietOut(h)
  BY <1>1, QuietOutDevice, RawStepsQuiet, QuietOutTrans
<1>3. b \subseteq QuietOut(h)
  BY <1>1, <1>2 DEF Then
<1> HIDE DEF b
<1>4. \A o \in b : StartRaw(o.h) \subseteq QuietOut(h)
  BY <1>3, QuietOutDevice, RawStepsQuiet, QuietOutTrans
<1>5. c \subseteq QuietOut(h)
  BY <1>3, <1>4 DEF Then
<1> QED
  BY <1>5 DEF TakeRawPicture, c, b, a

LEMMA TakePictureQuiet ==
    ASSUME NEW h \in Device PROVE TakePicture(h) \subseteq QuietOut(h)
BY TakeZSLPictureQuiet, TakeCapturePictureQuiet, TakeRawPictureQuiet DEF TakePicture

LEMMA StopCaptureChannelQuiet ==
    ASSUME NEW h \in Device, NEW destroy \in BOOLEAN
    PROVE  StopCaptureChannel(h, destroy) \in Quiet(h)
<1> DEFINE s == StopChannel(h, "CAPTURE")
<1>1. s \in Quiet(h) /\ s \in Device
  BY StopChannelQuiet, QuietDevice DEF ChType
<1> HIDE DEF s
<1>2. CloseChannel(s, "CAPTURE") \in Quiet(s)
  BY <1>1, SetChQuiet, QuietSelf DEF CloseChannel, ChType, ChStatus
<1>3. CloseChannel(s, "CAPTURE") \in Quiet(h)
  BY <1>1, <1>2, QuietTrans
<1> QED
  BY <1>1, <1>3, QuietSelf DEF StopCaptureChannel, s

-----------------------------------------------------------------------------
(* The live snapshot.                                                      *)

\* cancelLiveSnapshot leaves neither thread nor snapshot channel running,
\* and the recording alone.
LEMMA CancelLiveSnapshotDevice ==
    ASSUME NEW h \in Device
    PROVE  LET g == CancelLiveSnapshot(h)
           IN  /\ g \in Device
               /\ g.m_state = h.m_state
               /\ g.live = "none"
               /\ g.ch["VIDEO"] = h.ch["VIDEO"]
               /\ g.ch["SNAPSHOT"] # "active"
<1> DEFINE n == [h EXCEPT !.live = "none"]
           p == StopPostProc(n)
           g == StopChannel(p, "SNAPSHOT")
<1>1. n \in Device /\ n.m_state = h.m_state /\ n.live = "none" /\ n.ch = h.ch
  BY DEF Device, Live
<1> HIDE DEF n
<1>2. p \in Device /\ p.m_state = h.m_state /\ p.live = "none"
      /\ p.ch["VIDEO"] = h.ch["VIDEO"]
  BY <1>1, StopPostProcKeep DEF Keep
<1> HIDE DEF p
<1>3. CASE p.ch["SNAPSHOT"] = "active"
  <2>1. g = SetCh(p, "SNAPSHOT", "idle")
    BY <1>3 DEF StopChannel
  <2>2. "SNAPSHOT" \in ChType /\ "VIDEO" \in ChType /\ "idle" \in ChStatus
    BY DEF ChType, ChStatus
  <2>3. g \in Device
    BY <1>2, <2>1, <2>2, SetChDevice
  <2>4. g.m_state = p.m_state /\ g.live = p.live /\ g.ch["VIDEO"] = p.ch["VIDEO"]
        /\ g.ch["SNAPSHOT"] = "idle"
    BY <1>2, <2>1, <2>2, SetChFields
  <2> QED
    BY <1>2, <2>3, <2>4 DEF CancelLiveSnapshot, g, p, n
<1>4. CASE p.ch["SNAPSHOT"] # "active"
  <2>1. g = p
    BY <1>4 DEF StopChannel
  <2> QED
    BY <1>2, <1>4, <2>1 DEF CancelLiveSnapshot, g, p, n
<1> QED
  BY <1>3, <1>4

\* The thread leaves the state and the recording as they are.
LEMMA LiveSnapshotDevice ==
    ASSUME NEW h \in Device, NEW o \in LiveSnapshot(h)
    PROVE  /\ o.h \in Device
           /\ o.h.m_state = h.m_state
           /\ o.h.ch["VIDEO"] = h.ch["VIDEO"]
<1> DEFINE x == [h EXCEPT !.live = "exited"]
           Fine(g) == /\ g \in Device
                      /\ g.m_state = h.m_state
                      /\ g.ch["VIDEO"] = h.ch["VIDEO"]
<1>1. Fine(x)
  BY DEF Device, Live
<1> HIDE DEF x
<1>2. \A p \in StartPostProc(x) : Fine(p.h)
  BY <1>1, StartPostProcKeep DEF KeepOut, Keep
<1>3. ASSUME NEW g, Fine(g), NEW p \in RequestOrStartLive(g) PROVE Fine(p.h)
  <2>1. CASE LiveChannel = "VIDEO"
    <3>1. p \in KeepOut(g)
      BY <1>3, <2>1, RequestPictureKeep DEF RequestOrStartLive
    <3> QED
      BY <1>3, <3>1 DEF KeepOut, Keep
  <2>2. CASE LiveChannel # "VIDEO"
    <3>1. PICK rc \in Rc("start") :
              p = Out(IF rc THEN SetCh(g, "SNAPSHOT", "active") ELSE g, rc)
      BY <2>2 DEF RequestOrStartLive
    <3>2. p.h = g \/ p.h = SetCh(g, "SNAPSHOT", "active")
      BY <3>1 DEF Out
    <3>3. "SNAPSHOT" \in ChType /\ "VIDEO" \in ChType /\ "active" \in ChStatus
      BY DEF ChType, ChStatus
    <3>4. Fine(SetCh(g, "SNAPSHOT", "active"))
      BY <1>3, <3>3, SetChDevice, SetChFields
    <3> QED
      BY <1>3, <3>2, <3>4
  <2> QED
    BY <2>1, <2>2
<1>4. CASE o \in Error(x)
  BY <1>1, <1>4 DEF Error, Out
<1>5. CASE o \in Then(StartPostProc(x), RequestOrStartLive)
  <2>1. o \in StartPostProc(x)
        \/ \E p \in StartPostProc(x) : o \in RequestOrStartLive(p.h)
    BY <1>5 DEF Then
  <2> QED
    BY <1>2, <1>3, <2>1
<1> QED
  BY <1>4, <1>5 DEF LiveSnapshot, x

-----------------------------------------------------------------------------
(* The state machine.                                                      *)

Recordings == {"RECORDING", "VIDEO_PIC_TAKING"}

\* The states in which no recording runs and no picture is prepared.
Plain == MState \ (Recordings \cup {"PREPARE_SNAPSHOT"})

Good(h) ==
    /\ h \in Device
    /\ h.ch["VIDEO"] = "active" <=> h.m_state \in Recordings
    /\ h.live # "none" \/ h.ch["SNAPSHOT"] = "active" =>
           h.m_state = "VIDEO_PIC_TAKING"

Calm(h) ==
    /\ h \in Device
    /\ h.ch["VIDEO"] # "active"
    /\ h.ch["SNAPSHOT"] # "active"
    /\ h.live = "none"

IInv ==
    /\ TypeOK
    /\ Good(hal)
    /\ NotifierAnswered
    /\ PrepareWillEnd

\* What every handler does, except those that enter or keep the state
\* PREPARE_SNAPSHOT: it leaves a Good device, and SNAPSHOT_DONE is answered.
Answer == notifier' = IF cur.evt = "SNAPSHOT_DONE" THEN "idle" ELSE notifier
Settles ==
    \E h, res : /\ Good(h)
                /\ h.m_state # "PREPARE_SNAPSHOT"
                /\ res \in Seq(Result)
                /\ Handled(h, res)
                /\ Answer

-----------------------------------------------------------------------------
(* Calm and Good devices.                                                  *)

LEMMA GotoFields ==
    ASSUME NEW h \in Device, NEW s \in MState
    PROVE  /\ Goto(h, s) \in Device
           /\ Goto(h, s).m_state = s
           /\ Goto(h, s).ch = h.ch
           /\ Goto(h, s).live = h.live
BY DEF Goto, Device

LEMMA GoodIsCalm ==
    ASSUME NEW h, Good(h), h.m_state \notin Recordings PROVE Calm(h)
BY DEF Good, Calm, Recordings, Device, Live

LEMMA CalmGoto ==
    ASSUME NEW h, Calm(h), NEW s \in MState, s \notin Recordings
    PROVE  Good(Goto(h, s)) /\ Calm(Goto(h, s)) /\ Goto(h, s).m_state = s
BY GotoFields DEF Good, Calm

LEMMA CalmIsGood ==
    ASSUME NEW h, Calm(h), h.m_state \notin Recordings PROVE Good(h)
BY DEF Good, Calm

LEMMA QuietCalm ==
    ASSUME NEW h, Calm(h), NEW g \in Quiet(h)
    PROVE  Calm(g) /\ g \in Device /\ g.m_state = h.m_state
BY DEF Calm, Quiet, Started

LEMMA KeepGood ==
    ASSUME NEW h, Good(h), NEW g \in Keep(h)
    PROVE  Good(g) /\ g \in Device /\ g.m_state = h.m_state
BY DEF Good, Keep

LEMMA GotoSame ==
    ASSUME NEW h, Good(h) PROVE Good(Goto(h, h.m_state))
BY GotoFields DEF Good, Device

\* A recording: the video channel of a calm device starts.
LEMMA StartedGood ==
    ASSUME NEW h, Calm(h), NEW s \in Recordings
    PROVE  Good(Goto(SetCh(h, "VIDEO", "active"), s))
<1> DEFINE g == SetCh(h, "VIDEO", "active")
<1>1. s \in MState /\ "VIDEO" \in ChType /\ "SNAPSHOT" \in ChType
      /\ "active" \in ChStatus
  BY DEF Recordings, MState, ChType, ChStatus
<1>2. g \in Device /\ g.ch["VIDEO"] = "active" /\ g.live = "none"
      /\ g.ch["SNAPSHOT"] # "active"
  BY <1>1, SetChDevice, SetChFields DEF Calm
<1> HIDE DEF g
<1>3. Good(Goto(g, s))
  BY <1>1, <1>2, GotoFields DEF Good
<1> QED
  BY <1>3 DEF g

-----------------------------------------------------------------------------
(* A handler that returns.                                                 *)

LEMMA PostedFields ==
    ASSUME NEW h \in Device
    PROVE  LET g == [h EXCEPT !.posted = FALSE]
           IN  /\ g \in Device /\ g.m_state = h.m_state /\ g.ch = h.ch
               /\ g.live = h.live /\ g.prep = h.prep
BY DEF Device

LEMMA PostCmd ==
    ASSUME NEW e \in Evt, NEW n \in 0 .. MaxPics - 1
    PROVE  Post(e, n) \in Cmd /\ Post(e, n).evt = e
BY DEF Post, Cmd, NoParams, Params

LEMMA NoCmdCmd == NoCmd \in Cmd /\ NoCmd.evt = "none"
<1>1. 0 \in 0 .. MaxPics - 1
  BY DeviceAssumption
<1>2. NoParams \in Params
  BY DEF NoParams, Params
<1>3. "none" \in Evt
  BY DEF Evt
<1> QED
  BY <1>1, <1>2, <1>3 DEF NoCmd, Cmd

\* The queue of events only grows, by commands.
LEMMA HandledQueue ==
    ASSUME TypeOK, NEW h \in Device, NEW res, Handled(h, res)
    PROVE  /\ evt_queue' \in Seq(Cmd)
           /\ \A i \in 1 .. Len(evt_queue) :
                  i \in 1 .. Len(evt_queue') /\ evt_queue'[i] = evt_queue[i]
<1>1. h.posted \in BOOLEAN /\ h.pic \in 0 .. MaxPics - 1
  BY DEF Device
<1>2. "SNAPSHOT_DONE" \in Evt
  BY DEF Evt, PostedEvt
<1>3. Post("SNAPSHOT_DONE", h.pic) \in Cmd
  BY <1>1, <1>2, PostCmd
<1>4. evt_queue \in Seq(Cmd)
  BY DEF TypeOK
<1>5. evt_queue' = evt_queue
      \/ evt_queue' = Append(evt_queue, Post("SNAPSHOT_DONE", h.pic))
  BY <1>1 DEF Handled
<1> QED
  BY <1>3, <1>4, <1>5

LEMMA HandledType ==
    ASSUME TypeOK, NEW h \in Device, NEW res \in Seq(Result), Handled(h, res),
           notifier' \in {"idle", "waiting"}
    PROVE  TypeOK'
<1>1. hal' \in Device
  BY PostedFields DEF Handled
<1>2. cur' \in Cmd
  BY NoCmdCmd DEF Handled
<1>3. api_queue' \in Seq(Cmd)
  BY DEF TypeOK, Handled
<1>4. evt_queue' \in Seq(Cmd)
  BY HandledQueue
<1>5. m_apiResultList' \in Seq(Result)
  BY DEF TypeOK, Handled
<1>6. call' \in [Caller -> CallState]
  <2>1. \A c \in Caller :
            [call[c] EXCEPT !.woken = @ \/ (call[c].evt # "none" /\ res # <<>>)]
                \in CallState
    <3> SUFFICES ASSUME NEW c \in Caller
                 PROVE  [call[c] EXCEPT !.woken =
                            @ \/ (call[c].evt # "none" /\ res # <<>>)] \in CallState
      OBVIOUS
    <3>1. call[c] \in CallState
      BY DEF TypeOK
    <3>2. (call[c].woken \/ (call[c].evt # "none" /\ res # <<>>)) \in BOOLEAN
      OBVIOUS
    <3> QED
      BY <3>1, <3>2 DEF CallState
  <2> QED
    BY <2>1 DEF Handled
<1> QED
  BY <1>1, <1>2, <1>3, <1>4, <1>5, <1>6 DEF TypeOK

\* A waiting notifier stays answered when another event was handled.
LEMMA HandledNotifier ==
    ASSUME TypeOK, NotifierAnswered, NEW h \in Device, NEW res, Handled(h, res),
           Answer
    PROVE  NotifierAnswered'
<1> SUFFICES ASSUME notifier' = "waiting" PROVE Queued("SNAPSHOT_DONE")'
  BY DEF NotifierAnswered
<1>1. notifier = "waiting" /\ cur.evt # "SNAPSHOT_DONE"
  BY DEF Answer
<1>2. PICK i \in 1 .. Len(evt_queue) : evt_queue[i].evt = "SNAPSHOT_DONE"
  BY <1>1 DEF NotifierAnswered, Queued
<1>3. i \in 1 .. Len(evt_queue') /\ evt_queue'[i] = evt_queue[i]
  BY HandledQueue
<1> QED
  BY <1>2, <1>3 DEF Queued

LEMMA SettlesIInv == ASSUME IInv, Settles PROVE IInv'
<1>1. PICK h, res : /\ Good(h)
                    /\ h.m_state # "PREPARE_SNAPSHOT"
                    /\ res \in Seq(Result)
                    /\ Handled(h, res)
                    /\ Answer
  BY DEF Settles
<1>2. h \in Device /\ TypeOK /\ NotifierAnswered
  BY <1>1 DEF Good, IInv
<1>3. notifier' \in {"idle", "waiting"}
  BY <1>1, <1>2 DEF TypeOK, Answer
<1>4. TypeOK'
  BY <1>1, <1>2, <1>3, HandledType
<1>5. Good(hal)'
  BY <1>1, <1>2, PostedFields DEF Good, Handled
<1>6. NotifierAnswered'
  BY <1>1, <1>2, HandledNotifier
<1>7. PrepareWillEnd'
  BY <1>1, <1>2, PostedFields DEF Handled, PrepareWillEnd
<1> QED
  BY <1>4, <1>5, <1>6, <1>7 DEF IInv

-----------------------------------------------------------------------------
(* The ways a handler returns.                                             *)

LEMMA ReplySettles ==
    ASSUME IInv, NEW h, Good(h), h.m_state # "PREPARE_SNAPSHOT",
           NEW ok \in BOOLEAN, cur.evt # "SNAPSHOT_DONE", Reply(h, ok)
    PROVE  Settles
<1>1. [evt |-> cur.evt, ok |-> ok] \in Result
  BY DEF IInv, TypeOK, Cmd, Result
<1>2. <<[evt |-> cur.evt, ok |-> ok]>> \in Seq(Result)
  BY <1>1
<1>3. Answer
  BY DEF Reply, Answer
<1> QED
  BY <1>2, <1>3 DEF Reply, Settles

LEMMA ReplyEvtSettles ==
    ASSUME IInv, NEW h, Good(h), h.m_state # "PREPARE_SNAPSHOT",
           cur.evt = "SNAPSHOT_DONE", ReplyEvt(h)
    PROVE  Settles
<1>1. <<>> \in Seq(Result)
  OBVIOUS
<1> QED
  BY <1>1 DEF ReplyEvt, Settles, Answer

LEMMA IgnoreSettles ==
    ASSUME IInv, NEW h, Good(h), h.m_state # "PREPARE_SNAPSHOT",
           cur.evt # "SNAPSHOT_DONE", Ignore(h)
    PROVE  Settles
<1>1. <<>> \in Seq(Result)
  OBVIOUS
<1> QED
  BY <1>1 DEF Ignore, Settles, Answer

\* The operation ran on the calm device, in a state without a recording.
LEMMA ReplyGotoSettles ==
    ASSUME IInv, Calm(hal), NEW S, S \subseteq QuietOut(hal),
           NEW a \in Plain, NEW b \in Plain,
           cur.evt # "SNAPSHOT_DONE", ReplyGoto(S, a, b)
    PROVE  Settles
<1>1. PICK o \in S : Reply(Goto(o.h, IF o.ok THEN a ELSE b), o.ok)
  BY DEF ReplyGoto
<1>2. o.h \in Quiet(hal) /\ o.ok \in BOOLEAN
  BY QuietOutDevice
<1>3. Calm(o.h)
  BY <1>2, QuietCalm
<1> DEFINE s == IF o.ok THEN a ELSE b
<1>4. s \in MState /\ s \notin Recordings /\ s # "PREPARE_SNAPSHOT"
  BY DEF Plain
<1> HIDE DEF s
<1>5. Good(Goto(o.h, s)) /\ Goto(o.h, s).m_state = s
  BY <1>3, <1>4, CalmGoto
<1>6. Reply(Goto(o.h, s), o.ok)
  BY <1>1 DEF s
<1> QED
  BY <1>2, <1>4, <1>5, <1>6, ReplySettles

\* The operation ran on the device in any state and kept the two channels.
LEMMA ReplyStaySettles ==
    ASSUME IInv, NEW S, S \subseteq KeepOut(hal), hal.m_state # "PREPARE_SNAPSHOT",
           cur.evt # "SNAPSHOT_DONE", ReplyStay(S)
    PROVE  Settles
<1>1. PICK o \in S : Reply(Goto(o.h, hal.m_state), o.ok)
  BY DEF ReplyStay, ReplyGoto
<1>2. o.h \in Keep(hal) /\ o.ok \in BOOLEAN
  BY DEF KeepOut
<1>3. Good(o.h) /\ o.h.m_state = hal.m_state /\ o.h \in Device
  BY <1>2, KeepGood DEF IInv
<1>4. Good(Goto(o.h, hal.m_state))
  BY <1>3, GotoSame
<1>5. Goto(o.h, hal.m_state).m_state = hal.m_state
  BY <1>3, GotoFields DEF Device
<1> QED
  BY <1>1, <1>2, <1>4, <1>5, ReplySettles

LEMMA CurParams == ASSUME IInv PROVE cur.params \in Params
BY DEF IInv, TypeOK, Cmd

-----------------------------------------------------------------------------
(* What the handlers of several states share.                              *)

LEMMA SetWindowKeep ==
    ASSUME NEW h \in Device
    PROVE  SetWindow(h) \in Keep(h)
<1>1. (cur.evt = "SET_PREVIEW_WINDOW") \in BOOLEAN
  OBVIOUS
<1> QED
  BY <1>1 DEF SetWindow, Keep, Device

LEMMA NewPicKeep == ASSUME NEW h \in Device PROVE NewPic(h) \in Keep(h)
<1>1. h.pic \in Nat /\ MaxPics \in Nat \ {0}
  BY DeviceAssumption DEF Device
<1>2. (h.pic + 1) % MaxPics \in 0 .. MaxPics - 1
  BY <1>1
<1> DEFINE n == (h.pic + 1) % MaxPics
<1> HIDE DEF n
<1>3. [h EXCEPT !.pic = n] \in Keep(h)
  BY <1>2 DEF Keep, Device, n
<1> QED
  BY <1>3 DEF NewPic, n

LEMMA SendCommandKeep ==
    ASSUME NEW h \in Device PROVE SendCommand(h) \subseteq KeepOut(h)
BY LongshotOnKeep, LongshotOffKeep DEF SendCommand

LEMMA UpdateKeep ==
    ASSUME IInv, NEW h \in Device PROVE Update(h) \subseteq KeepOut(h)
<1>1. UpdateParameters(h, cur.params) \in Keep(h)
  BY CurParams, UpdateParametersKeep
<1>2. \A rc \in Rc("params") :
          Out(UpdateParameters(h, cur.params), rc) \in KeepOut(h)
  BY <1>1, OutKeep, RcBoolean
<1> QED
  BY <1>2 DEF Update

LEMMA KeepOutDevice ==
    ASSUME NEW h, NEW o \in KeepOut(h)
    PROVE  o.h \in Keep(h) /\ o.h \in Device /\ o.ok \in BOOLEAN
BY KeepDevice DEF KeepOut

LEMMA UpdateAndCommitKeep ==
    ASSUME IInv, hal \in Device PROVE UpdateAndCommit \subseteq KeepOut(hal)
<1>1. Update(hal) \subseteq KeepOut(hal)
  BY UpdateKeep
<1>2. \A o \in Update(hal) : CommitParameters(o.h) \subseteq KeepOut(hal)
  BY <1>1, KeepOutDevice, CommitParametersKeep, KeepOutTrans
<1> QED
  BY <1>1, <1>2 DEF UpdateAndCommit, Then

LEMMA RestartedPreviewQuiet ==
    ASSUME NEW h \in Device PROVE RestartedPreview(h) \subseteq QuietOut(h)
<1>1. StopPreview(h) \in Quiet(h) /\ StopPreview(h) \in Device
  BY StopPreviewQuiet, QuietDevice
<1> QED
  BY <1>1, PrepareAndStartQuiet, QuietOutTrans DEF RestartedPreview

LEMMA RebuildReadyQuiet ==
    ASSUME NEW h \in Device PROVE RebuildReady(h) \subseteq QuietOut(h)
<1> DEFINE s == UnpreparePreview(h)
<1>1. s \in Quiet(h) /\ s \in Device
  BY UnpreparePreviewQuiet, QuietDevice
<1> HIDE DEF s
<1>2. CommitParameters(s) \subseteq QuietOut(h)
  BY <1>1, CommitParametersKeep, KeepOutQuiet, QuietOutTrans
<1>3. \A o \in CommitParameters(s) : PreparePreview(o.h) \subseteq QuietOut(h)
  BY <1>2, QuietOutDevice, PreparePreviewQuiet, QuietOutTrans
<1> QED
  BY <1>3 DEF RebuildReady, Always, s

LEMMA RebuildPreviewQuiet ==
    ASSUME NEW h \in Device PROVE RebuildPreview(h) \subseteq QuietOut(h)
<1> DEFINE s == StopPreview(h)
<1>1. s \in Quiet(h) /\ s \in Device
  BY StopPreviewQuiet, QuietDevice
<1> HIDE DEF s
<1>2. CommitParameters(s) \subseteq QuietOut(h)
  BY <1>1, CommitParametersKeep, KeepOutQuiet, QuietOutTrans
<1>3. \A o \in CommitParameters(s) : PrepareAndStart(o.h) \subseteq QuietOut(h)
  BY <1>2, QuietOutDevice, PrepareAndStartQuiet, QuietOutTrans
<1> QED
  BY <1>3 DEF RebuildPreview, Always, s

\* The three ways SET_PARAMS ends in a state without a recording, S being
\* the outcomes of rebuilding the channels.
LEMMA SetParamsSettles ==
    ASSUME IInv, Calm(hal), hal.m_state \in Plain, cur.evt # "SNAPSHOT_DONE",
           NEW u \in Update(hal), NEW S, S \subseteq QuietOut(u.h),
           NEW onError \in Plain,
           \/ Refuse(u.h)
           \/ ReplyStay(CommitParameters(u.h))
           \/ ReplyGoto(S, hal.m_state, onError)
    PROVE  Settles
<1>1. u.h \in Keep(hal) /\ u.h \in Device
  BY UpdateKeep, KeepOutDevice DEF Calm
<1>2. u.h \in Quiet(hal) /\ Good(u.h) /\ u.h.m_state = hal.m_state
  BY <1>1, KeepIsQuiet, KeepGood DEF IInv
<1>3. CASE Refuse(u.h)
  BY <1>2, <1>3, ReplySettles DEF Refuse, Plain
<1>4. CASE ReplyStay(CommitParameters(u.h))
  <2>1. CommitParameters(u.h) \subseteq KeepOut(hal)
    BY <1>1, CommitParametersKeep, KeepOutTrans
  <2> QED
    BY <1>4, <2>1, ReplyStaySettles DEF Plain
<1>5. CASE ReplyGoto(S, hal.m_state, onError)
  <2>1. S \subseteq QuietOut(hal)
    BY <1>2, QuietOutTrans
  <2> QED
    BY <1>5, <2>1, ReplyGotoSettles
<1> QED
  BY <1>3, <1>4, <1>5

LEMMA SetParamsNoRestartSettles ==
    ASSUME IInv, hal.m_state # "PREPARE_SNAPSHOT", cur.evt # "SNAPSHOT_DONE",
           SetParamsNoRestart
    PROVE  Settles
<1>1. PICK u \in Update(hal) :
          ReplyStay(CommitParameters(u.h)) \/ Refuse(u.h)
  BY DEF SetParamsNoRestart
<1>2. u.h \in Keep(hal) /\ u.h \in Device
  BY UpdateKeep, KeepOutDevice DEF IInv, Good
<1>3. CASE Refuse(u.h)
  BY <1>2, <1>3, KeepGood, ReplySettles DEF Refuse, IInv
<1>4. CASE ReplyStay(CommitParameters(u.h))
  <2>1. CommitParameters(u.h) \subseteq KeepOut(hal)
    BY <1>2, CommitParametersKeep, KeepOutTrans
  <2> QED
    BY <1>4, <2>1, ReplyStaySettles
<1> QED
  BY <1>1, <1>3, <1>4

\* The handlers that leave the device as it is.
LEMMA UnchangedSettles ==
    ASSUME IInv, hal.m_state # "PREPARE_SNAPSHOT",
           \/ cur.evt # "SNAPSHOT_DONE" /\ (ReplyOk(hal) \/ Refuse(hal) \/ Ignore(hal))
           \/ cur.evt = "SNAPSHOT_DONE" /\ ReplyEvt(hal)
    PROVE  Settles
<1>1. Good(hal)
  BY DEF IInv
<1> QED
  BY <1>1, ReplySettles, IgnoreSettles, ReplyEvtSettles DEF ReplyOk, Refuse

-----------------------------------------------------------------------------
(* The handlers of the states without a recording.                         *)

LEMMA PlainIsCalm ==
    ASSUME IInv, hal.m_state \in Plain
    PROVE  Calm(hal) /\ hal \in Device /\ hal.m_state # "PREPARE_SNAPSHOT"
BY GoodIsCalm DEF IInv, Plain, Good

LEMMA PlainStates ==
    {"PREVIEW_STOPPED", "PREVIEW_READY", "PREVIEWING", "PIC_TAKING",
     "PREVIEW_PIC_TAKING"} \subseteq Plain
BY DEF Plain, MState, Recordings

\* A calm device that goes to a state without a recording.
LEMMA ReplyCalmSettles ==
    ASSUME IInv, NEW h, Calm(h), NEW s \in Plain, cur.evt # "SNAPSHOT_DONE",
           ReplyOk(Goto(h, s)) \/ Ignore(Goto(h, s))
    PROVE  Settles
<1>1. Good(Goto(h, s)) /\ Goto(h, s).m_state # "PREPARE_SNAPSHOT"
  BY CalmGoto DEF Plain
<1> QED
  BY <1>1, ReplySettles, IgnoreSettles DEF ReplyOk

LEMMA DoneCalmSettles ==
    ASSUME IInv, NEW h, Calm(h), NEW s \in Plain, cur.evt = "SNAPSHOT_DONE",
           ReplyEvt(Goto(h, s))
    PROVE  Settles
<1>1. Good(Goto(h, s)) /\ Goto(h, s).m_state # "PREPARE_SNAPSHOT"
  BY CalmGoto DEF Plain
<1> QED
  BY <1>1, ReplyEvtSettles

LEMMA StoppedSettles == ASSUME IInv, PreviewStoppedState PROVE Settles
<1>1. hal.m_state = "PREVIEW_STOPPED"
  BY DEF PreviewStoppedState, StoppedSetWindow, StoppedSetParams,
         StoppedStartPreview, StoppedStartNoDisplay, StoppedRelease,
         StoppedCommand, StoppedNoOp, StoppedInvalid, StoppedSnapshotDone,
         StoppedIgnore, Stopped, Handling
<1>2. hal.m_state \in Plain /\ Calm(hal) /\ hal \in Device
      /\ hal.m_state # "PREPARE_SNAPSHOT" /\ Good(hal)
  BY <1>1, PlainStates, PlainIsCalm DEF IInv
<1>3. CASE StoppedSetWindow
  <2>1. cur.evt # "SNAPSHOT_DONE" /\ ReplyOk(SetWindow(hal))
    BY <1>3 DEF StoppedSetWindow, Stopped, Handling, WindowEvts
  <2> QED
    BY <1>2, <2>1, SetWindowKeep, KeepGood, ReplySettles DEF ReplyOk
<1>4. CASE StoppedSetParams
  <2>1. cur.evt # "SNAPSHOT_DONE" /\ ReplyStay(UpdateAndCommit)
    BY <1>4 DEF StoppedSetParams, Stopped, Handling
  <2> QED
    BY <1>2, <2>1, UpdateAndCommitKeep, ReplyStaySettles
<1>5. CASE StoppedStartPreview
  <2>1. cur.evt # "SNAPSHOT_DONE"
        /\ \/ ReplyGoto(PrepareAndStart(hal), "PREVIEWING", "PREVIEW_STOPPED")
           \/ ReplyGoto(PreparePreview(hal), "PREVIEW_READY", "PREVIEW_STOPPED")
    BY <1>5 DEF StoppedStartPreview, Stopped, Handling
  <2> QED
    BY <1>2, <2>1, PrepareAndStartQuiet, PreparePreviewQuiet, PlainStates,
       ReplyGotoSettles
<1>6. CASE StoppedStartNoDisplay
  <2>1. cur.evt # "SNAPSHOT_DONE"
        /\ ReplyGoto(PrepareAndStart(hal), "PREVIEWING", "PREVIEW_STOPPED")
    BY <1>6 DEF StoppedStartNoDisplay, Stopped, Handling
  <2> QED
    BY <1>2, <2>1, PrepareAndStartQuiet, PlainStates, ReplyGotoSettles
<1>7. CASE StoppedRelease
  <2> DEFINE c == [t \in ChType |-> "none"]
             g == [hal EXCEPT !.ch = c]
  <2>1. cur.evt # "SNAPSHOT_DONE" /\ ReplyOk(g)
    BY <1>7 DEF StoppedRelease, Stopped, Handling
  <2>2. c \in [ChType -> ChStatus] /\ c["VIDEO"] = "none" /\ c["SNAPSHOT"] = "none"
    BY DEF ChType, ChStatus
  <2> HIDE DEF c
  <2>3. g \in Device /\ g.ch = c /\ g.m_state = hal.m_state /\ g.live = hal.live
    BY <1>2, <2>2 DEF Device
  <2> HIDE DEF g
  <2>4. Good(g) /\ g.m_state # "PREPARE_SNAPSHOT"
    BY <1>1, <1>2, <2>2, <2>3 DEF Good, Calm, Recordings
  <2> QED
    BY <2>1, <2>4, ReplySettles DEF ReplyOk
<1>8. CASE StoppedCommand
  <2>1. cur.evt # "SNAPSHOT_DONE" /\ ReplyStay(SendCommand(hal))
    BY <1>8 DEF StoppedCommand, Stopped, Handling, CommandEvts
  <2> QED
    BY <1>2, <2>1, SendCommandKeep, ReplyStaySettles
<1>9. CASE StoppedNoOp \/ StoppedInvalid \/ StoppedSnapshotDone \/ StoppedIgnore
  <2>1. \/ cur.evt # "SNAPSHOT_DONE"
           /\ (ReplyOk(hal) \/ Refuse(hal) \/ Ignore(hal))
        \/ cur.evt = "SNAPSHOT_DONE" /\ ReplyEvt(hal)
    BY <1>9 DEF StoppedNoOp, StoppedInvalid, StoppedSnapshotDone, StoppedIgnore,
                Stopped, Handling
  <2> QED
    BY <1>2, <2>1, UnchangedSettles
<1> QED
  BY <1>3, <1>4, <1>5, <1>6, <1>7, <1>8, <1>9 DEF PreviewStoppedState

LEMMA ReadySettles == ASSUME IInv, PreviewReadyState PROVE Settles
<1>1. hal.m_state = "PREVIEW_READY"
  BY DEF PreviewReadyState, ReadySetWindow, ReadySetParams, ReadyStopPreview,
         ReadyCommand, ReadyNoOp, ReadyInvalid, ReadySnapshotDone, ReadyIgnore,
         Ready, Handling
<1>2. hal.m_state \in Plain /\ Calm(hal) /\ hal \in Device
      /\ hal.m_state # "PREPARE_SNAPSHOT" /\ Good(hal)
  BY <1>1, PlainStates, PlainIsCalm DEF IInv
<1>3. CASE ReadySetWindow
  <2> DEFINE h == SetWindow(hal)
  <2>1. cur.evt # "SNAPSHOT_DONE"
        /\ \/ ReplyGoto(StartOrUnprepare(h), "PREVIEWING", "PREVIEW_STOPPED")
           \/ ReplyOk(h)
    BY <1>3 DEF ReadySetWindow, Ready, Handling, WindowEvts
  <2>2. h \in Keep(hal) /\ h \in Device /\ h \in Quiet(hal)
    BY <1>2, SetWindowKeep, KeepDevice, KeepIsQuiet
  <2> HIDE DEF h
  <2>3. CASE ReplyGoto(StartOrUnprepare(h), "PREVIEWING", "PREVIEW_STOPPED")
    <3>1. StartOrUnprepare(h) \subseteq QuietOut(hal)
      BY <2>2, StartOrUnprepareQuiet, QuietOutTrans
    <3> QED
      BY <1>2, <2>1, <2>3, <3>1, PlainStates, ReplyGotoSettles
  <2>4. CASE ReplyOk(h)
    BY <1>2, <2>1, <2>2, <2>4, KeepGood, ReplySettles DEF ReplyOk
  <2> QED
    BY <2>1, <2>3, <2>4
<1>4. CASE ReadySetParams
  <2>1. cur.evt # "SNAPSHOT_DONE"
    BY <1>4 DEF ReadySetParams, Ready, Handling
  <2>2. PICK u \in Update(hal) :
            \/ Refuse(u.h)
            \/ ReplyStay(CommitParameters(u.h))
            \/ ReplyGoto(RebuildReady(u.h), hal.m_state, "PREVIEW_STOPPED")
    BY <1>4 DEF ReadySetParams, SetParams
  <2>3. RebuildReady(u.h) \subseteq QuietOut(u.h)
    BY <1>2, UpdateKeep, KeepOutDevice, RebuildReadyQuiet
  <2> QED
    BY <1>2, <2>1, <2>2, <2>3, PlainStates, SetParamsSettles
<1>5. CASE ReadyStopPreview
  <2>1. cur.evt # "SNAPSHOT_DONE"
        /\ ReplyOk(Goto(UnpreparePreview(hal), "PREVIEW_STOPPED"))
    BY <1>5 DEF ReadyStopPreview, Ready, Handling
  <2>2. Calm(UnpreparePreview(hal))
    BY <1>2, UnpreparePreviewQuiet, QuietCalm
  <2> QED
    BY <2>1, <2>2, PlainStates, ReplyCalmSettles
<1>6. CASE ReadyCommand
  <2>1. cur.evt # "SNAPSHOT_DONE" /\ ReplyStay(SendCommand(hal))
    BY <1>6 DEF ReadyCommand, Ready, Handling, CommandEvts
  <2> QED
    BY <1>2, <2>1, SendCommandKeep, ReplyStaySettles
<1>7. CASE ReadyNoOp \/ ReadyInvalid \/ ReadySnapshotDone \/ ReadyIgnore
  <2>1. \/ cur.evt # "SNAPSHOT_DONE"
           /\ (ReplyOk(hal) \/ Refuse(hal) \/ Ignore(hal))
        \/ cur.evt = "SNAPSHOT_DONE" /\ ReplyEvt(hal)
    BY <1>7 DEF ReadyNoOp, ReadyInvalid, ReadySnapshotDone, ReadyIgnore, Ready, Handling
  <2> QED
    BY <1>2, <2>1, UnchangedSettles
<1> QED
  BY <1>3, <1>4, <1>5, <1>6, <1>7 DEF PreviewReadyState

\* The only way into a recording.
LEMMA StartRecordingSettles ==
    ASSUME IInv, Calm(hal), NEW a \in Recordings, NEW b \in Plain,
           cur.evt # "SNAPSHOT_DONE", ReplyGoto(StartRecording(hal), a, b)
    PROVE  Settles
<1>1. PICK o \in StartRecording(hal) :
          Reply(Goto(o.h, IF o.ok THEN a ELSE b), o.ok)
  BY DEF ReplyGoto
<1>2. /\ o.ok \in BOOLEAN
      /\ ~o.ok => o.h \in Quiet(hal)
      /\ o.ok => \E g \in Quiet(hal) : o.h = SetCh(g, "VIDEO", "active")
  BY StartRecordingOut DEF Calm
<1>3. CASE o.ok
  <2>1. PICK g \in Quiet(hal) : o.h = SetCh(g, "VIDEO", "active")
    BY <1>2, <1>3
  <2>2. Calm(g) /\ g \in Device
    BY QuietCalm
  <2>3. Good(Goto(o.h, a))
    BY <2>1, <2>2, StartedGood
  <2>4. Goto(o.h, a).m_state = a
    BY <2>1, <2>2, SetChDevice, GotoFields DEF Recordings, MState, ChType, ChStatus
  <2>5. a # "PREPARE_SNAPSHOT"
    BY DEF Recordings
  <2> QED
    BY <1>1, <1>2, <1>3, <2>3, <2>4, <2>5, ReplySettles
<1>4. CASE ~o.ok
  <2>1. Calm(o.h)
    BY <1>2, <1>4, QuietCalm
  <2>2. Good(Goto(o.h, b)) /\ Goto(o.h, b).m_state # "PREPARE_SNAPSHOT"
    BY <2>1, CalmGoto DEF Plain
  <2> QED
    BY <1>1, <1>2, <1>4, <2>2, ReplySettles
<1> QED
  BY <1>2, <1>3, <1>4

LEMMA WithoutHintQuiet ==
    ASSUME NEW h \in Device PROVE WithoutHint(h) \subseteq QuietOut(h)
<1> DEFINE s == StopPreview(h)
           u == UpdateRecordingHintValue(s, FALSE)
<1>1. s \in Quiet(h) /\ s \in Device
  BY StopPreviewQuiet, QuietDevice
<1> HIDE DEF s
<1>2. u \subseteq QuietOut(h)
  BY <1>1, UpdateRecordingHintValueKeep, KeepOutQuiet, QuietOutTrans
<1> HIDE DEF u
<1>3. \A o \in u : PrepareAndStart(o.h) \subseteq QuietOut(h)
  BY <1>2, QuietOutDevice, PrepareAndStartQuiet, QuietOutTrans
<1>4. Always(u, PrepareAndStart) \subseteq QuietOut(h)
  BY <1>3 DEF Always
<1> QED
  BY <1>4, DoneQuiet DEF WithoutHint, u, s

LEMMA TakeInPreviewGood ==
    ASSUME NEW h, Calm(h), NEW o \in TakeInPreview(h)
    PROVE  Good(o.h) /\ o.h.m_state # "PREPARE_SNAPSHOT" /\ o.ok \in BOOLEAN
<1>0. PICK a \in Plain, b \in Plain :
          \E p \in TakePicture(Goto(h, a)) :
              o = Out(Goto(p.h, IF p.ok THEN a ELSE b), p.ok)
  <2>1. CASE h.zsl \/ h.longshot
    <3>1. PICK p \in TakePicture(Goto(h, "PREVIEW_PIC_TAKING")) :
              o = Out(Goto(p.h, IF p.ok THEN "PREVIEW_PIC_TAKING"
                                ELSE "PREVIEWING"), p.ok)
      BY <2>1 DEF TakeInPreview
    <3> QED
      BY <3>1, PlainStates
  <2>2. CASE ~(h.zsl \/ h.longshot)
    <3>1. PICK p \in TakePicture(Goto(h, "PIC_TAKING")) :
              o = Out(Goto(p.h, IF p.ok THEN "PIC_TAKING"
                                ELSE "PREVIEW_STOPPED"), p.ok)
      BY <2>2 DEF TakeInPreview
    <3> QED
      BY <3>1, PlainStates
  <2> QED
    BY <2>1, <2>2
<1>1. PICK p \in TakePicture(Goto(h, a)) :
          o = Out(Goto(p.h, IF p.ok THEN a ELSE b), p.ok)
  BY <1>0
<1>2. Calm(Goto(h, a)) /\ Goto(h, a) \in Device
  BY CalmGoto, GotoFields DEF Plain, Calm
<1>3. p \in QuietOut(Goto(h, a))
  BY <1>2, TakePictureQuiet
<1>4. Calm(p.h) /\ p.ok \in BOOLEAN
  BY <1>2, <1>3, QuietOutDevice, QuietCalm
<1> DEFINE s == IF p.ok THEN a ELSE b
<1>5. s \in MState /\ s \notin Recordings /\ s # "PREPARE_SNAPSHOT"
  BY DEF Plain
<1> HIDE DEF s
<1>6. Good(Goto(p.h, s)) /\ Goto(p.h, s).m_state = s
  BY <1>4, <1>5, CalmGoto
<1>7. o.h = Goto(p.h, s) /\ o.ok = p.ok
  BY <1>1 DEF Out, s
<1> QED
  BY <1>4, <1>5, <1>6, <1>7

LEMMA PreviewingSettles ==
    ASSUME IInv, PreviewingState PROVE Settles \/ PreviewingPrepareSnapshot
<1>1. hal.m_state = "PREVIEWING"
  BY DEF PreviewingState, PreviewingSetParams, PreviewingStopPreview,
         PreviewingStartRecording, PreviewingPrepareSnapshot,
         PreviewingTakePicture, PreviewingCommand, PreviewingNoOp,
         PreviewingInvalid, PreviewingSnapshotDone, PreviewingIgnore,
         Previewing, Handling
<1>2. hal.m_state \in Plain /\ Calm(hal) /\ hal \in Device
      /\ hal.m_state # "PREPARE_SNAPSHOT" /\ Good(hal)
  BY <1>1, PlainStates, PlainIsCalm DEF IInv
<1>3. CASE PreviewingSetParams
  <2>1. cur.evt # "SNAPSHOT_DONE"
    BY <1>3 DEF PreviewingSetParams, Previewing, Handling
  <2>2. PICK u \in Update(hal) :
            \/ Refuse(u.h)
            \/ ReplyStay(CommitParameters(u.h))
            \/ ReplyGoto(RebuildPreview(u.h), hal.m_state, "PREVIEW_STOPPED")
    BY <1>3 DEF PreviewingSetParams, SetParams
  <2>3. RebuildPreview(u.h) \subseteq QuietOut(u.h)
    BY <1>2, UpdateKeep, KeepOutDevice, RebuildPreviewQuiet
  <2> QED
    BY <1>2, <2>1, <2>2, <2>3, PlainStates, SetParamsSettles
<1>4. CASE PreviewingStopPreview
  <2>1. cur.evt # "SNAPSHOT_DONE"
        /\ ReplyOk(Goto(StopPreview(hal), "PREVIEW_STOPPED"))
    BY <1>4 DEF PreviewingStopPreview, Previewing, Handling
  <2>2. Calm(StopPreview(hal))
    BY <1>2, StopPreviewQuiet, QuietCalm
  <2> QED
    BY <2>1, <2>2, PlainStates, ReplyCalmSettles
<1>5. CASE PreviewingStartRecording
  <2>1. cur.evt # "SNAPSHOT_DONE"
        /\ ReplyGoto(StartRecording(hal), "RECORDING", "PREVIEWING")
    BY <1>5 DEF PreviewingStartRecording, Previewing, Handling
  <2> QED
    BY <1>2, <2>1, PlainStates, StartRecordingSettles DEF Recordings
<1>6. CASE PreviewingTakePicture
  <2> DEFINE n == NewPic(hal)
  <2>1. PICK o \in Always(WithoutHint(n), TakeInPreview) : Reply(o.h, o.ok)
    BY <1>6 DEF PreviewingTakePicture
  <2>2. cur.evt # "SNAPSHOT_DONE"
    BY <1>6 DEF PreviewingTakePicture, Previewing, Handling
  <2>3. n \in Quiet(hal) /\ n \in Device
    BY <1>2, NewPicKeep, KeepIsQuiet, KeepDevice
  <2> HIDE DEF n
  <2>4. PICK w \in WithoutHint(n) : o \in TakeInPreview(w.h)
    BY <2>1 DEF Always
  <2>5. Calm(w.h)
    BY <1>2, <2>3, WithoutHintQuiet, QuietOutDevice, QuietCalm
  <2> QED
    BY <2>1, <2>2, <2>4, <2>5, TakeInPreviewGood, ReplySettles
<1>7. CASE PreviewingCommand
  <2> DEFINE S == Always(SendCommand(hal), RestartedPreview)
  <2>1. cur.evt # "SNAPSHOT_DONE" /\ (ReplyStay(SendCommand(hal)) \/ ReplyStay(S))
    BY <1>7 DEF PreviewingCommand, Previewing, Handling, CommandEvts
  <2>2. SendCommand(hal) \subseteq QuietOut(hal)
    BY <1>2, SendCommandKeep, KeepOutQuiet
  <2>3. \A o \in SendCommand(hal) : RestartedPreview(o.h) \subseteq QuietOut(hal)
    BY <2>2, QuietOutDevice, RestartedPreviewQuiet, QuietOutTrans
  <2>4. S \subseteq QuietOut(hal)
    BY <2>3 DEF Always
  <2> HIDE DEF S
  <2>5. ReplyGoto(SendCommand(hal), hal.m_state, hal.m_state)
        \/ ReplyGoto(S, hal.m_state, hal.m_state)
    BY <2>1 DEF ReplyStay
  <2> QED
    BY <1>2, <2>1, <2>2, <2>4, <2>5, ReplyGotoSettles
<1>8. CASE PreviewingNoOp \/ PreviewingInvalid \/ PreviewingSnapshotDone
           \/ PreviewingIgnore
  <2>1. \/ cur.evt # "SNAPSHOT_DONE"
           /\ (ReplyOk(hal) \/ Refuse(hal) \/ Ignore(hal))
        \/ cur.evt = "SNAPSHOT_DONE" /\ ReplyEvt(hal)
    BY <1>8 DEF PreviewingNoOp, PreviewingInvalid, PreviewingSnapshotDone,
                PreviewingIgnore, Previewing, Handling, WindowEvts
  <2> QED
    BY <1>2, <2>1, UnchangedSettles
<1> QED
  BY <1>3, <1>4, <1>5, <1>6, <1>7, <1>8 DEF PreviewingState

LEMMA CancelPictureCalm ==
    ASSUME NEW h, Calm(h) PROVE Calm(CancelPicture(h))
BY CancelPictureKeep, KeepIsQuiet, QuietCalm DEF Calm

LEMMA CancelInPreviewCalm ==
    ASSUME NEW h, Calm(h) PROVE Calm(CancelInPreview(h))
<1>1. Calm(CancelLiveSnapshot(h))
  BY CancelLiveSnapshotDevice DEF Calm
<1> QED
  BY <1>1, CancelPictureCalm DEF CancelInPreview

LEMMA PicTakingSettles == ASSUME IInv, PicTakingState PROVE Settles
<1>1. hal.m_state = "PIC_TAKING"
  BY DEF PicTakingState, PicTakingSetParams, PicTakingCancel,
         PicTakingLongshotOn, PicTakingLongshotOff, PicTakingTakePicture,
         PicTakingNoOp, PicTakingInvalid, PicTakingStopCapture,
         PicTakingSnapshotDone, PicTaking, Handling
<1>2. hal.m_state \in Plain /\ Calm(hal) /\ hal \in Device
      /\ hal.m_state # "PREPARE_SNAPSHOT" /\ Good(hal)
  BY <1>1, PlainStates, PlainIsCalm DEF IInv
<1>3. CASE PicTakingSetParams
  <2>1. cur.evt # "SNAPSHOT_DONE" /\ ReplyStay(UpdateAndCommit)
    BY <1>3 DEF PicTakingSetParams, PicTaking, Handling
  <2> QED
    BY <1>2, <2>1, UpdateAndCommitKeep, ReplyStaySettles
<1>4. CASE PicTakingCancel
  <2>1. cur.evt # "SNAPSHOT_DONE"
        /\ ReplyOk(Goto(CancelPicture(hal), "PREVIEW_STOPPED"))
    BY <1>4 DEF PicTakingCancel, PicTaking, Handling
  <2> QED
    BY <1>2, <2>1, CancelPictureCalm, PlainStates, ReplyCalmSettles
<1>5. CASE PicTakingLongshotOn
  <2>1. cur.evt # "SNAPSHOT_DONE" /\ ReplyStay(LongshotOn(hal))
    BY <1>5 DEF PicTakingLongshotOn, PicTaking, Handling
  <2> QED
    BY <1>2, <2>1, LongshotOnKeep, ReplyStaySettles
<1>6. CASE PicTakingLongshotOff
  <2>1. cur.evt # "SNAPSHOT_DONE"
        /\ ReplyGoto(LongshotOff(hal), "PREVIEWING", "PREVIEWING")
    BY <1>6 DEF PicTakingLongshotOff, PicTaking, Handling
  <2> QED
    BY <1>2, <2>1, LongshotOffKeep, KeepOutQuiet, PlainStates, ReplyGotoSettles
<1>7. CASE PicTakingTakePicture
  <2>1. cur.evt # "SNAPSHOT_DONE" /\ (ReplyStay(LongShot(hal)) \/ Refuse(hal))
    BY <1>7 DEF PicTakingTakePicture, PicTaking, Handling
  <2> QED
    BY <1>2, <2>1, LongShotKeep, ReplyStaySettles, UnchangedSettles
<1>8. CASE PicTakingStopCapture
  <2> DEFINE h == StopCaptureChannel(hal, RestartPreview)
             b == Then(PreparePreview(h), StartPreview)
  <2>1. cur.evt # "SNAPSHOT_DONE"
    BY <1>8 DEF PicTakingStopCapture, PicTaking, Handling
  <2>2. PICK o \in IF RestartPreview THEN b ELSE Done(h) : Ignore(o.h)
    BY <1>8 DEF PicTakingStopCapture
  <2>3. h \in Quiet(hal) /\ h \in Device
    BY <1>2, StopCaptureChannelQuiet, QuietDevice, DeviceAssumption
  <2> HIDE DEF h
  <2>4. PreparePreview(h) \subseteq QuietOut(h)
    BY <2>3, PreparePreviewQuiet
  <2>5. \A p \in PreparePreview(h) : StartPreview(p.h) \subseteq QuietOut(h)
    BY <2>4, QuietOutDevice, StartPreviewQuiet, QuietOutTrans
  <2>6. b \subseteq QuietOut(h)
    BY <2>4, <2>5 DEF Then
  <2> HIDE DEF b
  <2>7. o \in QuietOut(hal)
    BY <2>2, <2>3, <2>6, DoneQuiet, QuietOutTrans
  <2>8. Calm(o.h) /\ o.h.m_state = "PIC_TAKING"
    BY <1>1, <1>2, <2>7, QuietOutDevice, QuietCalm
  <2>9. Good(o.h)
    BY <2>8, CalmIsGood DEF Recordings
  <2> QED
    BY <2>1, <2>2, <2>8, <2>9, IgnoreSettles
<1>9. CASE PicTakingSnapshotDone
  <2>1. cur.evt = "SNAPSHOT_DONE"
        /\ ReplyEvt(Goto(CancelPicture(hal), AfterPicture))
    BY <1>9 DEF PicTakingSnapshotDone, PicTaking, Handling
  <2>2. AfterPicture \in Plain
    BY PlainStates DEF AfterPicture
  <2> QED
    BY <1>2, <2>1, <2>2, CancelPictureCalm, DoneCalmSettles
<1>10. CASE PicTakingNoOp \/ PicTakingInvalid
  <2>1. cur.evt # "SNAPSHOT_DONE" /\ (ReplyOk(hal) \/ Refuse(hal))
    BY <1>10 DEF PicTakingNoOp, PicTakingInvalid, PicTaking, Handling, WindowEvts
  <2> QED
    BY <1>2, <2>1, UnchangedSettles
<1> QED
  BY <1>3, <1>4, <1>5, <1>6, <1>7, <1>8, <1>9, <1>10 DEF PicTakingState

LEMMA PreviewPicSettles == ASSUME IInv, PreviewPicTakingState PROVE Settles
<1>1. hal.m_state = "PREVIEW_PIC_TAKING"
  BY DEF PreviewPicTakingState, PreviewPicSetParams, PreviewPicCancel,
         PreviewPicStopPreview, PreviewPicStartRecording, PreviewPicLongshotOn,
         PreviewPicLongshotOff, PreviewPicTakePicture, PreviewPicNoOp,
         PreviewPicInvalid, PreviewPicSnapshotDone, PreviewPicIgnore,
         PreviewPic, Handling
<1>2. hal.m_state \in Plain /\ Calm(hal) /\ hal \in Device
      /\ hal.m_state # "PREPARE_SNAPSHOT" /\ Good(hal)
  BY <1>1, PlainStates, PlainIsCalm DEF IInv
<1>3. CASE PreviewPicSetParams
  <2>1. cur.evt # "SNAPSHOT_DONE"
    BY <1>3 DEF PreviewPicSetParams, PreviewPic, Handling
  <2>2. PICK u \in Update(hal) :
            \/ Refuse(u.h)
            \/ ReplyStay(CommitParameters(u.h))
            \/ ReplyGoto(RebuildPreview(u.h), hal.m_state, "PIC_TAKING")
    BY <1>3 DEF PreviewPicSetParams, SetParams
  <2>3. RebuildPreview(u.h) \subseteq QuietOut(u.h)
    BY <1>2, UpdateKeep, KeepOutDevice, RebuildPreviewQuiet
  <2> QED
    BY <1>2, <2>1, <2>2, <2>3, PlainStates, SetParamsSettles
<1>4. CASE PreviewPicCancel
  <2>1. cur.evt # "SNAPSHOT_DONE"
        /\ ReplyOk(Goto(CancelInPreview(hal), "PREVIEWING"))
    BY <1>4 DEF PreviewPicCancel, PreviewPic, Handling
  <2> QED
    BY <1>2, <2>1, CancelInPreviewCalm, PlainStates, ReplyCalmSettles
<1>5. CASE PreviewPicStopPreview
  <2> DEFINE c == CancelInPreview(hal)
  <2>1. cur.evt # "SNAPSHOT_DONE"
        /\ ReplyOk(Goto(UnpreparePreview(c), "PREVIEW_STOPPED"))
    BY <1>5 DEF PreviewPicStopPreview, PreviewPic, Handling
  <2>2. Calm(c) /\ c \in Device
    BY <1>2, CancelInPreviewCalm DEF Calm
  <2> HIDE DEF c
  <2>3. Calm(UnpreparePreview(c))
    BY <2>2, UnpreparePreviewQuiet, QuietCalm
  <2> QED
    BY <2>1, <2>3, PlainStates, ReplyCalmSettles
<1>6. CASE PreviewPicStartRecording
  <2>1. cur.evt # "SNAPSHOT_DONE"
        /\ \/ Refuse(hal)
           \/ ReplyGoto(StartRecording(hal), "VIDEO_PIC_TAKING",
                        "PREVIEW_PIC_TAKING")
    BY <1>6 DEF PreviewPicStartRecording, PreviewPic, Handling
  <2> QED
    BY <1>2, <2>1, PlainStates, UnchangedSettles, StartRecordingSettles
       DEF Recordings
<1>7. CASE PreviewPicLongshotOn
  <2>1. cur.evt # "SNAPSHOT_DONE" /\ ReplyStay(LongshotOn(hal))
    BY <1>7 DEF PreviewPicLongshotOn, PreviewPic, Handling
  <2> QED
    BY <1>2, <2>1, LongshotOnKeep, ReplyStaySettles
<1>8. CASE PreviewPicLongshotOff
  <2>1. cur.evt # "SNAPSHOT_DONE"
        /\ ReplyGoto(LongshotOff(hal), "PREVIEWING", "PREVIEWING")
    BY <1>8 DEF PreviewPicLongshotOff, PreviewPic, Handling
  <2> QED
    BY <1>2, <2>1, LongshotOffKeep, KeepOutQuiet, PlainStates, ReplyGotoSettles
<1>9. CASE PreviewPicTakePicture
  <2>1. cur.evt # "SNAPSHOT_DONE" /\ (ReplyStay(LongShot(hal)) \/ Refuse(hal))
    BY <1>9 DEF PreviewPicTakePicture, PreviewPic, Handling
  <2> QED
    BY <1>2, <2>1, LongShotKeep, ReplyStaySettles, UnchangedSettles
<1>10. CASE PreviewPicSnapshotDone
  <2>1. cur.evt = "SNAPSHOT_DONE"
        /\ ReplyEvt(Goto(CancelInPreview(hal), "PREVIEWING"))
    BY <1>10 DEF PreviewPicSnapshotDone, PreviewPic, Handling
  <2> QED
    BY <1>2, <2>1, CancelInPreviewCalm, PlainStates, DoneCalmSettles
<1>11. CASE PreviewPicNoOp \/ PreviewPicInvalid \/ PreviewPicIgnore
  <2>1. cur.evt # "SNAPSHOT_DONE" /\ (ReplyOk(hal) \/ Refuse(hal) \/ Ignore(hal))
    BY <1>11 DEF PreviewPicNoOp, PreviewPicInvalid, PreviewPicIgnore, PreviewPic,
                 Handling, WindowEvts
  <2> QED
    BY <1>2, <2>1, UnchangedSettles
<1> QED
  BY <1>3, <1>4, <1>5, <1>6, <1>7, <1>8, <1>9, <1>10, <1>11
     DEF PreviewPicTakingState

-----------------------------------------------------------------------------
(* The handlers of the recording states.                                   *)

LEMMA RecordingStates ==
    ASSUME hal.m_state \in Recordings PROVE hal.m_state # "PREPARE_SNAPSHOT"
BY DEF Recordings

\* Stopping a recording without a live snapshot leaves a calm device, and
\* stopping the preview then keeps it calm.
LEMMA StopRecordingCalm ==
    ASSUME NEW h \in Device, h.live = "none", h.ch["SNAPSHOT"] # "active"
    PROVE  Calm(StopRecording(h)) /\ Calm(StopPreview(StopRecording(h)))
<1>1. StopRecording(h) \in Quiet(h) /\ StopRecording(h).ch["VIDEO"] # "active"
  BY StopRecordingQuiet
<1>2. Calm(StopRecording(h)) /\ StopRecording(h) \in Device
  BY <1>1 DEF Calm, Quiet, Started
<1> QED
  BY <1>2, StopPreviewQuiet, QuietCalm

LEMMA RecordingSettles == ASSUME IInv, RecordingState PROVE Settles
<1>1. hal.m_state = "RECORDING"
  BY DEF RecordingState, RecordingSetParams, RecordingTakePicture,
         RecordingStopRecording, RecordingStopPreview, RecordingCommand,
         RecordingNoOp, RecordingInvalid, RecordingSnapshotDone,
         RecordingIgnore, Recording, Handling
<1>2. hal.m_state # "PREPARE_SNAPSHOT" /\ Good(hal) /\ hal \in Device
  BY <1>1 DEF IInv, Good
<1>3. hal.live = "none" /\ hal.ch["SNAPSHOT"] # "active"
  BY <1>1, <1>2 DEF Good
<1>4. CASE RecordingSetParams
  BY <1>2, <1>4, SetParamsNoRestartSettles DEF RecordingSetParams, Recording, Handling
<1>5. CASE RecordingTakePicture
  <2> DEFINE n == NewPic(hal)
             v == Goto(n, "VIDEO_PIC_TAKING")
             g == [v EXCEPT !.live = "created"]
  <2>1. cur.evt # "SNAPSHOT_DONE" /\ (ReplyOk(g) \/ Refuse(n))
    BY <1>5 DEF RecordingTakePicture, Recording, Handling
  <2>2. n \in Keep(hal) /\ n \in Device /\ Good(n) /\ n.m_state = hal.m_state
    BY <1>2, NewPicKeep, KeepGood
  <2> HIDE DEF n
  <2>3. v \in Device /\ v.m_state = "VIDEO_PIC_TAKING" /\ v.ch = n.ch
    BY <2>2, GotoFields DEF MState
  <2> HIDE DEF v
  <2>4. g \in Device /\ g.m_state = "VIDEO_PIC_TAKING" /\ g.ch = n.ch
    BY <2>3 DEF Device, Live
  <2> HIDE DEF g
  <2>5. Good(g)
    BY <1>1, <2>2, <2>4 DEF Good, Recordings
  <2> QED
    BY <1>2, <2>1, <2>2, <2>4, <2>5, ReplySettles DEF ReplyOk, Refuse
<1>6. CASE RecordingStopRecording
  <2>1. cur.evt # "SNAPSHOT_DONE"
        /\ ReplyOk(Goto(StopRecording(hal), "PREVIEWING"))
    BY <1>6 DEF RecordingStopRecording, Recording, Handling
  <2> QED
    BY <1>2, <1>3, <2>1, StopRecordingCalm, PlainStates, ReplyCalmSettles
<1>7. CASE RecordingStopPreview
  <2>1. cur.evt # "SNAPSHOT_DONE"
        /\ ReplyOk(Goto(StopPreview(StopRecording(hal)), "PREVIEW_STOPPED"))
    BY <1>7 DEF RecordingStopPreview, Recording, Handling
  <2> QED
    BY <1>2, <1>3, <2>1, StopRecordingCalm, PlainStates, ReplyCalmSettles
<1>8. CASE RecordingCommand
  <2>1. cur.evt # "SNAPSHOT_DONE" /\ ReplyStay(SendCommand(hal))
    BY <1>8 DEF RecordingCommand, Recording, Handling, CommandEvts
  <2> QED
    BY <1>2, <2>1, SendCommandKeep, ReplyStaySettles
<1>9. CASE RecordingNoOp \/ RecordingInvalid \/ RecordingSnapshotDone
           \/ RecordingIgnore
  <2>1. \/ cur.evt # "SNAPSHOT_DONE"
           /\ (ReplyOk(hal) \/ Refuse(hal) \/ Ignore(hal))
        \/ cur.evt = "SNAPSHOT_DONE" /\ ReplyEvt(hal)
    BY <1>9 DEF RecordingNoOp, RecordingInvalid, RecordingSnapshotDone,
                RecordingIgnore, Recording, Handling, WindowEvts
  <2> QED
    BY <1>2, <2>1, UnchangedSettles
<1> QED
  BY <1>4, <1>5, <1>6, <1>7, <1>8, <1>9 DEF RecordingState

LEMMA VideoPicSettles == ASSUME IInv, VideoPicTakingState PROVE Settles
<1>1. hal.m_state = "VIDEO_PIC_TAKING"
  BY DEF VideoPicTakingState, VideoPicSetParams, VideoPicCancel,
         VideoPicStopRecording, VideoPicStopPreview, VideoPicCommand,
         VideoPicNoOp, VideoPicInvalid, VideoPicSnapshotDone, VideoPicIgnore,
         VideoPic, Handling
<1>2. hal.m_state # "PREPARE_SNAPSHOT" /\ Good(hal) /\ hal \in Device
  BY <1>1 DEF IInv, Good
<1> DEFINE c == CancelLiveSnapshot(hal)
<1>3. /\ c \in Device /\ c.live = "none" /\ c.ch["SNAPSHOT"] # "active"
      /\ c.ch["VIDEO"] = "active"
  BY <1>1, <1>2, CancelLiveSnapshotDevice DEF Good, Recordings
<1> HIDE DEF c
<1>4. Good(Goto(c, "RECORDING")) /\ Goto(c, "RECORDING").m_state = "RECORDING"
  BY <1>3, GotoFields DEF Good, Recordings, MState
<1>5. CASE VideoPicSetParams
  BY <1>2, <1>5, SetParamsNoRestartSettles DEF VideoPicSetParams, VideoPic, Handling
<1>6. CASE VideoPicCancel
  <2>1. cur.evt # "SNAPSHOT_DONE" /\ ReplyOk(Goto(c, "RECORDING"))
    BY <1>6 DEF VideoPicCancel, VideoPic, Handling, c
  <2> QED
    BY <1>4, <2>1, ReplySettles DEF ReplyOk
<1>7. CASE VideoPicStopRecording
  <2>1. cur.evt # "SNAPSHOT_DONE" /\ ReplyOk(Goto(StopRecording(c), "PREVIEWING"))
    BY <1>7 DEF VideoPicStopRecording, VideoPic, Handling, c
  <2> QED
    BY <1>3, <2>1, StopRecordingCalm, PlainStates, ReplyCalmSettles
<1>8. CASE VideoPicStopPreview
  <2>1. cur.evt # "SNAPSHOT_DONE"
        /\ ReplyOk(Goto(StopPreview(StopRecording(c)), "PREVIEW_STOPPED"))
    BY <1>8 DEF VideoPicStopPreview, VideoPic, Handling, c
  <2> QED
    BY <1>3, <2>1, StopRecordingCalm, PlainStates, ReplyCalmSettles
<1>9. CASE VideoPicCommand
  <2>1. cur.evt # "SNAPSHOT_DONE" /\ ReplyStay(SendCommand(hal))
    BY <1>9 DEF VideoPicCommand, VideoPic, Handling, CommandEvts
  <2> QED
    BY <1>2, <2>1, SendCommandKeep, ReplyStaySettles
<1>10. CASE VideoPicSnapshotDone
  <2>1. cur.evt = "SNAPSHOT_DONE" /\ ReplyEvt(Goto(c, "RECORDING"))
    BY <1>10 DEF VideoPicSnapshotDone, VideoPic, Handling, c
  <2> QED
    BY <1>4, <2>1, ReplyEvtSettles
<1>11. CASE VideoPicNoOp \/ VideoPicInvalid \/ VideoPicIgnore
  <2>1. cur.evt # "SNAPSHOT_DONE" /\ (ReplyOk(hal) \/ Refuse(hal) \/ Ignore(hal))
    BY <1>11 DEF VideoPicNoOp, VideoPicInvalid, VideoPicIgnore, VideoPic, Handling,
                 WindowEvts
  <2> QED
    BY <1>2, <2>1, UnchangedSettles
<1> QED
  BY <1>5, <1>6, <1>7, <1>8, <1>9, <1>10, <1>11 DEF VideoPicTakingState

-----------------------------------------------------------------------------
(* The state PREPARE_SNAPSHOT.                                             *)

\* A handler that stays in the state, or enters it with the daemon preparing,
\* does not lose the event that ends it.
LEMMA HandledIInv ==
    ASSUME IInv, NEW h, Good(h), NEW res \in Seq(Result), Handled(h, res), Answer,
           h.m_state = "PREPARE_SNAPSHOT" =>
               \/ h.prep
               \/ \E i \in 1 .. Len(evt_queue) :
                      evt_queue[i].evt = "PREP_SNAPSHOT_DONE"
    PROVE  IInv'
<1>1. h \in Device /\ TypeOK /\ NotifierAnswered
  BY DEF Good, IInv
<1>2. notifier' \in {"idle", "waiting"}
  BY <1>1 DEF TypeOK, Answer
<1>3. TypeOK'
  BY <1>1, <1>2, HandledType
<1>4. Good(hal)'
  BY <1>1, PostedFields DEF Good, Handled
<1>5. NotifierAnswered'
  BY <1>1, HandledNotifier
<1>6. hal'.m_state = h.m_state /\ hal'.prep = h.prep
  BY <1>1, PostedFields DEF Handled
<1>7. PrepareWillEnd'
  <2>1. CASE h.m_state # "PREPARE_SNAPSHOT" \/ h.prep
    BY <1>6, <2>1 DEF PrepareWillEnd
  <2>2. CASE \E i \in 1 .. Len(evt_queue) :
                 evt_queue[i].evt = "PREP_SNAPSHOT_DONE"
    <3>1. PICK i \in 1 .. Len(evt_queue) : evt_queue[i].evt = "PREP_SNAPSHOT_DONE"
      BY <2>2
    <3>2. i \in 1 .. Len(evt_queue') /\ evt_queue'[i] = evt_queue[i]
      BY <1>1, HandledQueue
    <3> QED
      BY <3>1, <3>2 DEF PrepareWillEnd, Queued
  <2> QED
    BY <2>1, <2>2
<1> QED
  BY <1>3, <1>4, <1>5, <1>7 DEF IInv

LEMMA PreviewingPrepareIInv ==
    ASSUME IInv, PreviewingPrepareSnapshot PROVE IInv'
<1>1. hal.m_state = "PREVIEWING" /\ cur.evt = "PREPARE_SNAPSHOT"
  BY DEF PreviewingPrepareSnapshot, Previewing, Handling
<1>2. Calm(hal) /\ hal \in Device /\ hal.m_state # "PREPARE_SNAPSHOT"
  BY <1>1, PlainStates, PlainIsCalm
<1> DEFINE v == Goto(hal, "PREPARE_SNAPSHOT")
           g == [v EXCEPT !.prep = TRUE]
<1>3. CASE Ignore(g)
  <2>1. v \in Device /\ Calm(v) /\ v.m_state = "PREPARE_SNAPSHOT"
    BY <1>2, CalmGoto, GotoFields DEF MState, Recordings
  <2> HIDE DEF v
  <2>2. g \in Device /\ g.m_state = "PREPARE_SNAPSHOT" /\ g.ch = v.ch
        /\ g.live = v.live /\ g.prep
    BY <2>1 DEF Device
  <2> HIDE DEF g
  <2>3. Good(g)
    BY <2>1, <2>2 DEF Good, Calm, Recordings
  <2>4. <<>> \in Seq(Result)
    OBVIOUS
  <2>5. Handled(g, <<>>) /\ Answer
    BY <1>1, <1>3 DEF Ignore, Answer
  <2> QED
    BY <2>2, <2>3, <2>4, <2>5, HandledIInv
<1>4. CASE Refuse(hal)
  BY <1>1, <1>2, <1>4, UnchangedSettles, SettlesIInv
<1> QED
  BY <1>3, <1>4 DEF PreviewingPrepareSnapshot

LEMMA PrepareSnapshotIInv == ASSUME IInv, PrepareSnapshotState PROVE IInv'
<1>1. hal.m_state = "PREPARE_SNAPSHOT"
  BY DEF PrepareSnapshotState, PreparingInvalid, PreparingDone,
         PreparingSnapshotDone, PreparingIgnore, Preparing, Handling
<1>2. Good(hal) /\ hal \in Device
  BY DEF IInv, Good
<1>3. \/ cur.evt = "PREP_SNAPSHOT_DONE"
      \/ hal.prep
      \/ \E i \in 1 .. Len(evt_queue) : evt_queue[i].evt = "PREP_SNAPSHOT_DONE"
  BY <1>1 DEF IInv, PrepareWillEnd, Queued
<1>4. CASE PreparingInvalid
  <2> DEFINE res == <<[evt |-> cur.evt, ok |-> FALSE]>>
  <2>1. cur.evt \in ApiEvt /\ Refuse(hal)
    BY <1>4 DEF PreparingInvalid, Preparing, Handling
  <2>2. cur.evt # "SNAPSHOT_DONE" /\ cur.evt # "PREP_SNAPSHOT_DONE"
    BY <2>1 DEF ApiEvt
  <2>3. [evt |-> cur.evt, ok |-> FALSE] \in Result
    BY <2>1 DEF Result, Evt
  <2>4. res \in Seq(Result)
    BY <2>3
  <2>5. Handled(hal, res) /\ Answer
    BY <2>1, <2>2 DEF Refuse, Reply, Answer
  <2> QED
    BY <1>2, <1>3, <2>2, <2>4, <2>5, HandledIInv
<1>5. CASE PreparingDone
  <2> DEFINE res == <<[evt |-> "PREPARE_SNAPSHOT", ok |-> TRUE]>>
             g == Goto(hal, "PREVIEWING")
  <2>1. cur.evt = "PREP_SNAPSHOT_DONE" /\ Handled(g, res) /\ UNCHANGED notifier
    BY <1>5 DEF PreparingDone, Preparing, Handling
  <2>2. [evt |-> "PREPARE_SNAPSHOT", ok |-> TRUE] \in Result
    BY DEF Result, Evt, ApiEvt
  <2>3. res \in Seq(Result)
    BY <2>2
  <2>4. Calm(hal)
    BY <1>1, <1>2, GoodIsCalm DEF Recordings
  <2>5. Good(g) /\ g.m_state = "PREVIEWING"
    BY <2>4, CalmGoto DEF MState, Recordings
  <2>6. Answer
    BY <2>1 DEF Answer
  <2> QED
    BY <2>1, <2>3, <2>5, <2>6, HandledIInv
<1>6. CASE PreparingSnapshotDone \/ PreparingIgnore
  <2>1. cur.evt # "PREP_SNAPSHOT_DONE" /\ Handled(hal, <<>>) /\ Answer
    BY <1>6 DEF PreparingSnapshotDone, PreparingIgnore, Preparing, Handling, ReplyEvt,
                Ignore, Answer
  <2>2. <<>> \in Seq(Result)
    OBVIOUS
  <2> QED
    BY <1>2, <1>3, <2>1, <2>2, HandledIInv
<1> QED
  BY <1>4, <1>5, <1>6 DEF PrepareSnapshotState

\* One step of the state machine thread on the command at hand.
LEMMA StateMachineIInv == ASSUME IInv, StateMachine PROVE IInv'
<1>1. CASE PreviewStoppedState \/ PreviewReadyState \/ PicTakingState
           \/ RecordingState \/ VideoPicTakingState \/ PreviewPicTakingState
  BY <1>1, StoppedSettles, ReadySettles, PicTakingSettles, RecordingSettles,
     VideoPicSettles, PreviewPicSettles, SettlesIInv
<1>2. CASE PreviewingState
  BY <1>2, PreviewingSettles, SettlesIInv, PreviewingPrepareIInv
<1>3. CASE PrepareSnapshotState
  BY <1>3, PrepareSnapshotIInv
<1> QED
  BY <1>1, <1>2, <1>3 DEF StateMachine

-----------------------------------------------------------------------------
(* The queues and the other threads.                                       *)

\* An event that was queued still is when another joins it, and that one is.
LEMMA AppendQueued ==
    ASSUME evt_queue \in Seq(Cmd), cur' = cur, NEW x \in Cmd,
           evt_queue' = Append(evt_queue, x), NEW e,
           Queued(e) \/ x.evt = e
    PROVE  Queued(e)'
<1>1. \A i \in 1 .. Len(evt_queue) :
          i \in 1 .. Len(evt_queue') /\ evt_queue'[i] = evt_queue[i]
  OBVIOUS
<1>2. Len(evt_queue) + 1 \in 1 .. Len(evt_queue')
      /\ evt_queue'[Len(evt_queue) + 1] = x
  OBVIOUS
<1> QED
  BY <1>1, <1>2 DEF Queued

LEMMA DequeueQueued ==
    ASSUME evt_queue \in Seq(Cmd), Dequeue, NEW e, e # "none", Queued(e)
    PROVE  Queued(e)'
<1>1. PICK i \in 1 .. Len(evt_queue) : evt_queue[i].evt = e
  BY NoCmdCmd DEF Dequeue, Queued
<1>2. CASE evt_queue' = evt_queue
  BY <1>1, <1>2 DEF Queued
<1>3. CASE cur' = Head(evt_queue) /\ evt_queue' = Tail(evt_queue)
  <2>1. CASE i = 1
    BY <1>1, <1>3, <2>1 DEF Queued
  <2>2. CASE i # 1
    <3>1. i - 1 \in 1 .. Len(Tail(evt_queue)) /\ Tail(evt_queue)[i - 1] = evt_queue[i]
      BY <1>1, <2>2
    <3> QED
      BY <1>1, <1>3, <3>1 DEF Queued
  <2> QED
    BY <2>1, <2>2
<1> QED
  BY <1>2, <1>3 DEF Dequeue

LEMMA DequeueIInv == ASSUME IInv, Dequeue PROVE IInv'
<1>1. evt_queue \in Seq(Cmd) /\ api_queue \in Seq(Cmd)
  BY DEF IInv, TypeOK
<1>2. cur' \in Cmd /\ api_queue' \in Seq(Cmd) /\ evt_queue' \in Seq(Cmd)
  <2>1. \A q \in Seq(Cmd) : q # <<>> => Head(q) \in Cmd /\ Tail(q) \in Seq(Cmd)
    OBVIOUS
  <2>2. CASE api_queue # <<>>
    BY <1>1, <2>1, <2>2 DEF Dequeue
  <2>3. CASE api_queue = <<>>
    BY <1>1, <2>1, <2>3 DEF Dequeue
  <2> QED
    BY <2>2, <2>3
<1>3. UNCHANGED <<hal, m_apiResultList, call, notifier>>
  BY DEF Dequeue
<1>4. TypeOK' /\ Good(hal)'
  BY <1>2, <1>3 DEF IInv, TypeOK
<1>5. NotifierAnswered'
  BY <1>1, <1>3, DequeueQueued DEF IInv, NotifierAnswered
<1>6. PrepareWillEnd'
  BY <1>1, <1>3, DequeueQueued DEF IInv, PrepareWillEnd
<1> QED
  BY <1>4, <1>5, <1>6 DEF IInv

\* A step that leaves the events, the state and the daemon alone.
LEMMA QueuesKeep ==
    ASSUME IInv, UNCHANGED <<cur, evt_queue, notifier>>,
           hal'.m_state = hal.m_state, hal'.prep = hal.prep
    PROVE  NotifierAnswered' /\ PrepareWillEnd'
BY DEF IInv, NotifierAnswered, PrepareWillEnd, Queued

LEMMA EnterIInv == ASSUME IInv, NEW c \in Caller, Enter(c) PROVE IInv'
<1>1. PICK e \in Calls :
          \E p \in IF e = "SET_PARAMS" THEN ParamValues ELSE {NoParams} :
              /\ api_queue' = Append(api_queue, ApiCmd(e, p))
              /\ call' = [call EXCEPT ![c] = Waiting(e)]
  BY DEF Enter
<1>2. PICK p \in IF e = "SET_PARAMS" THEN ParamValues ELSE {NoParams} :
          /\ api_queue' = Append(api_queue, ApiCmd(e, p))
          /\ call' = [call EXCEPT ![c] = Waiting(e)]
  BY <1>1
<1>3. e \in ApiEvt /\ p \in Params
  <2>1. NoParams \in Params
    BY DEF NoParams, Params
  <2>2. Calls \subseteq ApiEvt /\ ParamValues \subseteq Params
    BY StateMachineAssumption
  <2>3. p \in ParamValues \/ p = NoParams
    BY <1>2
  <2> QED
    BY <2>1, <2>2, <2>3
<1>4. 0 \in 0 .. MaxPics - 1
  BY DeviceAssumption
<1>5. ApiCmd(e, p) \in Cmd /\ Waiting(e) \in CallState
  BY <1>3, <1>4 DEF ApiCmd, Cmd, Evt, Waiting, CallState
<1>6. api_queue' \in Seq(Cmd) /\ call' \in [Caller -> CallState]
  BY <1>2, <1>5 DEF IInv, TypeOK
<1>7. UNCHANGED <<hal, cur, evt_queue, m_apiResultList, notifier>>
  BY DEF Enter
<1> QED
  BY <1>6, <1>7, QueuesKeep DEF IInv, TypeOK

LEMMA WaitAPIResultIInv ==
    ASSUME IInv, NEW c \in Caller, WaitAPIResult(c) PROVE IInv'
<1>1. UNCHANGED <<hal, cur, evt_queue, notifier>>
  BY DEF WaitAPIResult
<1>2. m_apiResultList' \in Seq(Result)
  <2>1. PICK i \in 1 .. Len(m_apiResultList) :
            m_apiResultList' = Without(m_apiResultList, i)
    BY DEF WaitAPIResult
  <2>2. m_apiResultList \in Seq(Result)
    BY DEF IInv, TypeOK
  <2>3. SubSeq(m_apiResultList, 1, i - 1) \in Seq(Result)
    BY <2>2, SubSeqProperties
  <2>4. SubSeq(m_apiResultList, i + 1, Len(m_apiResultList)) \in Seq(Result)
    BY <2>2, SubSeqProperties
  <2> QED
    BY <2>1, <2>3, <2>4 DEF Without
<1>3. api_queue' \in Seq(Cmd) /\ call' \in [Caller -> CallState]
  <2>1. 0 \in 0 .. MaxPics - 1 /\ NoParams \in Params
    BY DeviceAssumption DEF NoParams, Params
  <2>2. ApiCmd("TAKE_PICTURE", NoParams) \in Cmd
    BY <2>1 DEF ApiCmd, Cmd, Evt, ApiEvt
  <2>3. Waiting("TAKE_PICTURE") \in CallState /\ Idle \in CallState
    BY DEF Waiting, Idle, CallState, ApiEvt
  <2>4. api_queue \in Seq(Cmd) /\ call \in [Caller -> CallState]
    BY DEF IInv, TypeOK
  <2>5. CASE call[c].evt = "PREPARE_SNAPSHOT"
    BY <2>2, <2>3, <2>4, <2>5 DEF WaitAPIResult
  <2>6. CASE call[c].evt # "PREPARE_SNAPSHOT"
    BY <2>3, <2>4, <2>6 DEF WaitAPIResult
  <2> QED
    BY <2>5, <2>6
<1> QED
  BY <1>1, <1>2, <1>3, QueuesKeep DEF IInv, TypeOK

LEMMA SnapshotDoneIInv == ASSUME IInv, SnapshotDone PROVE IInv'
<1> DEFINE x == Post("SNAPSHOT_DONE", hal.pic)
<1>1. hal \in Device /\ evt_queue \in Seq(Cmd)
  BY DEF IInv, TypeOK
<1>2. hal' \in Device /\ hal'.m_state = hal.m_state /\ hal'.prep = hal.prep
      /\ hal'.ch = hal.ch /\ hal'.live = hal.live
  BY <1>1 DEF SnapshotDone, Device, PostProc
<1>3. x \in Cmd /\ x.evt = "SNAPSHOT_DONE"
  BY <1>1, PostCmd DEF Device, Evt, PostedEvt
<1>4. evt_queue' = Append(evt_queue, x)
  BY DEF SnapshotDone
<1> HIDE DEF x
<1>5. UNCHANGED <<cur, api_queue, m_apiResultList, call>> /\ notifier' = "waiting"
  BY DEF SnapshotDone
<1>6. evt_queue' \in Seq(Cmd)
  BY <1>1, <1>3, <1>4
<1>7. TypeOK' /\ Good(hal)'
  BY <1>2, <1>5, <1>6 DEF IInv, TypeOK, Good
<1>8. Queued("SNAPSHOT_DONE")'
  BY <1>1, <1>3, <1>4, <1>5, AppendQueued
<1>9. PrepareWillEnd'
  BY <1>1, <1>2, <1>3, <1>4, <1>5, AppendQueued DEF IInv, PrepareWillEnd
<1> QED
  BY <1>7, <1>8, <1>9 DEF IInv, NotifierAnswered

LEMMA StopCaptureIInv == ASSUME IInv, StopCapture PROVE IInv'
<1>1. hal \in Device /\ api_queue \in Seq(Cmd)
  BY DEF IInv, TypeOK
<1>2. hal' \in Device /\ hal'.m_state = hal.m_state /\ hal'.prep = hal.prep
      /\ hal'.ch = hal.ch /\ hal'.live = hal.live
  BY <1>1 DEF StopCapture, Device, PostProc
<1>3. Post("STOP_CAPTURE_CHANNEL", hal.pic) \in Cmd
  BY <1>1, PostCmd DEF Device, Evt, PostedEvt
<1>4. api_queue' \in Seq(Cmd)
  BY <1>1, <1>3 DEF StopCapture
<1>5. UNCHANGED <<cur, evt_queue, m_apiResultList, call, notifier>>
  BY DEF StopCapture
<1>6. TypeOK' /\ Good(hal)'
  BY <1>2, <1>4, <1>5 DEF IInv, TypeOK, Good
<1> QED
  BY <1>2, <1>5, <1>6, QueuesKeep DEF IInv

LEMMA PrepSnapshotDoneIInv == ASSUME IInv, PrepSnapshotDone PROVE IInv'
<1> DEFINE x == Post("PREP_SNAPSHOT_DONE", hal.pic)
<1>1. hal \in Device /\ evt_queue \in Seq(Cmd)
  BY DEF IInv, TypeOK
<1>2. hal' \in Device /\ hal'.m_state = hal.m_state
      /\ hal'.ch = hal.ch /\ hal'.live = hal.live
  BY <1>1 DEF PrepSnapshotDone, Device
<1>3. x \in Cmd /\ x.evt = "PREP_SNAPSHOT_DONE"
  BY <1>1, PostCmd DEF Device, Evt, PostedEvt
<1>4. evt_queue' = Append(evt_queue, x)
  BY DEF PrepSnapshotDone
<1> HIDE DEF x
<1>5. UNCHANGED <<cur, api_queue, m_apiResultList, call, notifier>>
  BY DEF PrepSnapshotDone
<1>6. evt_queue' \in Seq(Cmd)
  BY <1>1, <1>3, <1>4
<1>7. TypeOK' /\ Good(hal)'
  BY <1>2, <1>5, <1>6 DEF IInv, TypeOK, Good
<1>8. Queued("PREP_SNAPSHOT_DONE")'
  BY <1>1, <1>3, <1>4, <1>5, AppendQueued
<1>9. NotifierAnswered'
  BY <1>1, <1>3, <1>4, <1>5, AppendQueued DEF IInv, NotifierAnswered
<1> QED
  BY <1>7, <1>8, <1>9 DEF IInv, PrepareWillEnd

LEMMA LiveSnapshotThreadIInv == ASSUME IInv, LiveSnapshotThread PROVE IInv'
<1>1. Good(hal) /\ hal \in Device /\ hal.live = "created"
  BY DEF IInv, Good, LiveSnapshotThread
<1>2. hal.m_state = "VIDEO_PIC_TAKING"
  BY <1>1 DEF Good
<1>3. PICK o \in LiveSnapshot(hal) :
          /\ hal' = o.h
          /\ api_queue' = IF o.ok THEN api_queue
                          ELSE Append(api_queue, Post("CANCEL_PICTURE", hal.pic))
  BY DEF LiveSnapshotThread
<1>4. hal' \in Device /\ hal'.m_state = hal.m_state
      /\ hal'.ch["VIDEO"] = hal.ch["VIDEO"]
  BY <1>1, <1>3, LiveSnapshotDevice
<1>5. Good(hal)'
  BY <1>1, <1>2, <1>4 DEF Good
<1>6. Post("CANCEL_PICTURE", hal.pic) \in Cmd
  BY <1>1, PostCmd DEF Device, Evt, ApiEvt
<1>7. api_queue' \in Seq(Cmd)
  BY <1>3, <1>6 DEF IInv, TypeOK
<1>8. UNCHANGED <<cur, evt_queue, m_apiResultList, call, notifier>>
  BY DEF LiveSnapshotThread
<1>9. NotifierAnswered' /\ PrepareWillEnd'
  BY <1>2, <1>4, <1>8 DEF IInv, NotifierAnswered, PrepareWillEnd, Queued
<1> QED
  BY <1>4, <1>5, <1>7, <1>8, <1>9 DEF IInv, TypeOK

-----------------------------------------------------------------------------
(* The invariant.                                                          *)

LEMMA InitDeviceGood ==
    ASSUME NEW jpeg \in BOOLEAN
    PROVE  /\ Good(InitDevice(jpeg))
           /\ InitDevice(jpeg).m_state = "PREVIEW_STOPPED"
<1> DEFINE d == InitDevice(jpeg)
           c == [t \in ChType |-> "none"]
<1>1. c \in [ChType -> ChStatus] /\ c["VIDEO"] = "none" /\ c["SNAPSHOT"] = "none"
  BY DEF ChType, ChStatus
<1>2. 0 \in 0 .. MaxPics - 1
  BY DeviceAssumption
<1>3. d.ch = c /\ d.m_state = "PREVIEW_STOPPED" /\ d.live = "none"
  BY DEF InitDevice
<1> HIDE DEF c
<1>4. d \in Device
  BY <1>1, <1>2 DEF InitDevice, Device, MState, PostProc, Live, c
<1> QED
  BY <1>1, <1>3, <1>4 DEF Good, Recordings

LEMMA InitIInv == ASSUME Init PROVE IInv
<1>1. PICK jpeg \in JpegFormats : hal = InitDevice(jpeg)
  BY DEF Init
<1>2. Good(hal) /\ hal.m_state = "PREVIEW_STOPPED"
  BY <1>1, InitDeviceGood, DeviceAssumption
<1>3. Idle \in CallState
  BY DEF Idle, Waiting, CallState
<1>4. TypeOK
  BY <1>2, <1>3, NoCmdCmd DEF Init, TypeOK, Good
<1>5. NotifierAnswered /\ PrepareWillEnd
  BY <1>2 DEF Init, NotifierAnswered, PrepareWillEnd
<1> QED
  BY <1>2, <1>4, <1>5 DEF IInv

LEMMA NextIInv == ASSUME IInv, [Next]_vars PROVE IInv'
<1>1. CASE \E c \in Caller : Enter(c) \/ WaitAPIResult(c)
  BY <1>1, EnterIInv, WaitAPIResultIInv
<1>2. CASE SnapshotDone \/ StopCapture \/ PrepSnapshotDone \/ LiveSnapshotThread
  BY <1>2, SnapshotDoneIInv, StopCaptureIInv, PrepSnapshotDoneIInv,
     LiveSnapshotThreadIInv
<1>3. CASE Dequeue \/ StateMachine
  BY <1>3, DequeueIInv, StateMachineIInv
<1>4. CASE UNCHANGED vars
  <2>1. TypeOK' /\ Good(hal)'
    BY <1>4 DEF IInv, TypeOK, vars
  <2> QED
    BY <1>4, <2>1, QueuesKeep DEF IInv, vars
<1> QED
  BY <1>1, <1>2, <1>3, <1>4 DEF Next

\* The invariant that the other theorems rest on.
THEOREM Invariance == Spec => []IInv
BY InitIInv, NextIInv, PTL DEF Spec

\* Every variable stays in its type, whatever fails and in whatever order
\* the threads run.
THEOREM TypeCorrect == Spec => []TypeOK
<1>1. IInv => TypeOK
  BY DEF IInv
<1> QED
  BY <1>1, Invariance, PTL

\* The video channel streams exactly in RECORDING and VIDEO_PIC_TAKING.
THEOREM VideoFollowsState == Spec => []VideoIffRecording
<1>1. IInv => VideoIffRecording
  BY DEF IInv, Good, VideoIffRecording, Streams, Recordings
<1> QED
  BY <1>1, Invariance, PTL

\* Neither the thread nor the channel of a live snapshot is left running when
\* VIDEO_PIC_TAKING is left, on any of its exits.
THEOREM LiveSnapshotEnds == Spec => []LiveSnapshotOnlyInVideo
<1>1. IInv => LiveSnapshotOnlyInVideo
  BY DEF IInv, Good, LiveSnapshotOnlyInVideo, Streams
<1> QED
  BY <1>1, Invariance, PTL

\* The callback notifier never waits for a result that no state will signal.
THEOREM NotifierIsAnswered == Spec => []NotifierAnswered
<1>1. IInv => NotifierAnswered
  BY DEF IInv
<1> QED
  BY <1>1, Invariance, PTL

\* PREPARE_SNAPSHOT is never left without a way out.
THEOREM PrepareEnds == Spec => []PrepareWillEnd
<1>1. IInv => PrepareWillEnd
  BY DEF IInv
<1> QED
  BY <1>1, Invariance, PTL

-----------------------------------------------------------------------------
(* The results.  A handler that returns gave one result of the event at    *)
(* hand if it is an API event, and none if it was posted.                  *)

Replied ==
    IF cur.evt \in ApiEvt THEN \E h, ok : Handled(h, <<[evt |-> cur.evt, ok |-> ok]>>)
    ELSE \E h : Handled(h, <<>>)

LEMMA ReplyReplied ==
    ASSUME cur.evt \in ApiEvt, NEW h, NEW ok, Reply(h, ok) PROVE Replied
BY DEF Reply, Replied

LEMMA ReplyGotoReplied ==
    ASSUME cur.evt \in ApiEvt, NEW S, NEW a, NEW b, ReplyGoto(S, a, b) PROVE Replied
BY ReplyReplied DEF ReplyGoto

LEMMA ReplyStayReplied ==
    ASSUME cur.evt \in ApiEvt, NEW S, ReplyStay(S) PROVE Replied
BY ReplyGotoReplied DEF ReplyStay

\* The handlers that answer without a status of the device, or not at all.
LEMMA PlainReplied ==
    ASSUME NEW h,
           \/ cur.evt \in ApiEvt /\ (ReplyOk(h) \/ Refuse(h))
           \/ cur.evt \in PostedEvt /\ (Ignore(h) \/ ReplyEvt(h))
    PROVE  Replied
<1>1. CASE cur.evt \in ApiEvt /\ (ReplyOk(h) \/ Refuse(h))
  BY <1>1, ReplyReplied DEF ReplyOk, Refuse
<1>2. CASE cur.evt \in PostedEvt /\ (Ignore(h) \/ ReplyEvt(h))
  <2>1. cur.evt \notin ApiEvt
    BY <1>2 DEF PostedEvt, ApiEvt
  <2> QED
    BY <1>2, <2>1 DEF Ignore, ReplyEvt, Replied
<1> QED
  BY <1>1, <1>2

\* The ways SET_PARAMS ends.
LEMMA SetParamsNoRestartReplied ==
    ASSUME cur.evt \in ApiEvt, SetParamsNoRestart PROVE Replied
<1>1. PICK u \in Update(hal) : ReplyStay(CommitParameters(u.h)) \/ Refuse(u.h)
  BY DEF SetParamsNoRestart
<1> QED
  BY <1>1, ReplyStayReplied, PlainReplied

LEMMA SetParamsReplied ==
    ASSUME cur.evt \in ApiEvt, NEW u, NEW S, NEW a, NEW b,
           \/ Refuse(u)
           \/ ReplyStay(CommitParameters(u))
           \/ ReplyGoto(S, a, b)
    PROVE  Replied
BY ReplyStayReplied, ReplyGotoReplied, PlainReplied

LEMMA StoppedReplied == ASSUME PreviewStoppedState PROVE Replied
<1>1. CASE StoppedSetWindow \/ StoppedRelease \/ StoppedNoOp \/ StoppedInvalid
           \/ StoppedSnapshotDone \/ StoppedIgnore
  BY <1>1, PlainReplied
     DEF StoppedSetWindow, StoppedRelease, StoppedNoOp, StoppedInvalid,
         StoppedSnapshotDone, StoppedIgnore, Stopped, Handling, ApiEvt, PostedEvt,
         WindowEvts
<1>2. CASE StoppedSetParams \/ StoppedStartPreview \/ StoppedStartNoDisplay
           \/ StoppedCommand
  BY <1>2, ReplyGotoReplied, ReplyStayReplied
     DEF StoppedSetParams, StoppedStartPreview, StoppedStartNoDisplay,
         StoppedCommand, Stopped, Handling, ApiEvt, CommandEvts
<1> QED
  BY <1>1, <1>2 DEF PreviewStoppedState

LEMMA ReadyReplied == ASSUME PreviewReadyState PROVE Replied
<1>1. CASE ReadySetWindow
  <2>1. cur.evt \in ApiEvt
        /\ \/ ReplyGoto(StartOrUnprepare(SetWindow(hal)), "PREVIEWING",
                        "PREVIEW_STOPPED")
           \/ ReplyOk(SetWindow(hal))
    BY <1>1 DEF ReadySetWindow, Ready, Handling, WindowEvts, ApiEvt
  <2> QED
    BY <2>1, ReplyGotoReplied, PlainReplied
<1>2. CASE ReadySetParams
  <2>1. cur.evt \in ApiEvt
    BY <1>2 DEF ReadySetParams, Ready, Handling, ApiEvt
  <2>2. PICK u \in Update(hal) :
            \/ Refuse(u.h)
            \/ ReplyStay(CommitParameters(u.h))
            \/ ReplyGoto(RebuildReady(u.h), hal.m_state, "PREVIEW_STOPPED")
    BY <1>2 DEF ReadySetParams, SetParams
  <2> QED
    BY <2>1, <2>2, SetParamsReplied
<1>3. CASE ReadyStopPreview \/ ReadyNoOp \/ ReadyInvalid \/ ReadySnapshotDone
           \/ ReadyIgnore
  BY <1>3, PlainReplied
     DEF ReadyStopPreview, ReadyNoOp, ReadyInvalid, ReadySnapshotDone,
         ReadyIgnore, Ready, Handling, ApiEvt, PostedEvt
<1>4. CASE ReadyCommand
  BY <1>4, ReplyStayReplied DEF ReadyCommand, Ready, Handling, ApiEvt, CommandEvts
<1> QED
  BY <1>1, <1>2, <1>3, <1>4 DEF PreviewReadyState

LEMMA PreviewingReplied ==
    ASSUME PreviewingState PROVE Replied \/ PreviewingPrepareSnapshot
<1>1. CASE PreviewingSetParams
  <2>1. cur.evt \in ApiEvt
    BY <1>1 DEF PreviewingSetParams, Previewing, Handling, ApiEvt
  <2>2. PICK u \in Update(hal) :
            \/ Refuse(u.h)
            \/ ReplyStay(CommitParameters(u.h))
            \/ ReplyGoto(RebuildPreview(u.h), hal.m_state, "PREVIEW_STOPPED")
    BY <1>1 DEF PreviewingSetParams, SetParams
  <2> QED
    BY <2>1, <2>2, SetParamsReplied
<1>2. CASE PreviewingTakePicture
  <2>1. cur.evt \in ApiEvt
    BY <1>2 DEF PreviewingTakePicture, Previewing, Handling, ApiEvt
  <2> QED
    BY <1>2, <2>1, ReplyReplied DEF PreviewingTakePicture
<1>3. CASE PreviewingStartRecording \/ PreviewingCommand
  BY <1>3, ReplyGotoReplied, ReplyStayReplied
     DEF PreviewingStartRecording, PreviewingCommand, Previewing, Handling, ApiEvt,
         CommandEvts
<1>4. CASE PreviewingStopPreview \/ PreviewingNoOp \/ PreviewingInvalid
           \/ PreviewingSnapshotDone \/ PreviewingIgnore
  BY <1>4, PlainReplied
     DEF PreviewingStopPreview, PreviewingNoOp, PreviewingInvalid,
         PreviewingSnapshotDone, PreviewingIgnore, Previewing, Handling, ApiEvt,
         PostedEvt, WindowEvts
<1> QED
  BY <1>1, <1>2, <1>3, <1>4 DEF PreviewingState

LEMMA PicTakingReplied == ASSUME PicTakingState PROVE Replied
<1>1. CASE PicTakingStopCapture
  <2>1. cur.evt \in PostedEvt
    BY <1>1 DEF PicTakingStopCapture, PicTaking, Handling, PostedEvt
  <2>2. \E h : Ignore(h)
    BY <1>1 DEF PicTakingStopCapture
  <2> QED
    BY <2>1, <2>2, PlainReplied
<1>2. CASE PicTakingSetParams \/ PicTakingLongshotOn \/ PicTakingLongshotOff
  BY <1>2, ReplyGotoReplied, ReplyStayReplied
     DEF PicTakingSetParams, PicTakingLongshotOn, PicTakingLongshotOff, PicTaking,
         Handling, ApiEvt
<1>3. CASE PicTakingTakePicture
  <2>1. cur.evt \in ApiEvt /\ (ReplyStay(LongShot(hal)) \/ Refuse(hal))
    BY <1>3 DEF PicTakingTakePicture, PicTaking, Handling, ApiEvt
  <2> QED
    BY <2>1, ReplyStayReplied, PlainReplied
<1>4. CASE PicTakingCancel \/ PicTakingNoOp \/ PicTakingInvalid
           \/ PicTakingSnapshotDone
  BY <1>4, PlainReplied
     DEF PicTakingCancel, PicTakingNoOp, PicTakingInvalid, PicTakingSnapshotDone,
         PicTaking, Handling, ApiEvt, PostedEvt, WindowEvts
<1> QED
  BY <1>1, <1>2, <1>3, <1>4 DEF PicTakingState

LEMMA RecordingReplied == ASSUME RecordingState PROVE Replied
<1>1. CASE RecordingSetParams
  BY <1>1, SetParamsNoRestartReplied
     DEF RecordingSetParams, Recording, Handling, ApiEvt
<1>2. CASE RecordingCommand
  BY <1>2, ReplyStayReplied
     DEF RecordingCommand, Recording, Handling, ApiEvt, CommandEvts
<1>3. CASE RecordingTakePicture \/ RecordingStopRecording \/ RecordingStopPreview
           \/ RecordingNoOp \/ RecordingInvalid \/ RecordingSnapshotDone
           \/ RecordingIgnore
  BY <1>3, PlainReplied
     DEF RecordingTakePicture, RecordingStopRecording, RecordingStopPreview,
         RecordingNoOp, RecordingInvalid, RecordingSnapshotDone, RecordingIgnore,
         Recording, Handling, ApiEvt, PostedEvt, WindowEvts
<1> QED
  BY <1>1, <1>2, <1>3 DEF RecordingState

LEMMA VideoPicReplied == ASSUME VideoPicTakingState PROVE Replied
<1>1. CASE VideoPicSetParams
  BY <1>1, SetParamsNoRestartReplied
     DEF VideoPicSetParams, VideoPic, Handling, ApiEvt
<1>2. CASE VideoPicCommand
  BY <1>2, ReplyStayReplied
     DEF VideoPicCommand, VideoPic, Handling, ApiEvt, CommandEvts
<1>3. CASE VideoPicCancel \/ VideoPicStopRecording \/ VideoPicStopPreview
           \/ VideoPicNoOp \/ VideoPicInvalid \/ VideoPicSnapshotDone
           \/ VideoPicIgnore
  BY <1>3, PlainReplied
     DEF VideoPicCancel, VideoPicStopRecording, VideoPicStopPreview, VideoPicNoOp,
         VideoPicInvalid, VideoPicSnapshotDone, VideoPicIgnore, VideoPic, Handling,
         ApiEvt, PostedEvt, WindowEvts
<1> QED
  BY <1>1, <1>2, <1>3 DEF VideoPicTakingState

LEMMA PreviewPicReplied == ASSUME PreviewPicTakingState PROVE Replied
<1>1. CASE PreviewPicSetParams
  <2>1. cur.evt \in ApiEvt
    BY <1>1 DEF PreviewPicSetParams, PreviewPic, Handling, ApiEvt
  <2>2. PICK u \in Update(hal) :
            \/ Refuse(u.h)
            \/ ReplyStay(CommitParameters(u.h))
            \/ ReplyGoto(RebuildPreview(u.h), hal.m_state, "PIC_TAKING")
    BY <1>1 DEF PreviewPicSetParams, SetParams
  <2> QED
    BY <2>1, <2>2, SetParamsReplied
<1>2. CASE PreviewPicLongshotOn \/ PreviewPicLongshotOff
  BY <1>2, ReplyGotoReplied, ReplyStayReplied
     DEF PreviewPicLongshotOn, PreviewPicLongshotOff, PreviewPic, Handling, ApiEvt
<1>3. CASE PreviewPicStartRecording \/ PreviewPicTakePicture
  <2>1. cur.evt \in ApiEvt
        /\ \/ Refuse(hal)
           \/ ReplyStay(LongShot(hal))
           \/ ReplyGoto(StartRecording(hal), "VIDEO_PIC_TAKING",
                        "PREVIEW_PIC_TAKING")
    BY <1>3 DEF PreviewPicStartRecording, PreviewPicTakePicture, PreviewPic,
                Handling, ApiEvt
  <2> QED
    BY <2>1, ReplyGotoReplied, ReplyStayReplied, PlainReplied
<1>4. CASE PreviewPicCancel \/ PreviewPicStopPreview \/ PreviewPicNoOp
           \/ PreviewPicInvalid \/ PreviewPicSnapshotDone \/ PreviewPicIgnore
  BY <1>4, PlainReplied
     DEF PreviewPicCancel, PreviewPicStopPreview, PreviewPicNoOp,
         PreviewPicInvalid, PreviewPicSnapshotDone, PreviewPicIgnore, PreviewPic,
         Handling, ApiEvt, PostedEvt, WindowEvts
<1> QED
  BY <1>1, <1>2, <1>3, <1>4 DEF PreviewPicTakingState

-----------------------------------------------------------------------------
(* The mapping.  What HalApi calls asked and answered, as numbers of the   *)
(* commands in api_queue and of the results.                               *)

P == "PREPARE_SNAPSHOT"

CmdOf(e) == {x \in Cmd : Code(x.evt) = e}
ResultOf(e) == {x \in Result : Code(x.evt) = e}

LEMMA CodeOfEvt ==
    /\ \A e \in ApiEvt : Code(e) \in EvtCode
    /\ \A e \in PostedEvt \cup {"none"} : Code(e) = e /\ e \notin EvtCode
    /\ Code(P) = P /\ P \in EvtCode
    /\ \A e \in {"CANCEL_PICTURE", "REG_FACE_IMAGE", "TAKE_PICTURE"} :
           e \in ApiEvt /\ Code(e) = e /\ e \in EvtCode
<1>1. \A e \in ApiEvt : Code(e) \in EvtCode
  BY DEF EvtCode
<1>2. \A e \in PostedEvt \cup {"none"} : Code(e) = e
  BY DEF Code, PostedEvt, WindowEvts, CommandEvts
<1>3. EvtCode \subseteq ApiEvt \cup {"SEND_COMMAND"}
  BY DEF EvtCode, Code, ApiEvt
<1>4. \A e \in PostedEvt \cup {"none"} : e \notin EvtCode
  BY <1>3 DEF PostedEvt, ApiEvt
<1>5. \A e \in {P, "CANCEL_PICTURE", "REG_FACE_IMAGE", "TAKE_PICTURE"} :
          e \in ApiEvt /\ Code(e) = e
  BY DEF ApiEvt, Code, WindowEvts, CommandEvts, P
<1> QED
  BY <1>1, <1>2, <1>4, <1>5

LEMMA AskedIs ==
    ASSUME TypeOK, TypeOK', NEW e
    PROVE  /\ Count(api_queue, CmdOf(e)) \in Nat
           /\ Asked(e) = Count(api_queue, CmdOf(e)) + One(Code(cur.evt) = e)
                             + One(e = P /\ hal.m_state = P)
           /\ Asked(e)' = Count(api_queue', CmdOf(e)) + One(Code(cur'.evt) = e)
                              + One(e = P /\ hal'.m_state = P)
<1>1. api_queue \in Seq(Cmd) /\ api_queue' \in Seq(Cmd)
  BY DEF TypeOK
<1>2. InQueue(e) = At(api_queue, CmdOf(e)) /\ InQueue(e)' = At(api_queue', CmdOf(e))
  BY <1>1 DEF InQueue, At, CmdOf
<1> QED
  BY <1>1, <1>2, CountType DEF Asked, Count, P

LEMMA AnsweredIs ==
    ASSUME TypeOK, TypeOK', NEW e
    PROVE  /\ Answered(e) = Count(m_apiResultList, ResultOf(e))
           /\ Answered(e)' = Count(m_apiResultList', ResultOf(e))
           /\ Answered(e) \in Nat /\ Answered(e)' \in Nat
<1>1. m_apiResultList \in Seq(Result) /\ m_apiResultList' \in Seq(Result)
  BY DEF TypeOK
<1>2. /\ Results(e) = At(m_apiResultList, ResultOf(e))
      /\ Results(e)' = At(m_apiResultList', ResultOf(e))
  BY <1>1 DEF Results, At, ResultOf
<1> QED
  BY <1>1, <1>2, CountType DEF Answered, Count

\* A command joins api_queue.
LEMMA AppendAsked ==
    ASSUME TypeOK, TypeOK', NEW x \in Cmd, api_queue' = Append(api_queue, x),
           cur' = cur, hal'.m_state = hal.m_state, NEW e
    PROVE  Asked(e) \in Nat /\ Asked(e)' = Asked(e) + One(Code(x.evt) = e)
<1>1. api_queue \in Seq(Cmd)
  BY DEF TypeOK
<1>2. Count(api_queue', CmdOf(e)) = Count(api_queue, CmdOf(e)) + One(x \in CmdOf(e))
  BY <1>1, CountAppend DEF One
<1>3. x \in CmdOf(e) <=> Code(x.evt) = e
  BY DEF CmdOf
<1>4. Asked(e)' = Count(api_queue', CmdOf(e)) + One(Code(cur.evt) = e)
                      + One(e = P /\ hal.m_state = P)
  BY AskedIs
<1>5. /\ Count(api_queue, CmdOf(e)) \in Nat
      /\ Asked(e) = Count(api_queue, CmdOf(e)) + One(Code(cur.evt) = e)
                        + One(e = P /\ hal.m_state = P)
  BY AskedIs
<1> QED
  BY <1>2, <1>3, <1>4, <1>5 DEF One

\* The command at hand is gone.
LEMMA HandledAsked ==
    ASSUME TypeOK, TypeOK', api_queue' = api_queue, cur' = NoCmd, NEW e \in EvtCode
    PROVE  /\ Asked(e) \in Nat
           /\ Code(cur.evt) = e => Asked(e) > 0
           /\ e = P /\ hal.m_state = P => Asked(e) > 0
           /\ Asked(e)' = Asked(e) - One(Code(cur.evt) = e)
                              - One(e = P /\ hal.m_state = P)
                              + One(e = P /\ hal'.m_state = P)
<1>1. Code(NoCmd.evt) # e
  BY CodeOfEvt, NoCmdCmd
<1>2. Asked(e)' = Count(api_queue, CmdOf(e)) + One(Code(NoCmd.evt) = e)
                      + One(e = P /\ hal'.m_state = P)
  BY AskedIs
<1>3. /\ Count(api_queue, CmdOf(e)) \in Nat
      /\ Asked(e) = Count(api_queue, CmdOf(e)) + One(Code(cur.evt) = e)
                        + One(e = P /\ hal.m_state = P)
  BY AskedIs
<1> QED
  BY <1>1, <1>2, <1>3 DEF One

\* A result joins the list.
LEMMA AppendAnswered ==
    ASSUME TypeOK, TypeOK', NEW x, m_apiResultList' = m_apiResultList \o <<x>>, NEW e
    PROVE  Answered(e)' = Answered(e) + One(Code(x.evt) = e)
<1>1. m_apiResultList \in Seq(Result) /\ m_apiResultList' \in Seq(Result)
  BY DEF TypeOK
<1>2. m_apiResultList' = Append(m_apiResultList, x)
  BY <1>1
<1>3. x \in Result
  <2>1. Len(m_apiResultList') = Len(m_apiResultList) + 1
        /\ m_apiResultList'[Len(m_apiResultList) + 1] = x
    BY <1>1, <1>2
  <2> QED
    BY <1>1, <2>1
<1>4. Count(m_apiResultList', ResultOf(e))
          = Count(m_apiResultList, ResultOf(e)) + One(x \in ResultOf(e))
  <2>1. Count(Append(m_apiResultList, x), ResultOf(e))
            = Count(m_apiResultList, ResultOf(e)) + One(x \in ResultOf(e))
    BY <1>1, <1>3, CountAppend DEF One
  <2> QED
    BY <1>2, <2>1
<1>5. x \in ResultOf(e) <=> Code(x.evt) = e
  BY <1>3 DEF ResultOf
<1>6. Answered(e) = Count(m_apiResultList, ResultOf(e))
  BY AnsweredIs
<1>7. Answered(e)' = Count(m_apiResultList', ResultOf(e))
  BY AnsweredIs
<1> QED
  BY <1>4, <1>5, <1>6, <1>7 DEF One

\* A caller takes the result at i.
LEMMA TakeAnswered ==
    ASSUME TypeOK, TypeOK', NEW i \in 1 .. Len(m_apiResultList),
           m_apiResultList' = Without(m_apiResultList, i), NEW e
    PROVE  /\ Answered(e) \in Nat
           /\ Code(m_apiResultList[i].evt) = e => Answered(e) > 0
           /\ Answered(e)' = Answered(e) - One(Code(m_apiResultList[i].evt) = e)
<1>1. m_apiResultList \in Seq(Result) /\ m_apiResultList[i] \in Result
  BY DEF TypeOK
<1>2. Count(m_apiResultList', ResultOf(e))
          = Count(m_apiResultList, ResultOf(e)) - One(m_apiResultList[i] \in ResultOf(e))
  BY <1>1, CountWithout DEF Without, One
<1>3. m_apiResultList[i] \in ResultOf(e) <=> Code(m_apiResultList[i].evt) = e
  BY <1>1 DEF ResultOf
<1>4. Answered(e) = Count(m_apiResultList, ResultOf(e)) /\ Answered(e) \in Nat
  BY AnsweredIs
<1>5. Answered(e)' = Count(m_apiResultList', ResultOf(e)) /\ Answered(e)' \in Nat
  BY AnsweredIs
<1> QED
  BY <1>2, <1>3, <1>4, <1>5 DEF One

-----------------------------------------------------------------------------
(* Every step is a step of HalApi.                                         *)

Waits == [c \in Caller |-> Code(call[c].evt)]
AskedOf == [e \in EvtCode |-> Asked(e)]
AnsweredOf == [e \in EvtCode |-> Answered(e)]

\* One more or one less of the event k.
LEMMA OneMore ==
    ASSUME NEW S, NEW k \in S, NEW f \in [S -> Nat], NEW g, DOMAIN g = S,
           g = [e \in S |-> g[e]], \A e \in S : g[e] = f[e] + One(k = e)
    PROVE  g = [f EXCEPT ![k] = @ + 1]
<1> DEFINE h == [f EXCEPT ![k] = @ + 1]
<1>1. \A e \in S : g[e] = IF e = k THEN f[e] + 1 ELSE f[e]
  BY DEF One
<1>2. DOMAIN h = S /\ h = [e \in S |-> h[e]] /\ \A e \in S : h[e] = g[e]
  BY <1>1
<1> HIDE DEF h
<1>3. g = h
  BY <1>2
<1> QED
  BY <1>3 DEF h

LEMMA OneLess ==
    ASSUME NEW S, NEW k \in S, NEW f \in [S -> Nat], NEW g, DOMAIN g = S,
           g = [e \in S |-> g[e]], \A e \in S : g[e] = f[e] - One(k = e)
    PROVE  g = [f EXCEPT ![k] = @ - 1]
<1> DEFINE h == [f EXCEPT ![k] = @ - 1]
<1>1. \A e \in S : g[e] = IF e = k THEN f[e] - 1 ELSE f[e]
  BY DEF One
<1>2. DOMAIN h = S /\ h = [e \in S |-> h[e]] /\ \A e \in S : h[e] = g[e]
  BY <1>1
<1> HIDE DEF h
<1>3. g = h
  BY <1>2
<1> QED
  BY <1>3 DEF h

LEMMA MapFields ==
    /\ DOMAIN AskedOf = EvtCode /\ DOMAIN AnsweredOf = EvtCode
    /\ DOMAIN AskedOf' = EvtCode /\ DOMAIN AnsweredOf' = EvtCode
    /\ \A e \in EvtCode : AskedOf[e] = Asked(e) /\ AnsweredOf[e] = Answered(e)
    /\ \A e \in EvtCode : AskedOf'[e] = Asked(e)' /\ AnsweredOf'[e] = Answered(e)'
    /\ AskedOf' = [e \in EvtCode |-> AskedOf'[e]]
    /\ AnsweredOf' = [e \in EvtCode |-> AnsweredOf'[e]]
    /\ (\A e \in EvtCode : Asked(e) \in Nat) => AskedOf \in [EvtCode -> Nat]
    /\ (\A e \in EvtCode : Answered(e) \in Nat) => AnsweredOf \in [EvtCode -> Nat]
BY DEF AskedOf, AnsweredOf

LEMMA AskedMore ==
    ASSUME NEW k \in EvtCode,
           \A e \in EvtCode : Asked(e)' = Asked(e) + One(k = e) /\ Asked(e) \in Nat
    PROVE  AskedOf' = [AskedOf EXCEPT ![k] = @ + 1]
BY MapFields, OneMore

LEMMA AskedLess ==
    ASSUME NEW k \in EvtCode,
           \A e \in EvtCode : Asked(e)' = Asked(e) - One(k = e) /\ Asked(e) \in Nat
    PROVE  AskedOf' = [AskedOf EXCEPT ![k] = @ - 1]
BY MapFields, OneLess

LEMMA AskedSame ==
    ASSUME \A e \in EvtCode : Asked(e)' = Asked(e) PROVE AskedOf' = AskedOf
BY DEF AskedOf

LEMMA AnsweredMore ==
    ASSUME NEW k \in EvtCode,
           \A e \in EvtCode :
               Answered(e)' = Answered(e) + One(k = e) /\ Answered(e) \in Nat
    PROVE  AnsweredOf' = [AnsweredOf EXCEPT ![k] = @ + 1]
BY MapFields, OneMore

LEMMA AnsweredLess ==
    ASSUME NEW k \in EvtCode,
           \A e \in EvtCode :
               Answered(e)' = Answered(e) - One(k = e) /\ Answered(e) \in Nat
    PROVE  AnsweredOf' = [AnsweredOf EXCEPT ![k] = @ - 1]
BY MapFields, OneLess

LEMMA AnsweredSame ==
    ASSUME m_apiResultList' = m_apiResultList PROVE AnsweredOf' = AnsweredOf
BY DEF AnsweredOf, Answered, Results

LEMMA WaitsSame == ASSUME call' = call PROVE Waits' = Waits
BY DEF Waits

\* A caller waits for another event, or for none.
LEMMA WaitsFor ==
    ASSUME TypeOK, NEW c \in Caller, NEW e, call' = [call EXCEPT ![c] = Waiting(e)]
    PROVE  Waits' = [Waits EXCEPT ![c] = Code(e)] /\ Waits[c] = Code(call[c].evt)
<1>1. call \in [Caller -> CallState]
  BY DEF TypeOK
<1> QED
  BY <1>1 DEF Waits, Waiting

\* The broadcast changes no event waited for.
LEMMA HandledWaits ==
    ASSUME TypeOK, NEW h, NEW res, Handled(h, res) PROVE Waits' = Waits
<1>1. \A c \in Caller : call[c] \in CallState
  BY DEF TypeOK
<1>2. \A c \in Caller : call'[c].evt = call[c].evt
  <2> SUFFICES ASSUME NEW c \in Caller PROVE call'[c].evt = call[c].evt
    OBVIOUS
  <2>1. call'[c] = [call[c] EXCEPT !.woken =
                        @ \/ (call[c].evt # "none" /\ res # <<>>)]
    BY DEF Handled
  <2> QED
    BY <1>1, <2>1 DEF CallState
<1> QED
  BY <1>2 DEF Waits

LEMMA EnterApi ==
    ASSUME TypeOK, TypeOK', NEW c \in Caller, Enter(c)
    PROVE  \E e \in EvtCode : Api!Ask(c, e)
<1>1. PICK e \in Calls :
          \E p \in IF e = "SET_PARAMS" THEN ParamValues ELSE {NoParams} :
              /\ api_queue' = Append(api_queue, ApiCmd(e, p))
              /\ call' = [call EXCEPT ![c] = Waiting(e)]
  BY DEF Enter
<1>2. PICK p \in IF e = "SET_PARAMS" THEN ParamValues ELSE {NoParams} :
          /\ api_queue' = Append(api_queue, ApiCmd(e, p))
          /\ call' = [call EXCEPT ![c] = Waiting(e)]
  BY <1>1
<1>3. e \in ApiEvt /\ Code(e) \in EvtCode
  BY StateMachineAssumption, CodeOfEvt
<1>4. ApiCmd(e, p) \in Cmd /\ ApiCmd(e, p).evt = e
  <2>1. NoParams \in Params /\ ParamValues \subseteq Params /\ 0 \in 0 .. MaxPics - 1
    BY StateMachineAssumption, DeviceAssumption DEF NoParams, Params
  <2>2. p \in ParamValues \/ p = NoParams
    BY <1>2
  <2> QED
    BY <1>3, <2>1, <2>2 DEF ApiCmd, Cmd, Evt
<1>5. UNCHANGED <<hal, cur, evt_queue, m_apiResultList, notifier>>
      /\ call[c].evt = "none"
  BY DEF Enter
<1>6. \A f \in EvtCode : Asked(f)' = Asked(f) + One(Code(e) = f) /\ Asked(f) \in Nat
  BY <1>2, <1>4, <1>5, AppendAsked
<1>7. AskedOf' = [AskedOf EXCEPT ![Code(e)] = @ + 1] /\ AnsweredOf' = AnsweredOf
  BY <1>3, <1>5, <1>6, AskedMore, AnsweredSame
<1>8. Waits' = [Waits EXCEPT ![c] = Code(e)] /\ Waits[c] = "none"
  BY <1>2, <1>5, WaitsFor, CodeOfEvt
<1> QED
  BY <1>3, <1>7, <1>8 DEF Api!Ask, Waits, AskedOf, AnsweredOf

LEMMA WaitAPIResultApi ==
    ASSUME TypeOK, TypeOK', NEW c \in Caller, WaitAPIResult(c)
    PROVE  Api!Return(c) \/ \E e \in EvtCode : Api!ReturnAndAsk(c, e)
<1> DEFINE k == Code(call[c].evt)
<1>1. PICK i \in 1 .. Len(m_apiResultList) :
          Mine(c, i) /\ m_apiResultList' = Without(m_apiResultList, i)
  BY DEF WaitAPIResult
<1>2. Code(m_apiResultList[i].evt) = k
  BY <1>1 DEF Mine
<1>3. call[c].evt \in ApiEvt /\ k \in EvtCode /\ call \in [Caller -> CallState]
  <2>1. call[c].evt # "none" /\ call \in [Caller -> CallState]
    BY DEF WaitAPIResult, TypeOK
  <2>2. call[c].evt \in ApiEvt
    BY <2>1 DEF CallState
  <2> QED
    BY <2>1, <2>2, CodeOfEvt
<1>4. k # "none" /\ Waits[c] = k
  BY <1>3, CodeOfEvt DEF Waits
<1>5. \A f \in EvtCode : /\ Answered(f)' = Answered(f) - One(k = f)
                         /\ Answered(f) \in Nat
                         /\ k = f => Answered(f) > 0
  BY <1>1, <1>2, TakeAnswered
<1> HIDE DEF k
<1>6. AnsweredOf' = [AnsweredOf EXCEPT ![k] = @ - 1] /\ AnsweredOf[k] > 0
  BY <1>3, <1>5, AnsweredLess DEF AnsweredOf
<1>7. UNCHANGED <<hal, cur>>
  BY DEF WaitAPIResult
<1>8. CASE call[c].evt = P
  <2> DEFINE x == ApiCmd("TAKE_PICTURE", NoParams)
  <2>1. api_queue' = Append(api_queue, x)
        /\ call' = [call EXCEPT ![c] = Waiting("TAKE_PICTURE")]
    BY <1>8 DEF WaitAPIResult, P
  <2>2. x \in Cmd /\ x.evt = "TAKE_PICTURE"
    BY DeviceAssumption DEF ApiCmd, Cmd, Evt, ApiEvt, NoParams, Params
  <2> HIDE DEF x
  <2>3. \A f \in EvtCode : /\ Asked(f)' = Asked(f) + One("TAKE_PICTURE" = f)
                           /\ Asked(f) \in Nat
    BY <1>7, <2>1, <2>2, AppendAsked, CodeOfEvt
  <2>4. AskedOf' = [AskedOf EXCEPT !["TAKE_PICTURE"] = @ + 1]
    BY <2>3, AskedMore, CodeOfEvt
  <2>5. Waits' = [Waits EXCEPT ![c] = Code("TAKE_PICTURE")]
    BY <2>1, WaitsFor
  <2>6. Api!ReturnAndAsk(c, "TAKE_PICTURE")
    BY <1>4, <1>6, <2>4, <2>5, CodeOfEvt
       DEF Api!ReturnAndAsk, Api!TakeAnswer, Waits, AskedOf, AnsweredOf
  <2> QED
    BY <2>6, CodeOfEvt
<1>9. CASE call[c].evt # P
  <2>1. api_queue' = api_queue /\ call' = [call EXCEPT ![c] = Waiting("none")]
    BY <1>9 DEF WaitAPIResult, P, Idle
  <2>2. AskedOf' = AskedOf
    BY <1>7, <2>1, AskedSame DEF Asked, InQueue
  <2>3. Waits' = [Waits EXCEPT ![c] = Code("none")]
    BY <2>1, WaitsFor
  <2> QED
    BY <1>4, <1>6, <2>2, <2>3, CodeOfEvt
       DEF Api!Return, Api!TakeAnswer, Waits, AskedOf, AnsweredOf
<1> QED
  BY <1>8, <1>9

-----------------------------------------------------------------------------
(* Only posted events wait in evt_queue, so nothing there was asked for.   *)

EvtsPosted == \A i \in 1 .. Len(evt_queue) : evt_queue[i].evt \in PostedEvt

LEMMA AppendPosted ==
    ASSUME TypeOK, EvtsPosted, NEW x \in Cmd, x.evt \in PostedEvt,
           evt_queue' = Append(evt_queue, x)
    PROVE  EvtsPosted'
BY DEF TypeOK, EvtsPosted

LEMMA HandledPosted ==
    ASSUME TypeOK, EvtsPosted, NEW h \in Device, NEW res, Handled(h, res)
    PROVE  EvtsPosted'
<1>1. h.pic \in 0 .. MaxPics - 1 /\ "SNAPSHOT_DONE" \in PostedEvt \cap Evt
  BY DEF Device, PostedEvt, Evt
<1>2. /\ Post("SNAPSHOT_DONE", h.pic) \in Cmd
      /\ Post("SNAPSHOT_DONE", h.pic).evt = "SNAPSHOT_DONE"
  BY <1>1, PostCmd
<1>3. evt_queue' = evt_queue
      \/ evt_queue' = Append(evt_queue, Post("SNAPSHOT_DONE", h.pic))
  BY DEF Handled
<1> QED
  BY <1>1, <1>2, <1>3, AppendPosted DEF EvtsPosted

ApiSame == Waits' = Waits /\ AskedOf' = AskedOf /\ AnsweredOf' = AnsweredOf

\* A thread that posts an event of no caller, and one that posts nothing.
LEMMA PostsApi ==
    ASSUME TypeOK, TypeOK', SnapshotDone \/ StopCapture \/ PrepSnapshotDone
    PROVE  ApiSame
<1>1. UNCHANGED <<cur, m_apiResultList, call>>
  BY DEF SnapshotDone, StopCapture, PrepSnapshotDone
<1>2. hal'.m_state = hal.m_state
  BY DEF SnapshotDone, StopCapture, PrepSnapshotDone, TypeOK, Device
<1>3. Waits' = Waits /\ AnsweredOf' = AnsweredOf
  BY <1>1, WaitsSame, AnsweredSame
<1>4. CASE api_queue' = api_queue
  <2>1. AskedOf' = AskedOf
    BY <1>1, <1>2, <1>4, AskedSame DEF Asked, InQueue
  <2> QED
    BY <1>3, <2>1 DEF ApiSame
<1>5. CASE StopCapture
  <2> DEFINE x == Post("STOP_CAPTURE_CHANNEL", hal.pic)
  <2>1. api_queue' = Append(api_queue, x)
    BY <1>5 DEF StopCapture
  <2>2. x \in Cmd /\ x.evt = "STOP_CAPTURE_CHANNEL"
    BY PostCmd DEF TypeOK, Device, Evt, PostedEvt
  <2> HIDE DEF x
  <2>3. Code(x.evt) \notin EvtCode
    BY <2>2, CodeOfEvt DEF PostedEvt
  <2>4. \A e \in EvtCode : Asked(e)' = Asked(e)
    <3> SUFFICES ASSUME NEW e \in EvtCode PROVE Asked(e)' = Asked(e)
      OBVIOUS
    <3>1. Asked(e)' = Asked(e) + One(Code(x.evt) = e) /\ Asked(e) \in Nat
      BY <1>1, <1>2, <2>1, <2>2, AppendAsked
    <3> QED
      BY <2>3, <3>1 DEF One
  <2> QED
    BY <1>3, <2>4, AskedSame DEF ApiSame
<1> QED
  BY <1>4, <1>5 DEF SnapshotDone, PrepSnapshotDone

LEMMA LiveSnapshotApi ==
    ASSUME TypeOK, TypeOK', LiveSnapshotThread
    PROVE  ApiSame \/ Api!AskAndLeave("CANCEL_PICTURE")
<1>1. UNCHANGED <<cur, m_apiResultList, call>>
  BY DEF LiveSnapshotThread
<1>2. PICK o \in LiveSnapshot(hal) :
          /\ hal' = o.h
          /\ api_queue' = IF o.ok THEN api_queue
                          ELSE Append(api_queue, Post("CANCEL_PICTURE", hal.pic))
  BY DEF LiveSnapshotThread
<1>3. hal'.m_state = hal.m_state
  BY <1>2, LiveSnapshotDevice DEF TypeOK
<1>4. Waits' = Waits /\ AnsweredOf' = AnsweredOf
  BY <1>1, WaitsSame, AnsweredSame
<1>5. CASE o.ok
  <2>1. AskedOf' = AskedOf
    BY <1>1, <1>2, <1>3, <1>5, AskedSame DEF Asked, InQueue
  <2> QED
    BY <1>4, <2>1 DEF ApiSame
<1>6. CASE ~o.ok
  <2> DEFINE x == Post("CANCEL_PICTURE", hal.pic)
  <2>1. api_queue' = Append(api_queue, x)
    BY <1>2, <1>6
  <2>2. x \in Cmd /\ x.evt = "CANCEL_PICTURE"
    BY PostCmd DEF TypeOK, Device, Evt, ApiEvt
  <2> HIDE DEF x
  <2>3. \A e \in EvtCode : /\ Asked(e)' = Asked(e) + One("CANCEL_PICTURE" = e)
                           /\ Asked(e) \in Nat
    BY <1>1, <1>3, <2>1, <2>2, AppendAsked, CodeOfEvt
  <2>4. AskedOf' = [AskedOf EXCEPT !["CANCEL_PICTURE"] = @ + 1]
    BY <2>3, AskedMore, CodeOfEvt
  <2> QED
    BY <1>4, <2>4 DEF Api!AskAndLeave, Waits, AskedOf, AnsweredOf
<1> QED
  BY <1>5, <1>6

\* What was asked for is now being handled.
LEMMA DequeueApi == ASSUME TypeOK, TypeOK', EvtsPosted, Dequeue PROVE ApiSame
<1>1. UNCHANGED <<hal, m_apiResultList, call>> /\ cur = NoCmd
  BY DEF Dequeue
<1>2. \A e \in EvtCode : Asked(e)' = Asked(e)
  <2> SUFFICES ASSUME NEW e \in EvtCode PROVE Asked(e)' = Asked(e)
    OBVIOUS
  <2>1. Code(cur.evt) # e
    BY <1>1, CodeOfEvt, NoCmdCmd
  <2>2. /\ Count(api_queue, CmdOf(e)) \in Nat
        /\ Asked(e) = Count(api_queue, CmdOf(e)) + One(Code(cur.evt) = e)
                          + One(e = P /\ hal.m_state = P)
        /\ Asked(e)' = Count(api_queue', CmdOf(e)) + One(Code(cur'.evt) = e)
                           + One(e = P /\ hal.m_state = P)
    BY <1>1, AskedIs
  <2>3. CASE api_queue # <<>>
    <3>1. cur' = Head(api_queue) /\ api_queue' = Tail(api_queue)
      BY <2>3 DEF Dequeue
    <3>2. api_queue \in Seq(Cmd) /\ Head(api_queue) \in Cmd
      BY <2>3 DEF TypeOK
    <3>3. Count(api_queue', CmdOf(e))
              = Count(api_queue, CmdOf(e)) - One(Head(api_queue) \in CmdOf(e))
      BY <2>3, <3>1, <3>2, CountTail DEF One
    <3>4. Head(api_queue) \in CmdOf(e) <=> Code(cur'.evt) = e
      BY <3>1, <3>2 DEF CmdOf
    <3> QED
      BY <2>1, <2>2, <3>3, <3>4 DEF One
  <2>4. CASE api_queue = <<>>
    <3>1. api_queue' = api_queue /\ evt_queue # <<>> /\ cur' = Head(evt_queue)
      BY <2>4 DEF Dequeue
    <3>2. Head(evt_queue) = evt_queue[1] /\ 1 \in 1 .. Len(evt_queue)
      BY <3>1 DEF TypeOK
    <3>3. Code(cur'.evt) # e
      BY <3>1, <3>2, CodeOfEvt DEF EvtsPosted
    <3> QED
      BY <2>1, <2>2, <3>1, <3>3 DEF One
  <2> QED
    BY <2>3, <2>4
<1> QED
  BY <1>1, <1>2, WaitsSame, AskedSame, AnsweredSame DEF ApiSame

-----------------------------------------------------------------------------
(* The steps of the state machine thread, in HalApi.                       *)

LEMMA HandledNone ==
    ASSUME TypeOK, NEW h, Handled(h, <<>>)
    PROVE  /\ api_queue' = api_queue /\ cur' = NoCmd
           /\ Waits' = Waits /\ m_apiResultList' = m_apiResultList
<1>1. m_apiResultList' = m_apiResultList \o <<>>
  BY DEF Handled
<1>2. m_apiResultList' = m_apiResultList
  BY <1>1 DEF TypeOK
<1>3. api_queue' = api_queue /\ cur' = NoCmd
  BY DEF Handled
<1> QED
  BY <1>2, <1>3, HandledWaits

\* A handler that neither enters nor leaves PREPARE_SNAPSHOT.
LEMMA RepliedApi ==
    ASSUME TypeOK, TypeOK', Replied, hal'.m_state = P <=> hal.m_state = P
    PROVE  ApiSame \/ \E e \in EvtCode : Api!Answer(e)
<1>1. api_queue' = api_queue /\ cur' = NoCmd /\ Waits' = Waits
  BY HandledWaits DEF Replied, Handled
<1>2. \A e \in EvtCode : /\ Asked(e)' = Asked(e) - One(Code(cur.evt) = e)
                         /\ Asked(e) \in Nat
                         /\ Code(cur.evt) = e => Asked(e) > 0
  <2> SUFFICES ASSUME NEW e \in EvtCode
               PROVE  /\ Asked(e)' = Asked(e) - One(Code(cur.evt) = e)
                      /\ Asked(e) \in Nat
                      /\ Code(cur.evt) = e => Asked(e) > 0
    OBVIOUS
  <2>1. One(e = P /\ hal'.m_state = P) = One(e = P /\ hal.m_state = P)
    BY DEF One
  <2>2. /\ Asked(e) \in Nat
        /\ Code(cur.evt) = e => Asked(e) > 0
        /\ Asked(e)' = Asked(e) - One(Code(cur.evt) = e)
                           - One(e = P /\ hal.m_state = P)
                           + One(e = P /\ hal'.m_state = P)
    BY <1>1, HandledAsked
  <2> QED
    BY <2>1, <2>2 DEF One
<1>3. CASE cur.evt \in ApiEvt
  <2> DEFINE k == Code(cur.evt)
  <2>1. k \in EvtCode
    BY <1>3, CodeOfEvt
  <2>2. PICK ok : m_apiResultList' = m_apiResultList \o <<[evt |-> cur.evt, ok |-> ok]>>
    BY <1>3 DEF Replied, Handled
  <2>3. \A e \in EvtCode : /\ Answered(e)' = Answered(e) + One(k = e)
                           /\ Answered(e) \in Nat
    <3> DEFINE x == [evt |-> cur.evt, ok |-> ok]
    <3>1. x.evt = cur.evt
      OBVIOUS
    <3> HIDE DEF x
    <3> SUFFICES ASSUME NEW e \in EvtCode
                 PROVE  /\ Answered(e)' = Answered(e) + One(k = e)
                        /\ Answered(e) \in Nat
      OBVIOUS
    <3>2. m_apiResultList' = m_apiResultList \o <<x>>
      BY <2>2 DEF x
    <3>3. Answered(e)' = Answered(e) + One(Code(x.evt) = e)
      BY <3>2, AppendAnswered
    <3> QED
      BY <3>1, <3>3, AnsweredIs
  <2> HIDE DEF k
  <2>4. AnsweredOf' = [AnsweredOf EXCEPT ![k] = @ + 1]
    BY <2>1, <2>3, AnsweredMore
  <2>5. AskedOf' = [AskedOf EXCEPT ![k] = @ - 1] /\ AskedOf[k] > 0
    BY <1>2, <2>1, AskedLess DEF k, AskedOf
  <2>6. Api!Answer(k)
    BY <1>1, <2>4, <2>5 DEF Api!Answer, Waits, AskedOf, AnsweredOf
  <2> QED
    BY <2>1, <2>6
<1>4. CASE cur.evt \notin ApiEvt
  <2>1. m_apiResultList' = m_apiResultList
    BY <1>4 DEF Replied, Handled, TypeOK
  <2>2. Code(cur.evt) \notin EvtCode
    <3>1. cur.evt \in PostedEvt \cup {"none"}
      BY <1>4 DEF TypeOK, Cmd, Evt
    <3> QED
      BY <3>1, CodeOfEvt
  <2>3. \A e \in EvtCode : Asked(e)' = Asked(e)
    BY <1>2, <2>2 DEF One
  <2> QED
    BY <1>1, <2>1, <2>3, AskedSame, AnsweredSame DEF ApiSame
<1> QED
  BY <1>3, <1>4

\* PREPARE_SNAPSHOT stays asked for when the state of its name is entered.
LEMMA PreviewingPrepareApi ==
    ASSUME TypeOK, TypeOK', PreviewingPrepareSnapshot
    PROVE  ApiSame \/ \E e \in EvtCode : Api!Answer(e)
<1>1. hal.m_state = "PREVIEWING" /\ cur.evt = P
  BY DEF PreviewingPrepareSnapshot, Previewing, Handling, P
<1> DEFINE g == [Goto(hal, P) EXCEPT !.prep = TRUE]
<1>2. CASE Ignore(g)
  <2>1. g.m_state = P
    BY DEF TypeOK, Device, Goto
  <2> HIDE DEF g
  <2>2. hal'.m_state = P
    <3>1. Handled(g, <<>>)
      BY <1>2 DEF Ignore
    <3>2. hal' = [g EXCEPT !.posted = FALSE]
      BY <3>1 DEF Handled
    <3>3. hal'.m_state \in MState
      BY DEF TypeOK, Device
    <3>4. g \in Device
      <4>1. Goto(hal, P) \in Device
        BY GotoFields DEF TypeOK, MState, P
      <4> QED
        BY <4>1 DEF g, Device
    <3> QED
      BY <2>1, <3>2, <3>4, PostedFields
  <2>3. api_queue' = api_queue /\ cur' = NoCmd /\ Waits' = Waits
        /\ m_apiResultList' = m_apiResultList
    BY <1>2, HandledNone DEF Ignore
  <2>4. \A e \in EvtCode : Asked(e)' = Asked(e)
    <3> SUFFICES ASSUME NEW e \in EvtCode PROVE Asked(e)' = Asked(e)
      OBVIOUS
    <3>1. /\ Asked(e) \in Nat
          /\ Asked(e)' = Asked(e) - One(Code(cur.evt) = e)
                             - One(e = P /\ hal.m_state = P)
                             + One(e = P /\ hal'.m_state = P)
      BY <2>3, HandledAsked
    <3>2. Code(cur.evt) = P /\ hal.m_state # P
      BY <1>1, CodeOfEvt DEF P
    <3> QED
      BY <2>2, <3>1, <3>2 DEF One
  <2> QED
    BY <2>3, <2>4, AskedSame, AnsweredSame DEF ApiSame
<1>3. CASE Refuse(hal)
  <2>1. Replied
    BY <1>1, <1>3, PlainReplied, CodeOfEvt DEF P, ApiEvt
  <2>2. hal'.m_state = hal.m_state
    BY <1>3, PostedFields DEF Refuse, Reply, Handled, TypeOK
  <2> QED
    BY <2>1, <2>2, RepliedApi
<1> QED
  BY <1>2, <1>3 DEF PreviewingPrepareSnapshot, P

LEMMA PrepareSnapshotApi ==
    ASSUME TypeOK, TypeOK', PrepareSnapshotState
    PROVE  ApiSame \/ (\E e \in EvtCode : Api!Answer(e)) \/ Api!Drop("REG_FACE_IMAGE")
<1>1. hal.m_state = P /\ hal \in Device
  BY DEF PrepareSnapshotState, PreparingInvalid, PreparingDone,
         PreparingSnapshotDone, PreparingIgnore, Preparing, Handling, P, TypeOK
<1>2. ASSUME NEW res, Handled(hal, res) PROVE hal'.m_state = hal.m_state
  BY <1>1, <1>2, PostedFields DEF Handled
<1>3. CASE PreparingInvalid
  <2>1. cur.evt \in ApiEvt /\ Refuse(hal)
    BY <1>3 DEF PreparingInvalid, Preparing, Handling
  <2>2. Replied /\ hal'.m_state = hal.m_state
    BY <1>2, <2>1, PlainReplied DEF Refuse, Reply
  <2> QED
    BY <2>2, RepliedApi
<1>4. CASE PreparingSnapshotDone \/ (PreparingIgnore /\ cur.evt # "REG_FACE_IMAGE")
  <2>1. cur.evt \in PostedEvt /\ (ReplyEvt(hal) \/ Ignore(hal))
    BY <1>4 DEF PreparingSnapshotDone, PreparingIgnore, Preparing, Handling, PostedEvt
  <2>2. Replied /\ hal'.m_state = hal.m_state
    BY <1>2, <2>1, PlainReplied DEF ReplyEvt, Ignore
  <2> QED
    BY <2>2, RepliedApi
<1>5. CASE PreparingIgnore /\ cur.evt = "REG_FACE_IMAGE"
  <2>1. Handled(hal, <<>>)
    BY <1>5 DEF PreparingIgnore, Ignore
  <2>2. api_queue' = api_queue /\ cur' = NoCmd /\ Waits' = Waits
        /\ m_apiResultList' = m_apiResultList /\ hal'.m_state = hal.m_state
    BY <1>2, <2>1, HandledNone
  <2>3. \A e \in EvtCode : /\ Asked(e)' = Asked(e) - One("REG_FACE_IMAGE" = e)
                           /\ Asked(e) \in Nat
                           /\ "REG_FACE_IMAGE" = e => Asked(e) > 0
    <3> SUFFICES ASSUME NEW e \in EvtCode
                 PROVE  /\ Asked(e)' = Asked(e) - One("REG_FACE_IMAGE" = e)
                        /\ Asked(e) \in Nat
                        /\ "REG_FACE_IMAGE" = e => Asked(e) > 0
      OBVIOUS
    <3>1. /\ Asked(e) \in Nat
          /\ Code(cur.evt) = e => Asked(e) > 0
          /\ Asked(e)' = Asked(e) - One(Code(cur.evt) = e)
                             - One(e = P /\ hal.m_state = P)
                             + One(e = P /\ hal'.m_state = P)
      BY <2>2, HandledAsked
    <3>2. Code(cur.evt) = "REG_FACE_IMAGE"
      BY <1>5, CodeOfEvt
    <3> QED
      BY <2>2, <3>1, <3>2 DEF One
  <2>4. AskedOf' = [AskedOf EXCEPT !["REG_FACE_IMAGE"] = @ - 1]
        /\ AskedOf["REG_FACE_IMAGE"] > 0
    BY <2>3, AskedLess, CodeOfEvt DEF AskedOf
  <2>5. AnsweredOf' = AnsweredOf
    BY <2>2, AnsweredSame
  <2> QED
    BY <2>2, <2>4, <2>5 DEF Api!Drop, Waits, AskedOf, AnsweredOf
<1>6. CASE PreparingDone
  <2> DEFINE x == [evt |-> P, ok |-> TRUE]
             g == Goto(hal, "PREVIEWING")
  <2>1. cur.evt = "PREP_SNAPSHOT_DONE" /\ Handled(g, <<x>>)
    BY <1>6 DEF PreparingDone, Preparing, Handling, P
  <2>2. g \in Device /\ g.m_state = "PREVIEWING"
    BY <1>1, GotoFields DEF MState
  <2> HIDE DEF g
  <2>3. hal'.m_state = "PREVIEWING" /\ x.evt = P
    BY <2>1, <2>2, PostedFields DEF Handled
  <2> HIDE DEF x
  <2>4. api_queue' = api_queue /\ cur' = NoCmd /\ Waits' = Waits
        /\ m_apiResultList' = m_apiResultList \o <<x>>
    BY <2>1, HandledWaits DEF Handled
  <2>5. \A e \in EvtCode : /\ Asked(e)' = Asked(e) - One(P = e)
                           /\ Asked(e) \in Nat
                           /\ P = e => Asked(e) > 0
    <3> SUFFICES ASSUME NEW e \in EvtCode
                 PROVE  /\ Asked(e)' = Asked(e) - One(P = e)
                        /\ Asked(e) \in Nat
                        /\ P = e => Asked(e) > 0
      OBVIOUS
    <3>1. /\ Asked(e) \in Nat
          /\ e = P /\ hal.m_state = P => Asked(e) > 0
          /\ Asked(e)' = Asked(e) - One(Code(cur.evt) = e)
                             - One(e = P /\ hal.m_state = P)
                             + One(e = P /\ hal'.m_state = P)
      BY <2>4, HandledAsked
    <3>2. Code(cur.evt) # e /\ hal'.m_state # P
      BY <2>1, <2>3, CodeOfEvt DEF PostedEvt, P
    <3> QED
      BY <1>1, <3>1, <3>2 DEF One
  <2>6. \A e \in EvtCode : Answered(e)' = Answered(e) + One(P = e) /\ Answered(e) \in Nat
    BY <2>3, <2>4, AppendAnswered, AnsweredIs, CodeOfEvt
  <2>7. AskedOf' = [AskedOf EXCEPT ![P] = @ - 1] /\ AskedOf[P] > 0
    BY <2>5, AskedLess, CodeOfEvt DEF AskedOf
  <2>8. AnsweredOf' = [AnsweredOf EXCEPT ![P] = @ + 1]
    BY <2>6, AnsweredMore, CodeOfEvt
  <2>9. Api!Answer(P)
    BY <2>4, <2>7, <2>8 DEF Api!Answer, Waits, AskedOf, AnsweredOf
  <2> QED
    BY <2>9, CodeOfEvt
<1> QED
  BY <1>3, <1>4, <1>5, <1>6 DEF PrepareSnapshotState

\* What one handler does to the state, and to what is asked and answered.
LEMMA StateMachineApi ==
    ASSUME IInv, IInv', StateMachine
    PROVE  ApiSame \/ (\E e \in EvtCode : Api!Answer(e)) \/ Api!Drop("REG_FACE_IMAGE")
<1>1. TypeOK /\ TypeOK'
  BY DEF IInv
<1>2. ASSUME Settles, Replied, hal.m_state # P
      PROVE  ApiSame \/ \E e \in EvtCode : Api!Answer(e)
  <2>1. hal'.m_state # P
    BY <1>2, PostedFields DEF Settles, Handled, Good, P
  <2> QED
    BY <1>1, <1>2, <2>1, RepliedApi
<1>3. CASE PreviewStoppedState
  <2>1. hal.m_state # P
    BY <1>3 DEF PreviewStoppedState, StoppedSetWindow, StoppedSetParams,
         StoppedStartPreview, StoppedStartNoDisplay, StoppedRelease,
         StoppedCommand, StoppedNoOp, StoppedInvalid, StoppedSnapshotDone,
         StoppedIgnore, Stopped, Handling, P
  <2> QED
    BY <1>2, <1>3, <2>1, StoppedSettles, StoppedReplied
<1>4. CASE PreviewReadyState
  <2>1. hal.m_state # P
    BY <1>4 DEF PreviewReadyState, ReadySetWindow, ReadySetParams, ReadyStopPreview,
         ReadyCommand, ReadyNoOp, ReadyInvalid, ReadySnapshotDone, ReadyIgnore,
         Ready, Handling, P
  <2> QED
    BY <1>2, <1>4, <2>1, ReadySettles, ReadyReplied
<1>5. CASE PreviewingState
  <2>1. hal.m_state # P
    BY <1>5 DEF PreviewingState, PreviewingSetParams, PreviewingStopPreview,
         PreviewingStartRecording, PreviewingPrepareSnapshot,
         PreviewingTakePicture, PreviewingCommand, PreviewingNoOp,
         PreviewingInvalid, PreviewingSnapshotDone, PreviewingIgnore,
         Previewing, Handling, P
  <2>2. CASE PreviewingPrepareSnapshot
    BY <1>1, <2>2, PreviewingPrepareApi
  <2> QED
    BY <1>2, <1>5, <2>1, <2>2, PreviewingSettles, PreviewingReplied
<1>6. CASE PrepareSnapshotState
  BY <1>1, <1>6, PrepareSnapshotApi
<1>7. CASE PicTakingState
  <2>1. hal.m_state # P
    BY <1>7 DEF PicTakingState, PicTakingSetParams, PicTakingCancel,
         PicTakingLongshotOn, PicTakingLongshotOff, PicTakingTakePicture,
         PicTakingNoOp, PicTakingInvalid, PicTakingStopCapture,
         PicTakingSnapshotDone, PicTaking, Handling, P
  <2> QED
    BY <1>2, <1>7, <2>1, PicTakingSettles, PicTakingReplied
<1>8. CASE RecordingState
  <2>1. hal.m_state # P
    BY <1>8 DEF RecordingState, RecordingSetParams, RecordingTakePicture,
         RecordingStopRecording, RecordingStopPreview, RecordingCommand,
         RecordingNoOp, RecordingInvalid, RecordingSnapshotDone,
         RecordingIgnore, Recording, Handling, P
  <2> QED
    BY <1>2, <1>8, <2>1, RecordingSettles, RecordingReplied
<1>9. CASE VideoPicTakingState
  <2>1. hal.m_state # P
    BY <1>9 DEF VideoPicTakingState, VideoPicSetParams, VideoPicCancel,
         VideoPicStopRecording, VideoPicStopPreview, VideoPicCommand,
         VideoPicNoOp, VideoPicInvalid, VideoPicSnapshotDone, VideoPicIgnore,
         VideoPic, Handling, P
  <2> QED
    BY <1>2, <1>9, <2>1, VideoPicSettles, VideoPicReplied
<1>10. CASE PreviewPicTakingState
  <2>1. hal.m_state # P
    BY <1>10 DEF PreviewPicTakingState, PreviewPicSetParams, PreviewPicCancel,
         PreviewPicStopPreview, PreviewPicStartRecording, PreviewPicLongshotOn,
         PreviewPicLongshotOff, PreviewPicTakePicture, PreviewPicNoOp,
         PreviewPicInvalid, PreviewPicSnapshotDone, PreviewPicIgnore,
         PreviewPic, Handling, P
  <2> QED
    BY <1>2, <1>10, <2>1, PreviewPicSettles, PreviewPicReplied
<1> QED
  BY <1>3, <1>4, <1>5, <1>6, <1>7, <1>8, <1>9, <1>10 DEF StateMachine

\* Only the state machine thread, the notifier, the metadata and the longshot
\* command put events into evt_queue.
\* A step of the state machine thread is the return of a handler.
LEMMA StateMachineHandled ==
    ASSUME IInv, StateMachine PROVE \E h \in Device : \E res : Handled(h, res)
<1>1. hal \in Device
  BY DEF IInv, TypeOK
<1>2. ASSUME Settles PROVE \E h \in Device : \E res : Handled(h, res)
  BY <1>2 DEF Settles, Good
<1>3. CASE PreviewingPrepareSnapshot
  <2> DEFINE v == Goto(hal, "PREPARE_SNAPSHOT")
             g == [v EXCEPT !.prep = TRUE]
  <2>1. v \in Device
    BY <1>1, GotoFields DEF MState
  <2>2. g \in Device
    BY <2>1 DEF Device
  <2> QED
    BY <1>1, <1>3, <2>2 DEF PreviewingPrepareSnapshot, Ignore, Refuse, Reply
<1>4. CASE PrepareSnapshotState
  <2>1. Goto(hal, "PREVIEWING") \in Device
    BY <1>1, GotoFields DEF MState
  <2> QED
    BY <1>1, <1>4, <2>1
       DEF PrepareSnapshotState, PreparingInvalid, PreparingDone,
           PreparingSnapshotDone, PreparingIgnore, Refuse, Reply, ReplyEvt, Ignore
<1> QED
  BY <1>2, <1>3, <1>4, StoppedSettles, ReadySettles, PreviewingSettles,
     PicTakingSettles, RecordingSettles, VideoPicSettles, PreviewPicSettles
     DEF StateMachine

LEMMA NextPosted ==
    ASSUME IInv, EvtsPosted, [Next]_vars PROVE EvtsPosted'
<1>1. TypeOK /\ hal \in Device /\ hal.pic \in 0 .. MaxPics - 1
  BY DEF IInv, TypeOK, Device
<1>2. CASE evt_queue' = evt_queue
  BY <1>2 DEF EvtsPosted
<1>3. CASE SnapshotDone
  <2>1. /\ Post("SNAPSHOT_DONE", hal.pic) \in Cmd
        /\ Post("SNAPSHOT_DONE", hal.pic).evt \in PostedEvt
    BY <1>1, PostCmd DEF Evt, PostedEvt
  <2> QED
    BY <1>1, <1>3, <2>1, AppendPosted DEF SnapshotDone
<1>4. CASE PrepSnapshotDone
  <2>1. /\ Post("PREP_SNAPSHOT_DONE", hal.pic) \in Cmd
        /\ Post("PREP_SNAPSHOT_DONE", hal.pic).evt \in PostedEvt
    BY <1>1, PostCmd DEF Evt, PostedEvt
  <2> QED
    BY <1>1, <1>4, <2>1, AppendPosted DEF PrepSnapshotDone
<1>5. CASE Dequeue /\ evt_queue' = Tail(evt_queue) /\ evt_queue # <<>>
  BY <1>1, <1>5 DEF TypeOK, EvtsPosted
<1>6. CASE StateMachine
  BY <1>1, <1>6, StateMachineHandled, HandledPosted
<1> QED
  BY <1>2, <1>3, <1>4, <1>5, <1>6
     DEF Next, Enter, WaitAPIResult, StopCapture, LiveSnapshotThread, Dequeue, vars

LEMMA InitApi == ASSUME Init PROVE EvtsPosted /\ Api!Init
<1>1. EvtsPosted
  BY DEF Init, EvtsPosted
<1>2. IInv
  BY InitIInv
<1>3. hal.m_state # P
  <2>1. PICK jpeg \in JpegFormats : hal = InitDevice(jpeg)
    BY DEF Init
  <2> QED
    BY <2>1 DEF InitDevice, P
<1>4. \A e \in EvtCode : Asked(e) = 0 /\ Answered(e) = 0
  <2> SUFFICES ASSUME NEW e \in EvtCode PROVE Asked(e) = 0 /\ Answered(e) = 0
    OBVIOUS
  <2>1. InQueue(e) = {} /\ Results(e) = {}
    BY DEF Init, InQueue, Results
  <2>2. Cardinality(InQueue(e)) = 0 /\ Cardinality(Results(e)) = 0
    BY <2>1, FS_EmptySet
  <2>3. Code(cur.evt) # e
    BY CodeOfEvt, NoCmdCmd DEF Init
  <2> QED
    BY <1>3, <2>2, <2>3 DEF Asked, Answered, One, P
<1>5. \A c \in Caller : Code(call[c].evt) = "none"
  BY CodeOfEvt DEF Init, Idle, Waiting
<1> QED
  BY <1>1, <1>4, <1>5 DEF Api!Init

LEMMA NextApi ==
    ASSUME IInv, IInv', EvtsPosted, [Next]_vars PROVE [Api!Next]_(Api!vars)
<1>1. TypeOK /\ TypeOK'
  BY DEF IInv
<1>2. ASSUME ApiSame PROVE UNCHANGED Api!vars
  BY <1>2 DEF ApiSame, Api!vars, Waits, AskedOf, AnsweredOf
<1>3. CASE \E c \in Caller : Enter(c) \/ WaitAPIResult(c)
  BY <1>1, <1>3, EnterApi, WaitAPIResultApi DEF Api!Next
<1>4. CASE SnapshotDone \/ StopCapture \/ PrepSnapshotDone
  BY <1>1, <1>2, <1>4, PostsApi
<1>5. CASE LiveSnapshotThread
  BY <1>1, <1>2, <1>5, LiveSnapshotApi DEF Api!Next
<1>6. CASE Dequeue
  BY <1>1, <1>2, <1>6, DequeueApi
<1>7. CASE StateMachine
  BY <1>2, <1>7, StateMachineApi DEF Api!Next
<1>8. CASE UNCHANGED vars
  <2>1. AskedOf' = AskedOf
    BY <1>8, AskedSame DEF Asked, InQueue, vars
  <2> QED
    BY <1>2, <1>8, <2>1, WaitsSame, AnsweredSame DEF ApiSame, vars
<1> QED
  BY <1>3, <1>4, <1>5, <1>6, <1>7, <1>8 DEF Next

\* The state machine and the threads around it implement HalApi, whatever is
\* called and whatever fails: a handler gives no result that was not asked
\* for and no second result, the PREPARE_SNAPSHOT whose answer is put off is
\* answered when its state is left, and a thread returns with a result of its
\* own event.
THEOREM ImplementsHalApi == Spec => KeepsApi
<1>1. Init => Api!Init /\ EvtsPosted
  BY InitApi
<1>2. IInv /\ EvtsPosted /\ [Next]_vars => EvtsPosted'
  BY NextPosted
<1>3. IInv /\ IInv' /\ EvtsPosted /\ [Next]_vars => [Api!Next]_(Api!vars)
  BY NextApi
<1> QED
  BY <1>1, <1>2, <1>3, Invariance, PTL DEF Spec, KeepsApi, Api!Spec

-----------------------------------------------------------------------------
(* Without failures of the layers below and without the longshot command   *)
(* the channels follow the state.  What the operations then do comes first.*)

\* No call into the camera stack fails, and nobody sends LONGSHOT_ON or _OFF.
NoFailures == MayFail = {}
NoLongshot == Calls \cap CommandEvts = {}

\* The device g is h in all that is not about channels, modes or the
\* postprocessor; it has the modes of h too; only channels in T differ.
Same(h, g) ==
    /\ g \in Device
    /\ g.m_state = h.m_state /\ g.longshot = h.longshot /\ g.jpeg = h.jpeg
SameModes(h, g) ==
    /\ g.zsl = h.zsl /\ g.zslNew = h.zslNew /\ g.hint = h.hint
    /\ g.hintNew = h.hintNew /\ g.hintKey = h.hintKey /\ g.hintTmp = h.hintTmp
Alike(h, g) == Same(h, g) /\ SameModes(h, g) /\ g.postproc = h.postproc
OnlyIn(h, g, T) == \A u \in ChType : u \notin T => g.ch[u] = h.ch[u]

LEMMA AlikeSelf ==
    ASSUME NEW h \in Device, NEW T PROVE Alike(h, h) /\ OnlyIn(h, h, T)
BY DEF Alike, Same, SameModes, OnlyIn

LEMMA AlikeTrans ==
    ASSUME NEW h, NEW g, NEW f, Alike(h, g), Alike(g, f)
    PROVE  Alike(h, f)
BY DEF Alike, Same, SameModes

LEMMA RcTrue == ASSUME NoFailures, NEW kind PROVE Rc(kind) = {TRUE}
BY DEF NoFailures, Rc

LEMMA SetChIs ==
    ASSUME NEW h \in Device, NEW t \in ChType, NEW s \in ChStatus
    PROVE  LET g == SetCh(h, t, s)
           IN  Alike(h, g) /\ OnlyIn(h, g, {t}) /\ g.ch[t] = s
<1> DEFINE g == SetCh(h, t, s)
<1>1. g \in Device /\ \A u \in ChType : g.ch[u] = IF u = t THEN s ELSE h.ch[u]
  BY SetChDevice, SetChFields
<1>2. Alike(h, g)
  BY <1>1 DEF SetCh, Device, Alike, Same, SameModes
<1> HIDE DEF g
<1>3. OnlyIn(h, g, {t}) /\ g.ch[t] = s
  BY <1>1 DEF OnlyIn
<1> QED
  BY <1>2, <1>3 DEF g

LEMMA AddChannelIs ==
    ASSUME NoFailures, NEW h \in Device, NEW t \in ChType, NEW o \in AddChannel(h, t)
    PROVE  /\ o.ok = TRUE /\ Alike(h, o.h) /\ o.h.ch[t] = "idle"
           /\ t # "ZSL" => OnlyIn(h, o.h, {t})
           /\ t = "ZSL" => OnlyIn(h, o.h, {"ZSL", "PREVIEW"}) /\ o.h.ch["PREVIEW"] = "none"
<1> DEFINE d == IF t = "ZSL" THEN DelChannel(h, "PREVIEW") ELSE h
           g == SetCh(d, t, "idle")
<1>1. o = Out(g, TRUE)
  <2>1. PICK rc \in Rc("add") : o = Out(SetCh(d, t, IF rc THEN "idle" ELSE "none"), rc)
    BY DEF AddChannel
  <2>2. rc = TRUE
    BY RcTrue
  <2> QED
    BY <2>1, <2>2
<1>2. {"idle", "none"} \subseteq ChStatus /\ "PREVIEW" \in ChType
  BY DEF ChStatus, ChType
<1>3. /\ Alike(h, d) /\ OnlyIn(h, d, {"PREVIEW"})
      /\ t = "ZSL" => d.ch["PREVIEW"] = "none"
      /\ t # "ZSL" => d = h
  BY <1>2, SetChIs, AlikeSelf DEF DelChannel
<1> HIDE DEF d
<1>4. Alike(d, g) /\ OnlyIn(d, g, {t}) /\ g.ch[t] = "idle"
  BY <1>2, <1>3, SetChIs DEF Alike, Same
<1> HIDE DEF g
<1>5. Alike(h, g)
  BY <1>3, <1>4, AlikeTrans
<1>6. t # "ZSL" => OnlyIn(h, g, {t})
  BY <1>3, <1>4
<1>7. t = "ZSL" => OnlyIn(h, g, {"ZSL", "PREVIEW"}) /\ g.ch["PREVIEW"] = "none"
  BY <1>2, <1>3, <1>4 DEF OnlyIn
<1>8. o.h = g /\ o.ok = TRUE
  BY <1>1 DEF Out, g
<1> QED
  BY <1>4, <1>5, <1>6, <1>7, <1>8

LEMMA StartChannelIs ==
    ASSUME NEW h \in Device, NEW t \in ChType, NEW o \in StartChannel(h, t)
    PROVE  /\ o.ok \in BOOLEAN /\ Alike(h, o.h) /\ OnlyIn(h, o.h, {t})
           /\ o.ok => o.h.ch[t] = "active"
           /\ ~o.ok => o.h = h
<1>1. o.ok \in BOOLEAN /\ (~o.ok => o.h = h) /\ (o.ok => o.h = SetCh(h, t, "active"))
  BY StartChannelOut
<1>2. "active" \in ChStatus
  BY DEF ChStatus
<1> QED
  BY <1>1, <1>2, SetChIs, AlikeSelf

\* A channel that is there starts when nothing fails.
LEMMA StartChannelStarts ==
    ASSUME NoFailures, NEW h, NEW t, h.ch[t] \notin {"none", "closed"}
    PROVE  StartChannel(h, t) = {Out(SetCh(h, t, "active"), TRUE)}
<1>1. StartChannel(h, t) =
          {Out(IF rc THEN SetCh(h, t, "active") ELSE h, rc) : rc \in Rc("start")}
  BY DEF StartChannel
<1>2. Rc("start") = {TRUE}
  BY RcTrue
<1> QED
  BY <1>1, <1>2

LEMMA UnpreparePreviewIs ==
    ASSUME NEW h \in Device
    PROVE  LET g == UnpreparePreview(h)
               T == {"ZSL", "PREVIEW", "VIDEO", "SNAPSHOT"}
           IN  Alike(h, g) /\ OnlyIn(h, g, T) /\ \A t \in T : g.ch[t] = "none"
<1> DEFINE g == UnpreparePreview(h)
           T == {"ZSL", "PREVIEW", "VIDEO", "SNAPSHOT"}
           c == [t \in ChType |-> IF t \in T THEN "none" ELSE h.ch[t]]
<1>1. c \in [ChType -> ChStatus] /\ T \subseteq ChType
  BY DEF Device, ChStatus, ChType
<1>2. g = [h EXCEPT !.ch = c]
  BY DEF UnpreparePreview
<1> HIDE DEF c
<1>3. Alike(h, g) /\ g.ch = c
  BY <1>1, <1>2 DEF Device, Alike, Same, SameModes
<1> HIDE DEF g
<1>4. OnlyIn(h, g, T) /\ \A t \in T : g.ch[t] = "none"
  BY <1>1, <1>3 DEF OnlyIn, c
<1> QED
  BY <1>3, <1>4 DEF g

LEMMA OnlyInTrans ==
    ASSUME NEW h, NEW g, NEW f, NEW T, NEW U, OnlyIn(h, g, T), OnlyIn(g, f, U)
    PROVE  OnlyIn(h, f, T \cup U)
BY DEF OnlyIn

\* The preview channel for the modes of h has the status st.
Previews(h, g, st) ==
    /\ Alike(h, g)
    /\ g.ch["CAPTURE"] = h.ch["CAPTURE"] /\ g.ch["RAW"] = h.ch["RAW"]
    /\ IF PreviewType(h) = "ZSL" THEN g.ch["ZSL"] = st /\ g.ch["PREVIEW"] = "none"
       ELSE g.ch["PREVIEW"] = st /\ g.ch["ZSL"] = h.ch["ZSL"]

LEMMA PreviewTypes ==
    ASSUME NEW h, NEW g, SameModes(h, g)
    PROVE  PreviewType(g) = PreviewType(h) /\ PreviewType(h) \in {"ZSL", "PREVIEW"}
BY DEF SameModes, PreviewType

LEMMA AddSnapshotIs ==
    ASSUME NoFailures, NEW h \in Device, NEW o \in AddSnapshot(h)
    PROVE  o.ok = TRUE /\ Alike(h, o.h) /\ OnlyIn(h, o.h, {"SNAPSHOT"})
<1>1. "SNAPSHOT" \in ChType
  BY DEF ChType
<1>2. CASE LiveChannel = "SNAPSHOT"
  BY <1>1, <1>2, AddChannelIs DEF AddSnapshot
<1>3. CASE LiveChannel # "SNAPSHOT"
  BY <1>3, AlikeSelf DEF AddSnapshot, Done, Out
<1> QED
  BY <1>2, <1>3

LEMMA PreparePreviewIs ==
    ASSUME NoFailures, NEW h \in Device, ~h.longshot, NEW o \in PreparePreview(h)
    PROVE  o.ok = TRUE /\ Previews(h, o.h, "idle") /\ (h.hint => o.h.ch["VIDEO"] = "idle")
<1>1. {"ZSL", "PREVIEW", "VIDEO", "SNAPSHOT", "CAPTURE", "RAW"} \subseteq ChType
  BY DEF ChType
<1>2. PreviewType(h) \in {"ZSL", "PREVIEW"} /\ (h.hint => PreviewType(h) = "PREVIEW")
  BY DEF PreviewType
<1>3. CASE ~h.hint
  <2>1. o \in AddChannel(h, PreviewType(h))
    BY <1>3 DEF PreparePreview
  <2>2. CASE PreviewType(h) = "ZSL"
    <3>1. /\ o.ok = TRUE /\ Alike(h, o.h) /\ o.h.ch["ZSL"] = "idle"
          /\ OnlyIn(h, o.h, {"ZSL", "PREVIEW"}) /\ o.h.ch["PREVIEW"] = "none"
      BY <1>1, <2>1, <2>2, AddChannelIs
    <3> QED
      BY <1>1, <1>3, <2>2, <3>1 DEF Previews, OnlyIn
  <2>3. CASE PreviewType(h) = "PREVIEW"
    <3>1. /\ o.ok = TRUE /\ Alike(h, o.h) /\ o.h.ch["PREVIEW"] = "idle"
          /\ OnlyIn(h, o.h, {"PREVIEW"})
      BY <1>1, <2>1, <2>3, AddChannelIs
    <3> QED
      BY <1>1, <1>3, <2>3, <3>1 DEF Previews, OnlyIn
  <2> QED
    BY <1>2, <2>2, <2>3
<1>4. CASE h.hint
  <2> DEFINE A == Always(IF h.longshot THEN LongshotOff(h) ELSE Done(h), AddSnapshot)
             B == Then(A, AddVideo)
  <2>1. \A a \in A : a.ok = TRUE /\ Alike(h, a.h) /\ OnlyIn(h, a.h, {"SNAPSHOT"})
    <3> SUFFICES ASSUME NEW a \in A
                 PROVE  a.ok = TRUE /\ Alike(h, a.h) /\ OnlyIn(h, a.h, {"SNAPSHOT"})
      OBVIOUS
    <3>1. a \in AddSnapshot(h)
      BY DEF Always, Done, Out
    <3> QED
      BY <3>1, AddSnapshotIs
  <2> HIDE DEF A
  <2>2. \A b \in B : /\ b.ok = TRUE /\ Alike(h, b.h) /\ b.h.ch["VIDEO"] = "idle"
                     /\ OnlyIn(h, b.h, {"SNAPSHOT", "VIDEO"})
    <3> SUFFICES ASSUME NEW b \in B
                 PROVE  /\ b.ok = TRUE /\ Alike(h, b.h) /\ b.h.ch["VIDEO"] = "idle"
                        /\ OnlyIn(h, b.h, {"SNAPSHOT", "VIDEO"})
      OBVIOUS
    <3>1. PICK a \in A : b \in AddVideo(a.h)
      BY <2>1 DEF Then
    <3>2. a.h \in Device
      BY <2>1 DEF Alike, Same
    <3>3. \A x \in AddChannel(a.h, "VIDEO") : x.ok = TRUE
      BY <1>1, <3>2, AddChannelIs
    <3>4. b \in AddChannel(a.h, "VIDEO")
      BY <3>1, <3>3 DEF AddVideo, OrElse
    <3>5. /\ b.ok = TRUE /\ Alike(a.h, b.h) /\ b.h.ch["VIDEO"] = "idle"
          /\ OnlyIn(a.h, b.h, {"VIDEO"})
      <4> HIDE DEF B
      <4>1. "VIDEO" \in ChType /\ "VIDEO" # "ZSL"
        BY <1>1
      <4>2. \A g \in Device : \A x \in AddChannel(g, "VIDEO") :
                /\ x.ok = TRUE /\ Alike(g, x.h) /\ x.h.ch["VIDEO"] = "idle"
                /\ OnlyIn(g, x.h, {"VIDEO"})
        BY <4>1, AddChannelIs
      <4> QED
        BY <3>2, <3>4, <4>2, Zenon
    <3>6. OnlyIn(h, b.h, {"SNAPSHOT", "VIDEO"})
      BY <2>1, <3>5 DEF OnlyIn
    <3> QED
      BY <2>1, <3>5, <3>6, AlikeTrans
  <2>3. PICK b \in B : o \in AddPreviewForVideo(b.h)
    <3>1. o \in Then(B, AddPreviewForVideo)
      BY <1>4 DEF PreparePreview, A
    <3> HIDE DEF B
    <3> QED
      BY <2>2, <3>1 DEF Then
  <2> HIDE DEF B
  <2>4. b.h \in Device
    BY <2>2 DEF Alike, Same
  <2>5. \A x \in AddChannel(b.h, "PREVIEW") : x.ok = TRUE
    BY <1>1, <2>4, AddChannelIs
  <2>6. o \in AddChannel(b.h, "PREVIEW")
    BY <2>3, <2>5 DEF AddPreviewForVideo, OrElse
  <2>7. /\ o.ok = TRUE /\ Alike(b.h, o.h) /\ o.h.ch["PREVIEW"] = "idle"
        /\ OnlyIn(b.h, o.h, {"PREVIEW"})
    BY <1>1, <2>4, <2>6, AddChannelIs
  <2>8. OnlyIn(h, o.h, {"SNAPSHOT", "VIDEO", "PREVIEW"}) /\ o.h.ch["VIDEO"] = "idle"
    BY <1>1, <2>2, <2>7 DEF OnlyIn
  <2>9. Alike(h, o.h)
    BY <2>2, <2>7, AlikeTrans
  <2> QED
    BY <1>1, <1>2, <1>4, <2>7, <2>8, <2>9 DEF Previews, OnlyIn
<1> QED
  BY <1>3, <1>4

\* The preview of the modes of h starts when its channel is there.
LEMMA StartPreviewIs ==
    ASSUME NoFailures, NEW h \in Device, NEW f \in Device, Previews(h, f, "idle"),
           NEW o \in StartPreview(f)
    PROVE  o.ok = TRUE /\ Previews(h, o.h, "active") /\ o.h.ch["VIDEO"] = f.ch["VIDEO"]
<1>1. {"ZSL", "PREVIEW", "VIDEO", "CAPTURE", "RAW"} \subseteq ChType
  BY DEF ChType
<1>2. PreviewType(f) = PreviewType(h) /\ PreviewType(h) \in {"ZSL", "PREVIEW"}
  BY PreviewTypes DEF Previews, Alike
<1>3. /\ o \in StartChannel(f, PreviewType(h)) /\ PreviewType(h) \in ChType
      /\ f.ch[PreviewType(h)] \in {"idle", "active"}
  BY <1>1, <1>2 DEF StartPreview, Previews
<1>4. o.ok = TRUE
  <2>1. f.ch[PreviewType(h)] \notin {"none", "closed"}
    BY <1>3
  <2>2. o = Out(SetCh(f, PreviewType(h), "active"), TRUE)
    BY <1>3, <2>1, StartChannelStarts
  <2> QED
    BY <2>2 DEF Out
<1>5. /\ Alike(f, o.h) /\ OnlyIn(f, o.h, {PreviewType(h)})
      /\ o.h.ch[PreviewType(h)] = "active"
  BY <1>3, <1>4, StartChannelIs
<1>6. Alike(h, o.h)
  BY <1>5, AlikeTrans DEF Previews
<1> QED
  BY <1>1, <1>2, <1>4, <1>5, <1>6 DEF Previews, OnlyIn

LEMMA PrepareAndStartIs ==
    ASSUME NoFailures, NEW h \in Device, ~h.longshot, NEW o \in PrepareAndStart(h)
    PROVE  o.ok = TRUE /\ Previews(h, o.h, "active")
<1>1. PICK p \in PreparePreview(h) : o \in StartOrUnprepare(p.h)
  BY PreparePreviewIs DEF PrepareAndStart, Then
<1>2. Previews(h, p.h, "idle") /\ p.h \in Device
  BY PreparePreviewIs DEF Previews, Alike, Same
<1>3. \A x \in StartPreview(p.h) : x.ok = TRUE
  BY <1>2, StartPreviewIs
<1>4. o \in StartPreview(p.h)
  BY <1>1, <1>3 DEF StartOrUnprepare, OrElse
<1> QED
  BY <1>2, <1>4, StartPreviewIs

\* Starting the preview of a device that was prepared, perhaps for other modes.
LEMMA StartOrUnprepareIs ==
    ASSUME NEW h \in Device, NEW o \in StartOrUnprepare(h)
    PROVE  /\ o.ok \in BOOLEAN /\ Alike(h, o.h)
           /\ o.ok => OnlyIn(h, o.h, {PreviewType(h)}) /\ o.h.ch[PreviewType(h)] = "active"
           /\ ~o.ok => /\ OnlyIn(h, o.h, {"ZSL", "PREVIEW", "VIDEO", "SNAPSHOT"})
                       /\ o.h.ch["ZSL"] = "none" /\ o.h.ch["PREVIEW"] = "none"
<1>1. PreviewType(h) \in ChType
  BY DEF PreviewType, ChType
<1>2. PICK x \in StartPreview(h) : IF x.ok THEN o = x ELSE o = Out(UnpreparePreview(x.h), FALSE)
  BY DEF StartOrUnprepare, OrElse
<1>3. /\ x.ok \in BOOLEAN /\ Alike(h, x.h) /\ OnlyIn(h, x.h, {PreviewType(h)})
      /\ x.ok => x.h.ch[PreviewType(h)] = "active"
      /\ ~x.ok => x.h = h
  BY <1>1, StartChannelIs DEF StartPreview
<1>4. CASE x.ok
  BY <1>2, <1>3, <1>4
<1>5. CASE ~x.ok
  <2>1. o.h = UnpreparePreview(h) /\ o.ok = FALSE
    BY <1>2, <1>3, <1>5 DEF Out
  <2> QED
    BY <2>1, UnpreparePreviewIs
<1> QED
  BY <1>3, <1>4, <1>5

-----------------------------------------------------------------------------
(* The invariant: the device fits the state.                               *)

\* The two modes that decide which channel the preview comes from are used
\* one at a time, and the preview does not restart after a picture.
HintUnused == \A p \in ParamValues : ~p.hint
ZslUnused == \A p \in ParamValues : ~p.zsl
Simple == ~RestartPreview /\ (HintUnused \/ ZslUnused)

WithPreview ==
    {"PREVIEWING", "PREPARE_SNAPSHOT", "PREVIEW_PIC_TAKING", "RECORDING", "VIDEO_PIC_TAKING"}
ZslStates == {"PREVIEW_READY", "PREVIEWING", "PREPARE_SNAPSHOT", "PREVIEW_PIC_TAKING"}
Pictures == {"PIC_TAKING", "VIDEO_PIC_TAKING", "PREVIEW_PIC_TAKING"}

\* Only a recording sets the hint when the parameters do not, and a mode that
\* waits to be committed is one that a recording was asked for.
ModesFit(h) ==
    /\ ~h.longshot
    /\ HintUnused =>
         ~h.hintKey /\ ~h.hintTmp /\ h.hint = h.hintNew /\ (~h.hint => h.zsl = h.zslNew)
    /\ ZslUnused => ~h.zsl /\ ~h.zslNew
HintFits(h, s) == HintUnused /\ s \in Recordings => h.hint
ReadyFits(h, s) == s = "PREVIEW_READY" => h.ch["ZSL"] = "idle" \/ h.ch["PREVIEW"] = "idle"
PostProcFits(h, s) == s \notin Pictures => h.postproc = "stopped"
PreviewFits(h, s) ==
    /\ s \in WithPreview => h.ch["ZSL"] = "active" \/ h.ch["PREVIEW"] = "active"
    /\ h.ch["ZSL"] # "none" =>
         h.zsl /\ ~h.hint /\ h.ch["PREVIEW"] = "none" /\ s \in ZslStates
    /\ s \in {"PREVIEW_STOPPED", "PIC_TAKING"} => h.ch["PREVIEW"] = "none"
PictureFits(h, s) ==
    /\ h.ch["CAPTURE"] # "none" => h.jpeg /\ s = "PIC_TAKING"
    /\ h.ch["RAW"] # "none" => ~h.jpeg /\ s = "PIC_TAKING"
    /\ s # "PREVIEW_PIC_TAKING"

Fits(h, s) ==
    /\ ModesFit(h) /\ HintFits(h, s) /\ ReadyFits(h, s) /\ PostProcFits(h, s)
    /\ Simple => PreviewFits(h, s)
    /\ Simple /\ ZslUnused => PictureFits(h, s)

\* The invariant looks at the channels, the modes and the postprocessor only.
LEMMA AlikeFits ==
    ASSUME NEW h, NEW g, NEW s, Alike(h, g), g.ch = h.ch, Fits(h, s)
    PROVE  Fits(g, s)
BY DEF Alike, Same, SameModes, Fits, ModesFit, HintFits, ReadyFits, PostProcFits,
       PreviewFits, PictureFits

\* A preview was built for the modes there are.
LEMMA PreviewsFit ==
    ASSUME NEW h, NEW g, NEW s, NEW st, ModesFit(h), Previews(h, g, st),
           \/ st = "active" /\ s \in {"PREVIEWING", "PREVIEW_PIC_TAKING"}
           \/ st = "idle" /\ s = "PREVIEW_READY",
           PostProcFits(h, s),
           Simple /\ PreviewType(h) # "ZSL" => h.ch["ZSL"] = "none",
           Simple /\ ZslUnused =>
               h.ch["CAPTURE"] = "none" /\ h.ch["RAW"] = "none" /\ s # "PREVIEW_PIC_TAKING"
    PROVE  Fits(g, s)
<1>1. PreviewType(h) \in {"ZSL", "PREVIEW"} /\ (PreviewType(h) = "ZSL" => h.zsl /\ ~h.hint)
  BY DEF PreviewType
<1>2. ModesFit(g) /\ HintFits(g, s) /\ PostProcFits(g, s)
  BY DEF Previews, Alike, Same, SameModes, ModesFit, HintFits, PostProcFits, Recordings
<1>3. ReadyFits(g, s)
  BY <1>1 DEF Previews, ReadyFits
<1>4. Simple => PreviewFits(g, s)
  BY <1>1 DEF Previews, Alike, SameModes, PreviewFits, WithPreview, ZslStates
<1>5. Simple /\ ZslUnused => PictureFits(g, s)
  BY DEF Previews, PictureFits
<1> QED
  BY <1>2, <1>3, <1>4, <1>5 DEF Fits

-----------------------------------------------------------------------------
(* Parameters.                                                             *)

\* The device g is h but for its modes.
ModesOnly(h, g) == Same(h, g) /\ g.ch = h.ch /\ g.postproc = h.postproc

Committed(h, g) ==
    /\ ModesOnly(h, g)
    /\ g.hintKey = h.hintTmp /\ g.hint = h.hintNew /\ g.zsl = h.zslNew
    /\ g.hintTmp = h.hintTmp /\ g.hintNew = h.hintNew /\ g.zslNew = h.zslNew
Updated(h, p, g) ==
    /\ ModesOnly(h, g)
    /\ g.zsl = h.zsl /\ g.hint = h.hint /\ g.hintKey = h.hintKey /\ g.zslNew = p.zsl
    /\ p.hint = h.hintKey => g.hintTmp = h.hintKey /\ g.hintNew = h.hintNew
    /\ p.hint # h.hintKey => g.hintTmp = p.hint /\ g.hintNew = p.hint
Hinted(h, v, g) ==
    /\ ModesOnly(h, g)
    /\ g.hintKey = h.hintKey /\ g.hintTmp = h.hintKey
    /\ g.hint = v /\ g.hintNew = v /\ g.zsl = h.zslNew /\ g.zslNew = h.zslNew

LEMMA CommitIs ==
    ASSUME NoFailures, NEW h \in Device, NEW o \in CommitParameters(h)
    PROVE  o.ok = TRUE /\ Committed(h, o.h)
<1>1. o = Out(CommitParamChanges(h), TRUE)
  <2>1. PICK rc \in Rc("commit") : o = Out(IF rc THEN CommitParamChanges(h) ELSE h, rc)
    BY DEF CommitParameters
  <2>2. rc = TRUE
    BY RcTrue
  <2> QED
    BY <2>1, <2>2
<1>2. o.ok = TRUE /\ o.h = CommitParamChanges(h)
  BY <1>1 DEF Out
<1> DEFINE g == CommitParamChanges(h)
<1>3. g \in Device
  BY CommitParamChangesKeep, KeepDevice
<1>4. /\ g.hintKey = h.hintTmp /\ g.hint = h.hintNew /\ g.zsl = h.zslNew
      /\ g.hintTmp = h.hintTmp /\ g.hintNew = h.hintNew /\ g.zslNew = h.zslNew
  BY DEF CommitParamChanges, Device
<1>5. /\ g.m_state = h.m_state /\ g.longshot = h.longshot /\ g.jpeg = h.jpeg
      /\ g.ch = h.ch /\ g.postproc = h.postproc
  BY DEF CommitParamChanges, Device
<1> HIDE DEF g
<1> QED
  BY <1>2, <1>3, <1>4, <1>5 DEF g, Committed, ModesOnly, Same

LEMMA UpdateIs ==
    ASSUME NEW h \in Device, NEW p \in Params
    PROVE  Updated(h, p, UpdateParameters(h, p))
<1> DEFINE z == [h EXCEPT !.hintTmp = h.hintKey, !.zslNew = p.zsl]
           r == [z EXCEPT !.hintNew = p.hint, !.hintTmp = p.hint]
<1>1. p.zsl \in BOOLEAN /\ p.hint \in BOOLEAN
  BY DEF Params
<1>2. UpdateParameters(h, p) = IF p.hint = h.hintKey THEN z ELSE r
  BY DEF UpdateParameters, InitBatchUpdate, SetRecordingHintValue, Device
<1>3. ModesOnly(h, z) /\ z.zsl = h.zsl /\ z.hint = h.hint /\ z.hintKey = h.hintKey
      /\ z.zslNew = p.zsl /\ z.hintTmp = h.hintKey /\ z.hintNew = h.hintNew
  BY <1>1 DEF Device, ModesOnly, Same
<1>4. z \in Device
  BY <1>3 DEF ModesOnly, Same
<1> HIDE DEF z
<1>5. ModesOnly(z, r) /\ r.zsl = z.zsl /\ r.hint = z.hint /\ r.hintKey = z.hintKey
      /\ r.zslNew = z.zslNew /\ r.hintTmp = p.hint /\ r.hintNew = p.hint
  BY <1>1, <1>4 DEF Device, ModesOnly, Same
<1> HIDE DEF r
<1> QED
  BY <1>2, <1>3, <1>5 DEF Updated, ModesOnly, Same

LEMMA HintIs ==
    ASSUME NoFailures, NEW h \in Device, NEW v \in BOOLEAN,
           NEW o \in UpdateRecordingHintValue(h, v)
    PROVE  o.ok = TRUE /\ Hinted(h, v, o.h)
<1> DEFINE b == SetRecordingHintValue(InitBatchUpdate(h), v)
<1>1. /\ ModesOnly(h, b) /\ b.zsl = h.zsl /\ b.hint = h.hint /\ b.hintKey = h.hintKey
      /\ b.hintTmp = h.hintKey /\ b.hintNew = v /\ b.zslNew = h.zslNew
  BY DEF SetRecordingHintValue, InitBatchUpdate, Device, ModesOnly, Same
<1>2. o \in CommitParameters(b)
  BY DEF UpdateRecordingHintValue
<1> HIDE DEF b
<1>3. o.ok = TRUE /\ Committed(b, o.h)
  BY <1>1, <1>2, CommitIs DEF ModesOnly, Same
<1> QED
  BY <1>1, <1>3 DEF Hinted, Committed, ModesOnly, Same

LEMMA UpdateIsOf ==
    ASSUME NoFailures, NEW o \in Update(hal), hal \in Device, cur.params \in Params
    PROVE  o.ok = TRUE /\ o.h = UpdateParameters(hal, cur.params)
           /\ Updated(hal, cur.params, o.h)
<1>1. o = Out(UpdateParameters(hal, cur.params), TRUE)
  BY RcTrue DEF Update
<1>2. o.ok = TRUE /\ o.h = UpdateParameters(hal, cur.params)
  BY <1>1 DEF Out
<1> QED
  BY <1>2, UpdateIs

\* A hint that is never used is not changed by the parameters.
LEMMA HintStays ==
    ASSUME NEW h \in Device, NEW p \in ParamValues, p \in Params, ModesFit(h), HintUnused
    PROVE  p.hint = h.hintKey /\ ~p.hint
<1>1. p.hint \in BOOLEAN /\ h.hintKey \in BOOLEAN
  BY DEF Params, Device
<1>2. ~p.hint /\ ~h.hintKey
  BY DEF HintUnused, ModesFit
<1> QED
  BY <1>1, <1>2

\* Parameters of the set that is used keep the modes, once committed.
LEMMA ModesCommitted ==
    ASSUME NEW h, NEW p \in ParamValues, NEW u, NEW g,
           ModesFit(h), Updated(h, p, u), Committed(u, g)
    PROVE  ModesFit(g) /\ ModesOnly(h, g)
BY DEF ModesFit, Updated, Committed, ModesOnly, Same, HintUnused, ZslUnused

\* Refused in a recording they wait.
LEMMA ModesWait ==
    ASSUME NEW h \in Device, NEW p \in ParamValues, p \in Params, NEW u,
           ModesFit(h), HintUnused => h.hint, Updated(h, p, u)
    PROVE  ModesFit(u)
<1>1. CASE HintUnused
  <2>1. u.hintTmp = h.hintKey /\ u.hintNew = h.hintNew
    BY <1>1, HintStays DEF Updated
  <2> QED
    BY <1>1, <2>1 DEF ModesFit, Updated, ModesOnly, Same, ZslUnused
<1>2. CASE ~HintUnused
  BY <1>2 DEF ModesFit, Updated, ModesOnly, Same, ZslUnused
<1> QED
  BY <1>1, <1>2

LEMMA ModesHinted ==
    ASSUME NEW h, NEW v \in BOOLEAN, NEW g, ModesFit(h), Hinted(h, v, g)
    PROVE  ModesFit(g)
BY DEF ModesFit, Hinted, ModesOnly, Same

\* Parameters that need no restart leave the modes in use as they are.
LEMMA NoRestartFits ==
    ASSUME NEW h \in Device, NEW p \in ParamValues, p \in Params, NEW u, NEW g, NEW s, Fits(h, s),
           Updated(h, p, u), Committed(u, g),
           ~NeedRestart(h, p) \/ s \in {"PREVIEW_STOPPED", "PIC_TAKING"}
    PROVE  Fits(g, s)
<1>1. ModesFit(g) /\ ModesOnly(h, g)
  BY ModesCommitted DEF Fits
<1>2. HintUnused => g.hint = h.hint
  BY HintStays DEF Fits, ModesFit, Updated, Committed
<1>3. HintFits(g, s) /\ ReadyFits(g, s) /\ PostProcFits(g, s)
  BY <1>1, <1>2 DEF Fits, HintFits, ReadyFits, PostProcFits, ModesOnly
<1>4. Simple /\ ZslUnused => PictureFits(g, s)
  BY <1>1 DEF Fits, PictureFits, ModesOnly, Same
<1>5. Simple /\ h.ch["ZSL"] # "none" => g.zsl = h.zsl /\ g.hint = h.hint
  <2> SUFFICES ASSUME Simple, h.ch["ZSL"] # "none"
               PROVE  g.zsl = h.zsl /\ g.hint = h.hint
    OBVIOUS
  <2>1. h.zsl /\ ~h.hint /\ s \in ZslStates
    BY DEF Fits, PreviewFits
  <2>2. HintUnused
    BY <2>1 DEF Simple, Fits, ModesFit
  <2>3. p.zsl = h.zslNew
    BY <2>1 DEF ZslStates, NeedRestart
  <2> QED
    BY <1>2, <2>1, <2>2, <2>3 DEF Fits, ModesFit, Updated, Committed
<1>6. Simple => PreviewFits(g, s)
  BY <1>1, <1>5 DEF Fits, PreviewFits, ModesOnly
<1> QED
  BY <1>1, <1>3, <1>4, <1>6 DEF Fits

-----------------------------------------------------------------------------
(* Pictures.                                                               *)

\* Only the channels in T and the postprocessor differ; it is v.
Pictured(h, g, v, T) ==
    Same(h, g) /\ SameModes(h, g) /\ OnlyIn(h, g, T) /\ g.postproc = v

\* What an operation leaves that succeeds and changes nothing.
LEMMA RcOut ==
    ASSUME NoFailures, NEW h, NEW kind, NEW o \in {Out(h, rc) : rc \in Rc(kind)}
    PROVE  o = Out(h, TRUE) /\ o.h = h /\ o.ok = TRUE
<1>1. PICK rc \in Rc(kind) : o = Out(h, rc)
  OBVIOUS
<1>2. rc = TRUE
  BY RcTrue
<1> QED
  BY <1>1, <1>2 DEF Out

LEMMA StopPostProcIs ==
    ASSUME NEW h \in Device PROVE Pictured(h, StopPostProc(h), "stopped", {})
<1>1. StopPostProc(h) \in Device
  BY StopPostProcKeep, KeepDevice
<1> QED
  BY <1>1 DEF StopPostProc, Device, Pictured, Same, SameModes, OnlyIn

LEMMA StartPostProcIs ==
    ASSUME NoFailures, NEW h \in Device, ~h.longshot, NEW o \in StartPostProc(h)
    PROVE  o.ok = TRUE /\ Pictured(h, o.h, "armed", {}) /\ o.h.ch = h.ch
<1> DEFINE g == [h EXCEPT !.postproc = "armed"]
<1>1. PICK rc \in Rc("postproc") : o = Out(IF rc THEN g ELSE h, rc)
  BY DEF StartPostProc
<1>2. rc = TRUE
  BY RcTrue
<1>3. o.h = g /\ o.ok = TRUE
  BY <1>1, <1>2 DEF Out
<1>4. Pictured(h, g, "armed", {}) /\ g.ch = h.ch
  BY DEF Device, PostProc, Pictured, Same, SameModes, OnlyIn
<1> QED
  BY <1>3, <1>4

LEMMA PicturedTrans ==
    ASSUME NEW h, NEW g, NEW f, NEW v, NEW w, NEW T, NEW U,
           Pictured(h, g, v, T), Pictured(g, f, w, U)
    PROVE  Pictured(h, f, w, T \cup U)
BY DEF Pictured, Same, SameModes, OnlyIn

LEMMA AlikePictured ==
    ASSUME NEW h, NEW g, NEW T, Alike(h, g), OnlyIn(h, g, T)
    PROVE  Pictured(h, g, h.postproc, T)
BY DEF Alike, Pictured

\* The channel of a picture goes with the picture.
LEMMA CancelPictureIs ==
    ASSUME NEW h \in Device
    PROVE  LET g == CancelPicture(h)
           IN  /\ Pictured(h, g, "stopped", {"CAPTURE", "RAW"})
               /\ ~h.zsl /\ h.jpeg => OnlyIn(h, g, {"CAPTURE"}) /\ g.ch["CAPTURE"] = "none"
               /\ ~h.zsl /\ ~h.jpeg => OnlyIn(h, g, {"RAW"}) /\ g.ch["RAW"] = "none"
               /\ h.zsl => OnlyIn(h, g, {})
<1> DEFINE p == StopPostProc(h)
           t == IF h.jpeg THEN "CAPTURE" ELSE "RAW"
           d == SetCh(p, t, "none")
<1>1. Pictured(h, p, "stopped", {})
  BY StopPostProcIs
<1>2. t \in ChType /\ t \in {"CAPTURE", "RAW"} /\ "none" \in ChStatus
  BY DEF ChType, ChStatus
<1>3. t = IF h.jpeg THEN "CAPTURE" ELSE "RAW"
  OBVIOUS
<1>4. CancelPicture(h) = IF h.zsl THEN p ELSE d
  BY DEF CancelPicture, DelChannel
<1> HIDE DEF p, t
<1>5. Alike(p, d) /\ OnlyIn(p, d, {t}) /\ d.ch[t] = "none"
  BY <1>1, <1>2, SetChIs DEF Pictured, Same
<1> HIDE DEF d
<1>6. Pictured(h, d, "stopped", {t}) /\ OnlyIn(h, p, {})
  BY <1>1, <1>5 DEF Pictured, Alike, Same, SameModes, OnlyIn
<1>7. CASE h.zsl
  BY <1>1, <1>4, <1>6, <1>7 DEF Pictured, OnlyIn
<1>8. CASE ~h.zsl
  BY <1>2, <1>3, <1>4, <1>5, <1>6, <1>8 DEF Pictured, OnlyIn
<1> QED
  BY <1>7, <1>8

LEMMA RequestPictureIs ==
    ASSUME NEW h, NEW t, NEW o \in RequestPicture(h, t)
    PROVE  o.h = h /\ o.ok \in BOOLEAN
<1>1. PICK rc \in IF h.ch[t] = "active" THEN Rc("request") ELSE {FALSE} : o = Out(h, rc)
  BY DEF RequestPicture
<1>2. rc \in BOOLEAN
  BY RcBoolean
<1> QED
  BY <1>1, <1>2 DEF Out

\* A picture of the ZSL channel touches no channel, and when it fails the
\* postprocessor is stopped.
LEMMA TakeZSLPictureIs ==
    ASSUME NoFailures, NEW h \in Device, ~h.longshot, h.postproc = "stopped",
           NEW o \in TakeZSLPicture(h)
    PROVE  /\ o.ok \in BOOLEAN
           /\ Pictured(h, o.h, IF o.ok THEN "armed" ELSE "stopped", {})
<1>1. CASE h.ch["ZSL"] = "none"
  <2>1. o = Out(h, FALSE)
    BY <1>1 DEF TakeZSLPicture, Error
  <2> QED
    BY <2>1, AlikeSelf, AlikePictured DEF Out
<1>2. CASE h.ch["ZSL"] # "none"
  <2>1. o \in Then(StartPostProc(h), AdvancedThenRequestZSL)
    BY <1>2 DEF TakeZSLPicture
  <2>2. PICK p \in StartPostProc(h) : o \in AdvancedThenRequestZSL(p.h)
    <3>1. \A p \in StartPostProc(h) : p.ok = TRUE
      BY StartPostProcIs
    <3> QED
      BY <2>1, <3>1 DEF Then
  <2>3. Pictured(h, p.h, "armed", {}) /\ p.h \in Device
    BY StartPostProcIs DEF Pictured, Same
  <2>4. PICK a \in StartAdvanced(p.h) : IF a.ok THEN o \in RequestZSL(a.h) ELSE o = a
    BY <2>2 DEF AdvancedThenRequestZSL, Then
  <2>5. a.ok = TRUE /\ a.h = p.h
    BY RcOut DEF StartAdvanced
  <2>6. PICK r \in RequestPicture(p.h, "ZSL") :
            IF r.ok THEN o = r ELSE o = Out(StopPostProc(r.h), FALSE)
    BY <2>4, <2>5 DEF RequestZSL, OrElse
  <2>7. r.h = p.h /\ r.ok \in BOOLEAN
    BY RequestPictureIs
  <2>8. CASE r.ok
    <3>1. r.ok = TRUE
      BY <2>7, <2>8
    <3> QED
      BY <2>3, <2>6, <2>7, <3>1
  <2>9. CASE ~r.ok
    <3>1. o.h = StopPostProc(p.h) /\ o.ok = FALSE
      BY <2>6, <2>7, <2>9 DEF Out
    <3>2. Pictured(p.h, o.h, "stopped", {})
      BY <2>3, <3>1, StopPostProcIs
    <3>3. Pictured(h, o.h, "stopped", {})
      BY <2>3, <3>2 DEF Pictured, Same, SameModes, OnlyIn
    <3> QED
      BY <3>1, <3>3
  <2> QED
    BY <2>8, <2>9
<1> QED
  BY <1>1, <1>2

\* The steps of a capture on the way to a picture.
LEMMA CaptureStepsAre ==
    ASSUME NoFailures, NEW g \in Device, ~g.longshot
    PROVE  /\ \A o \in PostviewJob(g) : o.ok = TRUE /\ o.h = g
           /\ \A o \in ConfigCapture(g) : o.ok = TRUE /\ o.h = g
           /\ \A o \in DeferredPostProc(g) :
                  o.ok = TRUE /\ Pictured(g, o.h, "armed", {}) /\ o.h.ch = g.ch
           /\ g.ch["CAPTURE"] = "idle" => \A o \in StartCapture(g) :
                  o.ok = TRUE /\ Alike(g, o.h) /\ OnlyIn(g, o.h, {"CAPTURE"})
           /\ \A o \in StartAdvanced(g) : o.ok = TRUE /\ o.h = g
           /\ \A o \in LongShotOrDel(g) : o.ok = TRUE /\ o.h = g
<1>1. \A o \in PostviewJob(g) : o.ok = TRUE /\ o.h = g
  BY RcOut DEF PostviewJob
<1>2. \A o \in ConfigCapture(g) : o.ok = TRUE /\ o.h = g
  BY RcOut DEF ConfigCapture, OrElse
<1>3. \A o \in DeferredPostProc(g) :
          o.ok = TRUE /\ Pictured(g, o.h, "armed", {}) /\ o.h.ch = g.ch
  <2> SUFFICES ASSUME NEW o \in DeferredPostProc(g)
               PROVE  o.ok = TRUE /\ Pictured(g, o.h, "armed", {}) /\ o.h.ch = g.ch
    OBVIOUS
  <2>1. PICK p \in StartPostProc(g) : o = Out(p.h, TRUE)
    BY DEF DeferredPostProc
  <2>2. o.h = p.h /\ o.ok = TRUE
    BY <2>1 DEF Out
  <2> QED
    BY <2>2, StartPostProcIs
<1>4. ASSUME g.ch["CAPTURE"] = "idle", NEW o \in StartCapture(g)
      PROVE  o.ok = TRUE /\ Alike(g, o.h) /\ OnlyIn(g, o.h, {"CAPTURE"})
  <2>1. StartChannel(g, "CAPTURE") = {Out(SetCh(g, "CAPTURE", "active"), TRUE)}
    BY <1>4, StartChannelStarts
  <2>2. o = Out(SetCh(g, "CAPTURE", "active"), TRUE)
    BY <1>4, <2>1 DEF StartCapture, OrElse, Out
  <2>3. "CAPTURE" \in ChType /\ "active" \in ChStatus
    BY DEF ChType, ChStatus
  <2> QED
    BY <2>2, <2>3, SetChIs DEF Out
<1>5. \A o \in StartAdvanced(g) : o.ok = TRUE /\ o.h = g
  BY RcOut DEF StartAdvanced
<1>6. \A o \in LongShotOrDel(g) : o.ok = TRUE /\ o.h = g
  BY DEF LongShotOrDel, Done, Out
<1> QED
  BY <1>1, <1>2, <1>3, <1>4, <1>5, <1>6

\* A picture of a capture channel stands alone: the preview is gone.
Captured(h, g, t) ==
    /\ Same(h, g) /\ SameModes(h, g) /\ OnlyIn(h, g, {t, "PREVIEW"})
    /\ g.ch["PREVIEW"] = "none"

LEMMA TakeCapturePictureIs ==
    ASSUME NoFailures, NEW h \in Device, ~h.longshot, NEW o \in TakeCapturePicture(h)
    PROVE  o.ok = TRUE /\ Captured(h, o.h, "CAPTURE")
<1> DEFINE Alone(g) == /\ Captured(h, g, "CAPTURE") /\ g \in Device /\ ~g.longshot
           Q(g) == Alone(g) /\ g.ch["CAPTURE"] = "idle"
           A == Then(OrElse(AddCapture(h), DelPreview), DelPreviewOk)
           B == Then(A, PostviewJob)
           C == Then(B, ConfigCapture)
           D == Then(C, DeferredPostProc)
           E == Then(D, StartCapture)
           F == Then(E, StartAdvanced)
<1>1. {"CAPTURE", "PREVIEW"} \subseteq ChType /\ "none" \in ChStatus /\ "CAPTURE" # "ZSL"
  BY DEF ChType, ChStatus
<1>2. \A a \in A : a.ok = TRUE /\ Q(a.h)
  <2> SUFFICES ASSUME NEW a \in A PROVE a.ok = TRUE /\ Q(a.h)
    OBVIOUS
  <2>1. \A x \in AddChannel(h, "CAPTURE") :
            /\ x.ok = TRUE /\ Alike(h, x.h) /\ x.h.ch["CAPTURE"] = "idle"
            /\ OnlyIn(h, x.h, {"CAPTURE"})
    BY <1>1, AddChannelIs
  <2>2. OrElse(AddCapture(h), DelPreview) = AddChannel(h, "CAPTURE")
    BY <2>1 DEF OrElse, AddCapture
  <2>3. PICK x \in AddChannel(h, "CAPTURE") : a \in DelPreviewOk(x.h)
    BY <2>1, <2>2 DEF Then
  <2>4. a.ok = TRUE /\ a.h = SetCh(x.h, "PREVIEW", "none")
    <3>1. a = Out(SetCh(x.h, "PREVIEW", "none"), TRUE)
      BY <2>3 DEF DelPreviewOk, DelPreview, DelChannel, Done
    <3> QED
      BY <3>1 DEF Out
  <2>5. Alike(x.h, a.h) /\ OnlyIn(x.h, a.h, {"PREVIEW"}) /\ a.h.ch["PREVIEW"] = "none"
    <3> DEFINE f == x.h
    <3>1. f \in Device
      BY <2>1 DEF Alike, Same
    <3> HIDE DEF f
    <3>2. /\ Alike(f, SetCh(f, "PREVIEW", "none"))
          /\ OnlyIn(f, SetCh(f, "PREVIEW", "none"), {"PREVIEW"})
          /\ SetCh(f, "PREVIEW", "none").ch["PREVIEW"] = "none"
      BY <1>1, <3>1, SetChIs
    <3> QED
      BY <2>4, <3>2 DEF f
  <2>6. Alike(h, a.h) /\ OnlyIn(h, a.h, {"CAPTURE", "PREVIEW"})
        /\ a.h.ch["CAPTURE"] = "idle"
    BY <1>1, <2>1, <2>5 DEF Alike, Same, SameModes, OnlyIn
  <2> QED
    BY <2>4, <2>5, <2>6 DEF Captured, Alike, Same
<1> HIDE DEF A
<1>3. \A b \in B : b.ok = TRUE /\ Q(b.h)
  <2> SUFFICES ASSUME NEW b \in B PROVE b.ok = TRUE /\ Q(b.h)
    OBVIOUS
  <2>1. PICK a \in A : b \in PostviewJob(a.h)
    BY <1>2 DEF Then
  <2>2. b.ok = TRUE /\ b.h = a.h
    BY <1>2, <2>1, CaptureStepsAre
  <2> QED
    BY <1>2, <2>2
<1> HIDE DEF B
<1>4. \A c \in C : c.ok = TRUE /\ Q(c.h)
  <2> SUFFICES ASSUME NEW c \in C PROVE c.ok = TRUE /\ Q(c.h)
    OBVIOUS
  <2>1. PICK b \in B : c \in ConfigCapture(b.h)
    BY <1>3 DEF Then
  <2>2. c.ok = TRUE /\ c.h = b.h
    BY <1>3, <2>1, CaptureStepsAre
  <2> QED
    BY <1>3, <2>2
<1> HIDE DEF C
<1>5. \A d \in D : d.ok = TRUE /\ Q(d.h)
  <2> SUFFICES ASSUME NEW d \in D PROVE d.ok = TRUE /\ Q(d.h)
    OBVIOUS
  <2>1. PICK c \in C : d \in DeferredPostProc(c.h)
    BY <1>4 DEF Then
  <2>2. d.ok = TRUE /\ Pictured(c.h, d.h, "armed", {}) /\ d.h.ch = c.h.ch
    BY <1>4, <2>1, CaptureStepsAre
  <2> QED
    BY <1>4, <2>2 DEF Captured, Pictured, Same, SameModes, OnlyIn
<1> HIDE DEF D
<1>6. \A e \in E : e.ok = TRUE /\ Alone(e.h)
  <2> SUFFICES ASSUME NEW e \in E PROVE e.ok = TRUE /\ Alone(e.h)
    OBVIOUS
  <2>1. PICK d \in D : e \in StartCapture(d.h)
    BY <1>5 DEF Then
  <2>2. e.ok = TRUE /\ Alike(d.h, e.h) /\ OnlyIn(d.h, e.h, {"CAPTURE"})
    BY <1>5, <2>1, CaptureStepsAre
  <2> QED
    BY <1>1, <1>5, <2>2 DEF Captured, Alike, Same, SameModes, OnlyIn
<1> HIDE DEF E
<1>7. \A f \in F : f.ok = TRUE /\ Alone(f.h)
  <2> SUFFICES ASSUME NEW f \in F PROVE f.ok = TRUE /\ Alone(f.h)
    OBVIOUS
  <2>1. PICK e \in E : f \in StartAdvanced(e.h)
    BY <1>6 DEF Then
  <2>2. f.ok = TRUE /\ f.h = e.h
    BY <1>6, <2>1, CaptureStepsAre
  <2> QED
    BY <1>6, <2>2
<1>8. o \in Then(F, LongShotOrDel)
  BY DEF TakeCapturePicture, A, B, C, D, E
<1> HIDE DEF F
<1>9. PICK f \in F : o \in LongShotOrDel(f.h)
  BY <1>7, <1>8 DEF Then
<1>10. o.ok = TRUE /\ o.h = f.h
  BY <1>7, <1>9, CaptureStepsAre
<1> QED
  BY <1>7, <1>10

LEMMA TakeRawPictureIs ==
    ASSUME NoFailures, NEW h \in Device, ~h.longshot, NEW o \in TakeRawPicture(h)
    PROVE  o.ok = TRUE /\ Captured(h, o.h, "RAW")
<1> DEFINE d == DelPreview(h)
           A == AddChannel(d, "RAW")
           B == Then(A, StartPostProcRaw)
<1>1. {"RAW", "PREVIEW"} \subseteq ChType /\ "none" \in ChStatus /\ "active" \in ChStatus
      /\ "RAW" # "ZSL"
  BY DEF ChType, ChStatus
<1>2. Alike(h, d) /\ OnlyIn(h, d, {"PREVIEW"}) /\ d.ch["PREVIEW"] = "none" /\ d \in Device
  <2>1. d = SetCh(h, "PREVIEW", "none")
    BY DEF DelPreview, DelChannel
  <2> HIDE DEF d
  <2>2. Alike(h, d) /\ OnlyIn(h, d, {"PREVIEW"}) /\ d.ch["PREVIEW"] = "none"
    BY <1>1, <2>1, SetChIs
  <2> QED
    BY <2>2 DEF Alike, Same
<1> HIDE DEF d
<1>3. \A a \in A : a.ok = TRUE /\ Captured(h, a.h, "RAW") /\ a.h \in Device /\ ~a.h.longshot
                   /\ a.h.ch["RAW"] = "idle"
  <2> SUFFICES ASSUME NEW a \in A
               PROVE  a.ok = TRUE /\ Captured(h, a.h, "RAW") /\ a.h \in Device
                      /\ ~a.h.longshot /\ a.h.ch["RAW"] = "idle"
    OBVIOUS
  <2>1. a.ok = TRUE /\ Alike(d, a.h) /\ a.h.ch["RAW"] = "idle" /\ OnlyIn(d, a.h, {"RAW"})
    BY <1>1, <1>2, AddChannelIs
  <2> QED
    BY <1>1, <1>2, <2>1 DEF Captured, Alike, Same, SameModes, OnlyIn
<1> HIDE DEF A
<1>4. \A b \in B : b.ok = TRUE /\ Captured(h, b.h, "RAW") /\ b.h \in Device
                   /\ b.h.ch["RAW"] = "idle"
  <2> SUFFICES ASSUME NEW b \in B
               PROVE  b.ok = TRUE /\ Captured(h, b.h, "RAW") /\ b.h \in Device
                      /\ b.h.ch["RAW"] = "idle"
    OBVIOUS
  <2>1. PICK a \in A : b \in StartPostProcRaw(a.h)
    BY <1>3 DEF Then
  <2>2. b \in StartPostProc(a.h)
    BY <1>3, <2>1, StartPostProcIs DEF StartPostProcRaw, OrElse
  <2>3. b.ok = TRUE /\ Pictured(a.h, b.h, "armed", {}) /\ b.h.ch = a.h.ch
    BY <1>3, <2>2, StartPostProcIs
  <2> QED
    BY <1>3, <2>3 DEF Captured, Pictured, Same, SameModes, OnlyIn
<1>5. PICK b \in B : o \in StartRaw(b.h)
  <2>1. o \in Then(B, StartRaw)
    BY DEF TakeRawPicture, A, d
  <2> HIDE DEF B
  <2> QED
    BY <1>4, <2>1 DEF Then
<1> HIDE DEF B
<1>6. StartChannel(b.h, "RAW") = {Out(SetCh(b.h, "RAW", "active"), TRUE)}
  BY <1>4, StartChannelStarts
<1>7. o = Out(SetCh(b.h, "RAW", "active"), TRUE)
  BY <1>5, <1>6 DEF StartRaw, OrElse, Out
<1>8. o.ok = TRUE /\ Alike(b.h, o.h) /\ OnlyIn(b.h, o.h, {"RAW"})
  BY <1>1, <1>4, <1>7, SetChIs DEF Out
<1> QED
  BY <1>1, <1>4, <1>8 DEF Captured, Alike, Same, SameModes, OnlyIn

-----------------------------------------------------------------------------
(* Recording.                                                              *)

StartedRecording(h, o, s, r) ==
    o.ok \in BOOLEAN /\ o.h \in Device /\ Fits(o.h, IF o.ok THEN r ELSE s)

\* The metadata of a preview channel is linked, or there is none.
LEMMA LinkMetadataIs ==
    ASSUME NoFailures, NEW o, o.ok = TRUE, NEW l \in LinkMetadata(o)
    PROVE  l.ok = TRUE /\ l.h = o.h
<1>1. CASE LiveChannel = "VIDEO" /\ o.h.ch["PREVIEW"] # "none"
  <2>1. l \in {Out(o.h, rc) : rc \in Rc("link")}
    BY <1>1 DEF LinkMetadata
  <2> QED
    BY <2>1, RcOut
<1>2. CASE ~(LiveChannel = "VIDEO" /\ o.h.ch["PREVIEW"] # "none")
  BY <1>2 DEF LinkMetadata
<1> QED
  BY <1>1, <1>2

\* A recording has the hint, and a preview channel of its own.
LEMMA StartRecordingFits ==
    ASSUME NoFailures, NEW h \in Device, NEW s \in {"PREVIEWING", "PREVIEW_PIC_TAKING"},
           Fits(h, s), NEW o \in StartRecording(h)
    PROVE  StartedRecording(h, o, s, IF s = "PREVIEWING" THEN "RECORDING" ELSE "VIDEO_PIC_TAKING")
<1> DEFINE r == IF s = "PREVIEWING" THEN "RECORDING" ELSE "VIDEO_PIC_TAKING"
           d == StopPreview(h)
           u == UpdateRecordingHintValue(d, TRUE)
           B == Then(Always(u, PreparePreview), StartPreviewChannel)
           A == IF h.hint THEN Done(h) ELSE B
           L == UNION {LinkMetadata(x) : x \in A}
           \* Ready for the video channel.
           W(g) == /\ g \in Device /\ Same(h, g) /\ g.postproc = h.postproc /\ ModesFit(g)
                   /\ g.hint /\ Fits(g, s)
                   /\ g.ch["CAPTURE"] = h.ch["CAPTURE"] /\ g.ch["RAW"] = h.ch["RAW"]
                   /\ Simple => g.ch["ZSL"] = "none" /\ g.ch["PREVIEW"] = "active"
<1>1. /\ {"ZSL", "PREVIEW", "VIDEO", "SNAPSHOT", "CAPTURE", "RAW"} \subseteq ChType
      /\ "active" \in ChStatus /\ ~h.longshot /\ s \in WithPreview
  BY DEF ChType, ChStatus, Fits, ModesFit, WithPreview
<1>2. ASSUME h.hint PROVE W(h)
  <2>1. Simple => h.ch["ZSL"] = "none" /\ h.ch["PREVIEW"] = "active"
    BY <1>1, <1>2 DEF Fits, PreviewFits
  <2> QED
    BY <1>2, <2>1 DEF Fits, Same
<1>3. ASSUME ~h.hint, NEW x \in B PROVE x.ok = TRUE /\ W(x.h)
  <2>1. /\ Alike(h, d) /\ d \in Device /\ d.ch["ZSL"] = "none"
        /\ OnlyIn(h, d, {"ZSL", "PREVIEW", "VIDEO", "SNAPSHOT"})
    BY UnpreparePreviewIs DEF StopPreview, Alike, Same
  <2>2. ModesFit(d)
    BY <2>1 DEF Fits, Alike, Same, SameModes, ModesFit
  <2> HIDE DEF d
  <2>3. \A v \in u : /\ v.ok = TRUE /\ ModesOnly(d, v.h) /\ v.h \in Device /\ v.h.hint
                     /\ ModesFit(v.h)
    <3> SUFFICES ASSUME NEW v \in u
                 PROVE  /\ v.ok = TRUE /\ ModesOnly(d, v.h) /\ v.h \in Device /\ v.h.hint
                        /\ ModesFit(v.h)
      OBVIOUS
    <3>1. v.ok = TRUE /\ Hinted(d, TRUE, v.h)
      BY <2>1, HintIs
    <3> QED
      BY <2>2, <3>1, ModesHinted DEF Hinted, ModesOnly, Same
  <2> HIDE DEF u
  <2>4. \A p \in Always(u, PreparePreview) :
            /\ p.ok = TRUE /\ p.h.ch["PREVIEW"] = "idle" /\ p.h \in Device /\ p.h.hint
            /\ Same(h, p.h) /\ p.h.postproc = h.postproc /\ ModesFit(p.h)
            /\ p.h.ch["CAPTURE"] = h.ch["CAPTURE"] /\ p.h.ch["RAW"] = h.ch["RAW"]
            /\ p.h.ch["ZSL"] = "none"
    <3> SUFFICES ASSUME NEW p \in Always(u, PreparePreview)
                 PROVE  /\ p.ok = TRUE /\ p.h.ch["PREVIEW"] = "idle" /\ p.h \in Device /\ p.h.hint
                        /\ Same(h, p.h) /\ p.h.postproc = h.postproc /\ ModesFit(p.h)
                        /\ p.h.ch["CAPTURE"] = h.ch["CAPTURE"] /\ p.h.ch["RAW"] = h.ch["RAW"]
                        /\ p.h.ch["ZSL"] = "none"
      OBVIOUS
    <3>1. PICK v \in u : p \in PreparePreview(v.h)
      BY DEF Always
    <3>2. p.ok = TRUE /\ Previews(v.h, p.h, "idle")
      BY <1>1, <2>1, <2>3, <3>1, PreparePreviewIs DEF ModesOnly, Alike, Same
    <3>3. PreviewType(v.h) = "PREVIEW"
      BY <2>3 DEF PreviewType
    <3>4. v.h.ch["ZSL"] = "none" /\ v.h.ch["CAPTURE"] = h.ch["CAPTURE"]
          /\ v.h.ch["RAW"] = h.ch["RAW"] /\ v.h.postproc = h.postproc /\ Same(h, v.h)
      BY <1>1, <2>1, <2>3 DEF ModesOnly, Alike, Same, OnlyIn
    <3>5. /\ p.h.ch["PREVIEW"] = "idle" /\ p.h.ch["ZSL"] = "none"
          /\ p.h.ch["CAPTURE"] = h.ch["CAPTURE"] /\ p.h.ch["RAW"] = h.ch["RAW"]
          /\ Alike(v.h, p.h)
      BY <3>2, <3>3, <3>4 DEF Previews
    <3> QED
      BY <2>3, <3>2, <3>4, <3>5 DEF Alike, Same, SameModes, ModesFit
  <2>5. PICK p \in Always(u, PreparePreview) : x \in StartPreviewChannel(p.h)
    BY <1>3, <2>4 DEF Then
  <2>6. x = Out(SetCh(p.h, "PREVIEW", "active"), TRUE)
    <3>1. p.h.ch["PREVIEW"] \notin {"none", "closed"}
      BY <2>4
    <3> QED
      BY <2>5, <3>1, StartChannelStarts DEF StartPreviewChannel
  <2>7. x.ok = TRUE /\ Alike(p.h, x.h) /\ OnlyIn(p.h, x.h, {"PREVIEW"})
        /\ x.h.ch["PREVIEW"] = "active"
    BY <1>1, <2>4, <2>6, SetChIs DEF Out
  <2>8. /\ x.h \in Device /\ Same(h, x.h) /\ x.h.postproc = h.postproc /\ ModesFit(x.h)
        /\ x.h.hint
    BY <2>4, <2>7 DEF Alike, Same, SameModes, ModesFit
  <2>9. /\ x.h.ch["CAPTURE"] = h.ch["CAPTURE"] /\ x.h.ch["RAW"] = h.ch["RAW"]
        /\ x.h.ch["ZSL"] = "none" /\ x.h.ch["PREVIEW"] = "active"
    BY <1>1, <2>4, <2>7 DEF OnlyIn
  <2>10. Fits(x.h, s)
    BY <2>8, <2>9 DEF Fits, HintFits, ReadyFits, PostProcFits, PreviewFits, PictureFits, Same,
                      Recordings
  <2> QED
    BY <2>7, <2>8, <2>9, <2>10
<1>4. \A x \in A : x.ok = TRUE /\ W(x.h)
  <2>1. CASE h.hint
    <3> HIDE DEF W
    <3> QED
      BY <1>2, <2>1 DEF Done, Out
  <2>2. CASE ~h.hint
    <3> HIDE DEF W, B
    <3> QED
      BY <1>3, <2>2
  <2> QED
    BY <2>1, <2>2
<1>5. \A l \in L : l.ok = TRUE /\ W(l.h)
  <2> SUFFICES ASSUME NEW l \in L PROVE l.ok = TRUE /\ W(l.h)
    OBVIOUS
  <2> HIDE DEF A, W
  <2>1. PICK x \in A : l \in LinkMetadata(x)
    OBVIOUS
  <2> QED
    BY <1>4, <2>1, LinkMetadataIs
<1>6. o \in Then(L, StartVideo)
  BY DEF StartRecording
<1> HIDE DEF L
<1>7. PICK l \in L : o \in StartChannel(l.h, "VIDEO")
  BY <1>5, <1>6 DEF Then, StartVideo
<1>8. W(l.h)
  BY <1>5
<1>9. /\ o.ok \in BOOLEAN /\ Alike(l.h, o.h) /\ OnlyIn(l.h, o.h, {"VIDEO"})
      /\ ~o.ok => o.h = l.h
  <2>1. l.h \in Device /\ "VIDEO" \in ChType
    BY <1>1, <1>8
  <2> DEFINE g == l.h
  <2>2. g \in Device /\ o \in StartChannel(g, "VIDEO")
    BY <1>7, <2>1
  <2> HIDE DEF W, g
  <2>3. /\ o.ok \in BOOLEAN /\ Alike(g, o.h) /\ OnlyIn(g, o.h, {"VIDEO"})
        /\ ~o.ok => o.h = g
    BY <2>1, <2>2, StartChannelIs
  <2> QED
    BY <2>3 DEF g
<1>10. CASE ~o.ok
  BY <1>8, <1>9, <1>10 DEF StartedRecording
<1>11. CASE o.ok
  <2>1. /\ o.h \in Device /\ o.h.postproc = h.postproc /\ ModesFit(o.h) /\ o.h.hint
        /\ o.h.jpeg = h.jpeg
    BY <1>8, <1>9 DEF Alike, Same, SameModes, ModesFit
  <2>2. /\ o.h.ch["CAPTURE"] = h.ch["CAPTURE"] /\ o.h.ch["RAW"] = h.ch["RAW"]
        /\ Simple => o.h.ch["ZSL"] = "none" /\ o.h.ch["PREVIEW"] = "active"
    BY <1>1, <1>8, <1>9 DEF OnlyIn
  <2>3. PostProcFits(o.h, r)
    BY <2>1 DEF Fits, PostProcFits, Pictures
  <2>4. HintFits(o.h, r) /\ ReadyFits(o.h, r)
    BY <2>1 DEF HintFits, ReadyFits
  <2>5. Simple => PreviewFits(o.h, r)
    BY <2>2 DEF PreviewFits
  <2>6. Simple /\ ZslUnused => PictureFits(o.h, r)
    BY <2>2 DEF Fits, PictureFits
  <2>7. Fits(o.h, r)
    BY <2>1, <2>3, <2>4, <2>5, <2>6 DEF Fits
  <2> QED
    BY <1>9, <1>11, <2>1, <2>7 DEF StartedRecording
<1> QED
  BY <1>9, <1>10, <1>11

\* The end of a live snapshot, and of a recording.
LEMMA StopChannelIs ==
    ASSUME NEW h \in Device, NEW t \in ChType
    PROVE  Alike(h, StopChannel(h, t)) /\ OnlyIn(h, StopChannel(h, t), {t})
<1>1. "idle" \in ChStatus
  BY DEF ChStatus
<1> QED
  BY <1>1, SetChIs, AlikeSelf DEF StopChannel

LEMMA CancelLiveSnapshotIs ==
    ASSUME NEW h \in Device
    PROVE  Pictured(h, CancelLiveSnapshot(h), "stopped", {"SNAPSHOT"})
<1> DEFINE n == [h EXCEPT !.live = "none"]
           p == StopPostProc(n)
           g == StopChannel(p, "SNAPSHOT")
<1>1. Pictured(h, n, h.postproc, {})
  BY DEF Device, Live, Pictured, Same, SameModes, OnlyIn
<1> HIDE DEF n
<1>2. Pictured(n, p, "stopped", {})
  BY <1>1, StopPostProcIs DEF Pictured, Same
<1> HIDE DEF p
<1>3. "SNAPSHOT" \in ChType
  BY DEF ChType
<1>4. Alike(p, g) /\ OnlyIn(p, g, {"SNAPSHOT"})
  BY <1>2, <1>3, StopChannelIs DEF Pictured, Same
<1> HIDE DEF g
<1>5. Pictured(h, g, "stopped", {"SNAPSHOT"})
  BY <1>1, <1>2, <1>4 DEF Pictured, Alike, Same, SameModes, OnlyIn
<1> QED
  BY <1>5 DEF CancelLiveSnapshot, g, p, n

LEMMA StopCaptureChannelIs ==
    ASSUME NEW h \in Device, NEW destroy
    PROVE  /\ Alike(h, StopCaptureChannel(h, destroy))
           /\ OnlyIn(h, StopCaptureChannel(h, destroy), {"CAPTURE"})
           /\ h.ch["CAPTURE"] = "none" => StopCaptureChannel(h, destroy) = h
<1> DEFINE p == StopChannel(h, "CAPTURE")
           g == CloseChannel(p, "CAPTURE")
<1>1. "CAPTURE" \in ChType /\ "closed" \in ChStatus
  BY DEF ChType, ChStatus
<1>2. Alike(h, p) /\ OnlyIn(h, p, {"CAPTURE"}) /\ p \in Device
  BY <1>1, StopChannelIs DEF Alike, Same
<1>3. h.ch["CAPTURE"] = "none" => p = h
  BY DEF StopChannel
<1> HIDE DEF p
<1>4. Alike(p, g) /\ OnlyIn(p, g, {"CAPTURE"})
  <2>1. CASE p.ch["CAPTURE"] = "none"
    BY <1>2, <2>1, AlikeSelf DEF CloseChannel
  <2>2. CASE p.ch["CAPTURE"] # "none"
    <3>1. g = SetCh(p, "CAPTURE", "closed")
      BY <2>2 DEF CloseChannel
    <3> HIDE DEF g
    <3> QED
      BY <1>1, <1>2, <3>1, SetChIs
  <2> QED
    BY <2>1, <2>2
<1>5. h.ch["CAPTURE"] = "none" => g = h
  BY <1>3 DEF CloseChannel
<1> HIDE DEF g
<1>6. Alike(h, g) /\ OnlyIn(h, g, {"CAPTURE"})
  BY <1>2, <1>4 DEF Alike, Same, SameModes, OnlyIn
<1>7. StopCaptureChannel(h, destroy) = IF ~h.jpeg THEN h ELSE IF destroy THEN g ELSE p
  BY DEF StopCaptureChannel, g, p
<1> QED
  BY <1>2, <1>3, <1>5, <1>6, <1>7, AlikeSelf

-----------------------------------------------------------------------------
(* A handler that returns with a device that fits its state.               *)

Ends == \E h \in Device : Fits(h, h.m_state) /\ hal' = [h EXCEPT !.posted = FALSE]

\* The device g differs from h in nothing that Fits looks at.
Looks(h, g) ==
    /\ g \in Device /\ SameModes(h, g) /\ g.ch = h.ch /\ g.postproc = h.postproc
    /\ g.longshot = h.longshot /\ g.jpeg = h.jpeg

LEMMA LooksFits ==
    ASSUME NEW h, NEW g, NEW s, Looks(h, g), Fits(h, s) PROVE Fits(g, s)
BY DEF Looks, SameModes, Fits, ModesFit, HintFits, ReadyFits, PostProcFits,
       PreviewFits, PictureFits

LEMMA GotoLooks ==
    ASSUME NEW h \in Device, NEW s \in MState
    PROVE  Looks(h, Goto(h, s)) /\ Goto(h, s).m_state = s
BY DEF Goto, Device, Looks, SameModes

LEMMA GotoFits ==
    ASSUME NEW h \in Device, NEW s \in MState, Fits(h, s)
    PROVE  LET g == Goto(h, s) IN g \in Device /\ g.m_state = s /\ Fits(g, g.m_state)
<1>1. Looks(h, Goto(h, s)) /\ Goto(h, s).m_state = s
  BY GotoLooks
<1>2. Fits(Goto(h, s), s)
  BY <1>1, LooksFits
<1> QED
  BY <1>1, <1>2 DEF Looks

\* The four ways in which a handler returns with the device h.
Returns(h) ==
    ReplyOk(h) \/ Refuse(h) \/ ReplyEvt(h) \/ Ignore(h) \/ \E ok : Reply(h, ok)

LEMMA ReturnsEnds ==
    ASSUME NEW h \in Device, Fits(h, h.m_state), Returns(h) PROVE Ends
BY DEF Returns, ReplyOk, Refuse, Reply, ReplyEvt, Ignore, Handled, Ends

LEMMA GotoEnds ==
    ASSUME NEW h \in Device, NEW s \in MState, Fits(h, s), Returns(Goto(h, s)) PROVE Ends
<1> DEFINE g == Goto(h, s)
<1>1. g \in Device /\ Fits(g, g.m_state) /\ Returns(g)
  BY GotoFits
<1> HIDE DEF g
<1> QED
  BY <1>1, ReturnsEnds

LEMMA ReplyGotoEnds ==
    ASSUME NEW S, NEW a \in MState, NEW b \in MState,
           \A o \in S : o.h \in Device /\ Fits(o.h, IF o.ok THEN a ELSE b),
           ReplyGoto(S, a, b)
    PROVE  Ends
<1>1. PICK o \in S : Reply(Goto(o.h, IF o.ok THEN a ELSE b), o.ok)
  BY DEF ReplyGoto
<1> DEFINE s == IF o.ok THEN a ELSE b
<1>2. s \in MState /\ o.h \in Device /\ Fits(o.h, s)
  OBVIOUS
<1>3. Returns(Goto(o.h, s))
  BY <1>1 DEF Returns
<1> HIDE DEF s
<1> QED
  BY <1>2, <1>3, GotoEnds

LEMMA ReplyStayEnds ==
    ASSUME NEW S, hal \in Device,
           \A o \in S : o.h \in Device /\ Fits(o.h, hal.m_state), ReplyStay(S)
    PROVE  Ends
<1>1. hal.m_state \in MState
  BY DEF Device
<1>2. \A o \in S : o.h \in Device /\ Fits(o.h, IF o.ok THEN hal.m_state ELSE hal.m_state)
  OBVIOUS
<1> QED
  BY <1>1, <1>2, ReplyGotoEnds DEF ReplyStay

\* The callers do not use the longshot command, and set parameters they may.
Allowed(c) == c.evt \notin CommandEvts /\ (c.evt = "SET_PARAMS" => c.params \in ParamValues)

Fitting == hal \in Device /\ cur.params \in Params /\ Allowed(cur) /\ Fits(hal, hal.m_state)

LEMMA UnchangedEnds ==
    ASSUME Fitting, ReplyOk(hal) \/ Refuse(hal) \/ ReplyEvt(hal) \/ Ignore(hal)
    PROVE  Ends
<1>1. Returns(hal)
  BY DEF Returns
<1> QED
  BY <1>1, ReturnsEnds DEF Fitting

\* SET_PARAMS without a restart.
LEMMA CommitEnds ==
    ASSUME NoFailures, Fitting, cur.params \in ParamValues, NEW u \in Update(hal),
           \/ ~NeedRestart(hal, cur.params)
           \/ hal.m_state \in {"PREVIEW_STOPPED", "PIC_TAKING"},
           ReplyStay(CommitParameters(u.h))
    PROVE  Ends
<1>1. Updated(hal, cur.params, u.h) /\ u.h \in Device
  BY UpdateIsOf DEF Fitting, Updated, ModesOnly, Same
<1>2. \A o \in CommitParameters(u.h) : o.h \in Device /\ Fits(o.h, hal.m_state)
  <2> SUFFICES ASSUME NEW o \in CommitParameters(u.h)
               PROVE  o.h \in Device /\ Fits(o.h, hal.m_state)
    OBVIOUS
  <2>1. Committed(u.h, o.h)
    BY <1>1, CommitIs
  <2>2. o.h \in Device
    BY <2>1 DEF Committed, ModesOnly, Same
  <2> DEFINE p == cur.params
             g == u.h
             s == hal.m_state
             h == hal
  <2>3. /\ h \in Device /\ p \in ParamValues /\ p \in Params /\ Fits(h, s) /\ Updated(h, p, g)
        /\ Committed(g, o.h)
        /\ ~NeedRestart(h, p) \/ s \in {"PREVIEW_STOPPED", "PIC_TAKING"}
    BY <1>1, <2>1 DEF Fitting
  <2> HIDE DEF p, g, s, h
  <2>4. Fits(o.h, s)
    BY <2>3, NoRestartFits
  <2> QED
    BY <2>2, <2>4 DEF s
<1> QED
  BY <1>2, ReplyStayEnds DEF Fitting

LEMMA UpdateAndCommitEnds ==
    ASSUME NoFailures, Fitting, cur.params \in ParamValues,
           hal.m_state \in {"PREVIEW_STOPPED", "PIC_TAKING"}, ReplyStay(UpdateAndCommit)
    PROVE  Ends
<1>1. \A u \in Update(hal) : u.ok = TRUE
  BY UpdateIsOf DEF Fitting
<1>2. PICK o \in UpdateAndCommit : Reply(Goto(o.h, hal.m_state), o.ok)
  BY DEF ReplyStay, ReplyGoto
<1>3. PICK u \in Update(hal) : o \in CommitParameters(u.h)
  BY <1>1 DEF UpdateAndCommit, Then
<1>4. ReplyStay(CommitParameters(u.h))
  BY <1>2, <1>3 DEF ReplyStay, ReplyGoto
<1> QED
  BY <1>4, CommitEnds

\* What is committed when the channels are down.
LEMMA RebuiltModes ==
    ASSUME NoFailures, NEW h \in Device, NEW p \in ParamValues, p \in Params, NEW u \in Device,
           NEW s, Fits(h, s), Updated(h, p, u), NEW c \in CommitParameters(UnpreparePreview(u))
    PROVE  /\ c.ok = TRUE /\ c.h \in Device /\ Same(h, c.h) /\ ModesFit(c.h)
           /\ c.h.postproc = h.postproc /\ c.h.ch["ZSL"] = "none"
           /\ c.h.ch["CAPTURE"] = h.ch["CAPTURE"] /\ c.h.ch["RAW"] = h.ch["RAW"]
<1> DEFINE g == UnpreparePreview(u)
<1>1. {"CAPTURE", "RAW"} \subseteq ChType
  BY DEF ChType
<1>2. /\ Alike(u, g) /\ g \in Device /\ g.ch["ZSL"] = "none"
      /\ OnlyIn(u, g, {"ZSL", "PREVIEW", "VIDEO", "SNAPSHOT"})
  BY UnpreparePreviewIs DEF Alike, Same
<1> HIDE DEF g
<1>3. c.ok = TRUE /\ Committed(g, c.h)
  BY <1>2, CommitIs DEF g
<1>4. /\ c.h \in Device /\ Same(h, c.h) /\ c.h.postproc = h.postproc /\ c.h.ch["ZSL"] = "none"
      /\ c.h.ch["CAPTURE"] = h.ch["CAPTURE"] /\ c.h.ch["RAW"] = h.ch["RAW"]
  BY <1>1, <1>2, <1>3 DEF Updated, Alike, Same, Committed, ModesOnly, OnlyIn
<1>5. ModesFit(c.h)
  BY <1>2, <1>3 DEF Fits, ModesFit, Updated, Alike, Same, SameModes, Committed, ModesOnly,
                    HintUnused, ZslUnused
<1> QED
  BY <1>3, <1>4, <1>5

\* The device u has the parameters of a device that fits, and o is u with
\* the channels of the state s rebuilt.
Rebuilt(u, s, o) ==
    /\ s \in {"PREVIEW_READY", "PREVIEWING", "PREVIEW_PIC_TAKING"}
    /\ s = "PREVIEW_READY" => o \in RebuildReady(u)
    /\ s # "PREVIEW_READY" => o \in RebuildPreview(u)

LEMMA RebuildFits ==
    ASSUME NoFailures, NEW h \in Device, NEW p \in ParamValues, p \in Params, NEW u \in Device,
           NEW s, NEW o, Fits(h, s), Updated(h, p, u), Rebuilt(u, s, o)
    PROVE  o.ok = TRUE /\ o.h \in Device /\ Fits(o.h, s)
<1> USE DEF Rebuilt
<1> DEFINE st == IF s = "PREVIEW_READY" THEN "idle" ELSE "active"
<1>1. PICK c \in CommitParameters(UnpreparePreview(u)) :
          o \in IF s = "PREVIEW_READY" THEN PreparePreview(c.h) ELSE PrepareAndStart(c.h)
  BY DEF RebuildReady, RebuildPreview, Always, StopPreview
<1>2. /\ c.ok = TRUE /\ c.h \in Device /\ Same(h, c.h) /\ ModesFit(c.h)
      /\ c.h.postproc = h.postproc /\ c.h.ch["ZSL"] = "none"
      /\ c.h.ch["CAPTURE"] = h.ch["CAPTURE"] /\ c.h.ch["RAW"] = h.ch["RAW"]
  BY RebuiltModes
<1> DEFINE g == c.h
<1>3. g \in Device /\ ~g.longshot
  BY <1>2 DEF ModesFit
<1>4. o \in IF s = "PREVIEW_READY" THEN PreparePreview(g) ELSE PrepareAndStart(g)
  BY <1>1
<1>5. /\ ModesFit(g) /\ PostProcFits(g, s) /\ g.ch["ZSL"] = "none"
      /\ Simple /\ ZslUnused =>
           g.ch["CAPTURE"] = "none" /\ g.ch["RAW"] = "none" /\ s # "PREVIEW_PIC_TAKING"
  BY <1>2 DEF Fits, PostProcFits, PictureFits
<1> HIDE DEF g
<1>6. o.ok = TRUE /\ Previews(g, o.h, st)
  BY <1>3, <1>4, PreparePreviewIs, PrepareAndStartIs
<1>7. Fits(o.h, s)
  BY <1>5, <1>6, PreviewsFit
<1> QED
  BY <1>6, <1>7 DEF Previews, Alike, Same

\* SET_PARAMS in a state whose channels may be rebuilt.
LEMMA SetParamsEnds ==
    ASSUME NoFailures, Fitting, cur.params \in ParamValues,
           \/ hal.m_state = "PREVIEW_READY" /\ SetParams(RebuildReady, "PREVIEW_STOPPED")
           \/ hal.m_state = "PREVIEWING" /\ SetParams(RebuildPreview, "PREVIEW_STOPPED")
           \/ hal.m_state = "PREVIEW_PIC_TAKING" /\ SetParams(RebuildPreview, "PIC_TAKING")
    PROVE  Ends
<1> DEFINE s == hal.m_state
           R(g) == IF s = "PREVIEW_READY" THEN RebuildReady(g) ELSE RebuildPreview(g)
<1>1. \A u \in Update(hal) : u.ok = TRUE /\ Updated(hal, cur.params, u.h) /\ u.h \in Device
  BY UpdateIsOf DEF Fitting, Updated, ModesOnly, Same
<1>2. PICK u \in Update(hal), b \in {"PREVIEW_STOPPED", "PIC_TAKING"} :
          \/ ~NeedRestart(hal, cur.params) /\ ReplyStay(CommitParameters(u.h))
          \/ ReplyGoto(R(u.h), hal.m_state, b)
  <2>1. CASE hal.m_state = "PREVIEW_READY" /\ SetParams(RebuildReady, "PREVIEW_STOPPED")
    BY <1>1, <2>1 DEF SetParams
  <2>2. CASE hal.m_state = "PREVIEWING" /\ SetParams(RebuildPreview, "PREVIEW_STOPPED")
    BY <1>1, <2>2 DEF SetParams
  <2>3. CASE hal.m_state = "PREVIEW_PIC_TAKING" /\ SetParams(RebuildPreview, "PIC_TAKING")
    BY <1>1, <2>3 DEF SetParams
  <2> QED
    BY <2>1, <2>2, <2>3
<1>3. s \in {"PREVIEW_READY", "PREVIEWING", "PREVIEW_PIC_TAKING"} /\ s \in MState /\ b \in MState
  BY DEF MState
<1>4. CASE ~NeedRestart(hal, cur.params) /\ ReplyStay(CommitParameters(u.h))
  BY <1>4, CommitEnds
<1>5. CASE ReplyGoto(R(u.h), hal.m_state, b)
  <2>1. \A o \in R(u.h) : o.ok = TRUE /\ o.h \in Device /\ Fits(o.h, s)
    <3> SUFFICES ASSUME NEW o \in R(u.h) PROVE o.ok = TRUE /\ o.h \in Device /\ Fits(o.h, s)
      OBVIOUS
    <3> DEFINE h == hal
               p == cur.params
               g == u.h
    <3>1. /\ h \in Device /\ p \in ParamValues /\ p \in Params /\ g \in Device
          /\ Fits(h, s) /\ Updated(h, p, g) /\ Rebuilt(g, s, o)
      BY <1>1, <1>3 DEF Fitting, Rebuilt
    <3> HIDE DEF h, p, g, s
    <3> QED
      BY <3>1, RebuildFits
  <2> DEFINE S == R(u.h)
  <2>2. ReplyGoto(S, s, b)
    BY <1>5
  <2> HIDE DEF S, R, s
  <2>3. \A o \in S : o.h \in Device /\ Fits(o.h, IF o.ok THEN s ELSE b)
    BY <2>1 DEF S
  <2> QED
    BY <1>3, <2>2, <2>3, ReplyGotoEnds
<1> QED
  BY <1>2, <1>4, <1>5

\* SET_PARAMS in a recording: refused parameters wait.
LEMMA SetParamsNoRestartEnds ==
    ASSUME NoFailures, Fitting, cur.params \in ParamValues,
           hal.m_state \in Recordings, SetParamsNoRestart
    PROVE  Ends
<1>1. PICK u \in Update(hal) :
          \/ ~NeedRestart(hal, cur.params) /\ ReplyStay(CommitParameters(u.h))
          \/ Refuse(u.h)
  BY DEF SetParamsNoRestart
<1>2. Updated(hal, cur.params, u.h) /\ u.h \in Device /\ u.h.m_state = hal.m_state
  BY UpdateIsOf DEF Fitting, Updated, ModesOnly, Same
<1>3. CASE Refuse(u.h)
  <2>1. ModesFit(u.h)
    <3> DEFINE h == hal
               p == cur.params
               g == u.h
    <3>1. /\ h \in Device /\ p \in ParamValues /\ p \in Params /\ ModesFit(h)
          /\ HintUnused => h.hint
          /\ Updated(h, p, g)
      BY <1>2 DEF Fitting, Fits, HintFits
    <3> HIDE DEF h, p, g
    <3>2. ModesFit(g)
      BY <3>1, ModesWait
    <3> QED
      BY <3>2 DEF g
  <2>2. /\ u.h.ch = hal.ch /\ u.h.postproc = hal.postproc /\ u.h.jpeg = hal.jpeg
        /\ u.h.zsl = hal.zsl /\ u.h.hint = hal.hint
    BY <1>2 DEF Updated, ModesOnly, Same
  <2>3. Fits(u.h, hal.m_state)
    BY <2>1, <2>2 DEF Fitting, Fits, HintFits, ReadyFits, PostProcFits, PreviewFits, PictureFits
  <2> QED
    BY <1>2, <1>3, <2>3, ReturnsEnds DEF Returns
<1>4. CASE ~NeedRestart(hal, cur.params) /\ ReplyStay(CommitParameters(u.h))
  BY <1>4, CommitEnds
<1> QED
  BY <1>1, <1>3, <1>4

-----------------------------------------------------------------------------
(* The handlers, state by state.                                           *)

LEMMA LooksEnds ==
    ASSUME Fitting, NEW h, Looks(hal, h), h.m_state = hal.m_state, Returns(h) PROVE Ends
<1>1. h \in Device /\ Fits(h, h.m_state)
  BY LooksFits DEF Fitting, Looks
<1> QED
  BY <1>1, ReturnsEnds

LEMMA SetWindowLooks ==
    ASSUME NEW h \in Device PROVE Looks(h, SetWindow(h)) /\ SetWindow(h).m_state = h.m_state
BY DEF SetWindow, Device, Looks, SameModes

LEMMA NewPicLooks ==
    ASSUME NEW h \in Device PROVE Looks(h, NewPic(h)) /\ NewPic(h).m_state = h.m_state
<1>1. NewPic(h) \in Device
  BY NewPicKeep, KeepDevice
<1> QED
  BY <1>1 DEF NewPic, Device, Looks, SameModes

LEMMA ParamsAllowed == ASSUME Fitting, cur.evt = "SET_PARAMS" PROVE cur.params \in ParamValues
BY DEF Fitting, Allowed

\* Stopping the preview when no picture is taken.
LEMMA StopFits ==
    ASSUME NEW h \in Device, NEW s, Fits(h, s), s # "PIC_TAKING", h.postproc = "stopped"
    PROVE  StopPreview(h) \in Device /\ Fits(StopPreview(h), "PREVIEW_STOPPED")
<1> DEFINE g == StopPreview(h)
<1>1. {"ZSL", "PREVIEW", "CAPTURE", "RAW"} \subseteq ChType
  BY DEF ChType
<1>2. /\ Alike(h, g) /\ g \in Device /\ OnlyIn(h, g, {"ZSL", "PREVIEW", "VIDEO", "SNAPSHOT"})
      /\ g.ch["ZSL"] = "none" /\ g.ch["PREVIEW"] = "none"
  BY UnpreparePreviewIs DEF StopPreview, Alike, Same
<1> HIDE DEF g
<1>3. g.ch["CAPTURE"] = h.ch["CAPTURE"] /\ g.ch["RAW"] = h.ch["RAW"]
  BY <1>1, <1>2 DEF OnlyIn
<1>4. ModesFit(g) /\ g.postproc = "stopped"
  BY <1>2 DEF Fits, Alike, Same, SameModes, ModesFit
<1>5. PreviewFits(g, "PREVIEW_STOPPED") /\ ReadyFits(g, "PREVIEW_STOPPED")
      /\ PostProcFits(g, "PREVIEW_STOPPED") /\ HintFits(g, "PREVIEW_STOPPED")
  BY <1>2, <1>4 DEF PreviewFits, WithPreview, ReadyFits, PostProcFits, HintFits, Recordings
<1>6. Simple /\ ZslUnused => PictureFits(g, "PREVIEW_STOPPED")
  BY <1>3 DEF Fits, PictureFits
<1>7. g \in Device /\ Fits(g, "PREVIEW_STOPPED")
  BY <1>2, <1>4, <1>5, <1>6 DEF Fits
<1> QED
  BY <1>7 DEF g

LEMMA HintedFits ==
    ASSUME NEW h \in Device, NEW v \in BOOLEAN, NEW g, Fits(h, "PREVIEW_STOPPED"), Hinted(h, v, g)
    PROVE  g \in Device /\ Fits(g, "PREVIEW_STOPPED")
<1>1. ModesFit(g) /\ ModesOnly(h, g) /\ g \in Device
  BY ModesHinted DEF Fits, Hinted, ModesOnly, Same
<1>2. HintFits(g, "PREVIEW_STOPPED") /\ ReadyFits(g, "PREVIEW_STOPPED")
      /\ PostProcFits(g, "PREVIEW_STOPPED")
  BY <1>1 DEF Fits, HintFits, ReadyFits, PostProcFits, ModesOnly, Recordings
<1>3. Simple => PreviewFits(g, "PREVIEW_STOPPED")
  <2>1. Simple => h.ch["ZSL"] = "none" /\ h.ch["PREVIEW"] = "none"
    BY DEF Fits, PreviewFits, ZslStates
  <2> QED
    BY <1>1, <2>1 DEF PreviewFits, WithPreview, ModesOnly
<1>4. Simple /\ ZslUnused => PictureFits(g, "PREVIEW_STOPPED")
  BY <1>1 DEF Fits, PictureFits, ModesOnly, Same
<1> QED
  BY <1>1, <1>2, <1>3, <1>4 DEF Fits

LEMMA BuildFits ==
    ASSUME NEW h \in Device, NEW g, NEW st \in {"active", "idle"}, Fits(h, "PREVIEW_STOPPED"),
           Previews(h, g, st)
    PROVE  g \in Device /\ Fits(g, IF st = "active" THEN "PREVIEWING" ELSE "PREVIEW_READY")
<1> DEFINE s == IF st = "active" THEN "PREVIEWING" ELSE "PREVIEW_READY"
<1>1. ModesFit(h) /\ PostProcFits(h, s)
  BY DEF Fits, PostProcFits, Pictures
<1>2. Simple => h.ch["ZSL"] = "none"
  BY DEF Fits, PreviewFits, ZslStates
<1>3. Simple /\ ZslUnused => h.ch["CAPTURE"] = "none" /\ h.ch["RAW"] = "none"
  BY DEF Fits, PictureFits
<1>4. \/ st = "active" /\ s = "PREVIEWING"
      \/ st = "idle" /\ s = "PREVIEW_READY"
  OBVIOUS
<1> HIDE DEF s
<1>5. Fits(g, s)
  BY <1>1, <1>2, <1>3, <1>4, PreviewsFit
<1> QED
  BY <1>5 DEF Previews, Alike, Same, s

LEMMA StartFits ==
    ASSUME NoFailures, NEW h \in Device, Fits(h, "PREVIEW_STOPPED"), NEW o \in PrepareAndStart(h)
    PROVE  o.ok = TRUE /\ o.h \in Device /\ Fits(o.h, "PREVIEWING")
<1> DEFINE g == o.h
<1>1. o.ok = TRUE /\ Previews(h, o.h, "active")
  BY PrepareAndStartIs DEF Fits, ModesFit
<1>2. Previews(h, g, "active")
  BY <1>1
<1> HIDE DEF g
<1>3. g \in Device /\ Fits(g, "PREVIEWING")
  BY <1>2, BuildFits
<1> QED
  BY <1>1, <1>3 DEF g

LEMMA PrepareFits ==
    ASSUME NoFailures, NEW h \in Device, Fits(h, "PREVIEW_STOPPED"), NEW o \in PreparePreview(h)
    PROVE  o.ok = TRUE /\ o.h \in Device /\ Fits(o.h, "PREVIEW_READY")
<1> DEFINE g == o.h
<1>1. o.ok = TRUE /\ Previews(h, o.h, "idle")
  BY PreparePreviewIs DEF Fits, ModesFit
<1>2. Previews(h, g, "idle")
  BY <1>1
<1> HIDE DEF g
<1>3. g \in Device /\ Fits(g, "PREVIEW_READY")
  BY <1>2, BuildFits
<1> QED
  BY <1>1, <1>3 DEF g

LEMMA StoppedStartEnds ==
    ASSUME NoFailures, Fitting, StoppedStartPreview \/ StoppedStartNoDisplay PROVE Ends
<1>1. hal \in Device /\ Fits(hal, "PREVIEW_STOPPED")
  BY DEF Fitting, StoppedStartPreview, StoppedStartNoDisplay, Stopped, Handling
<1>2. {"PREVIEWING", "PREVIEW_STOPPED", "PREVIEW_READY"} \subseteq MState
  BY DEF MState
<1>3. CASE ReplyGoto(PrepareAndStart(hal), "PREVIEWING", "PREVIEW_STOPPED")
  <2> DEFINE S == PrepareAndStart(hal)
  <2>1. \A o \in S : o.ok = TRUE /\ o.h \in Device /\ Fits(o.h, "PREVIEWING")
    BY <1>1, StartFits
  <2> HIDE DEF S
  <2>2. ReplyGoto(S, "PREVIEWING", "PREVIEW_STOPPED")
    BY <1>3 DEF S
  <2> QED
    BY <1>2, <2>1, <2>2, ReplyGotoEnds
<1>4. CASE ReplyGoto(PreparePreview(hal), "PREVIEW_READY", "PREVIEW_STOPPED")
  <2> DEFINE S == PreparePreview(hal)
  <2>1. \A o \in S : o.ok = TRUE /\ o.h \in Device /\ Fits(o.h, "PREVIEW_READY")
    BY <1>1, PrepareFits
  <2> HIDE DEF S
  <2>2. ReplyGoto(S, "PREVIEW_READY", "PREVIEW_STOPPED")
    BY <1>4 DEF S
  <2> QED
    BY <1>2, <2>1, <2>2, ReplyGotoEnds
<1> QED
  BY <1>3, <1>4 DEF StoppedStartPreview, StoppedStartNoDisplay

LEMMA StoppedEnds == ASSUME NoFailures, Fitting, PreviewStoppedState PROVE Ends
<1>1. CASE StoppedSetWindow
  <2>1. Looks(hal, SetWindow(hal)) /\ SetWindow(hal).m_state = hal.m_state
    BY SetWindowLooks DEF Fitting
  <2>2. Returns(SetWindow(hal))
    BY <1>1 DEF StoppedSetWindow, Returns
  <2> QED
    BY <2>1, <2>2, LooksEnds
<1>2. CASE StoppedSetParams
  BY <1>2, ParamsAllowed, UpdateAndCommitEnds DEF StoppedSetParams, Stopped, Handling
<1>3. CASE StoppedStartPreview \/ StoppedStartNoDisplay
  BY <1>3, StoppedStartEnds
<1>4. CASE StoppedRelease
  <2> DEFINE g == [hal EXCEPT !.ch = [t \in ChType |-> "none"]]
  <2>1. hal \in Device /\ Fits(hal, "PREVIEW_STOPPED") /\ hal.m_state = "PREVIEW_STOPPED"
    BY <1>4 DEF Fitting, StoppedRelease, Stopped, Handling
  <2>2. {"ZSL", "PREVIEW", "CAPTURE", "RAW"} \subseteq ChType /\ "none" \in ChStatus
    BY DEF ChType, ChStatus
  <2>3. g \in Device /\ g.ch = [t \in ChType |-> "none"] /\ g.m_state = "PREVIEW_STOPPED"
    BY <2>1, <2>2 DEF Device
  <2>4. SameModes(hal, g) /\ g.longshot = hal.longshot /\ g.postproc = hal.postproc
    BY <2>1 DEF Device, SameModes
  <2>5. Returns(g)
    BY <1>4 DEF StoppedRelease, Returns
  <2> HIDE DEF g
  <2>6. g.ch["ZSL"] = "none" /\ g.ch["PREVIEW"] = "none" /\ g.ch["CAPTURE"] = "none"
        /\ g.ch["RAW"] = "none"
    BY <2>2, <2>3
  <2>7. ModesFit(g) /\ HintFits(g, "PREVIEW_STOPPED") /\ ReadyFits(g, "PREVIEW_STOPPED")
        /\ PostProcFits(g, "PREVIEW_STOPPED")
    BY <2>1, <2>4 DEF Fits, SameModes, ModesFit, HintFits, ReadyFits, PostProcFits, Recordings
  <2>8. PreviewFits(g, "PREVIEW_STOPPED") /\ PictureFits(g, "PREVIEW_STOPPED")
    BY <2>6 DEF PreviewFits, PictureFits, WithPreview
  <2>9. Fits(g, g.m_state)
    BY <2>3, <2>7, <2>8 DEF Fits
  <2> QED
    BY <2>3, <2>5, <2>9, ReturnsEnds
<1>5. CASE StoppedCommand
  BY <1>5 DEF StoppedCommand, Stopped, Handling, Fitting, Allowed
<1>6. CASE StoppedNoOp \/ StoppedInvalid \/ StoppedSnapshotDone \/ StoppedIgnore
  BY <1>6, UnchangedEnds DEF StoppedNoOp, StoppedInvalid, StoppedSnapshotDone, StoppedIgnore
<1> QED
  BY <1>1, <1>2, <1>3, <1>4, <1>5, <1>6 DEF PreviewStoppedState

LEMMA StartChannelThere ==
    ASSUME NEW h, NEW t, NEW o \in StartChannel(h, t), o.ok
    PROVE  h.ch[t] \notin {"none", "closed"}
BY DEF StartChannel, Error, Out

LEMMA ReadySetWindowEnds == ASSUME NoFailures, Fitting, ReadySetWindow PROVE Ends
<1> DEFINE h == SetWindow(hal)
<1>1. /\ hal \in Device /\ Fits(hal, "PREVIEW_READY") /\ hal.m_state = "PREVIEW_READY"
  BY DEF Fitting, ReadySetWindow, Ready, Handling
<1>2. Looks(hal, h) /\ h.m_state = hal.m_state
  BY <1>1, SetWindowLooks
<1>3. h \in Device /\ Fits(h, "PREVIEW_READY")
  BY <1>1, <1>2, LooksFits DEF Looks
<1>4. \/ ReplyGoto(StartOrUnprepare(h), "PREVIEWING", "PREVIEW_STOPPED")
      \/ Returns(h)
  BY DEF ReadySetWindow, Returns
<1>5. {"PREVIEWING", "PREVIEW_STOPPED"} \subseteq MState
  BY DEF MState
<1>6. {"ZSL", "PREVIEW", "CAPTURE", "RAW"} \subseteq ChType
  BY DEF ChType
<1> HIDE DEF h
<1> DEFINE S == StartOrUnprepare(h)
<1>7. ASSUME NEW o \in S
      PROVE  o.h \in Device /\ Fits(o.h, IF o.ok THEN "PREVIEWING" ELSE "PREVIEW_STOPPED")
  <2>1. /\ o.ok \in BOOLEAN /\ Alike(h, o.h)
        /\ o.ok => OnlyIn(h, o.h, {PreviewType(h)}) /\ o.h.ch[PreviewType(h)] = "active"
        /\ ~o.ok => /\ OnlyIn(h, o.h, {"ZSL", "PREVIEW", "VIDEO", "SNAPSHOT"})
                    /\ o.h.ch["ZSL"] = "none" /\ o.h.ch["PREVIEW"] = "none"
    BY <1>3, StartOrUnprepareIs
  <2>2. o.ok => h.ch[PreviewType(h)] \notin {"none", "closed"}
    <3>1. PICK x \in StartPreview(h) :
              IF x.ok THEN o = x ELSE o = Out(UnpreparePreview(x.h), FALSE)
      BY DEF StartOrUnprepare, OrElse
    <3>2. o.ok => x.ok
      BY <3>1 DEF Out
    <3> QED
      BY <3>2, StartChannelThere DEF StartPreview
  <2>3. /\ o.h \in Device /\ ModesFit(o.h) /\ o.h.postproc = "stopped"
        /\ o.h.ch["CAPTURE"] = h.ch["CAPTURE"] /\ o.h.ch["RAW"] = h.ch["RAW"]
    <3>1. PreviewType(h) \in {"ZSL", "PREVIEW"}
      BY DEF PreviewType
    <3>2. h.postproc = "stopped" /\ ModesFit(h)
      BY <1>3 DEF Fits, PostProcFits, Pictures
    <3>3. o.h.ch["CAPTURE"] = h.ch["CAPTURE"] /\ o.h.ch["RAW"] = h.ch["RAW"]
      BY <1>6, <2>1, <3>1 DEF OnlyIn
    <3> QED
      BY <2>1, <3>2, <3>3 DEF Alike, Same, SameModes, ModesFit
  <2> DEFINE r == IF o.ok THEN "PREVIEWING" ELSE "PREVIEW_STOPPED"
  <2>4. HintFits(o.h, r) /\ ReadyFits(o.h, r) /\ PostProcFits(o.h, r)
    BY <2>3 DEF HintFits, ReadyFits, PostProcFits, Recordings
  <2>5. Simple /\ ZslUnused => PictureFits(o.h, r)
    BY <1>3, <2>3 DEF Fits, PictureFits
  <2>6. ASSUME Simple PROVE PreviewFits(o.h, r)
    <3>1. CASE ~o.ok
      BY <2>1, <3>1 DEF PreviewFits, WithPreview
    <3>2. CASE o.ok /\ PreviewType(h) = "ZSL"
      <4>1. h.zsl /\ ~h.hint /\ h.ch["PREVIEW"] = "none"
        BY <1>3, <2>2, <2>6, <3>2 DEF Fits, PreviewFits
      <4>2. o.h.zsl /\ ~o.h.hint /\ o.h.ch["PREVIEW"] = "none" /\ o.h.ch["ZSL"] = "active"
        BY <1>6, <2>1, <3>2, <4>1 DEF Alike, SameModes, OnlyIn
      <4> QED
        BY <3>2, <4>2 DEF PreviewFits, ZslStates
    <3>3. CASE o.ok /\ PreviewType(h) = "PREVIEW"
      <4>1. h.ch["ZSL"] = "none"
        BY <1>3, <2>6, <3>3 DEF Fits, PreviewFits, PreviewType
      <4>2. o.h.ch["ZSL"] = "none" /\ o.h.ch["PREVIEW"] = "active"
        BY <1>6, <2>1, <3>3, <4>1 DEF OnlyIn
      <4> QED
        BY <3>3, <4>2 DEF PreviewFits
    <3> QED
      BY <3>1, <3>2, <3>3 DEF PreviewType
  <2> QED
    BY <2>3, <2>4, <2>5, <2>6 DEF Fits
<1>8. CASE ReplyGoto(S, "PREVIEWING", "PREVIEW_STOPPED")
  <2> HIDE DEF S
  <2> QED
    BY <1>5, <1>7, <1>8, ReplyGotoEnds
<1>9. CASE Returns(h)
  BY <1>2, <1>9, LooksEnds
<1> QED
  BY <1>4, <1>8, <1>9

LEMMA ReadyEnds == ASSUME NoFailures, Fitting, PreviewReadyState PROVE Ends
<1>1. CASE ReadySetWindow
  BY <1>1, ReadySetWindowEnds
<1>2. CASE ReadySetParams
  BY <1>2, ParamsAllowed, SetParamsEnds DEF ReadySetParams, Ready, Handling
<1>3. CASE ReadyStopPreview
  <2> DEFINE g == UnpreparePreview(hal)
  <2>1. hal \in Device /\ Fits(hal, "PREVIEW_READY") /\ hal.postproc = "stopped"
    BY <1>3 DEF Fitting, ReadyStopPreview, Ready, Handling, Fits, PostProcFits, Pictures
  <2>2. g \in Device /\ Fits(g, "PREVIEW_STOPPED")
    BY <2>1, StopFits DEF StopPreview
  <2>3. Returns(Goto(g, "PREVIEW_STOPPED")) /\ "PREVIEW_STOPPED" \in MState
    BY <1>3 DEF ReadyStopPreview, Returns, MState
  <2> HIDE DEF g
  <2> QED
    BY <2>2, <2>3, GotoEnds
<1>4. CASE ReadyCommand
  BY <1>4 DEF ReadyCommand, Ready, Handling, Fitting, Allowed
<1>5. CASE ReadyNoOp \/ ReadyInvalid \/ ReadySnapshotDone \/ ReadyIgnore
  BY <1>5, UnchangedEnds DEF ReadyNoOp, ReadyInvalid, ReadySnapshotDone, ReadyIgnore
<1> QED
  BY <1>1, <1>2, <1>3, <1>4, <1>5 DEF PreviewReadyState

\* The states r that may follow s without a change of the preview.
Follows(h, s, r) ==
    \/ r = s
    \/ s = "PREVIEWING" /\ (r = "PREPARE_SNAPSHOT" \/ (r = "PREVIEW_PIC_TAKING" /\ h.zsl))
    \/ s \in {"PREVIEW_PIC_TAKING", "PREPARE_SNAPSHOT"} /\ r = "PREVIEWING"
    \/ s = "RECORDING" /\ r \in {"PREVIEWING", "VIDEO_PIC_TAKING"}
    \/ s = "VIDEO_PIC_TAKING" /\ r \in {"PREVIEWING", "RECORDING"}

Moves(h, g, s, r) ==
    /\ Follows(h, s, r)
    /\ g \in Device /\ SameModes(h, g) /\ g.longshot = h.longshot /\ g.jpeg = h.jpeg
    /\ g.ch["ZSL"] = h.ch["ZSL"] /\ g.ch["PREVIEW"] = h.ch["PREVIEW"]
    /\ g.ch["CAPTURE"] = h.ch["CAPTURE"] /\ g.ch["RAW"] = h.ch["RAW"]
    /\ r \notin Pictures => g.postproc = "stopped"

LEMMA MovesFits ==
    ASSUME NEW h, NEW g, NEW s \in MState, NEW r, Fits(h, s), Moves(h, g, s, r)
    PROVE  Fits(g, r)
<1>1. ModesFit(g)
  BY DEF Fits, Moves, SameModes, ModesFit
<1>2. HintFits(g, r) /\ ReadyFits(g, r) /\ PostProcFits(g, r)
  BY DEF Fits, Moves, Follows, SameModes, HintFits, ReadyFits, PostProcFits, Recordings
<1>3. Simple => PreviewFits(g, r)
  BY DEF Fits, Moves, Follows, SameModes, PreviewFits, WithPreview, ZslStates
<1>4. Simple /\ ZslUnused => PictureFits(g, r)
  BY DEF Fits, Moves, Follows, PictureFits, ModesFit
<1> QED
  BY <1>1, <1>2, <1>3, <1>4 DEF Fits

LEMMA PicturedMoves ==
    ASSUME NEW h, NEW g, NEW s, NEW r, NEW v, NEW T \in SUBSET {"SNAPSHOT", "VIDEO"},
           Pictured(h, g, v, T), Follows(h, s, r), r \notin Pictures => v = "stopped"
    PROVE  Moves(h, g, s, r)
<1>1. {"ZSL", "PREVIEW", "CAPTURE", "RAW"} \subseteq ChType
  BY DEF ChType
<1> QED
  BY <1>1 DEF Pictured, Same, SameModes, OnlyIn, Moves

LEMMA WithoutHintFits ==
    ASSUME NoFailures, NEW h \in Device, Fits(h, "PREVIEWING"), NEW o \in WithoutHint(h)
    PROVE  o.h \in Device /\ Fits(o.h, "PREVIEWING")
<1>1. CASE ~h.hint
  BY <1>1 DEF WithoutHint, Done, Out
<1>2. CASE h.hint
  <2> DEFINE d == StopPreview(h)
  <2>1. PICK u \in UpdateRecordingHintValue(d, FALSE) : o \in PrepareAndStart(u.h)
    BY <1>2 DEF WithoutHint, Always
  <2>2. h.postproc = "stopped"
    BY DEF Fits, PostProcFits, Pictures
  <2>3. d \in Device /\ Fits(d, "PREVIEW_STOPPED")
    BY <2>2, StopFits
  <2> HIDE DEF d
  <2>4. Hinted(d, FALSE, u.h)
    BY <2>1, <2>3, HintIs
  <2> DEFINE g == u.h
  <2>5. Hinted(d, FALSE, g) /\ o \in PrepareAndStart(g)
    BY <2>1, <2>4
  <2> HIDE DEF g
  <2>6. g \in Device /\ Fits(g, "PREVIEW_STOPPED")
    BY <2>3, <2>5, HintedFits
  <2> QED
    BY <2>5, <2>6, StartFits
<1> QED
  BY <1>1, <1>2

LEMMA PictureInPreviewFits ==
    ASSUME NoFailures, NEW h \in Device, h.zsl, Fits(h, "PREVIEWING"),
           NEW x \in TakePicture(Goto(h, "PREVIEW_PIC_TAKING"))
    PROVE  /\ x.ok \in BOOLEAN /\ x.h \in Device
           /\ Fits(x.h, IF x.ok THEN "PREVIEW_PIC_TAKING" ELSE "PREVIEWING")
<1> DEFINE k == Goto(h, "PREVIEW_PIC_TAKING")
           s == IF x.ok THEN "PREVIEW_PIC_TAKING" ELSE "PREVIEWING"
           g == x.h
<1>1. {"PREVIEWING", "PREVIEW_PIC_TAKING"} \subseteq MState
  BY DEF MState
<1>2. Looks(h, k) /\ k \in Device
  BY <1>1, GotoLooks DEF Looks
<1>3. x \in TakePicture(k)
  OBVIOUS
<1> HIDE DEF k
<1>4. Fits(k, "PREVIEWING") /\ k.zsl
  BY <1>2, LooksFits DEF Looks, SameModes
<1>5. ~k.longshot /\ k.postproc = "stopped"
  BY <1>4 DEF Fits, ModesFit, PostProcFits, Pictures
<1>6. x \in TakeZSLPicture(k)
  BY <1>3, <1>4 DEF TakePicture
<1>7. x.ok \in BOOLEAN /\ Pictured(k, g, IF x.ok THEN "armed" ELSE "stopped", {})
  BY <1>2, <1>5, <1>6, TakeZSLPictureIs
<1>8. Follows(k, "PREVIEWING", s) /\ (s \notin Pictures => ~x.ok)
  BY <1>4 DEF Follows, Pictures
<1>9. s \notin Pictures => (IF x.ok THEN "armed" ELSE "stopped") = "stopped"
  BY <1>8
<1> DEFINE v == IF x.ok THEN "armed" ELSE "stopped"
<1>10. Pictured(k, g, v, {}) /\ (s \notin Pictures => v = "stopped")
       /\ {} \in SUBSET {"SNAPSHOT", "VIDEO"}
  BY <1>7, <1>9
<1> HIDE DEF v, s, g
<1>11. Moves(k, g, "PREVIEWING", s)
  BY <1>8, <1>10, PicturedMoves
<1>12. Fits(g, s)
  BY <1>1, <1>4, <1>11, MovesFits
<1> QED
  BY <1>7, <1>12 DEF g, s, Pictured, Same

LEMMA PictureAloneFits ==
    ASSUME NoFailures, NEW h \in Device, ~h.zsl, Fits(h, "PREVIEWING"),
           NEW x \in TakePicture(Goto(h, "PIC_TAKING"))
    PROVE  x.ok = TRUE /\ x.h \in Device /\ Fits(x.h, "PIC_TAKING")
<1> DEFINE k == Goto(h, "PIC_TAKING")
           g == x.h
           t == IF k.jpeg THEN "CAPTURE" ELSE "RAW"
<1>1. "PIC_TAKING" \in MState
  BY DEF MState
<1>2. Looks(h, k) /\ k \in Device
  BY <1>1, GotoLooks DEF Looks
<1>3. x \in TakePicture(k)
  OBVIOUS
<1> HIDE DEF k
<1>4. Fits(k, "PREVIEWING") /\ ~k.zsl /\ ~k.longshot
  BY <1>2, LooksFits DEF Looks, SameModes, Fits, ModesFit
<1>5. x.ok = TRUE /\ Captured(k, g, t)
  <2>1. CASE k.jpeg
    <3>1. x \in TakeCapturePicture(k)
      BY <1>3, <1>4, <2>1 DEF TakePicture
    <3> QED
      BY <1>2, <1>4, <2>1, <3>1, TakeCapturePictureIs
  <2>2. CASE ~k.jpeg
    <3>1. x \in TakeRawPicture(k)
      BY <1>3, <1>4, <2>2 DEF TakePicture
    <3> QED
      BY <1>2, <1>4, <2>2, <3>1, TakeRawPictureIs
  <2> QED
    BY <2>1, <2>2
<1>6. {"ZSL", "PREVIEW", "CAPTURE", "RAW"} \subseteq ChType
  BY DEF ChType
<1>7. /\ g \in Device /\ g.jpeg = k.jpeg /\ ModesFit(g)
      /\ g.ch["PREVIEW"] = "none" /\ g.ch["ZSL"] = k.ch["ZSL"]
      /\ k.jpeg => g.ch["RAW"] = k.ch["RAW"]
      /\ ~k.jpeg => g.ch["CAPTURE"] = k.ch["CAPTURE"]
  BY <1>4, <1>5, <1>6 DEF Captured, Same, SameModes, OnlyIn, Fits, ModesFit
<1> HIDE DEF g
<1>8. HintFits(g, "PIC_TAKING") /\ ReadyFits(g, "PIC_TAKING") /\ PostProcFits(g, "PIC_TAKING")
  BY DEF HintFits, ReadyFits, PostProcFits, Recordings, Pictures
<1>9. Simple => PreviewFits(g, "PIC_TAKING")
  BY <1>4, <1>7 DEF Fits, PreviewFits, WithPreview
<1>10. Simple /\ ZslUnused => PictureFits(g, "PIC_TAKING")
  BY <1>4, <1>7 DEF Fits, PictureFits
<1> QED
  BY <1>5, <1>7, <1>8, <1>9, <1>10 DEF Fits, g

LEMMA TakeInPreviewFits ==
    ASSUME NoFailures, NEW h \in Device, Fits(h, "PREVIEWING"), NEW o \in TakeInPreview(h)
    PROVE  o.h \in Device /\ Fits(o.h, o.h.m_state)
<1>1. {"PREVIEWING", "PREVIEW_PIC_TAKING", "PIC_TAKING", "PREVIEW_STOPPED"} \subseteq MState
  BY DEF MState
<1>2. ~h.longshot
  BY DEF Fits, ModesFit
<1>3. PICK g \in Device, s \in MState : o.h = Goto(g, s) /\ Fits(g, s)
  <2>1. CASE h.zsl
    <3>1. PICK x \in TakePicture(Goto(h, "PREVIEW_PIC_TAKING")) :
              o = Out(Goto(x.h, IF x.ok THEN "PREVIEW_PIC_TAKING" ELSE "PREVIEWING"), x.ok)
      BY <2>1 DEF TakeInPreview
    <3> DEFINE s == IF x.ok THEN "PREVIEW_PIC_TAKING" ELSE "PREVIEWING"
    <3>2. x.h \in Device /\ Fits(x.h, s) /\ s \in MState
      BY <1>1, <2>1, PictureInPreviewFits
    <3>3. o.h = Goto(x.h, s)
      BY <3>1 DEF Out
    <3> QED
      BY <3>2, <3>3
  <2>2. CASE ~h.zsl
    <3>1. PICK x \in TakePicture(Goto(h, "PIC_TAKING")) :
              o = Out(Goto(x.h, IF x.ok THEN "PIC_TAKING" ELSE "PREVIEW_STOPPED"), x.ok)
      BY <1>2, <2>2 DEF TakeInPreview
    <3>2. x.ok = TRUE /\ x.h \in Device /\ Fits(x.h, "PIC_TAKING")
      BY <2>2, PictureAloneFits
    <3>3. o.h = Goto(x.h, "PIC_TAKING")
      BY <3>1, <3>2 DEF Out
    <3> QED
      BY <1>1, <3>2, <3>3
  <2> QED
    BY <2>1, <2>2
<1> QED
  BY <1>3, GotoFits

LEMMA PreviewingTakeEnds == ASSUME NoFailures, Fitting, PreviewingTakePicture PROVE Ends
<1>1. hal \in Device /\ Fits(hal, "PREVIEWING")
  BY DEF Fitting, PreviewingTakePicture, Previewing, Handling
<1> DEFINE n == NewPic(hal)
<1>2. Looks(hal, n) /\ n \in Device
  BY <1>1, NewPicLooks DEF Looks
<1>3. PICK w \in WithoutHint(n) : \E o \in TakeInPreview(w.h) : Reply(o.h, o.ok)
  BY DEF PreviewingTakePicture, Always
<1>9. PICK o \in TakeInPreview(w.h) : Reply(o.h, o.ok)
  BY <1>3
<1> HIDE DEF n
<1>4. Fits(n, "PREVIEWING")
  BY <1>1, <1>2, LooksFits
<1>5. w.h \in Device /\ Fits(w.h, "PREVIEWING")
  BY <1>2, <1>3, <1>4, WithoutHintFits
<1> DEFINE g == w.h
           f == o.h
<1>6. g \in Device /\ Fits(g, "PREVIEWING") /\ o \in TakeInPreview(g)
  BY <1>5, <1>9
<1> HIDE DEF g
<1>7. f \in Device /\ Fits(f, f.m_state)
  BY <1>6, TakeInPreviewFits
<1>8. Returns(f)
  BY <1>9 DEF Returns
<1> HIDE DEF f
<1> QED
  BY <1>7, <1>8, ReturnsEnds

LEMMA PreviewingEnds == ASSUME NoFailures, Fitting, PreviewingState PROVE Ends
<1>1. CASE PreviewingSetParams
  BY <1>1, ParamsAllowed, SetParamsEnds DEF PreviewingSetParams, Previewing, Handling
<1>2. CASE PreviewingStopPreview
  <2> DEFINE g == StopPreview(hal)
  <2>1. hal \in Device /\ Fits(hal, "PREVIEWING") /\ hal.postproc = "stopped"
    BY <1>2 DEF Fitting, PreviewingStopPreview, Previewing, Handling, Fits, PostProcFits, Pictures
  <2>2. g \in Device /\ Fits(g, "PREVIEW_STOPPED")
    BY <2>1, StopFits
  <2>3. Returns(Goto(g, "PREVIEW_STOPPED")) /\ "PREVIEW_STOPPED" \in MState
    BY <1>2 DEF PreviewingStopPreview, Returns, MState
  <2> HIDE DEF g
  <2> QED
    BY <2>2, <2>3, GotoEnds
<1>3. CASE PreviewingStartRecording
  <2> DEFINE S == StartRecording(hal)
  <2>1. hal \in Device /\ Fits(hal, "PREVIEWING")
    BY <1>3 DEF Fitting, PreviewingStartRecording, Previewing, Handling
  <2>2. \A o \in S : o.h \in Device /\ Fits(o.h, IF o.ok THEN "RECORDING" ELSE "PREVIEWING")
    BY <2>1, StartRecordingFits DEF StartedRecording
  <2>3. ReplyGoto(S, "RECORDING", "PREVIEWING") /\ {"RECORDING", "PREVIEWING"} \subseteq MState
    BY <1>3 DEF PreviewingStartRecording, MState
  <2> HIDE DEF S
  <2> QED
    BY <2>2, <2>3, ReplyGotoEnds
<1>4. CASE PreviewingPrepareSnapshot
  <2>1. hal \in Device /\ Fits(hal, "PREVIEWING")
    BY <1>4 DEF Fitting, PreviewingPrepareSnapshot, Previewing, Handling
  <2>2. CASE Refuse(hal)
    BY <2>2, UnchangedEnds
  <2>3. CASE Ignore([Goto(hal, "PREPARE_SNAPSHOT") EXCEPT !.prep = TRUE])
    <3> DEFINE g == [Goto(hal, "PREPARE_SNAPSHOT") EXCEPT !.prep = TRUE]
    <3>1. {"PREVIEWING", "PREPARE_SNAPSHOT"} \subseteq MState
      BY DEF MState
    <3>2. Looks(hal, g) /\ g \in Device /\ g.m_state = "PREPARE_SNAPSHOT"
      BY <2>1, <3>1 DEF Goto, Device, Looks, SameModes
    <3>3. hal.postproc = "stopped" /\ Returns(g)
      BY <2>1, <2>3 DEF Fits, PostProcFits, Pictures, Returns
    <3> HIDE DEF g
    <3>4. Moves(hal, g, "PREVIEWING", "PREPARE_SNAPSHOT")
      BY <3>2, <3>3 DEF Looks, Moves, Follows
    <3>5. Fits(g, "PREPARE_SNAPSHOT")
      BY <2>1, <3>1, <3>4, MovesFits
    <3> QED
      BY <3>2, <3>3, <3>5, ReturnsEnds
  <2> QED
    BY <1>4, <2>2, <2>3 DEF PreviewingPrepareSnapshot
<1>5. CASE PreviewingTakePicture
  BY <1>5, PreviewingTakeEnds
<1>6. CASE PreviewingCommand
  BY <1>6 DEF PreviewingCommand, Previewing, Handling, Fitting, Allowed
<1>7. CASE PreviewingNoOp \/ PreviewingInvalid \/ PreviewingSnapshotDone \/ PreviewingIgnore
  BY <1>7, UnchangedEnds DEF PreviewingNoOp, PreviewingInvalid, PreviewingSnapshotDone,
                             PreviewingIgnore
<1> QED
  BY <1>1, <1>2, <1>3, <1>4, <1>5, <1>6, <1>7 DEF PreviewingState

LEMMA PreparingEnds == ASSUME NoFailures, Fitting, PrepareSnapshotState PROVE Ends
<1>1. CASE PreparingDone
  <2> DEFINE g == Goto(hal, "PREVIEWING")
  <2>1. hal \in Device /\ Fits(hal, "PREPARE_SNAPSHOT")
    BY <1>1 DEF Fitting, PreparingDone, Preparing, Handling
  <2>2. {"PREVIEWING", "PREPARE_SNAPSHOT"} \subseteq MState
    BY DEF MState
  <2>3. Looks(hal, g) /\ g.m_state = "PREVIEWING" /\ g \in Device
    BY <2>1, <2>2, GotoLooks DEF Looks
  <2>4. hal.postproc = "stopped" /\ hal' = [g EXCEPT !.posted = FALSE]
    BY <1>1, <2>1 DEF Fits, PostProcFits, Pictures, PreparingDone, Handled
  <2> HIDE DEF g
  <2>5. Moves(hal, g, "PREPARE_SNAPSHOT", "PREVIEWING")
    BY <2>3, <2>4 DEF Looks, Moves, Follows
  <2>6. Fits(g, g.m_state)
    BY <2>1, <2>2, <2>3, <2>5, MovesFits
  <2> QED
    BY <2>3, <2>4, <2>6 DEF Ends
<1>2. CASE PreparingInvalid \/ PreparingSnapshotDone \/ PreparingIgnore
  BY <1>2, UnchangedEnds DEF PreparingInvalid, PreparingSnapshotDone, PreparingIgnore
<1> QED
  BY <1>1, <1>2 DEF PrepareSnapshotState

-----------------------------------------------------------------------------

LEMMA CancelPictureFits ==
    ASSUME NEW h \in Device, Fits(h, "PIC_TAKING"), NEW r \in {"PREVIEW_STOPPED", AfterPicture}
    PROVE  CancelPicture(h) \in Device /\ Fits(CancelPicture(h), r)
<1> DEFINE g == CancelPicture(h)
<1>1. /\ Pictured(h, g, "stopped", {"CAPTURE", "RAW"})
      /\ ~h.zsl /\ h.jpeg => OnlyIn(h, g, {"CAPTURE"}) /\ g.ch["CAPTURE"] = "none"
      /\ ~h.zsl /\ ~h.jpeg => OnlyIn(h, g, {"RAW"}) /\ g.ch["RAW"] = "none"
  BY CancelPictureIs
<1> HIDE DEF g
<1>2. {"ZSL", "PREVIEW", "CAPTURE", "RAW"} \subseteq ChType
  BY DEF ChType
<1>3. r \in {"PREVIEW_STOPPED", "PREVIEWING"} /\ (Simple => r = "PREVIEW_STOPPED")
  BY DEF AfterPicture, Simple
<1>4. g \in Device /\ ModesFit(g) /\ g.postproc = "stopped"
  BY <1>1 DEF Pictured, Same, SameModes, Fits, ModesFit
<1>5. HintFits(g, r) /\ ReadyFits(g, r) /\ PostProcFits(g, r)
  BY <1>3, <1>4 DEF HintFits, ReadyFits, PostProcFits, Recordings
<1>6. Simple => PreviewFits(g, r)
  <2>1. g.ch["ZSL"] = h.ch["ZSL"] /\ g.ch["PREVIEW"] = h.ch["PREVIEW"]
    BY <1>1, <1>2 DEF Pictured, OnlyIn
  <2> QED
    BY <1>3, <2>1 DEF Fits, PreviewFits, WithPreview, ZslStates
<1>7. Simple /\ ZslUnused => PictureFits(g, r)
  <2> SUFFICES ASSUME Simple, ZslUnused PROVE PictureFits(g, r)
    OBVIOUS
  <2>1. ~h.zsl /\ PictureFits(h, "PIC_TAKING")
    BY DEF Fits, ModesFit
  <2>2. g.ch["CAPTURE"] = "none" /\ g.ch["RAW"] = "none"
    <3>1. CASE h.jpeg
      BY <1>1, <1>2, <2>1, <3>1 DEF PictureFits, OnlyIn
    <3>2. CASE ~h.jpeg
      BY <1>1, <1>2, <2>1, <3>2 DEF PictureFits, OnlyIn
    <3> QED
      BY <3>1, <3>2
  <2> QED
    BY <1>3, <2>2 DEF PictureFits
<1> QED
  BY <1>4, <1>5, <1>6, <1>7 DEF Fits, g

\* STOP_CAPTURE_CHANNEL; the preview beside the picture is restarted only
\* where it restarts after pictures.
LEMMA StopCaptureEnds == ASSUME NoFailures, Fitting, PicTakingStopCapture PROVE Ends
<1> DEFINE h == StopCaptureChannel(hal, RestartPreview)
<1>1. hal \in Device /\ hal.m_state = "PIC_TAKING" /\ Fits(hal, "PIC_TAKING")
  BY DEF Fitting, PicTakingStopCapture, PicTaking, Handling
<1>2. /\ Alike(hal, h) /\ OnlyIn(hal, h, {"CAPTURE"}) /\ h \in Device
      /\ hal.ch["CAPTURE"] = "none" => h = hal
  BY <1>1, StopCaptureChannelIs DEF Alike, Same
<1>3. PICK o \in IF RestartPreview THEN Then(PreparePreview(h), StartPreview) ELSE Done(h) :
          Ignore(o.h)
  BY DEF PicTakingStopCapture
<1> HIDE DEF h
<1>4. {"ZSL", "PREVIEW", "CAPTURE", "RAW"} \subseteq ChType
  BY DEF ChType
<1>5. ~h.longshot
  BY <1>1, <1>2 DEF Fits, ModesFit, Alike, Same
<1>6. Alike(hal, o.h)
  <2>1. CASE RestartPreview
    <3>1. o \in Then(PreparePreview(h), StartPreview)
      BY <1>3, <2>1
    <3>2. \A p \in PreparePreview(h) : p.ok = TRUE /\ Previews(h, p.h, "idle")
      BY <1>2, <1>5, PreparePreviewIs
    <3>3. PICK p \in PreparePreview(h) : o \in StartPreview(p.h)
      BY <3>1, <3>2 DEF Then
    <3> DEFINE f == p.h
    <3>4. Previews(h, f, "idle") /\ f \in Device /\ o \in StartPreview(f)
      BY <3>2, <3>3 DEF Previews, Alike, Same
    <3> HIDE DEF f
    <3>5. Previews(h, o.h, "active")
      BY <1>2, <3>4, StartPreviewIs
    <3> QED
      BY <1>2, <3>5, AlikeTrans DEF Previews
  <2>2. CASE ~RestartPreview
    BY <1>2, <1>3, <2>2 DEF Done, Out
  <2> QED
    BY <2>1, <2>2
<1>7. ~RestartPreview => o.h = h
  BY <1>3 DEF Done, Out
<1> DEFINE g == o.h
<1>8. Returns(g) /\ Alike(hal, g) /\ (~RestartPreview => g = h)
  BY <1>3, <1>6, <1>7 DEF Returns
<1> HIDE DEF g
<1>9. g \in Device /\ g.m_state = "PIC_TAKING" /\ ModesFit(g)
  BY <1>1, <1>8 DEF Alike, Same, SameModes, Fits, ModesFit
<1>10. HintFits(g, "PIC_TAKING") /\ ReadyFits(g, "PIC_TAKING") /\ PostProcFits(g, "PIC_TAKING")
  BY DEF HintFits, ReadyFits, PostProcFits, Recordings, Pictures
<1>11. ASSUME Simple PROVE PreviewFits(g, "PIC_TAKING")
  <2>1. g.ch["ZSL"] = hal.ch["ZSL"] /\ g.ch["PREVIEW"] = hal.ch["PREVIEW"]
    BY <1>2, <1>4, <1>8, <1>11 DEF Simple, OnlyIn
  <2> QED
    BY <1>1, <1>11, <2>1 DEF Fits, PreviewFits, WithPreview, ZslStates
<1>12. ASSUME Simple, ZslUnused PROVE PictureFits(g, "PIC_TAKING")
  <2>1. g.ch["RAW"] = hal.ch["RAW"] /\ g.jpeg = hal.jpeg
        /\ (hal.ch["CAPTURE"] = "none" => g.ch["CAPTURE"] = "none")
    BY <1>2, <1>4, <1>8, <1>12 DEF Simple, OnlyIn, Alike, Same
  <2> QED
    BY <1>1, <1>12, <2>1 DEF Fits, PictureFits
<1>13. Fits(g, g.m_state)
  BY <1>9, <1>10, <1>11, <1>12 DEF Fits
<1> QED
  BY <1>8, <1>9, <1>13, ReturnsEnds

LEMMA PicTakingEnds == ASSUME NoFailures, Fitting, PicTakingState PROVE Ends
<1>1. CASE PicTakingSetParams
  BY <1>1, ParamsAllowed, UpdateAndCommitEnds DEF PicTakingSetParams, PicTaking, Handling
<1>2. CASE PicTakingCancel \/ PicTakingSnapshotDone
  <2> DEFINE g == CancelPicture(hal)
  <2>1. hal \in Device /\ Fits(hal, "PIC_TAKING")
    BY <1>2 DEF Fitting, PicTakingCancel, PicTakingSnapshotDone, PicTaking, Handling
  <2>2. PICK r \in {"PREVIEW_STOPPED", AfterPicture} : Returns(Goto(g, r))
    BY <1>2 DEF PicTakingCancel, PicTakingSnapshotDone, Returns
  <2>3. g \in Device /\ Fits(g, r)
    BY <2>1, CancelPictureFits
  <2>4. r \in MState
    BY DEF AfterPicture, MState
  <2> HIDE DEF g
  <2> QED
    BY <2>2, <2>3, <2>4, GotoEnds
<1>3. CASE PicTakingLongshotOn \/ PicTakingLongshotOff
  BY <1>3 DEF PicTakingLongshotOn, PicTakingLongshotOff, PicTaking, Handling, Fitting, Allowed,
              CommandEvts
<1>4. CASE PicTakingTakePicture
  <2>1. ~hal.longshot
    BY DEF Fitting, Fits, ModesFit
  <2> QED
    BY <1>4, <2>1, UnchangedEnds DEF PicTakingTakePicture
<1>5. CASE PicTakingStopCapture
  BY <1>5, StopCaptureEnds
<1>6. CASE PicTakingNoOp \/ PicTakingInvalid
  BY <1>6, UnchangedEnds DEF PicTakingNoOp, PicTakingInvalid
<1> QED
  BY <1>1, <1>2, <1>3, <1>4, <1>5, <1>6 DEF PicTakingState

LEMMA StopRecordingMoves ==
    ASSUME NEW h \in Device, NEW s, NEW r, Follows(h, s, r), h.postproc = "stopped"
    PROVE  StopRecording(h) \in Device /\ Moves(h, StopRecording(h), s, r)
           /\ StopRecording(h).postproc = "stopped"
<1> DEFINE g == StopRecording(h)
<1>1. "VIDEO" \in ChType
  BY DEF ChType
<1>2. Alike(h, g) /\ OnlyIn(h, g, {"VIDEO"})
  BY <1>1, StopChannelIs DEF StopRecording
<1> HIDE DEF g
<1>3. Pictured(h, g, "stopped", {"VIDEO"})
  BY <1>2 DEF Alike, Pictured
<1>4. Moves(h, g, s, r)
  BY <1>3, PicturedMoves
<1> QED
  BY <1>3, <1>4 DEF Pictured, Same, g

\* Stopping the recording of a device that records, with or without the preview.
LEMMA StopRecordingFits ==
    ASSUME NEW h \in Device, Fits(h, "RECORDING")
    PROVE  LET g == StopRecording(h)
           IN  /\ g \in Device /\ Fits(g, "PREVIEWING")
               /\ StopPreview(g) \in Device /\ Fits(StopPreview(g), "PREVIEW_STOPPED")
<1> DEFINE g == StopRecording(h)
<1>1. h.postproc = "stopped" /\ Follows(h, "RECORDING", "PREVIEWING") /\ "RECORDING" \in MState
  BY DEF Fits, PostProcFits, Pictures, Follows, MState
<1>2. g \in Device /\ Moves(h, g, "RECORDING", "PREVIEWING") /\ g.postproc = "stopped"
  BY <1>1, StopRecordingMoves
<1> HIDE DEF g
<1>3. Fits(g, "PREVIEWING")
  BY <1>1, <1>2, MovesFits
<1> QED
  BY <1>2, <1>3, StopFits DEF g

LEMMA RecordingEnds == ASSUME NoFailures, Fitting, RecordingState PROVE Ends
<1>1. CASE RecordingSetParams
  BY <1>1, ParamsAllowed, SetParamsNoRestartEnds
     DEF RecordingSetParams, Recording, Handling, Recordings
<1>2. CASE RecordingTakePicture
  <2> DEFINE n == NewPic(hal)
             g == [Goto(n, "VIDEO_PIC_TAKING") EXCEPT !.live = "created"]
  <2>1. hal \in Device /\ hal.m_state = "RECORDING" /\ Fits(hal, "RECORDING")
    BY <1>2 DEF Fitting, RecordingTakePicture, Recording, Handling
  <2>2. Looks(hal, n) /\ n \in Device /\ n.m_state = hal.m_state
    BY <2>1, NewPicLooks DEF Looks
  <2>3. ReplyOk(g) \/ Refuse(n)
    BY <1>2 DEF RecordingTakePicture
  <2> HIDE DEF n
  <2>4. {"RECORDING", "VIDEO_PIC_TAKING"} \subseteq MState /\ "created" \in Live
    BY DEF MState, Live
  <2>5. Looks(n, g) /\ g.m_state = "VIDEO_PIC_TAKING"
    BY <2>2, <2>4 DEF Goto, Device, Looks, SameModes
  <2>6. CASE Refuse(n)
    BY <2>2, <2>6, LooksEnds DEF Returns
  <2>7. CASE ReplyOk(g)
    <3>1. Returns(g)
      BY <2>7 DEF Returns
    <3> HIDE DEF g
    <3>2. Fits(n, "RECORDING")
      BY <2>1, <2>2, LooksFits
    <3>3. Moves(n, g, "RECORDING", "VIDEO_PIC_TAKING")
      BY <2>5 DEF Looks, Moves, Follows, Pictures
    <3>4. Fits(g, "VIDEO_PIC_TAKING")
      BY <2>4, <3>2, <3>3, MovesFits
    <3> QED
      BY <2>5, <3>1, <3>4, ReturnsEnds DEF Looks
  <2> QED
    BY <2>3, <2>6, <2>7
<1>3. CASE RecordingStopRecording \/ RecordingStopPreview
  <2> DEFINE g == StopRecording(hal)
             d == StopPreview(g)
  <2>1. hal \in Device /\ Fits(hal, "RECORDING")
    BY <1>3 DEF Fitting, RecordingStopRecording, RecordingStopPreview, Recording, Handling
  <2>2. /\ g \in Device /\ Fits(g, "PREVIEWING")
        /\ d \in Device /\ Fits(d, "PREVIEW_STOPPED")
    BY <2>1, StopRecordingFits
  <2>3. {"PREVIEWING", "PREVIEW_STOPPED"} \subseteq MState
    BY DEF MState
  <2>4. Returns(Goto(g, "PREVIEWING")) \/ Returns(Goto(d, "PREVIEW_STOPPED"))
    BY <1>3 DEF RecordingStopRecording, RecordingStopPreview, Returns
  <2> HIDE DEF g, d
  <2> QED
    BY <2>2, <2>3, <2>4, GotoEnds
<1>4. CASE RecordingCommand
  BY <1>4 DEF RecordingCommand, Recording, Handling, Fitting, Allowed
<1>5. CASE RecordingNoOp \/ RecordingInvalid \/ RecordingSnapshotDone \/ RecordingIgnore
  BY <1>5, UnchangedEnds DEF RecordingNoOp, RecordingInvalid, RecordingSnapshotDone,
                             RecordingIgnore
<1> QED
  BY <1>1, <1>2, <1>3, <1>4, <1>5 DEF RecordingState

LEMMA CancelLiveFits ==
    ASSUME NEW h \in Device, NEW s \in MState, NEW r, Fits(h, s), Follows(h, s, r)
    PROVE  CancelLiveSnapshot(h) \in Device /\ Fits(CancelLiveSnapshot(h), r)
<1> DEFINE g == CancelLiveSnapshot(h)
<1>1. Pictured(h, g, "stopped", {"SNAPSHOT"})
  BY CancelLiveSnapshotIs
<1> HIDE DEF g
<1>2. Moves(h, g, s, r)
  BY <1>1, PicturedMoves
<1> QED
  BY <1>1, <1>2, MovesFits DEF Pictured, Same, g

LEMMA VideoPicEnds == ASSUME NoFailures, Fitting, VideoPicTakingState PROVE Ends
<1> DEFINE c == CancelLiveSnapshot(hal)
           g == StopRecording(c)
           d == StopPreview(g)
<1>1. CASE VideoPicSetParams
  BY <1>1, ParamsAllowed, SetParamsNoRestartEnds
     DEF VideoPicSetParams, VideoPic, Handling, Recordings
<1>2. CASE VideoPicCancel \/ VideoPicSnapshotDone \/ VideoPicStopRecording \/ VideoPicStopPreview
  <2>1. hal \in Device /\ Fits(hal, "VIDEO_PIC_TAKING")
    BY <1>2 DEF Fitting, VideoPicCancel, VideoPicSnapshotDone, VideoPicStopRecording,
                VideoPicStopPreview, VideoPic, Handling
  <2>2. {"RECORDING", "VIDEO_PIC_TAKING", "PREVIEWING", "PREVIEW_STOPPED"} \subseteq MState
    BY DEF MState
  <2>3. c \in Device /\ Fits(c, "RECORDING")
    BY <2>1, <2>2, CancelLiveFits DEF Follows
  <2>4. \/ Returns(Goto(c, "RECORDING"))
        \/ Returns(Goto(g, "PREVIEWING"))
        \/ Returns(Goto(d, "PREVIEW_STOPPED"))
    BY <1>2 DEF VideoPicCancel, VideoPicSnapshotDone, VideoPicStopRecording,
                VideoPicStopPreview, Returns
  <2> HIDE DEF c
  <2>5. /\ g \in Device /\ Fits(g, "PREVIEWING")
        /\ d \in Device /\ Fits(d, "PREVIEW_STOPPED")
    BY <2>3, StopRecordingFits
  <2> HIDE DEF g, d
  <2> QED
    BY <2>2, <2>3, <2>4, <2>5, GotoEnds
<1>3. CASE VideoPicCommand
  BY <1>3 DEF VideoPicCommand, VideoPic, Handling, Fitting, Allowed
<1>4. CASE VideoPicNoOp \/ VideoPicInvalid \/ VideoPicIgnore
  BY <1>4, UnchangedEnds DEF VideoPicNoOp, VideoPicInvalid, VideoPicIgnore
<1> QED
  BY <1>1, <1>2, <1>3, <1>4 DEF VideoPicTakingState

LEMMA CancelInPreviewFits ==
    ASSUME NEW h \in Device, Fits(h, "PREVIEW_PIC_TAKING")
    PROVE  CancelInPreview(h) \in Device /\ Fits(CancelInPreview(h), "PREVIEWING")
           /\ CancelInPreview(h).postproc = "stopped"
<1> DEFINE g == CancelInPreview(h)
<1>1. ~h.longshot /\ "PREVIEW_PIC_TAKING" \in MState
      /\ Follows(h, "PREVIEW_PIC_TAKING", "PREVIEWING")
  BY DEF Fits, ModesFit, MState, Follows
<1>2. Pictured(h, g, "stopped", {"SNAPSHOT"})
  <2>1. CASE h.zsl
    <3>1. g = CancelPicture(h)
      BY <2>1 DEF CancelInPreview
    <3> HIDE DEF g
    <3>2. Pictured(h, g, "stopped", {"CAPTURE", "RAW"}) /\ OnlyIn(h, g, {})
      BY <2>1, <3>1, CancelPictureIs
    <3> QED
      BY <3>2 DEF Pictured, OnlyIn
  <2>2. CASE ~h.zsl
    <3>1. g = CancelLiveSnapshot(h)
      BY <1>1, <2>2 DEF CancelInPreview
    <3> QED
      BY <3>1, CancelLiveSnapshotIs
  <2> QED
    BY <2>1, <2>2
<1> HIDE DEF g
<1>3. Moves(h, g, "PREVIEW_PIC_TAKING", "PREVIEWING")
  BY <1>1, <1>2, PicturedMoves
<1>4. Fits(g, "PREVIEWING")
  BY <1>1, <1>3, MovesFits
<1> QED
  BY <1>2, <1>4 DEF Pictured, Same, g

LEMMA PreviewPicEnds == ASSUME NoFailures, Fitting, PreviewPicTakingState PROVE Ends
<1>1. CASE PreviewPicSetParams
  BY <1>1, ParamsAllowed, SetParamsEnds DEF PreviewPicSetParams, PreviewPic, Handling
<1>2. CASE PreviewPicCancel \/ PreviewPicSnapshotDone \/ PreviewPicStopPreview
  <2> DEFINE g == CancelInPreview(hal)
             d == StopPreview(g)
  <2>1. hal \in Device /\ Fits(hal, "PREVIEW_PIC_TAKING")
    BY <1>2 DEF Fitting, PreviewPicCancel, PreviewPicSnapshotDone, PreviewPicStopPreview,
                PreviewPic, Handling
  <2>2. {"PREVIEWING", "PREVIEW_STOPPED"} \subseteq MState
    BY DEF MState
  <2>3. g \in Device /\ Fits(g, "PREVIEWING") /\ g.postproc = "stopped"
    BY <2>1, CancelInPreviewFits
  <2>4. Returns(Goto(g, "PREVIEWING")) \/ Returns(Goto(d, "PREVIEW_STOPPED"))
    BY <1>2 DEF PreviewPicCancel, PreviewPicSnapshotDone, PreviewPicStopPreview, StopPreview,
                Returns
  <2> HIDE DEF g
  <2>5. d \in Device /\ Fits(d, "PREVIEW_STOPPED")
    BY <2>3, StopFits
  <2> HIDE DEF d
  <2> QED
    BY <2>2, <2>3, <2>4, <2>5, GotoEnds
<1>3. CASE PreviewPicStartRecording
  <2> DEFINE S == StartRecording(hal)
  <2>1. hal \in Device /\ Fits(hal, "PREVIEW_PIC_TAKING")
    BY <1>3 DEF Fitting, PreviewPicStartRecording, PreviewPic, Handling
  <2>2. \A o \in S :
            o.h \in Device /\ Fits(o.h, IF o.ok THEN "VIDEO_PIC_TAKING" ELSE "PREVIEW_PIC_TAKING")
    BY <2>1, StartRecordingFits DEF StartedRecording
  <2>3. /\ Refuse(hal) \/ ReplyGoto(S, "VIDEO_PIC_TAKING", "PREVIEW_PIC_TAKING")
        /\ {"VIDEO_PIC_TAKING", "PREVIEW_PIC_TAKING"} \subseteq MState
    BY <1>3 DEF PreviewPicStartRecording, MState
  <2> HIDE DEF S
  <2> QED
    BY <2>2, <2>3, ReplyGotoEnds, UnchangedEnds
<1>4. CASE PreviewPicLongshotOn \/ PreviewPicLongshotOff
  BY <1>4 DEF PreviewPicLongshotOn, PreviewPicLongshotOff, PreviewPic, Handling, Fitting,
              Allowed, CommandEvts
<1>5. CASE PreviewPicTakePicture
  <2>1. ~hal.longshot
    BY DEF Fitting, Fits, ModesFit
  <2> QED
    BY <1>5, <2>1, UnchangedEnds DEF PreviewPicTakePicture
<1>6. CASE PreviewPicNoOp \/ PreviewPicInvalid \/ PreviewPicIgnore
  BY <1>6, UnchangedEnds DEF PreviewPicNoOp, PreviewPicInvalid, PreviewPicIgnore
<1> QED
  BY <1>1, <1>2, <1>3, <1>4, <1>5, <1>6 DEF PreviewPicTakingState

-----------------------------------------------------------------------------
(* The other threads.                                                      *)

\* A thread that changes the postprocessor while a picture is taken.
LEMMA PostProcFitsStill ==
    ASSUME hal \in Device, Fits(hal, hal.m_state), hal.m_state \in Pictures,
           NEW v \in PostProc, hal' = [hal EXCEPT !.postproc = v]
    PROVE  Fits(hal', hal'.m_state)
<1> DEFINE h == hal
           g == [h EXCEPT !.postproc = v]
           s == hal.m_state
<1>1. /\ Pictured(h, g, v, {}) /\ Fits(h, s) /\ s \in MState /\ s \in Pictures
      /\ hal' = g /\ g.m_state = s
  BY DEF Device, Pictured, Same, SameModes, OnlyIn
<1> HIDE DEF h, g, s
<1>2. {} \in SUBSET {"SNAPSHOT", "VIDEO"} /\ Follows(h, s, s)
  BY DEF Follows
<1>3. Moves(h, g, s, s)
  BY <1>1, <1>2, PicturedMoves
<1>4. Fits(g, s)
  BY <1>1, <1>3, MovesFits
<1> QED
  BY <1>1, <1>4

LEMMA SnapshotDoneFits ==
    ASSUME hal \in Device, Fits(hal, hal.m_state), SnapshotDone
    PROVE  Fits(hal', hal'.m_state)
BY PostProcFitsStill DEF SnapshotDone, CaptureRunning, Pictures, PostProc

\* What is sent to be reprocessed belongs to a picture.
LEMMA StopCaptureFits ==
    ASSUME hal \in Device, Fits(hal, hal.m_state), StopCapture
    PROVE  Fits(hal', hal'.m_state)
<1>1. hal.m_state \in Pictures
  BY DEF StopCapture, Fits, PostProcFits
<1> QED
  BY <1>1, PostProcFitsStill DEF StopCapture, PostProc

LEMMA PrepSnapshotDoneFits ==
    ASSUME hal \in Device, Fits(hal, hal.m_state), PrepSnapshotDone
    PROVE  Fits(hal', hal'.m_state)
<1> DEFINE g == [hal EXCEPT !.prep = FALSE]
           s == hal.m_state
<1>1. Looks(hal, g) /\ g.m_state = s /\ hal' = g /\ Fits(hal, s)
  BY DEF PrepSnapshotDone, Device, Looks, SameModes
<1> HIDE DEF g, s
<1>2. Fits(g, s)
  BY <1>1, LooksFits
<1> QED
  BY <1>1, <1>2

LEMMA LiveSnapshotPictured ==
    ASSUME NoFailures, NEW h \in Device, ~h.longshot, NEW o \in LiveSnapshot(h)
    PROVE  \E v : Pictured(h, o.h, v, {"SNAPSHOT"})
<1> DEFINE x == [h EXCEPT !.live = "exited"]
<1>1. Pictured(h, x, h.postproc, {})
  BY DEF Device, Live, Pictured, Same, SameModes, OnlyIn
<1>2. x \in Device /\ ~x.longshot
  BY <1>1 DEF Pictured, Same
<1>3. o \in Error(x) \/ o \in Then(StartPostProc(x), RequestOrStartLive)
  BY DEF LiveSnapshot
<1> HIDE DEF x
<1>4. CASE o \in Error(x)
  <2>1. o.h = x
    BY <1>4 DEF Error, Out
  <2>2. Pictured(h, o.h, h.postproc, {"SNAPSHOT"})
    BY <1>1, <2>1 DEF Pictured, OnlyIn
  <2> QED
    BY <2>2
<1>5. CASE o \in Then(StartPostProc(x), RequestOrStartLive)
  <2>1. \A p \in StartPostProc(x) : p.ok = TRUE /\ Pictured(x, p.h, "armed", {})
    BY <1>2, StartPostProcIs
  <2>2. PICK p \in StartPostProc(x) : o \in RequestOrStartLive(p.h)
    BY <1>5, <2>1 DEF Then
  <2> DEFINE g == p.h
  <2>3. Pictured(x, g, "armed", {}) /\ g \in Device /\ o \in RequestOrStartLive(g)
    BY <2>1, <2>2 DEF Pictured, Same
  <2> HIDE DEF g
  <2>4. Alike(g, o.h) /\ OnlyIn(g, o.h, {"SNAPSHOT"})
    <3>1. CASE LiveChannel = "VIDEO"
      <4>1. o.h = g
        BY <2>3, <3>1, RequestPictureIs DEF RequestOrStartLive
      <4> QED
        BY <2>3, <4>1, AlikeSelf
    <3>2. CASE LiveChannel # "VIDEO"
      <4>1. PICK rc \in Rc("start") :
                o = Out(IF rc THEN SetCh(g, "SNAPSHOT", "active") ELSE g, rc)
        BY <2>3, <3>2 DEF RequestOrStartLive
      <4>2. rc = TRUE
        BY RcTrue
      <4>3. o.h = SetCh(g, "SNAPSHOT", "active")
        BY <4>1, <4>2 DEF Out
      <4>4. "SNAPSHOT" \in ChType /\ "active" \in ChStatus
        BY DEF ChType, ChStatus
      <4> QED
        BY <2>3, <4>3, <4>4, SetChIs
    <3> QED
      BY <3>1, <3>2
  <2>5. Pictured(h, o.h, "armed", {"SNAPSHOT"})
    BY <1>1, <2>3, <2>4 DEF Pictured, Alike, Same, SameModes, OnlyIn
  <2> QED
    BY <2>5
<1> QED
  BY <1>3, <1>4, <1>5

LEMMA LiveSnapshotFits ==
    ASSUME NoFailures, IInv, Fits(hal, hal.m_state), LiveSnapshotThread
    PROVE  Fits(hal', hal'.m_state)
<1>1. hal \in Device /\ hal.m_state = "VIDEO_PIC_TAKING" /\ ~hal.longshot
  BY DEF IInv, Good, LiveSnapshotThread, Fits, ModesFit
<1>2. PICK o \in LiveSnapshot(hal) : hal' = o.h
  BY DEF LiveSnapshotThread
<1>3. PICK v : Pictured(hal, o.h, v, {"SNAPSHOT"})
  BY <1>1, <1>2, LiveSnapshotPictured
<1> DEFINE h == hal
           g == o.h
           s == "VIDEO_PIC_TAKING"
<1>4. /\ Pictured(h, g, v, {"SNAPSHOT"}) /\ Fits(h, s) /\ hal' = g /\ g.m_state = s
      /\ s \in Pictures /\ s \in MState
  BY <1>1, <1>2, <1>3 DEF Pictured, Same, Pictures, MState
<1> HIDE DEF h, g, s
<1>5. Follows(h, s, s) /\ {"SNAPSHOT"} \in SUBSET {"SNAPSHOT", "VIDEO"}
  BY DEF Follows
<1>6. Moves(h, g, s, s)
  BY <1>4, <1>5, PicturedMoves
<1>7. Fits(g, s)
  BY <1>4, <1>6, MovesFits
<1> QED
  BY <1>4, <1>7

-----------------------------------------------------------------------------
(* The queues, and the invariant.                                          *)

QueueAllowed ==
    /\ Allowed(cur)
    /\ \A i \in 1 .. Len(api_queue) : Allowed(api_queue[i])
    /\ EvtsPosted

FInv == QueueAllowed /\ Fits(hal, hal.m_state)

LEMMA PostedAllowed ==
    ASSUME NEW c, c.evt \in PostedEvt \cup {"none", "TAKE_PICTURE", "CANCEL_PICTURE"}
    PROVE  Allowed(c)
BY DEF Allowed, PostedEvt, CommandEvts

LEMMA AppendAllowed ==
    ASSUME TypeOK, QueueAllowed, NEW x \in Cmd, Allowed(x), api_queue' = Append(api_queue, x)
    PROVE  \A i \in 1 .. Len(api_queue') : Allowed(api_queue'[i])
BY DEF TypeOK, QueueAllowed

\* Nobody asks for a longshot, and parameters are those that may be set.
LEMMA NextAllowed ==
    ASSUME NoLongshot, IInv, QueueAllowed, [Next]_vars PROVE QueueAllowed'
<1>1. TypeOK /\ EvtsPosted /\ hal \in Device /\ hal.pic \in 0 .. MaxPics - 1
  BY DEF IInv, TypeOK, Device, QueueAllowed
<1>2. EvtsPosted'
  BY <1>1, NextPosted
<1>3. ASSUME cur' = cur, api_queue' = api_queue PROVE QueueAllowed'
  BY <1>2, <1>3 DEF QueueAllowed
<1>4. ASSUME cur' = cur, NEW x \in Cmd, Allowed(x), api_queue' = Append(api_queue, x)
      PROVE  QueueAllowed'
  BY <1>1, <1>2, <1>4, AppendAllowed DEF QueueAllowed
<1>5. ASSUME NEW c \in Caller, Enter(c) PROVE QueueAllowed'
  <2>1. PICK e \in Calls : \E p \in IF e = "SET_PARAMS" THEN ParamValues ELSE {NoParams} :
            api_queue' = Append(api_queue, ApiCmd(e, p))
    BY <1>5 DEF Enter
  <2>2. PICK p \in IF e = "SET_PARAMS" THEN ParamValues ELSE {NoParams} :
            api_queue' = Append(api_queue, ApiCmd(e, p))
    BY <2>1
  <2>3. e = "SET_PARAMS" => p \in ParamValues
    BY <2>2
  <2>4. e # "SET_PARAMS" => p = NoParams
    BY <2>2
  <2>5. ApiCmd(e, p).evt = e /\ ApiCmd(e, p).params = p
    BY DEF ApiCmd
  <2>6. Allowed(ApiCmd(e, p))
    BY <2>3, <2>5 DEF Allowed, NoLongshot
  <2>7. ApiCmd(e, p) \in Cmd
    <3>1. e \in ApiEvt /\ 0 \in 0 .. MaxPics - 1
      BY StateMachineAssumption, DeviceAssumption
    <3>2. NoParams \in Params
      BY DEF NoParams, Params
    <3>3. p \in Params
      BY <2>3, <2>4, <3>2, StateMachineAssumption
    <3> QED
      BY <3>1, <3>3 DEF ApiCmd, Cmd, Evt
  <2> QED
    BY <1>4, <1>5, <2>2, <2>6, <2>7 DEF Enter
<1>6. ASSUME NEW c \in Caller, WaitAPIResult(c) PROVE QueueAllowed'
  <2>1. CASE api_queue' = api_queue
    BY <1>3, <1>6, <2>1 DEF WaitAPIResult
  <2>2. CASE api_queue' = Append(api_queue, ApiCmd("TAKE_PICTURE", NoParams))
    <3>1. /\ ApiCmd("TAKE_PICTURE", NoParams) \in Cmd
          /\ ApiCmd("TAKE_PICTURE", NoParams).evt = "TAKE_PICTURE"
      <4>1. 0 \in 0 .. MaxPics - 1
        BY DeviceAssumption
      <4> QED
        BY <4>1 DEF ApiCmd, NoParams, Params, Cmd, Evt, ApiEvt
    <3> QED
      BY <1>4, <1>6, <2>2, <3>1, PostedAllowed DEF WaitAPIResult
  <2> QED
    BY <1>6, <2>1, <2>2 DEF WaitAPIResult
<1>7. CASE StopCapture \/ LiveSnapshotThread
  <2>1. cur' = cur
    BY <1>7 DEF StopCapture, LiveSnapshotThread
  <2>2. CASE api_queue' = api_queue
    BY <1>3, <2>1, <2>2
  <2>3. ASSUME NEW e \in {"STOP_CAPTURE_CHANNEL", "CANCEL_PICTURE"},
               api_queue' = Append(api_queue, Post(e, hal.pic))
        PROVE  QueueAllowed'
    <3>1. Post(e, hal.pic) \in Cmd /\ Post(e, hal.pic).evt = e
      BY <1>1, PostCmd DEF Evt, PostedEvt, ApiEvt
    <3> QED
      BY <1>4, <2>1, <2>3, <3>1, PostedAllowed DEF PostedEvt
  <2> QED
    BY <1>7, <2>2, <2>3 DEF StopCapture, LiveSnapshotThread
<1>8. CASE Dequeue
  <2>1. CASE api_queue # <<>>
    <3>1. cur' = Head(api_queue) /\ api_queue' = Tail(api_queue)
      BY <1>8, <2>1 DEF Dequeue
    <3>2. Allowed(Head(api_queue))
          /\ \A i \in 1 .. Len(Tail(api_queue)) : Allowed(Tail(api_queue)[i])
      BY <1>1, <2>1 DEF TypeOK, QueueAllowed
    <3> QED
      BY <1>2, <3>1, <3>2 DEF QueueAllowed
  <2>2. CASE api_queue = <<>>
    <3>1. cur' = Head(evt_queue) /\ api_queue' = api_queue /\ evt_queue # <<>>
      BY <1>8, <2>2 DEF Dequeue
    <3>2. Head(evt_queue).evt \in PostedEvt
      BY <1>1, <3>1 DEF TypeOK, EvtsPosted
    <3> QED
      BY <1>2, <3>1, <3>2, PostedAllowed DEF QueueAllowed
  <2> QED
    BY <2>1, <2>2
<1>9. CASE StateMachine
  <2>1. cur' = NoCmd /\ api_queue' = api_queue
    BY <1>9, StateMachineHandled DEF Handled
  <2>2. NoCmd.evt = "none"
    BY NoCmdCmd
  <2> QED
    BY <1>2, <2>1, <2>2, PostedAllowed DEF QueueAllowed
<1>10. CASE SnapshotDone \/ PrepSnapshotDone \/ UNCHANGED vars
  BY <1>3, <1>10 DEF SnapshotDone, PrepSnapshotDone, vars
<1> QED
  BY <1>5, <1>6, <1>7, <1>8, <1>9, <1>10 DEF Next

LEMMA EndsFits == ASSUME Ends PROVE Fits(hal', hal'.m_state)
<1>1. PICK h \in Device : Fits(h, h.m_state) /\ hal' = [h EXCEPT !.posted = FALSE]
  BY DEF Ends
<1> DEFINE g == [h EXCEPT !.posted = FALSE]
           s == h.m_state
<1>2. Looks(h, g) /\ g.m_state = s /\ Fits(h, s) /\ hal' = g
  BY <1>1 DEF Device, Looks, SameModes
<1> HIDE DEF g, s
<1>3. Fits(g, s)
  BY <1>2, LooksFits
<1> QED
  BY <1>2, <1>3

LEMMA NextFits ==
    ASSUME NoFailures, NoLongshot, IInv, FInv, [Next]_vars PROVE FInv'
<1>1. hal \in Device /\ cur.params \in Params /\ Fits(hal, hal.m_state)
  BY CurParams DEF IInv, TypeOK, FInv
<1>2. ASSUME hal' = hal PROVE Fits(hal', hal'.m_state)
  BY <1>1, <1>2
<1>3. ASSUME StateMachine PROVE Fits(hal', hal'.m_state)
  <2>1. Fitting
    BY <1>1 DEF FInv, QueueAllowed, Fitting
  <2>2. Ends
    BY <1>3, <2>1, StoppedEnds, ReadyEnds, PreviewingEnds, PreparingEnds, PicTakingEnds,
       RecordingEnds, VideoPicEnds, PreviewPicEnds DEF StateMachine
  <2> QED
    BY <2>2, EndsFits
<1>4. ASSUME SnapshotDone \/ StopCapture \/ PrepSnapshotDone \/ LiveSnapshotThread
      PROVE  Fits(hal', hal'.m_state)
  BY <1>1, <1>4, SnapshotDoneFits, StopCaptureFits, PrepSnapshotDoneFits, LiveSnapshotFits
<1>5. ASSUME Dequeue \/ UNCHANGED vars \/ \E c \in Caller : Enter(c) \/ WaitAPIResult(c)
      PROVE  Fits(hal', hal'.m_state)
  BY <1>2, <1>5 DEF Dequeue, Enter, WaitAPIResult, vars
<1>6. Fits(hal', hal'.m_state)
  BY <1>3, <1>4, <1>5 DEF Next
<1>7. QueueAllowed'
  BY NextAllowed DEF FInv
<1> QED
  BY <1>6, <1>7 DEF FInv

LEMMA InitFits == ASSUME Init PROVE FInv
<1>1. PICK jpeg \in JpegFormats : hal = InitDevice(jpeg)
  BY DEF Init
<1>2. /\ \A t \in ChType : hal.ch[t] = "none"
      /\ hal.m_state = "PREVIEW_STOPPED" /\ hal.postproc = "stopped" /\ ~hal.longshot
      /\ ~hal.zsl /\ ~hal.zslNew /\ ~hal.hintKey /\ ~hal.hintTmp
      /\ hal.hint = FALSE /\ hal.hintNew = FALSE /\ hal.zsl = FALSE /\ hal.zslNew = FALSE
  BY <1>1 DEF InitDevice
<1>3. {"ZSL", "PREVIEW", "CAPTURE", "RAW"} \subseteq ChType
  BY DEF ChType
<1>4. ModesFit(hal)
  BY <1>2 DEF ModesFit
<1>5. PreviewFits(hal, "PREVIEW_STOPPED") /\ PictureFits(hal, "PREVIEW_STOPPED")
  BY <1>2, <1>3 DEF PreviewFits, PictureFits, WithPreview
<1>6. Fits(hal, hal.m_state)
  BY <1>2, <1>4, <1>5 DEF Fits, HintFits, ReadyFits, PostProcFits, Recordings
<1>7. QueueAllowed
  <2>1. cur.evt = "none" /\ api_queue = <<>> /\ evt_queue = <<>>
    BY NoCmdCmd DEF Init
  <2> QED
    BY <2>1, PostedAllowed DEF QueueAllowed, EvtsPosted
<1> QED
  BY <1>6, <1>7 DEF FInv

\* The invariant that the theorems below rest on, for callers that send no
\* longshot command to a camera that does not fail.
LEMMA FitsAlways ==
    ASSUME NoFailures, NoLongshot PROVE Spec => []FInv
<1>1. Init => FInv
  BY InitFits
<1>2. IInv /\ FInv /\ [Next]_vars => FInv'
  BY NextFits
<1> QED
  BY <1>1, <1>2, Invariance, PTL DEF Spec

\* The postprocessor and the notifier work only while a picture is taken, in
\* whatever order pictures, recordings, cancels and parameters come, when no
\* call into the camera stack fails.
THEOREM PostProcEndsWithPicture ==
    ASSUME NoFailures, NoLongshot PROVE Spec => []PostProcOnlyForPicture
<1>1. FInv => PostProcOnlyForPicture
  BY DEF FInv, Fits, PostProcFits, Pictures, PostProcOnlyForPicture, CaptureRunning
<1> QED
  BY <1>1, FitsAlways, PTL

\* The preview streams from one channel in the states that have a preview,
\* and PREVIEW_READY has a channel prepared, as long as the preview does not
\* restart after pictures and the callers set one of the two modes that
\* decide which channel the preview comes from (ZSL and the recording hint).
THEOREM PreviewFollows ==
    ASSUME NoFailures, NoLongshot, Simple PROVE Spec => []PreviewFollowsState
<1>1. FInv => PreviewFollowsState
  <2> SUFFICES ASSUME FInv PROVE PreviewFollowsState
    OBVIOUS
  <2>1. PreviewFits(hal, hal.m_state) /\ ReadyFits(hal, hal.m_state)
    BY DEF FInv, Fits
  <2>2. PreviewStreams
    BY <2>1 DEF PreviewFits, WithPreview, PreviewStreams, Streams
  <2>3. OnePreview
    BY <2>1 DEF PreviewFits, OnePreview
  <2>4. ReadyIsPrepared
    BY <2>1 DEF ReadyFits, ReadyIsPrepared
  <2> QED
    BY <2>2, <2>3, <2>4 DEF PreviewFollowsState
<1> QED
  BY <1>1, FitsAlways, PTL

\* Nothing streams when the preview is stopped, a recording has its preview,
\* and a capture or raw channel is alone and only in PIC_TAKING, as long as
\* the preview does not restart after pictures and ZSL is not used.
THEOREM ChannelsFollow ==
    ASSUME NoFailures, NoLongshot, Simple, ZslUnused PROVE Spec => []ChannelsFollowState
<1>1. IInv /\ FInv => ChannelsFollowState
  <2> SUFFICES ASSUME IInv, FInv PROVE ChannelsFollowState
    OBVIOUS
  <2>1. PreviewFits(hal, hal.m_state) /\ PictureFits(hal, hal.m_state)
    BY DEF FInv, Fits
  <2>2. /\ hal.ch["VIDEO"] = "active" => hal.m_state \in Recordings
        /\ hal.ch["SNAPSHOT"] = "active" => hal.m_state = "VIDEO_PIC_TAKING"
    BY DEF IInv, Good
  <2>3. RecordingHasPreview
    BY <2>1 DEF PreviewFits, WithPreview, ZslStates, RecordingHasPreview, Streams
  <2>4. QuietWhenStopped
    <3> SUFFICES ASSUME hal.m_state = "PREVIEW_STOPPED", NEW t \in ChType
                 PROVE  hal.ch[t] # "active"
      BY DEF QuietWhenStopped, Streams
    <3>1. t \in {"ZSL", "CAPTURE", "PREVIEW", "VIDEO", "SNAPSHOT", "RAW"}
      BY DEF ChType
    <3>2. CASE t \in {"ZSL", "PREVIEW"}
      BY <2>1, <3>2 DEF PreviewFits, ZslStates
    <3>3. CASE t \in {"CAPTURE", "RAW"}
      BY <2>1, <3>3 DEF PictureFits
    <3>4. CASE t \in {"VIDEO", "SNAPSHOT"}
      BY <2>2, <3>4 DEF Recordings
    <3> QED
      BY <3>1, <3>2, <3>3, <3>4
  <2>5. PictureIsAlone
    BY <2>1, <2>2 DEF PreviewFits, PictureFits, ZslStates, Recordings, PictureIsAlone, Streams
  <2> QED
    BY <2>3, <2>4, <2>5 DEF ChannelsFollowState
<1> QED
  BY <1>1, FitsAlways, Invariance, PTL
-----------------------------------------------------------------------------
(* One caller has one call under way: what HalApi promises to a thread     *)
(* that calls alone.  A thread waits for every event it asks for but for   *)
(* the live snapshot's CANCEL_PICTURE.                                     *)

OneCaller == \A c, d \in Caller : c = d

Awaited == EvtCode \ {"CANCEL_PICTURE"}

OneCall ==
    \A e \in Awaited :
        AskedOf[e] + AnsweredOf[e] <= One(\E c \in Caller : Waits[c] = e)

LEMMA CallsTyped ==
    ASSUME IInv, IInv'
    PROVE  /\ Waits \in [Caller -> EvtCode \cup {"none"}]
           /\ Waits' \in [Caller -> EvtCode \cup {"none"}]
           /\ AskedOf \in [EvtCode -> Nat] /\ AskedOf' \in [EvtCode -> Nat]
           /\ AnsweredOf \in [EvtCode -> Nat] /\ AnsweredOf' \in [EvtCode -> Nat]
<1>1. TypeOK /\ TypeOK'
  BY DEF IInv
<1>2. \A e \in EvtCode : /\ Asked(e) \in Nat /\ Asked(e)' \in Nat
                         /\ Answered(e) \in Nat /\ Answered(e)' \in Nat
  <2> SUFFICES ASSUME NEW e \in EvtCode
               PROVE  /\ Asked(e) \in Nat /\ Asked(e)' \in Nat
                      /\ Answered(e) \in Nat /\ Answered(e)' \in Nat
    OBVIOUS
  <2>1. api_queue' \in Seq(Cmd)
    BY <1>1 DEF TypeOK
  <2>2. Count(api_queue', CmdOf(e)) \in Nat
    BY <2>1, CountType
  <2>3. \A b \in BOOLEAN : One(b) \in Nat
    BY DEF One
  <2>4. /\ Asked(e) = Count(api_queue, CmdOf(e)) + One(Code(cur.evt) = e)
                          + One(e = P /\ hal.m_state = P)
        /\ Asked(e)' = Count(api_queue', CmdOf(e)) + One(Code(cur'.evt) = e)
                           + One(e = P /\ hal'.m_state = P)
        /\ Count(api_queue, CmdOf(e)) \in Nat
    BY <1>1, AskedIs
  <2>5. /\ One(Code(cur.evt) = e) \in Nat /\ One(e = P /\ hal.m_state = P) \in Nat
        /\ One(Code(cur'.evt) = e) \in Nat /\ One(e = P /\ hal'.m_state = P) \in Nat
    BY DEF One
  <2>6. Answered(e) \in Nat /\ Answered(e)' \in Nat
    BY <1>1, AnsweredIs
  <2> QED
    BY <2>2, <2>4, <2>5, <2>6
<1>3. \A f \in [Caller -> CallState] :
          [c \in Caller |-> Code(f[c].evt)] \in [Caller -> EvtCode \cup {"none"}]
  BY CodeOfEvt DEF CallState
<1>4. Waits \in [Caller -> EvtCode \cup {"none"}] /\ Waits' \in [Caller -> EvtCode \cup {"none"}]
  BY <1>1, <1>3 DEF TypeOK, Waits
<1> QED
  BY <1>2, <1>4, MapFields DEF AskedOf, AnsweredOf

\* A step of HalApi keeps the number of calls.
LEMMA NextOneCall ==
    ASSUME OneCaller, OneCall, IInv, IInv', [Api!Next]_(Api!vars) PROVE OneCall'
<1> DEFINE w == Waits  a == AskedOf  r == AnsweredOf
           w2 == Waits'  a2 == AskedOf'  r2 == AnsweredOf'
<1>3. /\ w \in [Caller -> EvtCode \cup {"none"}] /\ a \in [EvtCode -> Nat] /\ r \in [EvtCode -> Nat]
      /\ w2 \in [Caller -> EvtCode \cup {"none"}] /\ a2 \in [EvtCode -> Nat] /\ r2 \in [EvtCode -> Nat]
  BY CallsTyped
<1>4. SUFFICES ASSUME NEW e \in Awaited
               PROVE  a2[e] + r2[e] <= One(\E c \in Caller : w2[c] = e)
  BY DEF OneCall
<1>5. /\ a[e] \in Nat /\ r[e] \in Nat /\ a2[e] \in Nat /\ r2[e] \in Nat /\ e # "none"
      /\ a[e] + r[e] <= One(\E c \in Caller : w[c] = e) /\ e \in EvtCode /\ e # "CANCEL_PICTURE"
  BY <1>3, <1>4, CodeOfEvt DEF OneCall, Awaited
<1>6. CASE \E c \in Caller, k \in EvtCode : Api!Ask(c, k)
  <2>1. PICK c \in Caller, k \in EvtCode :
            w[c] = "none" /\ w2 = [w EXCEPT ![c] = k] /\ a2 = [a EXCEPT ![k] = @ + 1] /\ r2 = r
    BY <1>6 DEF Api!Ask, Waits, AskedOf, AnsweredOf
  <2> HIDE DEF w, a, r, w2, a2, r2
  <2>2. w2[c] = k /\ a2[e] = (IF e = k THEN a[e] + 1 ELSE a[e]) /\ r2[e] = r[e]
    BY <1>3, <1>5, <2>1
  <2>3. a[e] + r[e] = 0
    BY <1>5, <2>1 DEF OneCaller, One
  <2> QED
    BY <1>5, <2>2, <2>3 DEF One
<1>7. CASE \E k \in EvtCode : Api!Answer(k)
  <2>1. PICK k \in EvtCode :
            a[k] > 0 /\ a2 = [a EXCEPT ![k] = @ - 1] /\ r2 = [r EXCEPT ![k] = @ + 1] /\ w2 = w
    BY <1>7 DEF Api!Answer, Waits, AskedOf, AnsweredOf
  <2> HIDE DEF w, a, r, w2, a2, r2
  <2>2. a2[e] + r2[e] = a[e] + r[e]
    BY <1>3, <1>5, <2>1
  <2> QED
    BY <1>5, <2>1, <2>2
<1>8. CASE Api!AskAndLeave("CANCEL_PICTURE")
  <2>1. a2 = [a EXCEPT !["CANCEL_PICTURE"] = @ + 1] /\ r2 = r /\ w2 = w
    BY <1>8 DEF Api!AskAndLeave, Waits, AskedOf, AnsweredOf
  <2> HIDE DEF w, a, r, w2, a2, r2
  <2>2. a2[e] = a[e]
    BY <1>3, <1>5, <2>1
  <2> QED
    BY <1>5, <2>1, <2>2
<1>9. CASE Api!Drop("REG_FACE_IMAGE")
  <2>1. a2 = [a EXCEPT !["REG_FACE_IMAGE"] = @ - 1] /\ r2 = r /\ w2 = w
    BY <1>9 DEF Api!Drop, Waits, AskedOf, AnsweredOf
  <2> HIDE DEF w, a, r, w2, a2, r2
  <2>2. a2[e] <= a[e]
    BY <1>3, <1>5, <2>1
  <2>3. w2 = w /\ r2[e] = r[e]
    BY <2>1
  <2>4. a2[e] + r2[e] <= a[e] + r[e]
    BY <1>5, <2>2, <2>3
  <2>5. One(\E c \in Caller : w[c] = e) \in Nat
    BY DEF One
  <2>6. a2[e] + r2[e] <= One(\E c \in Caller : w[c] = e)
    BY <1>5, <2>4, <2>5 DEF One
  <2> QED
    BY <2>3, <2>6
<1>10. CASE \E c \in Caller : Api!Return(c)
  <2>1. PICK c \in Caller :
            /\ w[c] # "none" /\ r[w[c]] > 0 /\ r2 = [r EXCEPT ![w[c]] = @ - 1]
            /\ w2 = [w EXCEPT ![c] = "none"] /\ a2 = a
    BY <1>10 DEF Api!Return, Api!TakeAnswer, Waits, AskedOf, AnsweredOf
  <2> HIDE DEF w, a, r, w2, a2, r2
  <2>2. CASE w[c] = e
    <3>1. a2[e] = a[e] /\ r2[e] = r[e] - 1
      BY <1>3, <1>5, <2>1, <2>2
    <3>2. a[e] + r[e] <= 1
      BY <1>5 DEF One
    <3>3. a2[e] + r2[e] = 0
      BY <1>5, <3>1, <3>2
    <3> QED
      BY <3>3 DEF One
  <2>3. CASE w[c] # e
    <3>1. a2[e] = a[e] /\ r2[e] = r[e]
      BY <1>3, <1>5, <2>1, <2>3
    <3>2. a[e] + r[e] = 0
      BY <1>5, <2>3 DEF OneCaller, One
    <3> QED
      BY <3>1, <3>2 DEF One
  <2> QED
    BY <2>2, <2>3
<1>11. CASE \E c \in Caller, k \in EvtCode : Api!ReturnAndAsk(c, k)
  <2>1. PICK c \in Caller, k \in EvtCode :
            /\ w[c] # "none" /\ r[w[c]] > 0 /\ r2 = [r EXCEPT ![w[c]] = @ - 1]
            /\ w2 = [w EXCEPT ![c] = k] /\ a2 = [a EXCEPT ![k] = @ + 1]
    BY <1>11 DEF Api!ReturnAndAsk, Api!TakeAnswer, Waits, AskedOf, AnsweredOf
  <2> HIDE DEF w, a, r, w2, a2, r2
  <2>2. /\ a2[e] = (IF e = k THEN a[e] + 1 ELSE a[e]) /\ w2[c] = k
        /\ r2[e] = (IF e = w[c] THEN r[e] - 1 ELSE r[e])
    BY <1>3, <1>5, <2>1
  <2>3. a[e] + r[e] <= (IF e = w[c] THEN 1 ELSE 0)
    BY <1>5 DEF OneCaller, One
  <2>4. a2[e] + r2[e] <= (IF e = k THEN 1 ELSE 0)
    BY <1>5, <2>2, <2>3
  <2> QED
    BY <1>5, <2>2, <2>4 DEF One
<1>12. CASE UNCHANGED Api!vars
  <2>1. w2 = w /\ a2 = a /\ r2 = r
    BY <1>12 DEF Api!vars, Waits, AskedOf, AnsweredOf
  <2> HIDE DEF w, a, r, w2, a2, r2
  <2> QED
    BY <1>5, <2>1
<1> QED
  BY <1>6, <1>7, <1>8, <1>9, <1>10, <1>11, <1>12 DEF Api!Next

LEMMA InitOneCall == ASSUME Init PROVE OneCall
<1>1. \A e \in EvtCode : AskedOf[e] = 0 /\ AnsweredOf[e] = 0
  BY InitApi DEF Api!Init, AskedOf, AnsweredOf
<1> QED
  BY <1>1 DEF OneCall, Awaited, One

\* The events that their caller waits for.
Asking == ApiEvt \ {"CANCEL_PICTURE"}

LEMMA AskingCode == \A e \in Asking : Code(e) \in Awaited
<1>1. \A e \in Asking : Code(e) # "CANCEL_PICTURE"
  BY DEF Asking, Code, WindowEvts, CommandEvts
<1> QED
  BY <1>1, CodeOfEvt DEF Asking, Awaited

\* While a command that its caller waits for is handled, no other is queued.
LEMMA OneAsked ==
    ASSUME OneCaller, IInv, IInv', OneCall, cur.evt \in Asking, NEW i \in 1 .. Len(api_queue)
    PROVE  api_queue[i].evt \notin Asking
<1> SUFFICES ASSUME api_queue[i].evt \in Asking PROVE FALSE
  OBVIOUS
<1> DEFINE k == Code(cur.evt)
           l == Code(api_queue[i].evt)
<1>1. k \in Awaited /\ l \in Awaited /\ Awaited \subseteq EvtCode
  BY AskingCode DEF Awaited
<1>2. TypeOK /\ TypeOK' /\ api_queue \in Seq(Cmd) /\ api_queue[i] \in Cmd
  BY DEF IInv, TypeOK
<1>3. \A e \in EvtCode : AskedOf[e] \in Nat /\ AnsweredOf[e] \in Nat /\ AskedOf[e] = Asked(e)
  BY CallsTyped, MapFields
<1>4. \A e \in Awaited : Count(api_queue, CmdOf(e)) + One(k = e) <= One(\E c \in Caller : Waits[c] = e)
  <2> SUFFICES ASSUME NEW e \in Awaited
               PROVE  Count(api_queue, CmdOf(e)) + One(k = e)
                          <= One(\E c \in Caller : Waits[c] = e)
    OBVIOUS
  <2>1. /\ Asked(e) = Count(api_queue, CmdOf(e)) + One(Code(cur.evt) = e)
                          + One(e = P /\ hal.m_state = P)
        /\ Count(api_queue, CmdOf(e)) \in Nat
    BY <1>2, AskedIs
  <2>2. AskedOf[e] + AnsweredOf[e] <= One(\E c \in Caller : Waits[c] = e)
    BY DEF OneCall
  <2> QED
    BY <1>1, <1>3, <2>1, <2>2 DEF One
<1>5. Count(api_queue, CmdOf(l)) \in Nat /\ Count(api_queue, CmdOf(l)) # 0
  BY <1>2, CountType DEF CmdOf
<1>6. Count(api_queue, CmdOf(k)) \in Nat
  BY <1>2, CountType
<1> HIDE DEF k, l
<1>7. \E c \in Caller : Waits[c] = l
  BY <1>1, <1>4, <1>5 DEF One
<1>8. \E c \in Caller : Waits[c] = k
  BY <1>1, <1>4, <1>6 DEF One
<1>9. k = l
  BY <1>7, <1>8 DEF OneCaller
<1> QED
  BY <1>1, <1>4, <1>5, <1>9 DEF One

-----------------------------------------------------------------------------
(* STOP_CAPTURE_CHANNEL.  What is queued before it is one event of the only *)
(* caller at most, so the state machine is not in another picture when it   *)
(* comes: that needs a START_PREVIEW and a TAKE_PICTURE.                    *)

NoneAhead(i) ==
    cur.evt \notin Asking /\ \A j \in 1 .. i - 1 : api_queue[j].evt \notin Asking

StopsInTime ==
    /\ StopCaptureIsForThisPicture
    /\ \A i \in 1 .. Len(api_queue) :
          api_queue[i].evt = "STOP_CAPTURE_CHANNEL" =>
              \/ hal.m_state = "PIC_TAKING" /\ api_queue[i].pic = hal.pic
              \/ hal.m_state = "PREVIEW_STOPPED"
              \/ hal.m_state # "PIC_TAKING" /\ NoneAhead(i)

LEMMA ReturnsTo ==
    ASSUME NEW h \in Device, Returns(h)
    PROVE  hal'.m_state = h.m_state /\ hal'.pic = h.pic
<1>1. hal' = [h EXCEPT !.posted = FALSE]
  BY DEF Returns, ReplyOk, Refuse, Reply, ReplyEvt, Ignore, Handled
<1> QED
  BY <1>1 DEF Device

LEMMA ReturnsGoto ==
    ASSUME NEW h \in Device, NEW s \in MState, Returns(Goto(h, s))
    PROVE  hal'.m_state = s /\ hal'.pic = h.pic
<1> DEFINE g == Goto(h, s)
<1>1. g \in Device /\ g.m_state = s /\ g.pic = h.pic
  BY DEF Goto, Device
<1>2. Returns(g)
  OBVIOUS
<1> HIDE DEF g
<1> QED
  BY <1>1, <1>2, ReturnsTo

\* The events and the live snapshot's cancel lead into no picture.
LEMMA EventsEnterNoPicture ==
    ASSUME IInv, StateMachine, cur.evt \notin Asking, hal.m_state # "PIC_TAKING"
    PROVE  /\ hal'.m_state # "PIC_TAKING"
           /\ hal.m_state = "PREVIEW_STOPPED" => hal'.m_state = "PREVIEW_STOPPED"
<1>1. hal \in Device
  BY DEF IInv, TypeOK
<1>2. MState = {"PREVIEW_STOPPED", "PREVIEW_READY", "PREVIEWING", "PREPARE_SNAPSHOT",
                "PIC_TAKING", "RECORDING", "VIDEO_PIC_TAKING", "PREVIEW_PIC_TAKING"}
  BY DEF MState
<1>3. ASSUME Returns(hal) PROVE hal'.m_state = hal.m_state
  BY <1>1, <1>3, ReturnsTo
<1>4. CASE PreviewStoppedState
  <2>1. StoppedNoOp \/ StoppedSnapshotDone \/ StoppedIgnore
    BY <1>4 DEF PreviewStoppedState, StoppedSetWindow, StoppedSetParams, StoppedStartPreview,
       StoppedStartNoDisplay, StoppedRelease, StoppedCommand, StoppedInvalid, Stopped, Handling,
       Asking, ApiEvt, WindowEvts, CommandEvts
  <2>2. Returns(hal)
    BY <2>1 DEF StoppedNoOp, StoppedSnapshotDone, StoppedIgnore, Returns
  <2> QED
    BY <1>3, <2>2
<1>5. CASE PreviewReadyState
  <2>1. ReadyInvalid \/ ReadySnapshotDone \/ ReadyIgnore
    BY <1>5 DEF PreviewReadyState, ReadySetWindow, ReadySetParams, ReadyStopPreview,
       ReadyCommand, ReadyNoOp, Ready, Handling, Asking, ApiEvt, WindowEvts, CommandEvts
  <2>2. Returns(hal) /\ hal.m_state = "PREVIEW_READY"
    BY <2>1 DEF ReadyInvalid, ReadySnapshotDone, ReadyIgnore, Ready, Handling, Returns
  <2> QED
    BY <1>3, <2>2
<1>6. CASE PreviewingState
  <2>1. PreviewingInvalid \/ PreviewingSnapshotDone \/ PreviewingIgnore
    BY <1>6 DEF PreviewingState, PreviewingSetParams, PreviewingStopPreview,
       PreviewingStartRecording, PreviewingPrepareSnapshot, PreviewingTakePicture,
       PreviewingCommand, PreviewingNoOp, Previewing, Handling, Asking, ApiEvt, WindowEvts,
       CommandEvts
  <2>2. Returns(hal) /\ hal.m_state = "PREVIEWING"
    BY <2>1 DEF PreviewingInvalid, PreviewingSnapshotDone, PreviewingIgnore, Previewing,
       Handling, Returns
  <2> QED
    BY <1>3, <2>2
<1>7. CASE PrepareSnapshotState
  <2>1. hal.m_state = "PREPARE_SNAPSHOT"
    BY <1>7 DEF PrepareSnapshotState, PreparingInvalid, PreparingDone, PreparingSnapshotDone,
       PreparingIgnore, Preparing, Handling
  <2>2. CASE PreparingDone
    <3> DEFINE g == Goto(hal, "PREVIEWING")
    <3>1. g.m_state = "PREVIEWING" /\ g \in Device
      BY <1>1, <1>2 DEF Goto, Device
    <3>2. hal' = [g EXCEPT !.posted = FALSE]
      BY <2>2 DEF PreparingDone, Handled
    <3> HIDE DEF g
    <3> QED
      BY <2>1, <3>1, <3>2 DEF Device
  <2>3. CASE PreparingInvalid \/ PreparingSnapshotDone \/ PreparingIgnore
    <3>1. Returns(hal)
      BY <2>3 DEF PreparingInvalid, PreparingSnapshotDone, PreparingIgnore, Returns
    <3> QED
      BY <1>3, <2>1, <3>1
  <2> QED
    BY <1>7, <2>2, <2>3 DEF PrepareSnapshotState
<1>8. CASE PicTakingState
  BY <1>8 DEF PicTakingState, PicTakingSetParams, PicTakingCancel, PicTakingLongshotOn,
     PicTakingLongshotOff, PicTakingTakePicture, PicTakingNoOp, PicTakingInvalid,
     PicTakingStopCapture, PicTakingSnapshotDone, PicTaking, Handling
<1>9. CASE RecordingState
  <2>1. RecordingInvalid \/ RecordingSnapshotDone \/ RecordingIgnore
    BY <1>9 DEF RecordingState, RecordingSetParams, RecordingTakePicture,
       RecordingStopRecording, RecordingStopPreview, RecordingCommand, RecordingNoOp,
       Recording, Handling, Asking, ApiEvt, WindowEvts, CommandEvts
  <2>2. Returns(hal) /\ hal.m_state = "RECORDING"
    BY <2>1 DEF RecordingInvalid, RecordingSnapshotDone, RecordingIgnore, Recording,
       Handling, Returns
  <2> QED
    BY <1>3, <2>2
<1>10. CASE VideoPicTakingState
  <2>1. /\ VideoPicCancel \/ VideoPicSnapshotDone \/ VideoPicIgnore
        /\ hal.m_state = "VIDEO_PIC_TAKING"
    BY <1>10 DEF VideoPicTakingState, VideoPicSetParams, VideoPicStopRecording,
       VideoPicStopPreview, VideoPicCommand, VideoPicNoOp, VideoPicInvalid, VideoPicCancel,
       VideoPicSnapshotDone, VideoPicIgnore, VideoPic, Handling, Asking, ApiEvt, WindowEvts,
       CommandEvts
  <2>2. CASE VideoPicCancel \/ VideoPicSnapshotDone
    <3>1. Returns(Goto(CancelLiveSnapshot(hal), "RECORDING"))
      BY <2>2 DEF VideoPicCancel, VideoPicSnapshotDone, Returns
    <3>2. CancelLiveSnapshot(hal) \in Device
      BY <1>1, CancelLiveSnapshotIs DEF Pictured, Same
    <3>3. hal'.m_state = "RECORDING"
      BY <1>2, <3>1, <3>2, ReturnsGoto
    <3> QED
      BY <2>1, <3>3
  <2>3. CASE VideoPicIgnore
    BY <1>3, <2>1, <2>3 DEF VideoPicIgnore, Returns
  <2> QED
    BY <2>1, <2>2, <2>3
<1>11. CASE PreviewPicTakingState
  <2>1. /\ PreviewPicCancel \/ PreviewPicSnapshotDone \/ PreviewPicIgnore
        /\ hal.m_state = "PREVIEW_PIC_TAKING"
    BY <1>11 DEF PreviewPicTakingState, PreviewPicSetParams, PreviewPicStopPreview,
       PreviewPicStartRecording, PreviewPicLongshotOn, PreviewPicLongshotOff,
       PreviewPicTakePicture, PreviewPicNoOp, PreviewPicInvalid, PreviewPicCancel,
       PreviewPicSnapshotDone, PreviewPicIgnore, PreviewPic, Handling, Asking, ApiEvt,
       WindowEvts, CommandEvts
  <2>2. CASE PreviewPicCancel \/ PreviewPicSnapshotDone
    <3>1. Returns(Goto(CancelInPreview(hal), "PREVIEWING"))
      BY <2>2 DEF PreviewPicCancel, PreviewPicSnapshotDone, Returns
    <3>2. CancelInPreview(hal) \in Device
      BY <1>1, CancelLiveSnapshotIs, CancelPictureIs DEF CancelInPreview, Pictured, Same
    <3>3. hal'.m_state = "PREVIEWING"
      BY <1>2, <3>1, <3>2, ReturnsGoto
    <3> QED
      BY <2>1, <3>3
  <2>3. CASE PreviewPicIgnore
    BY <1>3, <2>1, <2>3 DEF PreviewPicIgnore, Returns
  <2> QED
    BY <2>1, <2>2, <2>3
<1> QED
  BY <1>4, <1>5, <1>6, <1>7, <1>8, <1>9, <1>10, <1>11 DEF StateMachine

LEMMA HandledGoto ==
    ASSUME hal' \in Device, NEW f, NEW s, Returns(Goto(f, s)) PROVE hal'.m_state = s
<1>1. hal' = [Goto(f, s) EXCEPT !.posted = FALSE]
  BY DEF Returns, ReplyOk, Refuse, Reply, ReplyEvt, Ignore, Handled
<1> QED
  BY <1>1 DEF Goto, Device

LEMMA HandledReplyGoto ==
    ASSUME hal' \in Device, NEW S, NEW a, NEW b, ReplyGoto(S, a, b) PROVE hal'.m_state \in {a, b}
<1>1. PICK o \in S : Reply(Goto(o.h, IF o.ok THEN a ELSE b), o.ok)
  BY DEF ReplyGoto
<1> DEFINE s == IF o.ok THEN a ELSE b
           f == o.h
<1>2. Returns(Goto(f, s)) /\ s \in {a, b}
  BY <1>1 DEF Returns
<1> HIDE DEF s, f
<1>3. hal'.m_state = s
  BY <1>2, HandledGoto
<1> QED
  BY <1>2, <1>3

\* A picture is taken only from a preview.
LEMMA StoppedTakesNoPicture ==
    ASSUME IInv, IInv', StateMachine, hal.m_state = "PREVIEW_STOPPED"
    PROVE  hal'.m_state # "PIC_TAKING"
<1>1. hal \in Device /\ hal' \in Device
  BY DEF IInv, TypeOK
<1>2. PreviewStoppedState
  BY DEF StateMachine, PreviewStoppedState, PreviewReadyState, PreviewingState,
     PrepareSnapshotState, PicTakingState, RecordingState, VideoPicTakingState,
     PreviewPicTakingState,
     ReadySetWindow, ReadySetParams, ReadyStopPreview, ReadyCommand, ReadyNoOp, ReadyInvalid,
     ReadySnapshotDone, ReadyIgnore, Ready,
     PreviewingSetParams, PreviewingStopPreview, PreviewingStartRecording,
     PreviewingPrepareSnapshot, PreviewingTakePicture, PreviewingCommand, PreviewingNoOp,
     PreviewingInvalid, PreviewingSnapshotDone, PreviewingIgnore, Previewing,
     PreparingInvalid, PreparingDone, PreparingSnapshotDone, PreparingIgnore, Preparing,
     PicTakingSetParams, PicTakingCancel, PicTakingLongshotOn, PicTakingLongshotOff,
     PicTakingTakePicture, PicTakingNoOp, PicTakingInvalid, PicTakingStopCapture,
     PicTakingSnapshotDone, PicTaking,
     RecordingSetParams, RecordingTakePicture, RecordingStopRecording, RecordingStopPreview,
     RecordingCommand, RecordingNoOp, RecordingInvalid, RecordingSnapshotDone,
     RecordingIgnore, Recording,
     VideoPicSetParams, VideoPicCancel, VideoPicStopRecording, VideoPicStopPreview,
     VideoPicCommand, VideoPicNoOp, VideoPicInvalid, VideoPicSnapshotDone, VideoPicIgnore,
     VideoPic,
     PreviewPicSetParams, PreviewPicCancel, PreviewPicStopPreview, PreviewPicStartRecording,
     PreviewPicLongshotOn, PreviewPicLongshotOff, PreviewPicTakePicture, PreviewPicNoOp,
     PreviewPicInvalid, PreviewPicSnapshotDone, PreviewPicIgnore, PreviewPic, Handling
<1>3. ASSUME NEW S, ReplyStay(S) PROVE hal'.m_state = "PREVIEW_STOPPED"
  BY <1>1, <1>3, HandledReplyGoto DEF ReplyStay
<1>4. ASSUME NEW h \in Device, Returns(h), h.m_state = "PREVIEW_STOPPED"
      PROVE  hal'.m_state = "PREVIEW_STOPPED"
  BY <1>4, ReturnsTo
<1>5. CASE StoppedSetParams \/ StoppedCommand
  BY <1>3, <1>5 DEF StoppedSetParams, StoppedCommand
<1>6. CASE StoppedStartPreview \/ StoppedStartNoDisplay
  <2>1. PICK S : \E a \in {"PREVIEWING", "PREVIEW_READY"} : ReplyGoto(S, a, "PREVIEW_STOPPED")
    BY <1>6 DEF StoppedStartPreview, StoppedStartNoDisplay
  <2>2. PICK a \in {"PREVIEWING", "PREVIEW_READY"} : ReplyGoto(S, a, "PREVIEW_STOPPED")
    BY <2>1
  <2> QED
    BY <1>1, <2>2, HandledReplyGoto
<1>7. CASE StoppedSetWindow
  <2>1. SetWindow(hal) \in Device /\ SetWindow(hal).m_state = "PREVIEW_STOPPED"
    BY <1>1 DEF SetWindow, Device
  <2>2. Returns(SetWindow(hal))
    BY <1>7 DEF StoppedSetWindow, Returns
  <2> QED
    BY <1>4, <2>1, <2>2
<1>8. CASE StoppedRelease
  <2> DEFINE g == [hal EXCEPT !.ch = [t \in ChType |-> "none"]]
  <2>1. g \in Device /\ g.m_state = "PREVIEW_STOPPED"
    BY <1>1 DEF Device, ChStatus
  <2>2. Returns(g)
    BY <1>8 DEF StoppedRelease, Returns
  <2> HIDE DEF g
  <2> QED
    BY <1>4, <2>1, <2>2
<1>9. CASE StoppedNoOp \/ StoppedInvalid \/ StoppedSnapshotDone \/ StoppedIgnore
  <2>1. Returns(hal)
    BY <1>9 DEF StoppedNoOp, StoppedInvalid, StoppedSnapshotDone, StoppedIgnore, Returns
  <2> QED
    BY <1>1, <1>4, <2>1
<1> QED
  BY <1>2, <1>5, <1>6, <1>7, <1>8, <1>9 DEF PreviewStoppedState

\* Changes of the parameters and the stop of the channel are of no other picture.
LEMMA CommitKeepsPic ==
    ASSUME NEW h \in Device, NEW p \in Params, NEW o \in CommitParameters(UpdateParameters(h, p))
    PROVE  o.h \in Device /\ o.h.pic = h.pic
<1> DEFINE u == UpdateParameters(h, p)
<1>1. u \in Device /\ u.pic = h.pic
  <2>1. u \in Device
    BY UpdateIs DEF Updated, ModesOnly, Same
  <2>2. u.pic = h.pic
    BY DEF UpdateParameters, InitBatchUpdate, SetRecordingHintValue, Device
  <2> QED
    BY <2>1, <2>2
<1>2. o \in CommitParameters(u)
  OBVIOUS
<1> HIDE DEF u
<1>3. o.h = u \/ o.h = CommitParamChanges(u)
  BY <1>2 DEF CommitParameters, Out
<1>4. CommitParamChanges(u) \in Device /\ CommitParamChanges(u).pic = u.pic
  BY <1>1 DEF CommitParamChanges, Device
<1> QED
  BY <1>1, <1>3, <1>4

LEMMA StopCaptureKeepsPic ==
    ASSUME NEW h \in Device
    PROVE  StopCaptureChannel(h, FALSE) \in Device /\ StopCaptureChannel(h, FALSE).pic = h.pic
           /\ StopCaptureChannel(h, FALSE).m_state = h.m_state
<1>1. StopCaptureChannel(h, FALSE) \in {h, SetCh(h, "CAPTURE", "idle")}
  BY DEF StopCaptureChannel, StopChannel
<1>2. SetCh(h, "CAPTURE", "idle") \in Device
  BY SetChDevice DEF ChType, ChStatus
<1>3. SetCh(h, "CAPTURE", "idle").pic = h.pic /\ SetCh(h, "CAPTURE", "idle").m_state = h.m_state
  BY DEF SetCh, Device
<1> QED
  BY <1>1, <1>2, <1>3

\* A picture goes on, the same one, or is left for PREVIEW_STOPPED.
LEMMA PicTakingGoesOn ==
    ASSUME NoFailures, Simple, IInv, IInv', FInv, PicTakingState
    PROVE  \/ hal'.m_state = "PIC_TAKING" /\ hal'.pic = hal.pic
           \/ hal'.m_state = "PREVIEW_STOPPED"
<1>1. hal \in Device /\ hal' \in Device /\ cur.params \in Params
  BY CurParams DEF IInv, TypeOK
<1>2. ~RestartPreview /\ ~hal.longshot /\ cur.evt \notin CommandEvts
  BY DEF Simple, FInv, QueueAllowed, Allowed, Fits, ModesFit
<1>3. hal.m_state = "PIC_TAKING" /\ "PIC_TAKING" \in MState
  BY DEF PicTakingState, PicTakingSetParams, PicTakingCancel, PicTakingLongshotOn,
     PicTakingLongshotOff, PicTakingTakePicture, PicTakingNoOp, PicTakingInvalid,
     PicTakingStopCapture, PicTakingSnapshotDone, PicTaking, Handling, MState
<1>4. ASSUME NEW h \in Device, h.m_state = "PIC_TAKING", h.pic = hal.pic, Returns(h)
      PROVE  hal'.m_state = "PIC_TAKING" /\ hal'.pic = hal.pic
  BY <1>4, ReturnsTo
<1>5. CASE PicTakingSetParams
  <2>1. \A u \in Update(hal) : u.ok = TRUE /\ u.h = UpdateParameters(hal, cur.params)
    BY <1>1, UpdateIsOf
  <2>2. PICK o \in UpdateAndCommit : Reply(Goto(o.h, hal.m_state), o.ok)
    BY <1>5 DEF PicTakingSetParams, ReplyStay, ReplyGoto
  <2>3. PICK u \in Update(hal) : o \in CommitParameters(u.h)
    BY <2>1, <2>2 DEF UpdateAndCommit, Then
  <2>4. o \in CommitParameters(UpdateParameters(hal, cur.params))
    BY <2>1, <2>3
  <2> DEFINE h == hal  p == cur.params  g == o.h
  <2>5. h \in Device /\ p \in Params /\ o \in CommitParameters(UpdateParameters(h, p))
    BY <1>1, <2>4
  <2>6. Returns(Goto(g, "PIC_TAKING")) /\ h.pic = hal.pic
    BY <1>3, <2>2 DEF Returns
  <2> HIDE DEF h, p
  <2>7. g \in Device /\ g.pic = hal.pic
    BY <2>5, <2>6, CommitKeepsPic
  <2> HIDE DEF g
  <2> QED
    BY <1>3, <2>6, <2>7, ReturnsGoto
<1>6. CASE PicTakingCancel \/ PicTakingSnapshotDone
  <2>1. Returns(Goto(CancelPicture(hal), "PREVIEW_STOPPED"))
    BY <1>2, <1>6 DEF PicTakingCancel, PicTakingSnapshotDone, AfterPicture, Returns
  <2> QED
    BY <1>1, <2>1, HandledGoto
<1>7. CASE PicTakingLongshotOn \/ PicTakingLongshotOff
  BY <1>2, <1>7 DEF PicTakingLongshotOn, PicTakingLongshotOff, PicTaking, Handling, CommandEvts
<1>8. CASE PicTakingTakePicture \/ PicTakingNoOp \/ PicTakingInvalid
  <2>1. Returns(hal)
    BY <1>2, <1>8 DEF PicTakingTakePicture, PicTakingNoOp, PicTakingInvalid, Returns
  <2> QED
    BY <1>1, <1>3, <1>4, <2>1
<1>9. CASE PicTakingStopCapture
  <2> DEFINE h == StopCaptureChannel(hal, RestartPreview)
  <2>1. RestartPreview = FALSE
    BY <1>2, DeviceAssumption
  <2>2. h \in Device /\ h.m_state = "PIC_TAKING" /\ h.pic = hal.pic
    BY <1>1, <1>3, <2>1, StopCaptureKeepsPic
  <2>3. PICK o \in IF RestartPreview THEN Then(PreparePreview(h), StartPreview) ELSE Done(h) :
            Ignore(o.h)
    BY <1>9 DEF PicTakingStopCapture
  <2> HIDE DEF h
  <2>4. o.h = h
    BY <2>1, <2>3 DEF Done, Out
  <2>5. Returns(h)
    BY <2>3, <2>4 DEF Returns
  <2> QED
    BY <1>4, <2>2, <2>5
<1> QED
  BY <1>5, <1>6, <1>7, <1>8, <1>9 DEF PicTakingState

\* What is posted for a picture is queued in PIC_TAKING.
LEMMA StopCaptureInPicture ==
    ASSUME Simple, ZslUnused, FInv, StopCapture PROVE hal.m_state = "PIC_TAKING"
BY DEF StopCapture, FInv, Fits, PictureFits

\* A command joins the queue behind those that are there.
LEMMA AppendStops ==
    ASSUME TypeOK, StopsInTime, NEW x \in Cmd, api_queue' = Append(api_queue, x), cur' = cur,
           hal'.m_state = hal.m_state, hal'.pic = hal.pic \/ hal.m_state # "PIC_TAKING",
           x.evt = "STOP_CAPTURE_CHANNEL" => hal.m_state = "PIC_TAKING" /\ x.pic = hal.pic
    PROVE  StopsInTime'
<1>1. api_queue \in Seq(Cmd) /\ Len(api_queue') = Len(api_queue) + 1
      /\ api_queue'[Len(api_queue) + 1] = x
      /\ \A j \in 1 .. Len(api_queue) : api_queue'[j] = api_queue[j]
  BY DEF TypeOK
<1>2. StopCaptureIsForThisPicture'
  BY DEF StopsInTime, StopCaptureIsForThisPicture
<1>3. ASSUME NEW i \in 1 .. Len(api_queue'), api_queue'[i].evt = "STOP_CAPTURE_CHANNEL"
      PROVE  \/ hal'.m_state = "PIC_TAKING" /\ api_queue'[i].pic = hal'.pic
             \/ hal'.m_state = "PREVIEW_STOPPED"
             \/ hal'.m_state # "PIC_TAKING" /\ NoneAhead(i)'
  <2>1. CASE i = Len(api_queue) + 1
    BY <1>1, <1>3, <2>1
  <2>2. CASE i # Len(api_queue) + 1
    <3>1. i \in 1 .. Len(api_queue) /\ api_queue'[i] = api_queue[i]
          /\ \A j \in 1 .. i - 1 : api_queue'[j] = api_queue[j]
      BY <1>1, <1>3, <2>2
    <3> QED
      BY <1>3, <3>1 DEF StopsInTime, NoneAhead
  <2> QED
    BY <2>1, <2>2
<1> QED
  BY <1>2, <1>3 DEF StopsInTime

LEMMA SameStops ==
    ASSUME StopsInTime, api_queue' = api_queue, cur' = cur, hal'.m_state = hal.m_state,
           hal'.pic = hal.pic \/ hal.m_state # "PIC_TAKING"
    PROVE  StopsInTime'
BY DEF StopsInTime, StopCaptureIsForThisPicture, NoneAhead

\* What the other threads post as events is never STOP_CAPTURE_CHANNEL.
StopsAreApi == \A i \in 1 .. Len(evt_queue) : evt_queue[i].evt # "STOP_CAPTURE_CHANNEL"

LEMMA NextStopsAreApi ==
    ASSUME IInv, StopsAreApi, [Next]_vars PROVE StopsAreApi'
<1>1. TypeOK /\ hal \in Device /\ hal.pic \in 0 .. MaxPics - 1 /\ evt_queue \in Seq(Cmd)
  BY DEF IInv, TypeOK, Device
<1>2. CASE evt_queue' = evt_queue
  BY <1>2 DEF StopsAreApi
<1>3. ASSUME NEW e \in {"SNAPSHOT_DONE", "PREP_SNAPSHOT_DONE"}, NEW n \in 0 .. MaxPics - 1,
             evt_queue' = Append(evt_queue, Post(e, n))
      PROVE  StopsAreApi'
  <2>1. Post(e, n) \in Cmd /\ Post(e, n).evt = e
    BY PostCmd DEF Evt, PostedEvt
  <2> QED
    BY <1>1, <1>3, <2>1 DEF StopsAreApi
<1>4. CASE SnapshotDone \/ PrepSnapshotDone
  BY <1>1, <1>3, <1>4 DEF SnapshotDone, PrepSnapshotDone
<1>5. CASE Dequeue /\ evt_queue' = Tail(evt_queue) /\ evt_queue # <<>>
  BY <1>1, <1>5 DEF StopsAreApi
<1>6. CASE StateMachine
  <2>1. PICK h \in Device : evt_queue' = evt_queue
                            \/ evt_queue' = Append(evt_queue, Post("SNAPSHOT_DONE", h.pic))
    BY <1>6, StateMachineHandled DEF Handled
  <2>2. h.pic \in 0 .. MaxPics - 1
    BY DEF Device
  <2> QED
    BY <1>2, <1>3, <2>1, <2>2
<1> QED
  BY <1>2, <1>4, <1>5, <1>6
     DEF Next, Enter, WaitAPIResult, StopCapture, LiveSnapshotThread, Dequeue, vars

LEMMA DequeueStops ==
    ASSUME TypeOK, StopsInTime, StopsAreApi, Dequeue PROVE StopsInTime'
<1>1. hal' = hal /\ api_queue \in Seq(Cmd) /\ evt_queue \in Seq(Cmd)
  BY DEF Dequeue, TypeOK
<1>2. CASE api_queue = <<>>
  <2>1. api_queue' = <<>> /\ cur' = evt_queue[1] /\ 1 \in 1 .. Len(evt_queue)
    BY <1>1, <1>2 DEF Dequeue
  <2>2. cur'.evt # "STOP_CAPTURE_CHANNEL"
    BY <2>1 DEF StopsAreApi
  <2> QED
    BY <2>1, <2>2 DEF StopsInTime, StopCaptureIsForThisPicture
<1>3. CASE api_queue # <<>>
  <2>1. /\ cur' = api_queue[1] /\ 1 \in 1 .. Len(api_queue)
        /\ api_queue' = Tail(api_queue)
    BY <1>1, <1>3 DEF Dequeue
  <2>2. \A i \in 1 .. Len(api_queue') :
            i + 1 \in 1 .. Len(api_queue) /\ api_queue'[i] = api_queue[i + 1]
    BY <1>1, <1>3, <2>1
  <2>3. StopCaptureIsForThisPicture'
    BY <1>1, <2>1 DEF StopsInTime, StopCaptureIsForThisPicture
  <2>4. ASSUME NEW i \in 1 .. Len(api_queue'), NoneAhead(i + 1) PROVE NoneAhead(i)'
    <3>1. \A j \in 1 .. i : api_queue[j].evt \notin Asking
      BY <2>4 DEF NoneAhead
    <3>2. cur'.evt \notin Asking
      BY <2>1, <3>1
    <3>3. \A j \in 1 .. i - 1 :
              j \in 1 .. Len(api_queue') /\ j + 1 \in 1 .. i /\ api_queue'[j] = api_queue[j + 1]
      BY <2>2
    <3>4. \A j \in 1 .. i - 1 : api_queue'[j].evt \notin Asking
      BY <3>1, <3>3
    <3> QED
      BY <3>2, <3>4 DEF NoneAhead
  <2>5. ASSUME NEW i \in 1 .. Len(api_queue'), api_queue'[i].evt = "STOP_CAPTURE_CHANNEL"
        PROVE  \/ hal'.m_state = "PIC_TAKING" /\ api_queue'[i].pic = hal'.pic
               \/ hal'.m_state = "PREVIEW_STOPPED"
               \/ hal'.m_state # "PIC_TAKING" /\ NoneAhead(i)'
    <3>1. \/ hal.m_state = "PIC_TAKING" /\ api_queue[i + 1].pic = hal.pic
          \/ hal.m_state = "PREVIEW_STOPPED"
          \/ hal.m_state # "PIC_TAKING" /\ NoneAhead(i + 1)
      BY <2>2, <2>5 DEF StopsInTime
    <3> QED
      BY <1>1, <2>2, <2>4, <3>1
  <2> QED
    BY <2>3, <2>5 DEF StopsInTime
<1> QED
  BY <1>2, <1>3

LEMMA OnlyPicTaking ==
    ASSUME StateMachine, hal.m_state = "PIC_TAKING" PROVE PicTakingState
BY DEF StateMachine, PreviewStoppedState, PreviewReadyState, PreviewingState,
     PrepareSnapshotState, RecordingState, VideoPicTakingState, PreviewPicTakingState,
     StoppedSetWindow, StoppedSetParams, StoppedStartPreview, StoppedStartNoDisplay,
     StoppedRelease, StoppedCommand, StoppedNoOp, StoppedInvalid, StoppedSnapshotDone,
     StoppedIgnore, Stopped,
     ReadySetWindow, ReadySetParams, ReadyStopPreview, ReadyCommand, ReadyNoOp, ReadyInvalid,
     ReadySnapshotDone, ReadyIgnore, Ready,
     PreviewingSetParams, PreviewingStopPreview, PreviewingStartRecording,
     PreviewingPrepareSnapshot, PreviewingTakePicture, PreviewingCommand, PreviewingNoOp,
     PreviewingInvalid, PreviewingSnapshotDone, PreviewingIgnore, Previewing,
     PreparingInvalid, PreparingDone, PreparingSnapshotDone, PreparingIgnore, Preparing,
     RecordingSetParams, RecordingTakePicture, RecordingStopRecording, RecordingStopPreview,
     RecordingCommand, RecordingNoOp, RecordingInvalid, RecordingSnapshotDone,
     RecordingIgnore, Recording,
     VideoPicSetParams, VideoPicCancel, VideoPicStopRecording, VideoPicStopPreview,
     VideoPicCommand, VideoPicNoOp, VideoPicInvalid, VideoPicSnapshotDone, VideoPicIgnore,
     VideoPic,
     PreviewPicSetParams, PreviewPicCancel, PreviewPicStopPreview, PreviewPicStartRecording,
     PreviewPicLongshotOn, PreviewPicLongshotOff, PreviewPicTakePicture, PreviewPicNoOp,
     PreviewPicInvalid, PreviewPicSnapshotDone, PreviewPicIgnore, PreviewPic, Handling

LEMMA HandlerStops ==
    ASSUME NoFailures, Simple, OneCaller, IInv, IInv', FInv, OneCall, StopsInTime, StateMachine
    PROVE  StopsInTime'
<1>1. cur' = NoCmd /\ api_queue' = api_queue /\ NoCmd.evt = "none" /\ "none" \notin Asking
  <2>1. cur' = NoCmd /\ api_queue' = api_queue
    BY StateMachineHandled DEF Handled
  <2> QED
    BY <2>1, NoCmdCmd DEF Asking, ApiEvt, WindowEvts, CommandEvts
<1>2. StopCaptureIsForThisPicture'
  BY <1>1 DEF StopCaptureIsForThisPicture
<1>3. ASSUME NEW i \in 1 .. Len(api_queue),
             \A j \in 1 .. i - 1 : api_queue[j].evt \notin Asking
      PROVE  NoneAhead(i)'
  BY <1>1, <1>3 DEF NoneAhead
<1>4. ASSUME NEW i \in 1 .. Len(api_queue), api_queue[i].evt = "STOP_CAPTURE_CHANNEL"
      PROVE  \/ hal'.m_state = "PIC_TAKING" /\ api_queue[i].pic = hal'.pic
             \/ hal'.m_state = "PREVIEW_STOPPED"
             \/ hal'.m_state # "PIC_TAKING" /\ NoneAhead(i)'
  <2>1. \/ hal.m_state = "PIC_TAKING" /\ api_queue[i].pic = hal.pic
        \/ hal.m_state = "PREVIEW_STOPPED"
        \/ hal.m_state # "PIC_TAKING" /\ NoneAhead(i)
    BY <1>4 DEF StopsInTime
  <2>2. CASE hal.m_state = "PIC_TAKING" /\ api_queue[i].pic = hal.pic
    BY <2>2, OnlyPicTaking, PicTakingGoesOn
  <2>3. CASE hal.m_state = "PREVIEW_STOPPED"
    <3>1. CASE cur.evt \in Asking
      <4>1. \A j \in 1 .. i - 1 : j \in 1 .. Len(api_queue) /\ api_queue[j].evt \notin Asking
        <5>1. Len(api_queue) \in Nat
          BY DEF IInv, TypeOK
        <5>2. \A j \in 1 .. i - 1 : j \in 1 .. Len(api_queue)
          BY <5>1
        <5> QED
          BY <3>1, <5>2, OneAsked
      <4> QED
        BY <1>3, <2>3, <4>1, StoppedTakesNoPicture
    <3>2. CASE cur.evt \notin Asking
      BY <2>3, <3>2, EventsEnterNoPicture
    <3> QED
      BY <3>1, <3>2
  <2>4. CASE hal.m_state # "PIC_TAKING" /\ NoneAhead(i)
    BY <1>3, <2>4, EventsEnterNoPicture DEF NoneAhead
  <2> QED
    BY <2>1, <2>2, <2>3, <2>4
<1> QED
  BY <1>1, <1>2, <1>4 DEF StopsInTime

LEMMA NextStops ==
    ASSUME NoFailures, Simple, ZslUnused, OneCaller, IInv, IInv', FInv, OneCall, StopsAreApi,
           StopsInTime, [Next]_vars
    PROVE  StopsInTime'
<1>1. TypeOK /\ hal \in Device /\ hal.pic \in 0 .. MaxPics - 1
  BY DEF IInv, TypeOK, Device
<1>2. "STOP_CAPTURE_CHANNEL" \in Evt \ ApiEvt /\ {"TAKE_PICTURE", "CANCEL_PICTURE"} \subseteq ApiEvt
  BY DEF Evt, PostedEvt, ApiEvt, WindowEvts, CommandEvts
<1>3. ASSUME NEW e \in ApiEvt, NEW p \in Params PROVE ApiCmd(e, p) \in Cmd /\ ApiCmd(e, p).evt = e
  <2>1. 0 \in 0 .. MaxPics - 1
    BY DeviceAssumption
  <2> QED
    BY <2>1 DEF ApiCmd, Cmd, Evt
<1>4. NoParams \in Params
  BY DEF NoParams, Params
<1>5. ASSUME NEW c \in Caller, Enter(c) PROVE StopsInTime'
  <2>1. PICK e \in Calls :
            \E p \in IF e = "SET_PARAMS" THEN ParamValues ELSE {NoParams} :
                api_queue' = Append(api_queue, ApiCmd(e, p))
    BY <1>5 DEF Enter
  <2>2. PICK p \in Params : api_queue' = Append(api_queue, ApiCmd(e, p))
    BY <1>4, <2>1, StateMachineAssumption
  <2>3. e \in ApiEvt /\ e # "STOP_CAPTURE_CHANNEL"
    BY <1>2, StateMachineAssumption
  <2>4. ApiCmd(e, p) \in Cmd /\ ApiCmd(e, p).evt # "STOP_CAPTURE_CHANNEL"
    BY <1>3, <2>3
  <2> QED
    BY <1>1, <1>5, <2>2, <2>4, AppendStops DEF Enter
<1>6. ASSUME NEW c \in Caller, WaitAPIResult(c) PROVE StopsInTime'
  <2>1. CASE api_queue' = api_queue
    BY <1>6, <2>1, SameStops DEF WaitAPIResult
  <2>2. CASE api_queue' = Append(api_queue, ApiCmd("TAKE_PICTURE", NoParams))
    <3>1. ApiCmd("TAKE_PICTURE", NoParams) \in Cmd
          /\ ApiCmd("TAKE_PICTURE", NoParams).evt # "STOP_CAPTURE_CHANNEL"
      BY <1>2, <1>3, <1>4
    <3> QED
      BY <1>1, <1>6, <2>2, <3>1, AppendStops DEF WaitAPIResult
  <2> QED
    BY <1>6, <2>1, <2>2 DEF WaitAPIResult
<1>7. CASE SnapshotDone \/ PrepSnapshotDone
  <2>1. /\ api_queue' = api_queue /\ cur' = cur
        /\ hal'.m_state = hal.m_state /\ hal'.pic = hal.pic
    BY <1>1, <1>7 DEF SnapshotDone, PrepSnapshotDone, Device
  <2> QED
    BY <2>1, SameStops
<1>8. CASE StopCapture
  <2>1. /\ api_queue' = Append(api_queue, Post("STOP_CAPTURE_CHANNEL", hal.pic)) /\ cur' = cur
        /\ hal'.m_state = hal.m_state /\ hal'.pic = hal.pic
    BY <1>1, <1>8 DEF StopCapture, Device
  <2>2. /\ Post("STOP_CAPTURE_CHANNEL", hal.pic) \in Cmd
        /\ Post("STOP_CAPTURE_CHANNEL", hal.pic).pic = hal.pic
    BY <1>1, <1>2, PostCmd DEF Post
  <2>3. hal.m_state = "PIC_TAKING"
    BY <1>8, StopCaptureInPicture
  <2> DEFINE x == Post("STOP_CAPTURE_CHANNEL", hal.pic)
  <2>4. x \in Cmd /\ x.pic = hal.pic /\ api_queue' = Append(api_queue, x)
    BY <2>1, <2>2
  <2> HIDE DEF x
  <2> QED
    BY <1>1, <2>1, <2>3, <2>4, AppendStops
<1>9. CASE LiveSnapshotThread
  <2>1. hal.m_state = "VIDEO_PIC_TAKING" /\ ~hal.longshot /\ cur' = cur
    BY <1>9 DEF IInv, Good, LiveSnapshotThread, FInv, Fits, ModesFit
  <2>2. PICK o \in LiveSnapshot(hal) :
            /\ hal' = o.h
            /\ api_queue' = IF o.ok THEN api_queue
                            ELSE Append(api_queue, Post("CANCEL_PICTURE", hal.pic))
    BY <1>9 DEF LiveSnapshotThread
  <2>3. PICK v : Pictured(hal, o.h, v, {"SNAPSHOT"})
    BY <1>1, <2>1, <2>2, LiveSnapshotPictured
  <2>4. hal'.m_state = hal.m_state
    BY <2>2, <2>3 DEF Pictured, Same
  <2>5. CASE api_queue' = api_queue
    BY <2>1, <2>4, <2>5, SameStops
  <2>6. CASE api_queue' = Append(api_queue, Post("CANCEL_PICTURE", hal.pic))
    <3>1. /\ Post("CANCEL_PICTURE", hal.pic) \in Cmd
          /\ Post("CANCEL_PICTURE", hal.pic).evt = "CANCEL_PICTURE"
      BY <1>1, <1>2, PostCmd DEF Evt
    <3> QED
      BY <1>1, <2>1, <2>4, <2>6, <3>1, AppendStops
  <2> QED
    BY <2>2, <2>5, <2>6
<1>10. CASE Dequeue
  BY <1>1, <1>10, DequeueStops
<1>11. CASE StateMachine
  BY <1>11, HandlerStops
<1>12. CASE UNCHANGED vars
  BY <1>12, SameStops DEF vars
<1> QED
  BY <1>5, <1>6, <1>7, <1>8, <1>9, <1>10, <1>11, <1>12 DEF Next

\* A capture channel that the postprocessor asked to be stopped is that of
\* the picture the request was for, when one thread calls the camera.  With a
\* second one it is not: when the picture ends before the request is handled,
\* START_PREVIEW and TAKE_PICTURE of the two may be queued ahead of it.
THEOREM StopCaptureHitsItsPicture ==
    ASSUME NoFailures, NoLongshot, Simple, ZslUnused, OneCaller
    PROVE  Spec => []StopCaptureIsForThisPicture
<1> DEFINE SInv == EvtsPosted /\ OneCall /\ StopsAreApi /\ StopsInTime
<1>1. Init => SInv
  <2> SUFFICES ASSUME Init PROVE SInv
    OBVIOUS
  <2>1. EvtsPosted /\ OneCall
    BY InitApi, InitOneCall
  <2>2. cur.evt = "none" /\ api_queue = <<>> /\ evt_queue = <<>>
    BY NoCmdCmd DEF Init
  <2> QED
    BY <2>1, <2>2 DEF StopsAreApi, StopsInTime, StopCaptureIsForThisPicture
<1>2. IInv /\ IInv' /\ FInv /\ SInv /\ [Next]_vars => SInv'
  <2> SUFFICES ASSUME IInv, IInv', FInv, SInv, [Next]_vars PROVE SInv'
    OBVIOUS
  <2>1. EvtsPosted' /\ StopsAreApi' /\ StopsInTime'
    BY NextPosted, NextStopsAreApi, NextStops
  <2>2. [Api!Next]_(Api!vars)
    BY NextApi
  <2>3. OneCall'
    BY <2>2, NextOneCall
  <2> QED
    BY <2>1, <2>3
<1>3. SInv => StopCaptureIsForThisPicture
  BY DEF StopsInTime
<1>4. Spec => []FInv
  BY FitsAlways
<1> QED
  BY <1>1, <1>2, <1>3, <1>4, Invariance, PTL DEF Spec

====
