------------------------------ MODULE MCCamera ------------------------------
(* The parts of the camera stack that share no variable, in one run: TLC   *)
(* explores each of them for itself, from the initial states of that part. *)

EXTENDS MmStream, MmCamera, CbNotifier, DeferredWork, PostProc,
        MmJpeg

VARIABLE part    \* the part this behaviour runs; the others stay where they began

KindOf == [n \in Note |-> IF n = 3 THEN "video" ELSE "snapshot"]

Init == /\ part \in {"stream", "camera", "notifier", "deferred", "postproc",
                 "jpeg"}
        /\ MsInit /\ McInit /\ CbInit /\ DwInit /\ PpInit /\ MjInit
        /\ part # "stream" => ms.previewSkipCnt = 0

partVars == <<part, msVars, mcVars, cbVars, dwVars, ppVars, mjVars>>

InStream   == part = "stream"   /\ UNCHANGED <<part, mcVars, cbVars, dwVars, ppVars, mjVars>>
InCamera   == part = "camera"   /\ UNCHANGED <<part, msVars, cbVars, dwVars, ppVars, mjVars>>
InNotifier == part = "notifier" /\ UNCHANGED <<part, msVars, mcVars, dwVars, ppVars, mjVars>>
InDeferred == part = "deferred" /\ UNCHANGED <<part, msVars, mcVars, cbVars, ppVars, mjVars>>
InPostProc == part = "postproc" /\ UNCHANGED <<part, msVars, mcVars, cbVars, dwVars, mjVars>>
InJpeg     == part = "jpeg"     /\ UNCHANGED <<part, msVars, mcVars, cbVars, dwVars, ppVars>>

Next ==
    \/ InStream /\ MsNext
    \/ InCamera /\ McNext
    \/ InNotifier /\ CbNext
    \/ InDeferred /\ DwNext
    \/ InPostProc /\ PpNext
    \/ InJpeg /\ MjNext

Spec == Init /\ [][Next]_partVars

\* The fairness of the parts, one thread of each part at a time: since a
\* behaviour stays in its part, a disjunction over the parts is as fair to
\* the thread of that part as the thread alone.  User = Sender here.
FairSpec ==
    /\ Spec
    /\ WF_partVars(\/ InStream /\ ProgressOf("poll")
                   \/ InCamera /\ EventNotify
                   \/ InNotifier /\ NotifierThread
                   \/ InDeferred /\ Worker
                   \/ InPostProc /\ DataThread
                   \/ InJpeg /\ JobMgr)
    /\ WF_partVars(\/ InStream /\ ProgressOf("app")
                   \/ InNotifier /\ Destroy
                   \/ InDeferred /\ HwiStep
                   \/ InPostProc /\ NotifierReleases
                   \/ InJpeg /\ OmxThread)
    /\ WF_partVars(\/ InStream /\ ProgressOf("control")
                   \/ InDeferred /\ FrameStep
                   \/ InJpeg /\ Client)
    /\ \A t \in User : /\ WF_partVars(\/ InCamera /\ WorkStep(t)
                                      \/ InNotifier /\ CbFair(t))
                       /\ SF_partVars(InCamera /\ LockStep(t))
\* Types of the six parts.
CameraTypeOK ==
    MsTypeOK /\ McTypeOK /\ CbTypeOK /\ DwTypeOK /\ PpTypeOK /\ MjTypeOK

\* Stops, calls of the interface, notifications, waits for deferred work, the
\* release of pictures and JPEG jobs end.
CameraCallsEnd ==
    /\ StopEnds /\ IntfCallReturns /\ NoteEnds
    /\ DeferredWaitEnds /\ StopReleases /\ JpegJobEnds
=============================================================================
