------------------------------- MODULE PostProc -------------------------------
(* The postprocessor of the camera HAL.  Super buffers of the capture channel *)
(* go to the reprocess channel (inputPPQ, ongoingPPQ), to the encoder         *)
(* (inputJpegQ, ongoingJpegQ) or as they are to the application (inputRawQ);  *)
(* the data thread moves them on, one job command at a time.  The reprocess   *)
(* channel's callback, the encoder's events (handled by the state machine's   *)
(* thread) and a stop take them from the queues again.                        *)

EXTENDS Queues

CONSTANTS
    Pic,        \* super buffers of the capture channel, each comes once
    NoPic,      \* no super buffer
    PpModes,    \* how a run works on them: to the reprocess channel and the
                \* encoder, to the encoder, or raw to the application, outside
                \* ZSL, in ZSL, or from the reprocess channel
    NReproc,    \* buffers of the reprocess channel's stream
    MaxRuns,    \* bound on starts
    PpMayFail   \* may the encoder, the reprocess channel or memory fail

ASSUME PostProcAssumption ==
    /\ IsFiniteSet(Pic) /\ NoPic \notin Pic
    /\ PpModes \subseteq {"reproc", "jpeg", "raw", "zsl_raw", "reproc_raw"}
    /\ NReproc \in Nat /\ MaxRuns \in Nat /\ PpMayFail \in BOOLEAN

VARIABLES
    pq,         \* the queues
    pt,         \* dataProcessRoutine and its commands
    ext,        \* reprocess channel, encoder, events, notifier
    hal,        \* the state machine's thread: starts, stops
    freed,      \* how often each super buffer was released
    mishap      \* history: what the code did with the ones it does not release once

ppVars == <<pq, pt, ext, hal, freed, mishap>>

\* "nomem": the callback returned NO_MEMORY, and nobody frees its frame;
\* "kept": a raw frame was done with NO_ERROR and without a release;
\* "twice": a refused notification and the error path both released it.
Mishaps == {"none", "nomem", "kept", "twice"}

\* A job in ongoingJpegQ has its jobId only when start_job has returned.
JpegJob == [pic : Pic, known : BOOLEAN]

\* A raw frame is a super buffer, or what the reprocess channel made of one.
RawFrame == [pic : Pic, reproc : BOOLEAN]

PpInit ==
    /\ pq = [inputPPQ |-> <<>>, ongoingPPQ |-> <<>>, inputJpegQ |-> <<>>,
             ongoingJpegQ |-> <<>>, inputRawQ |-> <<>>]
    /\ pt = [pc |-> "cmd", is_active |-> FALSE, cmds |-> <<>>, pic |-> NoPic]
    /\ ext = [open |-> FALSE, reproc |-> <<>>, outputs |-> {}, encoder |-> {},
              evts |-> <<>>, notifier |-> {}]
    /\ hal = [pc |-> "stopped", mode |-> "jpeg", longshot |-> FALSE, runs |-> 0,
              channel |-> FALSE, came |-> {}]
    /\ freed = [p \in Pic |-> 0]
    /\ mishap = [p \in Pic |-> "none"]

-----------------------------------------------------------------------------
(* Helpers.                                                                *)

Elems(q) == {q[i] : i \in DOMAIN q}
AllButLast(q) == SubSeq(q, 1, Len(q) - 1)
WakeDataThread == [pt EXCEPT !.cmds = Append(@, "JOB")]
PtGoto(pc) == [pt EXCEPT !.pc = pc]
FreeAll(S) == freed' = [p \in Pic |-> freed[p] + (IF p \in S THEN 1 ELSE 0)]
Source(p) == [pic |-> p, reproc |-> FALSE]
ReprocFrame(p) == [pic |-> p, reproc |-> TRUE]
SourcesIn(F) == {p \in Pic : Source(p) \in F}
Reprocesses == hal.mode \in {"reproc", "reproc_raw"}

\* Buffers the reprocess channel still has to write to.
NumQueuedBuf == NReproc - Cardinality(ext.outputs)

-----------------------------------------------------------------------------
(* Frames come in.                                                         *)

\* processData, from the callback of the capture or ZSL channel.  A frame for
\* the encoder needs memory for its job; nobody looks at the NO_MEMORY.
ProcessFrame(p) ==
    /\ hal.channel /\ p \notin hal.came
    /\ hal' = [hal EXCEPT !.came = @ \cup {p}]
    /\ \/ /\ pq' = CASE Reprocesses -> [pq EXCEPT !.inputPPQ = Append(@, p)]
                    [] hal.mode \in {"raw", "zsl_raw"} ->
                           [pq EXCEPT !.inputRawQ = Append(@, Source(p))]
                    [] hal.mode = "jpeg" -> [pq EXCEPT !.inputJpegQ = Append(@, p)]
          /\ pt' = WakeDataThread
          /\ UNCHANGED mishap
       \/ /\ PpMayFail /\ hal.mode = "jpeg"
          /\ mishap' = [mishap EXCEPT ![p] = "nomem"]
          /\ UNCHANGED <<pq, pt>>
    /\ UNCHANGED <<ext, freed>>

\* processPPData, from the callback of the reprocess channel: the first job of
\* ongoingPPQ is taken to be the frame's.  A raw frame replaces its source,
\* which is released; a frame for the encoder needs memory again, and without
\* it the frame and its source are left to nobody.
ProcessPPData ==
    /\ ext.open /\ ext.reproc # <<>> /\ pq.ongoingPPQ # <<>>
    /\ LET p == Head(pq.ongoingPPQ) IN
        \/ /\ hal.mode = "reproc_raw"
           /\ pq' = [pq EXCEPT !.ongoingPPQ = Tail(@),
                               !.inputRawQ = Append(@, ReprocFrame(p))]
           /\ pt' = WakeDataThread /\ FreeAll({p}) /\ UNCHANGED mishap
        \/ /\ hal.mode # "reproc_raw"
           /\ pq' = [pq EXCEPT !.ongoingPPQ = Tail(@), !.inputJpegQ = Append(@, p)]
           /\ pt' = WakeDataThread /\ UNCHANGED <<freed, mishap>>
        \/ /\ PpMayFail /\ hal.mode # "reproc_raw"
           /\ pq' = [pq EXCEPT !.ongoingPPQ = Tail(@)]
           /\ mishap' = [mishap EXCEPT ![p] = "nomem"]
           /\ UNCHANGED <<pt, freed>>
    /\ ext' = [ext EXCEPT !.reproc = Tail(@), !.outputs = @ \cup {Head(ext.reproc)}]
    /\ UNCHANGED hal

-----------------------------------------------------------------------------
(* dataProcessRoutine.                                                     *)

TakeCmd(c) == pt.pc = "cmd" /\ pt.cmds # <<>> /\ Head(pt.cmds) = c

StartProc ==
    /\ TakeCmd("START")
    /\ pt' = [pt EXCEPT !.cmds = Tail(@), !.is_active = TRUE]
    /\ hal' = [hal EXCEPT !.pc = "started"]
    /\ UNCHANGED <<pq, ext, freed, mishap>>

StopProc ==
    /\ TakeCmd("STOP")
    /\ pt' = [pt EXCEPT !.cmds = Tail(@), !.is_active = FALSE, !.pc = "abort"]
    /\ UNCHANGED <<pq, ext, hal, freed, mishap>>

\* Jobs of the encoder are aborted and released one by one,
AbortJob ==
    /\ pt.pc = "abort" /\ pq.ongoingJpegQ # <<>>
    /\ LET p == Head(pq.ongoingJpegQ).pic IN
        /\ ext' = [ext EXCEPT !.encoder = @ \ {p}, !.outputs = @ \ {p}]
        /\ FreeAll({p})
    /\ pq' = [pq EXCEPT !.ongoingJpegQ = Tail(@)]
    /\ UNCHANGED <<pt, hal, mishap>>

\* the reprocess channel is stopped and deleted,
StopReproc ==
    /\ pt.pc = "abort" /\ pq.ongoingJpegQ = <<>>
    /\ ext' = [ext EXCEPT !.open = FALSE, !.reproc = <<>>, !.outputs = {}]
    /\ pt' = PtGoto("flush")
    /\ UNCHANGED <<pq, hal, freed, mishap>>

\* mutant: the jobs at the reprocess channel stay.
FlushInputs ==
    /\ pt.pc = "flush"
    /\ FreeAll(Elems(pq.inputJpegQ) \cup Elems(pq.inputPPQ) \cup SourcesIn(Elems(pq.inputRawQ)))
    /\ pq' = [pq EXCEPT !.inputJpegQ = <<>>, !.inputPPQ = <<>>, !.inputRawQ = <<>>]
    /\ pt' = PtGoto("cmd")
    /\ hal' = [hal EXCEPT !.pc = "stopped"]
    /\ UNCHANGED <<ext, mishap>>

\* the queues are flushed, and the stop is answered.
FlushQueues ==
    /\ pt.pc = "flush"
    /\ FreeAll(Elems(pq.ongoingPPQ) \cup Elems(pq.inputJpegQ) \cup Elems(pq.inputPPQ)
                \cup SourcesIn(Elems(pq.inputRawQ)))
    /\ pq' = [q \in DOMAIN pq |-> <<>>]
    /\ pt' = PtGoto("cmd")
    /\ hal' = [hal EXCEPT !.pc = "stopped"]
    /\ UNCHANGED <<ext, mishap>>

\* A job command while inactive drops one element of each input queue.
FirstOf(q) == IF q = <<>> THEN {} ELSE {Head(q)}
RestOf(q) == IF q = <<>> THEN <<>> ELSE Tail(q)

\* mutant: what waits for the reprocess channel is not dropped.
DropJpegAndRaw ==
    /\ TakeCmd("JOB") /\ ~pt.is_active
    /\ FreeAll(FirstOf(pq.inputJpegQ) \cup SourcesIn(FirstOf(pq.inputRawQ)))
    /\ pq' = [pq EXCEPT !.inputJpegQ = RestOf(@), !.inputRawQ = RestOf(@)]
    /\ pt' = [pt EXCEPT !.cmds = Tail(@)]
    /\ UNCHANGED <<ext, hal, mishap>>

DropJobs ==
    /\ TakeCmd("JOB") /\ ~pt.is_active
    /\ FreeAll(FirstOf(pq.inputJpegQ) \cup SourcesIn(FirstOf(pq.inputRawQ))
                \cup FirstOf(pq.inputPPQ))
    /\ pq' = [pq EXCEPT !.inputJpegQ = RestOf(@), !.inputRawQ = RestOf(@),
                        !.inputPPQ = RestOf(@)]
    /\ pt' = [pt EXCEPT !.cmds = Tail(@)]
    /\ UNCHANGED <<ext, hal, mishap>>

\* While active: first a picture to encode, which is ongoing before its job
\* is started,
NextJpeg ==
    /\ TakeCmd("JOB") /\ pt.is_active
    /\ IF pq.inputJpegQ = <<>>
       THEN pt' = [pt EXCEPT !.cmds = Tail(@), !.pc = "raw"] /\ UNCHANGED pq
       ELSE LET p == Head(pq.inputJpegQ) IN
            /\ pq' = [pq EXCEPT !.inputJpegQ = Tail(@),
                         !.ongoingJpegQ = Append(@, [pic |-> p, known |-> FALSE])]
            /\ pt' = [pt EXCEPT !.cmds = Tail(@), !.pc = "encode", !.pic = p]
    /\ UNCHANGED <<ext, hal, freed, mishap>>

EncodeData ==
    /\ pt.pc = "encode"
    /\ ext' = [ext EXCEPT !.encoder = @ \cup {pt.pic}]
    /\ pt' = PtGoto("jobId")
    /\ UNCHANGED <<pq, hal, freed, mishap>>

\* mutant: a job that did not start stays in ongoingJpegQ.
EncodeFailsOngoing ==
    /\ PpMayFail /\ pt.pc = "encode"
    /\ ext' = [ext EXCEPT !.outputs = @ \ {pt.pic}]
    /\ FreeAll({pt.pic})
    /\ pt' = [pt EXCEPT !.pc = "raw", !.pic = NoPic]
    /\ UNCHANGED <<pq, hal, mishap>>

EncodeFails ==
    /\ PpMayFail /\ pt.pc = "encode"
    /\ pq' = [pq EXCEPT !.ongoingJpegQ = AllButLast(@)]
    /\ ext' = [ext EXCEPT !.outputs = @ \ {pt.pic}]
    /\ FreeAll({pt.pic})
    /\ pt' = [pt EXCEPT !.pc = "raw", !.pic = NoPic]
    /\ UNCHANGED <<hal, mishap>>

\* the job's id is remembered, unless its event was handled meanwhile,
RememberJobId ==
    /\ pt.pc = "jobId"
    /\ pq' = [pq EXCEPT !.ongoingJpegQ =
                 [i \in DOMAIN @ |-> IF @[i].pic = pt.pic THEN [@[i] EXCEPT !.known = TRUE]
                                     ELSE @[i]]]
    /\ pt' = [pt EXCEPT !.pc = "raw", !.pic = NoPic]
    /\ UNCHANGED <<ext, hal, freed, mishap>>

\* then a raw picture for the application.  Only in ZSL, and of the ZSL channel,
\* is the frame handed to the notifier, if the application takes pictures;
RawHandedOver(f) ==
    /\ hal.mode = "zsl_raw" /\ ~f.reproc
    /\ ext' = [ext EXCEPT !.notifier = @ \cup {f.pic}]
    /\ UNCHANGED <<freed, mishap>>

\* otherwise its memory is, or is released, and the frame left to nobody.
RawKept(f) ==
    /\ mishap' = IF f.reproc THEN mishap ELSE [mishap EXCEPT ![f.pic] = "kept"]
    /\ UNCHANGED <<ext, freed>>

\* An error releases the frame,
RawFails(f) ==
    /\ PpMayFail
    /\ FreeAll(SourcesIn({f}))
    /\ ext' = IF f.reproc THEN [ext EXCEPT !.outputs = @ \ {f.pic}] ELSE ext
    /\ UNCHANGED mishap

\* after the notifier's refusal a second time.
RawRefused(f) ==
    /\ PpMayFail /\ hal.mode = "zsl_raw" /\ ~f.reproc
    /\ freed' = [freed EXCEPT ![f.pic] = @ + 2]
    /\ mishap' = [mishap EXCEPT ![f.pic] = "twice"]
    /\ UNCHANGED ext

NextRaw ==
    /\ pt.pc = "raw"
    /\ pt' = PtGoto("pp")
    /\ pq' = [pq EXCEPT !.inputRawQ = RestOf(@)]
    /\ IF pq.inputRawQ = <<>>
       THEN UNCHANGED <<ext, freed, mishap>>
       ELSE LET f == Head(pq.inputRawQ)
            IN  RawHandedOver(f) \/ RawKept(f) \/ RawFails(f) \/ RawRefused(f)
    /\ UNCHANGED hal

\* then one for the reprocess channel.  In longshot mode it stays in the queue
\* while more are ongoing than the channel has buffers.
Held == hal.longshot /\ Len(pq.ongoingPPQ) >= NumQueuedBuf

NextPP ==
    /\ pt.pc = "pp"
    /\ IF pq.inputPPQ = <<>> \/ Held
       THEN pt' = PtGoto("cmd") /\ UNCHANGED <<pq, freed>>
       ELSE LET p == Head(pq.inputPPQ) IN
            IF ext.open
            THEN /\ pq' = [pq EXCEPT !.inputPPQ = Tail(@), !.ongoingPPQ = Append(@, p)]
                 /\ pt' = [pt EXCEPT !.pc = "reproc", !.pic = p]
                 /\ UNCHANGED freed
            ELSE /\ pq' = [pq EXCEPT !.inputPPQ = Tail(@)]
                 /\ pt' = PtGoto("cmd")
                 /\ FreeAll({p})
    /\ UNCHANGED <<ext, hal, mishap>>

Reprocess ==
    /\ pt.pc = "reproc"
    /\ ext' = [ext EXCEPT !.reproc = Append(@, pt.pic)]
    /\ pt' = [pt EXCEPT !.pc = "cmd", !.pic = NoPic]
    /\ UNCHANGED <<pq, hal, freed, mishap>>

\* mutant: the first job, not the last, is taken out again.
ReprocessFailsFirst ==
    /\ PpMayFail /\ pt.pc = "reproc"
    /\ pq' = [pq EXCEPT !.ongoingPPQ = Tail(@)]
    /\ FreeAll({pt.pic})
    /\ pt' = [pt EXCEPT !.pc = "cmd", !.pic = NoPic]
    /\ UNCHANGED <<ext, hal, mishap>>

ReprocessFails ==
    /\ PpMayFail /\ pt.pc = "reproc"
    /\ pq' = [pq EXCEPT !.ongoingPPQ = AllButLast(@)]
    /\ FreeAll({pt.pic})
    /\ pt' = [pt EXCEPT !.pc = "cmd", !.pic = NoPic]
    /\ UNCHANGED <<ext, hal, mishap>>

DataThread ==
    \/ StartProc \/ StopProc \/ AbortJob \/ StopReproc \/ FlushQueues \/ DropJobs
    \/ NextJpeg \/ EncodeData \/ EncodeFails \/ RememberJobId \/ NextRaw \/ NextPP
    \/ Reprocess \/ ReprocessFails

-----------------------------------------------------------------------------
(* The encoder, the notifier and the state machine's thread.               *)

\* jpegEvtHandle: the encoder's callback gives the event to the state machine.
JpegDone ==
    /\ \E p \in ext.encoder :
        ext' = [ext EXCEPT !.encoder = @ \ {p}, !.evts = Append(@, p)]
    /\ UNCHANGED <<pq, pt, hal, freed, mishap>>

\* processJpegEvt: the job of that id is released, if it has its id by now.
ProcessJpegEvt ==
    /\ ext.evts # <<>> /\ hal.pc # "stopping"
    /\ LET p == Head(ext.evts)
           match(j) == j.pic = p /\ j.known
           hit == {j \in Elems(pq.ongoingJpegQ) : match(j)}
           rest == {i \in DOMAIN pq.ongoingJpegQ : ~match(pq.ongoingJpegQ[i])}
       IN  /\ pq' = [pq EXCEPT !.ongoingJpegQ = Kept(@, rest)]
           /\ FreeAll({j.pic : j \in hit})
           /\ ext' = [ext EXCEPT !.evts = Tail(@), !.outputs = @ \ {j.pic : j \in hit}]
    /\ pt' = WakeDataThread
    /\ UNCHANGED <<hal, mishap>>

\* A raw picture's callback returns, or it is flushed there.
NotifierReleases ==
    /\ \E p \in ext.notifier :
        /\ ext' = [ext EXCEPT !.notifier = @ \ {p}]
        /\ FreeAll({p})
    /\ UNCHANGED <<pq, pt, hal, mishap>>

\* start, with a reprocess channel if the mode needs it; the caller waits.
StartPp ==
    /\ hal.pc = "stopped" /\ ~hal.channel /\ hal.runs < MaxRuns
    /\ \E m \in PpModes, l \in BOOLEAN :
        /\ hal' = [hal EXCEPT !.pc = "starting", !.mode = m, !.longshot = l,
                      !.runs = @ + 1, !.channel = TRUE]
        /\ ext' = [ext EXCEPT !.open = m \in {"reproc", "reproc_raw"}]
    /\ pt' = [pt EXCEPT !.cmds = Append(@, "START")]
    /\ UNCHANGED <<pq, freed, mishap>>

\* stop goes to the head of the queue; the caller waits.
StopPp ==
    /\ hal.pc = "started"
    /\ hal' = [hal EXCEPT !.pc = "stopping"]
    /\ pt' = [pt EXCEPT !.cmds = <<"STOP">> \o @]
    /\ UNCHANGED <<pq, ext, freed, mishap>>

\* Then the channel is stopped, too.
StopSource ==
    /\ hal.pc = "stopped" /\ hal.channel
    /\ hal' = [hal EXCEPT !.channel = FALSE]
    /\ UNCHANGED <<pq, pt, ext, freed, mishap>>

PpNext ==
    \/ \E p \in Pic : ProcessFrame(p)
    \/ ProcessPPData \/ DataThread \/ JpegDone \/ ProcessJpegEvt \/ NotifierReleases
    \/ StartPp \/ StopPp \/ StopSource

PpSpec == PpInit /\ [][PpNext]_ppVars

-----------------------------------------------------------------------------
(* Properties.                                                             *)

\* Types of the queues, the thread and the others.
PpTypeOK ==
    /\ \A q \in {"inputPPQ", "ongoingPPQ", "inputJpegQ"} : pq[q] \in Seq(Pic)
    /\ pq.ongoingJpegQ \in Seq(JpegJob) /\ pq.inputRawQ \in Seq(RawFrame)
    /\ pt \in [pc : {"cmd", "abort", "flush", "encode", "jobId", "raw", "pp", "reproc"},
               is_active : BOOLEAN, cmds : Seq({"JOB", "START", "STOP"}),
               pic : Pic \cup {NoPic}]
    /\ ext \in [open : BOOLEAN, reproc : Seq(Pic), outputs : SUBSET Pic,
                encoder : SUBSET Pic, evts : Seq(Pic), notifier : SUBSET Pic]
    /\ hal.pc \in {"stopped", "starting", "started", "stopping"}
    /\ freed \in [Pic -> 0 .. 2] /\ mishap \in [Pic -> Mishaps]

Times(p, q) == Cardinality({i \in DOMAIN q : q[i] = p})

\* How many of the queues, and the notifier, have the super buffer.
Places(p) ==
    Times(p, pq.inputPPQ) + Times(p, pq.ongoingPPQ) + Times(p, pq.inputJpegQ)
    + Cardinality({i \in DOMAIN pq.ongoingJpegQ : pq.ongoingJpegQ[i].pic = p})
    + Times(Source(p), pq.inputRawQ) + (IF p \in ext.notifier THEN 1 ELSE 0)

\* Where and how often a super buffer is to be found, in a place or released.
Due(p) == CASE mishap[p] = "none" -> IF p \in hal.came THEN 1 ELSE 0
            [] mishap[p] \in {"nomem", "kept"} -> 0
            [] mishap[p] = "twice" -> 2

\* A super buffer that has come is in one place until it is released, once:
\* no abort, stop, event or failure of the encoder or the reprocess channel
\* loses it or releases it again.  What processRawImageImpl keeps, a callback
\* without memory drops and a refused raw frame gets released is that, to the
\* end: it comes back nowhere.
PicInOnePlace ==
    \A p \in Pic : /\ Places(p) + freed[p] = Due(p)
                   /\ mishap[p] = "twice" => freed[p] = 2

\* The jobs of ongoingPPQ are those at the reprocess channel, in its order:
\* the frame it returns is joined to its own source.
ReprocInOrder ==
    pt.pc \notin {"reproc", "flush"} => pq.ongoingPPQ = ext.reproc

\* Once stop has returned nothing is ongoing: the encoder has no job and the
\* reprocess channel no frame, so the sources' buffers may be unmapped.
NothingOngoing ==
    hal.pc = "stopped" =>
        /\ pq.ongoingPPQ = <<>> /\ pq.ongoingJpegQ = <<>>
        /\ ext.encoder = {} /\ ext.reproc = <<>> /\ ~ext.open

\* What has come when a stop begins is released in the end, and so is what
\* comes between the stop and the end of the channel, but for the frames that
\* the code had left to nobody before.
StopReleases ==
    \A p \in Pic :
        []<>(p \in hal.came /\ hal.pc \in {"stopping", "stopped"}
             => freed[p] # 0 \/ mishap[p] \in {"nomem", "kept"})

\* A super buffer is in one place until its release, and none is ongoing once
\* the postprocessor has stopped.
PicsAccounted == PicInOnePlace /\ NothingOngoing

\* raw_stream_cb_routine: a raw frame goes back to the kernel and is freed after
\* use.  Once the postprocessor has stopped and its queues and the notifier
\* are empty, nothing uses it any more.  The code refutes this.
RawFramesReturned ==
    /\ hal.pc = "stopped" /\ ext.notifier = {}
    /\ \A q \in DOMAIN pq : pq[q] = <<>>
    => \A p \in hal.came : freed[p] = 1
=============================================================================
