-------------------------------- MODULE MmJpeg --------------------------------
(* Encoding in mm-jpeg-interface.  A client (the data thread of PostProc)     *)
(* creates a session, starts jobs and, to stop, aborts each job it still      *)
(* waits for and destroys the session.  The job manager's thread gives a job  *)
(* to a free OMX session; the OMX component answers from a thread of its own. *)
(* A burst session is a chain of two OMX sessions that share the queues of    *)
(* free sessions and of free output buffers.                                  *)

EXTENDS Queues

CONSTANTS
    Job,         \* jobs, each started at most once
    NoJpeg,       \* no job
    Burst,       \* params.burst_mode (property persist.camera.jpeg_burst)
    MaxSessions, \* bound on mm_jpeg_create_session
    MjMayFail    \* may an encode fail, when submitted or later

ASSUME MmJpegAssumption ==
    /\ IsFiniteSet(Job) /\ NoJpeg \notin Job
    /\ Burst \in BOOLEAN /\ MaxSessions \in Nat /\ MjMayFail \in BOOLEAN

VARIABLES
    mj,     \* mm_jpeg_obj with the queues of the session
    jmgr,   \* the job manager's thread
    ses,    \* the OMX sessions of the chain
    jhal,   \* the client's thread
    called, \* how often jpeg_cb was called for each job
    gone,   \* jobs whose abort or destroy has returned before an answer
    astray  \* history: an abort's wait ended with no answer, or the component
            \* reported an error of a job that was failing at its submission

mjVars == <<mj, jmgr, ses, jhal, called, gone, astray>>

\* NUM_OMX_SESSIONS or MM_JPEG_CONCURRENT_SESSIONS_COUNT; num_dst_bufs is the
\* same number.
Chain == IF Burst THEN {1, 2} ELSE {1}
OutBuf == Chain
NUM_MAX_JPEG_CNCURRENT_JOBS == 2

ChainSeq == IF Burst THEN <<1, 2>> ELSE <<1>>
NewSession == [lock |-> FALSE, abort_state |-> "NONE", encoding |-> FALSE,
               jobId |-> NoJpeg, dst_index |-> 1, auto_out_buf |-> FALSE,
               omx |-> "idle", done |-> "no", by |-> "omx"]

MjInit ==
    /\ mj = [job_queue |-> <<>>, ongoing_job_q |-> {}, job_sem |-> 0,
             job_lock |-> "free", session_handle_q |-> <<>>,
             out_buf_q |-> <<>>, active |-> FALSE, sessions |-> 0]
    /\ jmgr = [pc |-> "wait", job |-> NoJpeg, s |-> 1, dst_index |-> 1]
    /\ ses = [s \in Chain |-> NewSession]
    /\ jhal = [pc |-> "idle", call |-> "abort", s |-> 1, ongoing |-> <<>>]
    /\ called = [j \in Job |-> 0]
    /\ gone = {}
    /\ astray = FALSE

Listed(q) == {q[i] : i \in DOMAIN q}
\* mm_jpeg_queue_remove_job_by_job_id.
WithoutJob(q, j) == Kept(q, {i \in DOMAIN q : q[i] # j})

Unheld(s) == ~ses[s].lock
Calls(j) == called' = [called EXCEPT ![j] = @ + 1]

-----------------------------------------------------------------------------
(* The client: one call at a time, under g_intf_lock.                      *)

CreateSession ==
    /\ jhal.pc = "idle" /\ ~mj.active /\ mj.sessions < MaxSessions
    /\ mj' = [mj EXCEPT !.active = TRUE, !.sessions = @ + 1,
                        !.session_handle_q = ChainSeq, !.out_buf_q = ChainSeq]
    /\ ses' = [s \in Chain |-> NewSession]
    /\ UNCHANGED <<jmgr, jhal, called, gone, astray>>

\* The postprocessor keeps a started job in ongoingJpegQ ...
StartJob(j) ==
    /\ jhal.pc = "idle" /\ mj.active
    /\ called[j] = 0 /\ j \notin gone /\ j \notin Listed(jhal.ongoing)
    /\ mj' = [mj EXCEPT !.job_queue = Append(@, j), !.job_sem = @ + 1]
    /\ jhal' = [jhal EXCEPT !.ongoing = Append(@, j)]
    /\ UNCHANGED <<jmgr, ses, called, gone, astray>>

\* ... until it handles the event its callback made.
TakeJpegEvt(j) ==
    /\ jhal.pc = "idle" /\ called[j] > 0 /\ j \in Listed(jhal.ongoing)
    /\ jhal' = [jhal EXCEPT !.ongoing = WithoutJob(@, j)]
    /\ UNCHANGED <<mj, jmgr, ses, called, gone, astray>>

StopJpeg ==
    /\ jhal.pc = "idle" /\ mj.active
    /\ jhal' = [jhal EXCEPT !.pc = "stop"]
    /\ UNCHANGED <<mj, jmgr, ses, called, gone, astray>>

\* mm_jpeg_abort_job: a job that runs is aborted by way of the first session
\* of the chain, whichever of them it runs on.
AbortJpegJob ==
    /\ jhal.pc = "stop" /\ jhal.ongoing # <<>> /\ mj.job_lock = "free"
    /\ LET j == Head(jhal.ongoing)
           next == [jhal EXCEPT !.ongoing = Tail(@)]
       IN  \/ /\ j \in Listed(mj.job_queue)
              /\ mj' = [mj EXCEPT !.job_queue = WithoutJob(@, j)]
              /\ gone' = gone \cup {j}
              /\ jhal' = next
           \/ /\ j \in mj.ongoing_job_q
              /\ mj' = [mj EXCEPT !.ongoing_job_q = @ \ {j}, !.job_lock = "hal"]
              /\ jhal' = [jhal EXCEPT !.pc = "abort", !.call = "abort", !.s = 1]
              /\ UNCHANGED gone
           \/ /\ j \notin Listed(mj.job_queue) \cup mj.ongoing_job_q
              /\ jhal' = next
              /\ UNCHANGED <<mj, gone>>
    /\ UNCHANGED <<jmgr, ses, called, astray>>

\* mm_jpeg_destroy_session: jobs nobody aborted are dropped.
DestroySession ==
    /\ jhal.pc = "stop" /\ jhal.ongoing = <<>> /\ mj.job_lock = "free"
    /\ mj' = [mj EXCEPT !.job_queue = <<>>, !.ongoing_job_q = {}, !.job_lock = "hal"]
    /\ jhal' = [jhal EXCEPT !.pc = "abort", !.call = "destroy", !.s = 1]
    /\ UNCHANGED <<jmgr, ses, called, gone, astray>>

AbortedChain == [jhal EXCEPT !.pc = "aborted"]
NextOfChain ==
    IF jhal.s + 1 \in Chain THEN [jhal EXCEPT !.pc = "abort", !.s = @ + 1]
    ELSE AbortedChain

\* mutant: an encode that runs is not waited for.
SessionAbortNoWait ==
    /\ jhal.pc = "abort" /\ Unheld(jhal.s)
    /\ ses' = [ses EXCEPT ![jhal.s].abort_state = "DONE"]
    /\ jhal' = NextOfChain
    /\ UNCHANGED <<mj, jmgr, called, gone, astray>>

\* mm_jpeg_session_abort.  A session aborted before ends it, whatever the
\* sessions behind it do.
SessionAbort ==
    /\ jhal.pc = "abort" /\ Unheld(jhal.s)
    /\ LET x == ses[jhal.s] IN
       \/ /\ x.abort_state # "NONE"
          /\ jhal' = AbortedChain
          /\ UNCHANGED ses
       \/ /\ x.abort_state = "NONE" /\ x.encoding
          /\ ses' = [ses EXCEPT ![jhal.s].abort_state = "INIT"]
          /\ jhal' = [jhal EXCEPT !.pc = "abort_wait"]
       \/ /\ x.abort_state = "NONE" /\ ~x.encoding
          /\ ses' = [ses EXCEPT ![jhal.s].abort_state = "DONE"]
          /\ jhal' = NextOfChain
    /\ UNCHANGED <<mj, jmgr, called, gone, astray>>

\* pthread_cond_wait, after the component has answered or before,
SessionAbortWait ==
    /\ jhal.pc = "abort_wait" /\ Unheld(jhal.s) /\ ses[jhal.s].abort_state # "INIT"
    /\ ses' = [ses EXCEPT ![jhal.s].abort_state = "DONE"]
    /\ jhal' = NextOfChain
    /\ UNCHANGED <<mj, jmgr, called, gone, astray>>

\* or without its answer: the code waits once, and does not look at abort_state
\* again when the wait ends.
SpuriousWakeup ==
    /\ jhal.pc = "abort_wait" /\ Unheld(jhal.s) /\ ses[jhal.s].abort_state = "INIT"
    /\ ses' = [ses EXCEPT ![jhal.s].abort_state = "DONE"]
    /\ jhal' = NextOfChain
    /\ astray' = TRUE
    /\ UNCHANGED <<mj, jmgr, called, gone>>

AbortReturns ==
    /\ jhal.pc = "aborted" /\ jhal.call = "abort"
    /\ mj' = [mj EXCEPT !.job_lock = "free"]
    /\ gone' = gone \cup {Head(jhal.ongoing)}
    /\ jhal' = [jhal EXCEPT !.pc = "stop", !.ongoing = Tail(@)]
    /\ UNCHANGED <<jmgr, ses, called, astray>>

\* mm_jpeg_session_destroy and mm_jpeg_remove_session_idx for the chain.
FreeSessions ==
    /\ jhal.pc = "aborted" /\ jhal.call = "destroy"
    /\ mj' = [mj EXCEPT !.job_lock = "free", !.active = FALSE]
    /\ jhal' = [jhal EXCEPT !.pc = "drain"]
    /\ UNCHANGED <<jmgr, ses, called, gone, astray>>

FreeQueues ==
    /\ jhal.pc = "drain"
    /\ mj' = [mj EXCEPT !.session_handle_q = <<>>, !.out_buf_q = <<>>, !.job_sem = @ + 1]
    /\ jhal' = [jhal EXCEPT !.pc = "idle"]
    /\ UNCHANGED <<jmgr, ses, called, gone, astray>>

Client ==
    \/ AbortJpegJob \/ DestroySession \/ SessionAbort \/ SessionAbortWait
    \/ AbortReturns \/ FreeSessions \/ FreeQueues

-----------------------------------------------------------------------------
(* mm_jpeg_jobmgr_thread.                                                  *)

\* A wakeup that comes while enough jobs run is dropped.
JobMgrWakes ==
    /\ jmgr.pc = "wait" /\ mj.job_sem > 0
    /\ mj' = [mj EXCEPT !.job_sem = @ - 1]
    /\ \/ /\ Cardinality(mj.ongoing_job_q) < NUM_MAX_JPEG_CNCURRENT_JOBS
          /\ jmgr' = [jmgr EXCEPT !.pc = "lock"]
       \/ /\ Cardinality(mj.ongoing_job_q) >= NUM_MAX_JPEG_CNCURRENT_JOBS
          /\ UNCHANGED jmgr
    /\ UNCHANGED <<ses, jhal, called, gone, astray>>

\* mutant: the session taken stays in the queue of free ones.
GetSessionPeeking ==
    /\ jmgr.pc = "lock" /\ mj.job_lock = "free"
    /\ mj.job_queue # <<>> /\ mj.session_handle_q # <<>>
    /\ jmgr' = [jmgr EXCEPT !.pc = "buf", !.job = Head(mj.job_queue),
                            !.s = Head(mj.session_handle_q)]
    /\ mj' = [mj EXCEPT !.job_lock = "mgr", !.job_queue = Tail(@)]
    /\ ses' = [ses EXCEPT ![Head(mj.session_handle_q)].auto_out_buf = FALSE]
    /\ UNCHANGED <<jhal, called, gone, astray>>

\* The first job goes back to the head of the queue when no session is free.
GetSession ==
    /\ jmgr.pc = "lock" /\ mj.job_lock = "free"
    /\ mj.job_queue # <<>> /\ mj.session_handle_q # <<>>
    /\ jmgr' = [jmgr EXCEPT !.pc = "buf", !.job = Head(mj.job_queue),
                            !.s = Head(mj.session_handle_q)]
    /\ mj' = [mj EXCEPT !.job_lock = "mgr", !.job_queue = Tail(@),
                        !.session_handle_q = Tail(@)]
    /\ ses' = [ses EXCEPT ![Head(mj.session_handle_q)].auto_out_buf = FALSE]
    /\ UNCHANGED <<jhal, called, gone, astray>>

NothingToDo ==
    /\ jmgr.pc = "lock" /\ mj.job_lock = "free"
    /\ mj.job_queue = <<>> \/ mj.session_handle_q = <<>>
    /\ jmgr' = [jmgr EXCEPT !.pc = "wait"]
    /\ UNCHANGED <<mj, ses, jhal, called, gone, astray>>

\* A job of a burst takes a free output buffer; without one, it and the
\* session it was given are dropped.
GetOutBuf ==
    /\ jmgr.pc = "buf"
    /\ IF ~Burst
       THEN jmgr' = [jmgr EXCEPT !.pc = "ongoing", !.dst_index = 1] /\ UNCHANGED <<mj, ses>>
       ELSE IF mj.out_buf_q = <<>>
       THEN /\ jmgr' = [jmgr EXCEPT !.pc = "wait", !.job = NoJpeg]
            /\ mj' = [mj EXCEPT !.job_lock = "free"]
            /\ UNCHANGED ses
       ELSE /\ jmgr' = [jmgr EXCEPT !.pc = "ongoing", !.dst_index = Head(mj.out_buf_q)]
            /\ mj' = [mj EXCEPT !.out_buf_q = Tail(@)]
            /\ ses' = [ses EXCEPT ![jmgr.s].auto_out_buf = TRUE]
    /\ UNCHANGED <<jhal, called, gone, astray>>

BeginJob ==
    /\ jmgr.pc = "ongoing"
    /\ mj' = [mj EXCEPT !.ongoing_job_q = @ \cup {jmgr.job}]
    /\ ses' = [ses EXCEPT ![jmgr.s].jobId = jmgr.job, ![jmgr.s].dst_index = jmgr.dst_index]
    /\ jmgr' = [jmgr EXCEPT !.pc = "encode"]
    /\ UNCHANGED <<jhal, called, gone, astray>>

\* mm_jpeg_session_encode: the buffers go to the component ...
SessionEncode ==
    /\ jmgr.pc = "encode" /\ Unheld(jmgr.s)
    /\ ses' = [ses EXCEPT ![jmgr.s].abort_state = "NONE", ![jmgr.s].encoding = TRUE,
                          ![jmgr.s].omx = "busy"]
    /\ mj' = [mj EXCEPT !.job_lock = "free"]
    /\ jmgr' = [jmgr EXCEPT !.pc = "wait", !.job = NoJpeg]
    /\ UNCHANGED <<jhal, called, gone, astray>>

\* mutant: the job is answered though the component has it.
EncodeFailsTwice ==
    /\ MjMayFail /\ jmgr.pc = "encode" /\ Unheld(jmgr.s)
    /\ ses' = [ses EXCEPT ![jmgr.s].abort_state = "NONE", ![jmgr.s].encoding = TRUE,
                          ![jmgr.s].omx = "busy", ![jmgr.s].done = "remove",
                          ![jmgr.s].by = "mgr"]
    /\ Calls(jmgr.job)
    /\ jmgr' = [jmgr EXCEPT !.pc = "job_done"]
    /\ UNCHANGED <<mj, jhal, gone, astray>>

\* ... or configuring it fails, or giving them to it: one of the source's buffers
\* may be with the component by then.
SessionEncodeFails ==
    /\ MjMayFail /\ jmgr.pc = "encode" /\ Unheld(jmgr.s)
    /\ \E given \in BOOLEAN, omx \in {ses[jmgr.s].omx, "input"} :
        /\ omx # ses[jmgr.s].omx => given
        /\ ses' = [ses EXCEPT ![jmgr.s].abort_state = "NONE", ![jmgr.s].encoding = given,
                              ![jmgr.s].omx = omx, ![jmgr.s].done = "remove",
                              ![jmgr.s].by = "mgr"]
    /\ Calls(jmgr.job)
    /\ jmgr' = [jmgr EXCEPT !.pc = "job_done"]
    /\ UNCHANGED <<mj, jhal, gone, astray>>

-----------------------------------------------------------------------------
(* The OMX component, which answers a job it accepted once.                *)

AbortAnswered(s) ==
    /\ ses' = [ses EXCEPT ![s].abort_state = "DONE", ![s].omx = "idle"]
    /\ UNCHANGED <<mj, jmgr, jhal, called, gone, astray>>

JobAnswered(s) ==
    /\ ses' = [ses EXCEPT ![s].omx = "idle", ![s].lock = TRUE,
                          ![s].done = "remove", ![s].by = "omx"]
    /\ Calls(ses[s].jobId)
    /\ UNCHANGED <<mj, jmgr, jhal, gone, astray>>

\* mm_jpeg_fbd: the answer to an aborted job reaches nobody.
FillBufferDone(s) ==
    /\ ses[s].omx = "busy" /\ Unheld(s)
    /\ \/ ses[s].abort_state # "NONE" /\ AbortAnswered(s)
       \/ ses[s].abort_state = "NONE" /\ JobAnswered(s)

\* mm_jpeg_event_handler, for an error.
ErrorEvent(s) ==
    /\ MjMayFail /\ ses[s].omx = "busy" /\ Unheld(s)
    /\ \/ ses[s].abort_state = "INIT" /\ AbortAnswered(s)
       \/ ses[s].abort_state # "INIT" /\ JobAnswered(s)

\* The error of a job that failed when the component had a buffer of its source:
\* until mm_jpegenc_job_done has come to its encoding, the job is answered and
\* done with a second time, and the session listed twice;
LateAnswer(s) ==
    /\ ses[s].encoding
    /\ Calls(ses[s].jobId)
    /\ mj' = [mj EXCEPT !.ongoing_job_q = @ \ {ses[s].jobId}, !.job_sem = @ + 1,
                        !.session_handle_q = Append(@, s),
                        !.out_buf_q = IF ses[s].auto_out_buf
                                      THEN Append(@, ses[s].dst_index) ELSE @]
    /\ ses' = [ses EXCEPT ![s].omx = "idle", ![s].encoding = FALSE]
    /\ astray' = TRUE

\* then nothing comes of it.
LateErrorIgnored(s) ==
    /\ ~ses[s].encoding
    /\ ses' = [ses EXCEPT ![s].omx = "idle"]
    /\ UNCHANGED <<mj, called, astray>>

LateError(s) ==
    /\ ses[s].omx = "input" /\ Unheld(s)
    /\ LateAnswer(s) \/ LateErrorIgnored(s)
    /\ UNCHANGED <<jmgr, jhal, gone>>

(* mm_jpegenc_job_done: by the component's thread, which holds the session's  *)
(* lock, or by the job manager's, which holds job_lock.                       *)

RemoveOngoing(s) ==
    /\ ses[s].done = "remove"
    /\ mj' = [mj EXCEPT !.ongoing_job_q = @ \ {ses[s].jobId}]
    /\ ses' = [ses EXCEPT ![s].encoding = FALSE, ![s].done = "handle"]
    /\ UNCHANGED <<jmgr, jhal, called, gone, astray>>

ReturnSession(s) ==
    /\ ses[s].done = "handle"
    /\ mj' = [mj EXCEPT !.session_handle_q = Append(@, s)]
    /\ ses' = [ses EXCEPT ![s].done = "buf"]
    /\ UNCHANGED <<jmgr, jhal, called, gone, astray>>

ReturnOutBuf(s) ==
    /\ ses[s].done = "buf"
    /\ mj' = IF ses[s].auto_out_buf
             THEN [mj EXCEPT !.out_buf_q = Append(@, ses[s].dst_index)] ELSE mj
    /\ ses' = [ses EXCEPT ![s].done = "post"]
    /\ UNCHANGED <<jmgr, jhal, called, gone, astray>>

\* The job manager is woken, `posts` times.
JobDoneReturns(s, posts) ==
    /\ ses[s].done = "post"
    /\ ses' = [ses EXCEPT ![s].done = "no", ![s].lock = FALSE]
    /\ LET mgr == ses[s].by = "mgr" IN
       /\ mj' = [mj EXCEPT !.job_sem = @ + posts,
                           !.job_lock = IF mgr THEN "free" ELSE @]
       /\ jmgr' = IF mgr THEN [jmgr EXCEPT !.pc = "wait", !.job = NoJpeg] ELSE jmgr
    /\ UNCHANGED <<jhal, called, gone, astray>>

\* mutant: the job manager is not woken.
WakeJobMgrNot(s) == JobDoneReturns(s, 0)
WakeJobMgr(s) == JobDoneReturns(s, 1)

JobDone(s) == RemoveOngoing(s) \/ ReturnSession(s) \/ ReturnOutBuf(s) \/ WakeJobMgr(s)

JobMgr ==
    \/ JobMgrWakes \/ GetSession \/ NothingToDo \/ GetOutBuf \/ BeginJob
    \/ SessionEncode \/ SessionEncodeFails

OmxThread == \E s \in Chain : FillBufferDone(s) \/ ErrorEvent(s) \/ JobDone(s)

MjNext ==
    \/ CreateSession
    \/ \E j \in Job : StartJob(j) \/ TakeJpegEvt(j)
    \/ StopJpeg
    \/ Client \/ SpuriousWakeup
    \/ JobMgr
    \/ OmxThread \/ \E s \in Chain : LateError(s)

MjSpec == MjInit /\ [][MjNext]_mjVars

-----------------------------------------------------------------------------
(* Properties.                                                             *)

\* Types; no job is answered twice, by its failure and by the component, unless
\* it reports the error of a failing job late.
MjTypeOK ==
    /\ mj.job_queue \in Seq(Job) /\ mj.ongoing_job_q \subseteq Job
    /\ mj.job_sem \in Nat /\ mj.job_lock \in {"free", "mgr", "hal"}
    /\ mj.session_handle_q \in Seq(Chain) /\ mj.out_buf_q \in Seq(OutBuf)
    /\ mj.active \in BOOLEAN /\ mj.sessions \in 0..MaxSessions
    /\ jmgr \in [pc : {"wait", "lock", "buf", "ongoing", "encode", "job_done"},
                 job : Job \cup {NoJpeg}, s : Chain, dst_index : OutBuf]
    /\ ses \in [Chain -> [lock : BOOLEAN, abort_state : {"NONE", "INIT", "DONE"},
                          encoding : BOOLEAN, jobId : Job \cup {NoJpeg},
                          dst_index : OutBuf, auto_out_buf : BOOLEAN,
                          omx : {"idle", "input", "busy"}, by : {"mgr", "omx"},
                          done : {"no", "remove", "handle", "buf", "post"}]]
    /\ jhal.pc \in {"idle", "stop", "abort", "abort_wait", "aborted", "drain"}
    /\ called \in [Job -> Nat] /\ gone \subseteq Job /\ astray \in BOOLEAN
    /\ astray \/ called \in [Job -> 0..1]

\* A free session is listed once, and a listed one is free: no job encodes in
\* it or is about to.
SessionInOnePlace ==
    /\ \A i, k \in DOMAIN mj.session_handle_q :
        mj.session_handle_q[i] = mj.session_handle_q[k] => i = k
    /\ \A s \in Listed(mj.session_handle_q) :
        /\ ses[s].omx # "busy" /\ ses[s].done \notin {"remove", "handle"}
        /\ jmgr.pc \in {"buf", "ongoing", "encode"} => jmgr.s # s

\* No two jobs that run write to one output buffer, and none of those buffers
\* is listed as free.  (A burst breaks it: the session is listed before its
\* buffer.)
OutBufOfOneJob ==
    Burst => \A s \in Chain : ses[s].omx = "busy" =>
        /\ ses[s].dst_index \notin Listed(mj.out_buf_q)
        /\ \A r \in Chain \ {s} : ses[r].omx = "busy" => ses[r].dst_index # ses[s].dst_index

\* When a session is destroyed its component is done, and no thread is in
\* mm_jpegenc_job_done, which would use the queues about to be freed.
QuietWhenDestroyed ==
    ~mj.active => \A s \in Chain : ses[s].omx # "busy" /\ ses[s].done = "no"

\* Once the abort of a job has returned, its callback is not called any more,
\* as long as every wait of an abort ends with the component's answer and no
\* error of a failing job comes late.
SilentAfterAbort ==
    [][~astray' => \A j \in gone : called'[j] = called[j]]_mjVars

\* A client that waits for a job gets its answer or an abort that returns;
\* aborts and destroys return.
JpegJobEnds ==
    /\ []<>(jhal.pc = "idle")
    /\ \A j \in Job : []<>(j \in Listed(jhal.ongoing) => called[j] > 0)

\* A session has one job at a time, is free in between, and is quiet when it
\* is destroyed, under the same two conditions.
SessionOfOneJob == ~astray => SessionInOnePlace /\ QuietWhenDestroyed

\* "abort a job -- sync call": when it has returned, the component is done with
\* the job.  A wait that ends without an answer refutes it.
AbortIsSync == \A j \in gone, s \in Chain : ses[s].jobId = j => ses[s].omx # "busy"
=============================================================================
