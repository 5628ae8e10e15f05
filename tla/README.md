# A TLA+ verification of the CyanogenMod device tree for the YU Tomato

The repository holds the device-specific parts of an Android system: a camera
HAL with its kernel interface, a JPEG encoder interface and an OpenMAX core, a
GPS/GNSS HAL, a sensors HAL and a number of small services and configuration
files.  What is worth verifying in it is almost all concurrency: a client
thread hands a request to a worker thread and waits for its answer, a daemon
or the hardware calls back at any time, buffers and slots are shared between
them, and a component is shut down while work is in flight.

## Inventory

### Camera HAL (`camera/QCamera2/HAL`, `camera/QCamera2/util`)

| Component | State | Operations | Hard behaviour |
|---|---|---|---|
| `QCameraStateMachine` | `m_state` (eight states), API queue, event queue | `smEvtProcRoutine` takes API commands before events; one handler per state, with a case per event | every API event needs exactly one result in every state; events race with API calls; failures of lower layers on each path |
| `QCamera2HardwareInterface` API entry points | `m_lock`, `m_apiResultList`, `m_evtLock`, `m_evtResult`, `m_smThreadActive` | `processAPI`, `waitAPIResult`, `signalAPIResult`, `processSyncEvt`, `signalEvtResult`, `lockAPI` | several threads wait on one result list; internal callers post commands and do not wait; two-step picture taking; shutdown |
| Channels of the HAL | one `QCameraChannel` per channel type, running or not; preview window; recording hint; long shot | `preparePreview`, `startPreview`, `stopPreview`, `startRecording`, `takePicture`, `cancelPicture`, ... | the state name must agree with the channels that exist and run, after partial failures too |
| `QCameraCbNotifier` | data queue, active flag, number of snapshots | `notifyCallback`, `cbNotifyRoutine`, `exit` | calls the state machine synchronously (`processSyncEvt`) from its own thread |
| `QCameraPostProcessor` | six queues, data thread, save thread | `start`, `stop`, `processData`, `processPPData`, `processJpegEvt` | stop while frames are at the encoder |
| `QCameraCmdThread`, `QCameraQueue` | command queue, `cmd_sem`, `sync_sem` | `sendCmd`, `getCmd`, `exit` | synchronous and priority commands, exit with commands pending |
| Deferred work | job table, `m_deffCond` | `queueDefferedWork`, `waitDefferedWork`, `defferedWorkRoutine` | waits for a job that failed; table full |
| `QCameraStream`, `QCameraMemory` | buffers, reference counts | `bufDone`, stream thread | buffers owned by HAL, window and kernel |
| `QCameraParameters`, thermal adapter, factory, wrapper | parameter tables | parsing and formatting | sequential |

### Camera stack (`camera/QCamera2/stack`, `camera/mm-image-codec`)

| Component | State | Operations | Hard behaviour |
|---|---|---|---|
| `mm_camera_interface` | handle table, open reference counts, locks | `open`, `close`, `util_generate_handler` | open and close by several users; lock hand-over from table to object |
| `mm_channel` | channel state, super buffer queue, bundle | `mm_channel_fsm_fn`, `mm_channel_superbuf_comp_and_enqueue`, `..._bufdone_overflow`, `..._skip` | matching frames of several streams, overflow, flush, pending count |
| `mm_stream` | stream state, buffer reference counts | `mm_stream_fsm_fn`, `mm_stream_handle_rcvd_buf`, `qbuf` | a buffer used by several consumers returns to the kernel once |
| `mm_camera_thread` | poll entries, pipe commands, status | `mm_camera_poll_thread_*` | synchronous pipe commands, removal while polling |
| `mm_jpeg` | sessions, job queues | `start_job`, `abort`, `destroy` | aborting a job at the encoder |
| `qomx_core` | component and instance table | `OMX_GetHandle`, `OMX_FreeHandle` | instance limits |

### GPS (`gps`)

| Component | State | Operations | Hard behaviour |
|---|---|---|---|
| `loc_api_sync_req` | slot table, `in_use`, per-slot lock and condition | `loc_sync_send_req`, `loc_sync_process_ind` | answer before the wait, late or lost answers, time outs, full table |
| `msg_q`, `MsgTask`, `LocThread` | list, `unblocked`, delegate reference count | `msg_q_snd`, `msg_q_rcv`, `msg_q_unblock`, `destroy`, thread loop | shutdown with messages queued; who frees the delegate and the task |
| AGPS state machine (`loc_eng_agps`) | states RELEASED/PENDING/ACQUIRED/DEACTIVATING, subscriber lists | subscribe, unsubscribe, RSRC granted/released/denied | subscribers that come while deactivating |
| `LocTimer`, `LocHeap` | timer heap, one OS timer per container | `start`, `stop`, `expire` | stop racing expiry |
| `loc_eng`, NI, daemon connection | session state, pending NI request | message handlers | ordering of messages, response time outs |
| `ds_api`, `loc_api_v02_client` | QMI clients | call setup | external service |

### Others

`sensors` (native sensor manager, virtual sensors, compass algorithm),
`keyhandler`, `configpanel`, `cmhw`, `ProximityCalibrate` (Java user
interface), `init`, `power`, `rootdir`, `audio`, `wifi`, `overlay`, `sepolicy`
and `configs` (configuration and short sequential code).

Which of them are modelled, and why the others are not, is in `Not modelled`
below and in the notes of `PROJECT.json`.

### What makes each component correct

- State machine and API calls: every event asked for gets exactly one answer
  in every state; the notifier is never left waiting; the state's name agrees
  with the channels that exist and run, whatever failed before.
- Notifier, postprocessor, deferred work: a frame belongs to the picture that
  asked for it; stopping leaves no job, no frame and no waiter behind.
- Super buffers and streams: a buffer goes back to the kernel exactly once;
  frames of one super buffer have one number; the match count is exact.
- JPEG sessions and the OpenMAX core: abort returns and nothing of the
  aborted job is used after it; a handle's library is loaded.
- GPS requests: a slot has one owner, the receive thread writes only into the
  buffers of calls in progress, an indication is not lost, every call returns.
- GPS tasks, timers, AGPS: the last user frees an object, a stopped timer
  does not fire, every subscriber hears of the resource once.

## Modules

| Module | Models | Code |
|---|---|---|
| `HalDevice` | the device as one record, each operation on it as the set of its outcomes (device left behind, whether `NO_ERROR`) | `QCamera2HWI.cpp`, `QCameraChannel.cpp`, parts of `QCameraParameters.cpp`, `QCameraPostProc.cpp` |
| `HalStateMachine` | the state machine thread, the two queues, the result list, the callers and the threads that post events; extends `HalDevice` | `QCameraStateMachine.cpp`, API part of `QCamera2HWI.cpp` |
| `HalApi`, `HalStateMachineApi` | what the API entry points promise (questions, answers, who waits), and the refinement mapping to it | |
| `CbNotifier` | the notifier: data queue, commands with priority, flushes, the snapshot mode, exit and destruction | `QCamera2HWICallbacks.cpp`, `QCameraCmdThread`, `QCameraQueue` |
| `DeferredWork` | slots of jobs, the worker, the waiters, and the channels whose streams the jobs are for | deferred work of `QCamera2HWI.cpp` |
| `PostProc` | the queues, the data thread, the reprocess channel, the encoder and its events, start and stop | `QCameraPostProc.cpp` |
| `SuperBuf` | a channel's super buffer queue with all commands of its thread, the bundled streams, requests and the callback thread | `mm_camera_channel.c` |
| `MmStream` | the seven states of a stream, its kernel queue, reference counts, the poll thread with its pipe, the callback thread | `mm_camera_stream.c`, `mm_camera_thread.c` |
| `MmCamera` | the table of cameras, three locks, open and close by reference count, the daemon's answer to a mapping | `mm_camera_interface.c`, `mm_camera.c` |
| `MmJpeg` | sessions, job queues, the job manager, the component's answers, abort, destroy, burst | `mm_jpeg.c`, `mm_jpeg_queue.c`, `mm_jpeg_interface.c` |
| `LocSyncReq` | the slot table, its lock, the receive thread's walk, the callers | `loc_api_sync_req.c` |
| `MsgTask` | `msg_q`, the message task, the delegate shared by owner and thread | `msg_q.c`, `MsgTask.cpp`, `LocThread.cpp` |
| `LocTimer` | one container of timers: clients, task, heap, timerfd, poll thread | `LocTimer.cpp`, `LocHeap.cpp` |
| `Agps` | the AGPS machine in three kinds, the network's answers, restarts of the engine | `loc_eng_agps.cpp`, parts of `loc_eng.cpp` |
| `Queues` | what is left of a sequence when some of its places are kept | linked lists of `QCameraQueue.cpp`, `loc_eng_agps.cpp` |
| `GpsProofs` | theorems about `LocSyncReq`, `MsgTask`, `LocTimer` and `Agps`, and that those hold of `MCGps` | |
| `CameraStackProofs` | theorems about `MmStream`, `MmCamera` and `MmJpeg`, and that the theorems of all parts hold of `MCCamera` | |
| `HalStateMachineProofs` | theorems about `HalStateMachine` with `HalDevice`, and its refinement of `HalApi` | |
| `CbNotifierProofs`, `DeferredWorkProofs`, `PostProcProofs`, `SuperBufProofs` | theorems about the module named | |
| `QueuesProofs` | lemmas about the operators of `Queues`, sums and counts of queues | |
| `MCHalStateMachine`, `MCLocSyncReq`, `MCSuperBuf` | sets of calls, parameters and metadata, symmetry | |
| `MCCamera`, `MCGps` | components that share no variable, joined for one run | |

What composes what: `HalStateMachine` calls `HalDevice` and stands for the
notifier, the postprocessor and the camera stack by the events they post.
`CbNotifier`, `DeferredWork` and `PostProc` are those threads in detail, each
with the state machine's thread as its environment; `MmJpeg`'s client is the
data thread of `PostProc`, `SuperBuf`'s frames are those that `MmStream`
hands to the bundle, `LocTimer`'s task is a `MsgTask` whose messages are known,
and `Agps` has its retries from a timer and its thread from a task.  The
detailed modules were kept apart because their product is out of TLC's reach;
what one assumes of another is named in the notes below.

### How the HAL model corresponds to the code

State.  `hal.m_state` is the member of that name; `hal.ch` tells for each
channel type whether there is no object (`none`), an object whose handle was
deleted (`closed`: `delChannel(type, false)`), a configured channel (`idle`) or
a streaming one (`active`).  The modes exist twice, as in `QCameraParameters`:
the committed value (`zsl`, `hint`) and the pending one (`zslNew`, `hintNew`),
with the key in the parameter table (`hintKey`) and the temporary map's value
(`hintTmp`).  `postproc` stands for how far the postprocessor and the notifier
are with the picture, `live` for `mLiveSnapshotThread`, `prep` for the daemon's
preparation of a snapshot, and `pic` numbers the pictures so that properties
can tell them apart; the code has no such number, and no guard looks at it.

Operations.  A function that calls others is a composition of sets of
outcomes: `Then` goes on after a success and keeps an error, `OrElse` cleans up
after an error, `Always` ignores the status, which the code does more often
than one would expect.  `Rc(kind)` is the status of a call into the camera
stack; it fails only for the kinds in `MayFail`.

Handlers.  Each handler of the eight states is a disjunction with one action
per case or per group of cases with the same body.  A handler runs in one
action because the state machine thread alone changes what it reads, except
for `postproc`, `prep` and `live`, whose changes by other threads are actions
of their own, between handlers.  Joining the live snapshot thread is a guard
(`Joined`): the handler cannot end before the thread does.  Two guards come
from bounds: `Enter` waits while more than `MaxResults` results or `MaxEvents`
events lie in their lists.  Events that every state answers alike are
represented by `GET_PARAMS`.

Callers.  `Enter` is `lockAPI` with `processAPI`; `WaitAPIResult` takes the
first result of its own event, only after a broadcast of `m_cond` that came
after the wait began, as the code's loop does.  Since `waitAPIResult` gives up
`m_lock`, several threads can be in calls at the same time.

### How the models of the HAL's threads correspond to the code

`CbNotifier`.  A notification is put into `mDataQ` and a job command is sent
for it in two steps, since a flush may come in between.  `START` and `STOP` of
the snapshot mode and `EXIT` go to the head of the command queue, as
`sendCmd(.., TRUE)` puts them there.  The thread takes a command, takes a
notification, calls the application, reports the end of the picture to the
state machine and waits, releases the data: a step each.  The senders check
`mActive` one step before they queue; the queue may refuse a notification
(`EnqueueFails`, with `CbMayFail`), whose sender then releases its data.  A command
for which `sendCmd` has no memory is left out: its notification stays queued while
the sender is told of an error and releases the data as well.  `released` counts how often the data of
a notification was released and is looked at by properties only.

`DeferredWork`.  One thread queues jobs while it builds a channel
(`queueDefferedWork` under `mDeffLock`), the worker takes them off, a waiter
sleeps on the one condition and looks at its slot again when signalled.
`jobOf` are the members that remember a job's slot; nothing resets them, as in
the code.  `hwi` runs through the building, starting, cancelling and deletion
of a capture channel.  An allocation may fail: the worker only logs it, frees the
slot and wakes a waiter, who is told `NO_ERROR`.  `hwi.tried` and `hwi.bufs` tell
an allocation that has ended from one that left buffers.  The picture goes on to
its start, which fails where the stream takes its deferred buffers
(`get_bufs_deffered`).

`PostProc`.  A super buffer is a member of `Pic` that goes through `inputPPQ`,
`ongoingPPQ`, `inputJpegQ`, `ongoingJpegQ` or `inputRawQ`.  The data thread
works off a command at a time; errors in the middle of `encodeData` and
`processRawImageImpl` are outcomes.  A raw frame has four ways to end: it is
handed to the notifier (`RawHandedOver`, in ZSL with the picture's callback
enabled), done with `NO_ERROR` and released by nobody (`RawKept`, all other
cases), released for an error (`RawFails`), or released twice after the
notifier's refusal (`RawRefused`: by `sendDataNotify`, then by the data thread).
A frame for which a job has no memory is left to nobody, as no callback looks at
the `NO_MEMORY`.  The history `mishap` remembers which frames went these ways;
no action reads it, and the properties use it to say exactly how far they go.  The stop is synchronous (`sync_sem`) and
aborts the jobs at the encoder, then the reprocess channel is stopped.  The
thread that saves longshot pictures to files and the JPEG memory optimisation
are left out.

### How the models of the camera stack correspond to the code

`MmStream`.  Actions are the regions under `buf_lock`, `cmd_lock` of the pipe
or `ch_lock`.  The poll thread takes a frame, counts its users, hands it on and
looks at its pipe when it polls again; a synchronous command answers through
the condition of `mm_camera_poll_sig`.  A failed `streamon` takes the stream
back.  `Bundled => HasCb` is assumed because every bundled stream of this HAL
has a callback.  Spurious wakeups of the control thread, which waits once for
the poll thread's answer, are left out (a stop that ends early is what
`Stream_stop` shows by another way).  An
error of `VIDIOC_QBUF` leaves the buffer with nobody, which `NoBufferLost`
says explicitly.  A one-shot callback would lose a reference; the HAL
registers none on such a stream.  At a registration some buffers stay with the
display (`InitReg` is the others); they come back when frames are shown, which is
after the start.

`MmCamera`.  A call takes `g_intf_lock`, finds the camera by its handle, takes
`cam_lock` before it lets `g_intf_lock` go, and `ch_lock` the same way; a
buffer's return takes no camera lock at all.  A mapping holds `msg_lock` while
it waits for the daemon; a message that cannot be sent is not waited for.  A
caller works with its own open: a handle is not closed by one thread while
another is in a call by the same open.  A close of another open of the
same camera may come at any time.  A closing thread takes the camera out of the table
before it waits for `cam_lock`.

`SuperBuf`.  A command of the channel's thread is one action because the thread
holds `superbuf_queue.que.lock` in it and alone changes the attributes; the
poll thread (`CommandComes`), the callback thread and the HAL interleave with it.
Frame numbers start at 1 and each stream skips some; metadata say one of
"plain", "reset", "invalid", "future", "prepared", "range" and
"prepared_range".  The roll-over of frame numbers is left out: at 30 frames
a second it takes years.  Linked streams and a flush of a single frame type are
left out, as are a failed start, which `MmStream` has for one stream, and a
channel without a callback.  The HAL returns super buffers before it starts a
channel again, and configures one kind of advanced capture at a time.

`MmJpeg`.  The job queue, the ongoing queue and the session's queues are
sequences; the job manager takes a job and a free session, submits it and
lists it as ongoing; the component answers once each job it has accepted (an
assumption about the OpenMAX component, whose events for one job are one
answer).  An abort that comes when the job is still queued removes it;
otherwise it waits for the session's condition, once and without a loop, as
`mm_jpeg.c:1193` does: the wait ends with the answer (`SessionAbortWait`) or
without it (`SpuriousWakeup`), and the state is `DONE` in either case.  A
submission may fail at any of its calls, with nothing given to the component or
with a buffer of the source, whose error may then come late (`LateError`): while
`encoding` is set it answers the job a second time and does again all that
`mm_jpegenc_job_done` does, in one step.  The history `astray` is set by these
two.  What goes on after a late answer is what the listed-twice session allows, but the
memory of queues that are freed meanwhile is not modelled.  Spurious wakeups of
the wait for a change of the component's state (`mm_jpeg.c:255`), when a session is
configured or destroyed, are left out, as are those states.  Work buffers, the
client table, the decoder and EXIF are left out.

### How the request model corresponds to the code

Every step of `loc_sync_send_req` between two lock operations is an action,
and every visit of the receive thread to a slot is one.  The lock
`loc_sync_call_mutex` is a variable because the receive thread keeps it over
the walk; the lock of a slot is held inside single actions.  A time out, a
spurious wakeup, a request that the client library refuses, an indication that
never comes and one that comes late are all steps that may be taken.  An
indication carries the call it answers, which only properties look at.  A
request that `locClientSendReq` reports as failed may have reached the modem when
its acknowledgement timed out, and be answered later (`RequestSent`).  Two checks of
`loc_sync_process_ind` always hold and are no guards here: the receive thread
calls back only for ids whose size it has found in the table that is searched
again there, and with a payload it has decoded (`loc_api_v02_client.c`).

### How the other GPS models correspond to the code

`MsgTask`.  `msg_q_rcv` is two steps, look and take, with the wait between
them; `msg_q_unblock` may come at any time; the delegate's reference count is
decremented by the thread and by its owner, and the last frees it.  The task
with its queue is freed by the thread (`DeleteRunnable`), unless a `stop` came
before the thread has read `mRunnable`: then it finds none and frees nothing
(`StartThread`).  The owner takes `mThread` from the task after it has unblocked the
queue (`TakeThread`); if the thread has freed the task by then, the memory may
still hold the pointer, or the owner is `"lost"` and does nothing more that the model
could say.  A message that is refused because the queue is unblocked is neither
handled nor freed: the code leaks it, and `MessagesKept` counts it as refused.

`LocTimer`.  Start and stop are messages; only the task touches the heap.  The
timerfd is armed for the top, the poll thread disarms it and sends `expire`.
The task reads the clock once for each `expire` (`task.at`) and pops what outranks
that time.  Times have ticks, and timers rank by whole seconds, as in the code.  The C
wrapper (`loc_timer_start` with its own lock) is left out.

`Agps`.  The subscribers, the four states and the three kinds of machine with
their differences; answers carry no identity, so a late one is taken for the
last request's.  The data call of an emergency is retried by a timer; a failed
retry, a lost network and a restart of the engine are steps.

## Runs

| Run | Question and bounds | Result |
|---|---|---|
| `Hal_api` | two callers, ZSL, pictures with and without preview | holds: `HalStateMachine` implements `HalApi`; the preview streams when the state says so, from one channel; the postprocessor stops with the picture; no deadlock |
| `Hal_camcorder` | one caller, recording hint, JPEG or raw, three picture numbers, fairness | holds: recordings have their own preview, nothing streams when stopped, a capture channel is alone, `STOP_CAPTURE_CHANNEL` reaches its own picture; calls return, and pictures end if the callers fall silent |
| `Hal_faults` | all calls, every kind of failure, ZSL and recording hint, longshot, live snapshots from the video channel | holds: the video channel and the live snapshot follow the state, a preparation still has its event, the notifier is answered |
| `SuperBuf` | two streams, two buffers each, two frame numbers, all metadata but "future" | holds: the match count is exact, every buffer is accounted for, the queue is bounded and ordered, no loop runs for ever, the daemon's snapshots end |
| `Camera` | stream, table of cameras, notifier, deferred work, postprocessor, JPEG sessions, each for itself | holds: eleven properties of ownership, order and progress |
| `LocSyncReq_safety` | three threads, two slots, two indications, one call each | holds: owners, flags, buffers, indications and results |
| `Gps` | requests (two calls each, one slot, spurious wakeups), timers, task, AGPS, each for itself | holds: eight properties |
| `Hal_late_done`, `SuperBuf_restart`, `Stream_stop`, `Deferred_delete`, `Map_late` | see Findings | violated |

`Camera` and `Gps` join components that share no variable.  A variable `part`,
chosen at the start, says which of them moves; the others keep their initial
state.  A run is then the sum of the components' state spaces, not their
product.  An invariant of a component is checked in all states of that
component.  The fairness conditions are joined too: a behaviour stays in its
part, so weak fairness of a disjunction with one thread of each part is weak
fairness of the thread of that part.

Bounds.  A second caller matters for the result list and the queues, so
`Hal_api` has two; for the channels the order in which commands are handled is
all that counts, and one caller with the posted events gives every order.
`MaxPics = 3` tells a picture from the one before and from an older event.
`MaxResults` is how many results may lie unclaimed when a call is made,
`MaxEvents = 1` lets a call be made while an event waits, enough for an event
of one picture to be overtaken by the calls of the next; `Hal_faults` needs
neither, since its three properties relate the device and the state.
For the slot table, more threads than slots, more than one slot and two
indications are the cases the code distinguishes; second calls are in `Gps`.
`SuperBuf` has two frame numbers and two buffers per stream: enough for a frame
to come before, with and after its partner, for a skipped number, for an
overflow and for a buffer to come back; a request, a flush and a second
capture meet them.  `Camera` has two buffers, one of which starts with the
display, two users, senders, pictures, jobs and sessions, three notifications (two snapshots and a video frame), two job
slots of the 25, and two starts of the postprocessor: each queue can hold two
and each object can be used again after its end, which is what the code's
guards tell apart.  `Gps` has three timers of two clients on a clock of two
ticks per second, so that two timers can rank alike; three messages; two
connections, one retry, one loss, two refusals.

Deadlock is checked in `Hal_api` and in `Hal_late_done`.  `Hal_camcorder` ends
when its pictures are used up, `Hal_faults` may stop because after some
failures `PREVIEWING` has no streaming channel and `PREPARE_SNAPSHOT` waits for
metadata that never come while it refuses every other call.  The other
components have done their bounded work.

Fairness.  `Hal_camcorder` assumes weak fairness of the state machine thread,
the live snapshot thread, a caller whose result is there, and the threads that
deliver frames and metadata; nothing keeps them from running.  Nothing is
assumed of callers starting calls; `PictureEnds` has the premise that they fall
silent, because the API queue always goes first.  In `Camera` and `Gps` the
threads that own a queue or a pipe are weakly fair: their steps, once enabled,
stay so.  Strong fairness is assumed where a thread waits for a mutex that
others take again and again (`LockStep` of `MmCamera`, the callers of
`LocSyncReq`): a mutex is granted in the end, though no queue is promised.
The network of `Agps` answers a request in the end, the JPEG component answers
an accepted job; time passes.  No frame, notification or call is assumed to come.

## Findings

- `Hal_late_done` (`QCameraStateMachine.cpp:1808`): `SNAPSHOT_DONE` names no
  picture and waits behind API calls.  Stop, preview and take another picture
  quickly, and the event of the first ends the second.
- `SuperBuf_restart` (`mm_camera_channel.c:1876`): a start initialises the list
  of the queue but not `match_cnt`.  With a count too large, the loops that drop
  matched super buffers never end, and hold the queue's lock.
- `Stream_stop` (`mm_camera_stream.c:1003`): the stop waits for the pipe to be
  worked off, after which the poll thread may still hand out a frame it took.
- `Deferred_delete` (`QCamera2HWI.cpp:4688`): without memory for a stream's info
  the channel is deleted while the worker allocates buffers of its streams.
- `Map_late` (`mm_camera.c:1653`): an answer that comes after the time out is
  taken for that of the next mapping.

These statements are definitions of the modules that TLC refutes; no run is
spent on them:

- `PostProc!RawFramesReturned` (`QCameraPostProc.cpp:2114`): outside ZSL, or with
  the picture's callback disabled, a raw frame is done with `NO_ERROR`, its memory
  released and the frame itself never.  `QCamera2HWICallbacks.cpp:1270` says "Raw
  frame buffer will be returned back to kernel".  Refuted with one super buffer,
  one run, mode "raw" and `PpMayFail = FALSE`.
- `MmJpeg!AbortIsSync` (`mm_jpeg.c:1195`): an abort waits once and does not look at
  `abort_state` again, so a spurious wakeup ends it while the component is at the
  job; `mm_jpeg_interface.h:300` calls it a "sync call".  Refuted with one job, one
  session, without failures or bursts.
- `MsgTask!RunnableOutlivesOwner` (`MsgTask.cpp:67`): `destroy` unblocks the queue
  and then reads and clears `mThread` of the task, which its thread may have
  deleted; `MsgTask.h:50` says that it is deleted "once thread is deleted".
- `MsgTask!RunnableDeleted` (`LocThread.cpp:179`): a joinable thread that is told to
  stop before it has started finds no runnable, and the task, its queue and its
  messages stay; `LocThread.h:75` says that `LocThread` deletes it.
- `LocTimer!PopsDue` ("pop everything in the heap that outRanks now",
  `LocTimer.cpp:367`): timers rank by whole seconds, so one may fire up to a
  second early, though the clock is read once for all of them.
- `Agps!NoneLeftReleased` for the data call (`loc_eng_agps.cpp:274-282`): a
  network lost while a retry waits leaves subscribers behind.
- `CbNotifier!LastModeHolds` (`QCamera2HWICallbacks.cpp:2483-2497`): `START` and
  `STOP` both go to the head of the queue, so the older one may win.
- `LocSyncReq!SuccessMeansSent`, `AnswerIsOwn` (`loc_api_sync_req.c:500`, `:188`):
  without a free slot a request is not sent and the caller is told success; two
  waits for the same indication get each other's answer.  With spurious wakeups
  (`Spurious = TRUE`) `SuccessMeansAnswered` fails as well: a wait that returns 0
  counts as an answer; `LocSyncReq_safety` has none.
- `HalStateMachine!ModesFixedWhileRecording` (`QCameraStateMachine.cpp:1926`): a
  `SET_PARAMS` refused during a recording leaves its modes pending; the next
  accepted one commits them.
- `HalStateMachine!StopCaptureIsForThisPicture` with two callers: a picture's late
  `SNAPSHOT_DONE` ends it while its `STOP_CAPTURE_CHANNEL` is queued behind
  `START_PREVIEW` of one thread and `TAKE_PICTURE` of the other, and the stop then
  hits the new picture (`QCameraStateMachine.cpp:65`).  `Hal_camcorder` has one
  caller, as has the theorem.
- `MmJpeg` with `Burst = TRUE` (`persist.camera.jpeg_burst`, 0 by default):
  `SilentAfterAbort`, `QuietWhenDestroyed` and `OutBufOfOneJob` fail.  An abort
  gives up at the first session of the chain that is already aborted
  (`mm_jpeg.c:1175`), and a session is listed as free before its buffer is
  (`mm_jpeg.c:2394` against `:2399`).

More of what the models show:

- `LONGSHOT_OFF` in `PIC_TAKING` enters `PREVIEWING` without starting the
  preview (`QCameraStateMachine.cpp:1657`), hence `PreviewFollowsState` is checked
  without longshot.  Switching ZSL on during a picture makes the cancel look for
  the wrong channel (`:1549`); `ChannelsFollowState` is checked with the
  recording hint instead.  `REG_FACE_IMAGE` is in no case of `PREPARE_SNAPSHOT`
  (`:1464`): its caller gets no answer, and `Hal_api` leaves that call out.
- The live snapshot thread asks for `CANCEL_PICTURE` and never takes the
  result; a later cancel may return with it at once (`QCamera2HWI.cpp:3506`).
- A recording that fails to start leaves `PREVIEWING` without a preview
  (`QCamera2HWI.cpp:2239`), and then a picture with flash waits for ever, hence
  `CallsAndPicturesEnd` is checked without failures.
- The destructor ends the state machine's thread (`QCamera2HWI.cpp:1114`) before
  the notifier's (`:1347`): a notifier that waits in `processSyncEvt` just then
  is not answered, and the close hangs.  No module has both threads' ends.
- `max_unmatched_frames` (`mm_camera_interface.h:296`) allows one frame more than
  its comment says; `QueueBounded` states what the code does.
- `PostProc`: a raw frame whose notification is refused is released by
  `sendDataNotify` (`QCameraPostProc.cpp:666`) and again by the data thread
  (`:2417`); without memory for its job a frame is in no queue, and no
  callback looks at the result of `processData` or `processPPData`.
- `MmJpeg`: a job that fails half-submitted may be answered twice
  (`mm_jpeg.c:1537` and `:2734`), and its session is then listed as free twice.
- `PostProc`: the encoder's event may come before `jobId` is stored in the entry
  of `ongoingJpegQ`; an event of a job from before the stop finds no entry and
  is dropped.  `START` and `STOP` of the data thread share `sync_sem`.
- A failed registration of a stream's buffer leaves its poll entry.

## Proofs

TLAPS proves the following for every value of the constants, under the named
assumptions of the modules, which give the constants their types and say that
their sets are finite where they are counted.

| Module | Theorems | Inductive invariant |
|---|---|---|
| `HalStateMachineProofs` | `TypeCorrect`, `VideoFollowsState`, `LiveSnapshotEnds`, `NotifierIsAnswered`, `PrepareEnds` | `IInv` |
| | `ImplementsHalApi`, the refinement of `HalApi` | `IInv`, `EvtsPosted` |
| | `PostProcEndsWithPicture` (assumes `NoFailures`, `NoLongshot`) | `FInv` |
| | `PreviewFollows` (also `Simple`), `ChannelsFollow` (also `Simple`, `ZslUnused`) | `FInv` |
| | `StopCaptureHitsItsPicture` (the four and `OneCaller`) | `FInv`, `OneCall`, `StopsAreApi`, `StopsInTime` |
| `CbNotifierProofs` | `NotesReachTheirEnd`, `NotifierTyped` | `CbInv` |
| `DeferredWorkProofs` | `JobsInOrder`, `DeferredTyped`; `NoJobOutlivesChannel` (assumes `~InfoMayFail`) | `DwInv`, `ChannelInv` |
| `PostProcProofs` | `PicsReachTheirEnd`, `FramesJoinTheirSource`, `PostProcTyped` | `PpInv` |
| `SuperBufProofs` | `SbTypesHold`, `SuperBufsStayInOrder`, `QueueStaysAccounted`, `LoopsEndBeforeRestart`, `SnapshotsEnd` | `SbInv` |
| `CameraStackProofs` | `CameraTyped`, `CameraLivesWhileOpen` | `McInv` |
| | `StreamTyped`, `BuffersAreOwned` (assume `HasCb`) | `MsInv` |
| | `OneJobPerSession`, `JpegTyped`, `AbortedStaysSilent` (assume `~Burst`, and promise nothing once `astray`) | `MjInv`, `JobsInv` |
| | `CameraPartsTyped`, of the joined model (assumes `HasCb` and `~Burst`, until `astray`) | those of the parts |
| `GpsProofs` | `TypeCorrect`, `SlotsAreOwned`, `InUseIsExact`, `PayloadIsOwned`, `NeverInternal` | `IInv` |
| | `IndicationsAreKept`; `SuccessIsAnswered` (assumes `~Spurious`) | `IInv`, `AnswerInv`, `SuccessInv` |
| | `MessagesAreKept`, `DelegateIsSafe` | `MtInv` |
| | `TimersEndOnce`, `TimersTyped`, `TimersAreArmed` | `LtInv`, `ArmInv` |
| | `AgpsTyped`, `ReleasedHasNone`, `GrantsHold` | `AgInv` |
| | `GpsTyped`, of the joined model | those of the parts |

`HalStateMachineProofs`, from

    IInv == TypeOK /\ Good(hal) /\ NotifierAnswered /\ PrepareWillEnd

with all failures, formats, calls and any number of callers.  `VideoIffRecording`
and `LiveSnapshotOnlyInVideo` are not inductive one by one: the exits of
`VIDEO_PIC_TAKING` stop the live snapshot before they stop the recording, and a
recording entered with a live snapshot still running would break the second.
`Good` joins them, with the device's type.  The argument goes in three layers:

1. The lemmas at the start of the module: every operation of the device is `Quiet` (it keeps the
   state and starts neither the video nor the snapshot channel) or even `Keep`
   (it leaves both as they are), on success and on every failure path;
   `StartRecording` and the live snapshot are the exceptions, with lemmas of
   their own.
2. A device outside the recording states is `Calm` (no video, no live
   snapshot), quiet operations keep it calm, and a calm device is `Good` for any
   state but the two recording states.
3. Each of the eight handlers `Settles`: it returns with a good device, not in
   `PREPARE_SNAPSHOT`, having answered `SNAPSHOT_DONE`; the two handlers that
   enter or keep `PREPARE_SNAPSHOT` have their own proof.

`ImplementsHalApi` holds for all callers and all failures.  The state of
`HalApi` is a count for each event: asked for (queued, in hand, or the
`PREPARE_SNAPSHOT` whose answer is put off), and answered and not yet taken.  The
counts are cardinalities of sets of places in queues; the lemmas about `Count` in
`QueuesProofs` say how each operation on a queue changes them.  Each of the eight
handlers is then shown to move the event in hand to the answers once, or to keep
it for later, or to have been given none of a caller's.  The proof showed where
the promise had to be weaker: the live snapshot thread asks for `CANCEL_PICTURE`
and does not wait (`Unattended`, the action `AskAndLeave`), and `REG_FACE_IMAGE` is
in no case of `PREPARE_SNAPSHOT` (`Unanswered`, the action `Drop`).  `HalApi` names
just these two.

The channels.  `PreviewFollowsState`, `PostProcOnlyForPicture` and
`ChannelsFollowState` do not hold for all constants; they are theorems under
conditions, and without each of these TLC finds a counterexample:

- `NoFailures` (`MayFail = {}`): a recording that fails to start leaves no preview.
- `NoLongshot`: `LONGSHOT_OFF` enters `PREVIEWING` without starting the preview.
- `Simple`, for the channels: the preview does not restart after pictures, and of
  ZSL and the recording hint only one is ever set.  If it restarts, the picture
  can end in `PREVIEWING` before the restart.  With both modes a ZSL change that
  was left pending over a recording is committed by a later `SET_PARAMS` that asks
  for no restart, and the ZSL channel goes on streaming beside the next preview.
- `ZslUnused`, for `ChannelsFollowState`: with ZSL switched on during a picture the
  cancel looks for the wrong channel.

Callers, calls, parameters and formats are otherwise free.  `FInv` says that the
device `Fits` its state: which preview channel there is and whether it streams
(`PreviewFits`, `ReadyFits`), which modes are committed and pending (`ModesFit`,
`HintFits`), that the capture and raw channels are those of a picture
(`PictureFits`), and when the postprocessor may work (`PostProcFits`); its second
part says that no queued command is one that `NoLongshot` excludes.  The
properties say nothing of modes, but which channel is the preview's depends on
them, so they are not inductive without.

`STOP_CAPTURE_CHANNEL` is queued behind calls, so whether it meets its own picture
is a matter of what is ahead of it.  `OneCall` is read off `HalApi`: with one
caller an event that its caller waits for is asked or answered once in all, hence
at most one such call is queued or in hand.  A new picture needs two,
`START_PREVIEW` and `TAKE_PICTURE`; `StopsInTime` follows a queued stop: the picture
goes on, or the preview is stopped, or it runs and no call is ahead.

The requests (`GpsProofs`): the invariant adds what the receive thread knows during its
walk (`WalkInv`: the flag it will store is exact for the slots it has passed,
and the lock keeps the rest still), that a call in progress names an
indication, and that a free slot is not waiting.

The table of cameras (`CameraStackProofs`): `NoUseAfterFree` and `CountsUsers` say nothing of locks, and
are kept by them only.  `McInv` says what a call knows at each place: who
searches the table or waits for the camera found there has `g_intf_lock`
(`IntfLock`), hence what it found is still in the table (`FoundStays`); who works
with the camera has `cam_lock` (`CamLock`); who closes has taken the camera
out of the table before it waits for `cam_lock`, and is alone
(`CloserAlone`).  A call that has found the camera is thus ahead of every close
in the queue of one of the two locks.  The count of users is a cardinality; two
lemmas say how it changes when one thread opens or closes.

The message task (`GpsProofs`): the order of handling is that the messages accepted are those
handled, then the one in hand, then the list (`OrderInv`); each message is in
one place (`PlaceInv`); the references of the delegate are counted by the places
of thread and owner (`DelegateInv`), and the task goes after its queue was unblocked,
with the messages left (`EndingInv`).  The theorems hold with an owner that is lost in the freed
task and with a task nobody frees: what they say of messages is that none is
freed twice, or used after its release, and which ones are never freed.

The timers (`GpsProofs`): a delegate is told by its place in the protocol: its client
(`ClientInv`), the order of the messages about it (`MsgOrder`: no `stop` before
its `start`), the heap (`HeapInv`) and the entry in the task's hand (`TaskInv`).
`EndInv` says that a timer ended by its client has a message to come, and one
ended by expiry is out of the heap; both ends of the race clear the same flag,
so the second finds it cleared.

The JPEG sessions (`CameraStackProofs`): without bursts a client has one session, which is free, in the
job manager's hand, with the component, or at the end of a job, and in one of
these only (`OnePlace`).  `Locks` says who has the job lock and the session's
lock; `AbortInv` ties how far an abort has come to whether the component still
works on the job; `DestroyInv` says that a session that is destroyed, or is
about to be, gets no job.  With bursts the property fails (see Findings), so the
assumption is needed.  All of it is kept by every step with which nothing goes
astray, so the invariant of the theorems is `astray \/ MjInv`: when the wait of an
abort has ended without an answer, or the error of a half-submitted job has come
late, nothing more is promised.  `JobsInv` follows the jobs instead of the session: a job
that may still be answered is queued, in the job manager's hand or with the
component, in one of these once, and the client waits for it.  It is thus not
started again, answered at most once, and the one whose abort returns is in none
of these places.

The streams (`CameraStackProofs`): a count of users is kept by steps of four
threads, each of which sees only its own place.  `OwnedInv` writes down, for each
buffer, every place a share of it can be in, as a number: with the bundle, the
linked channel or the user, on its way back from one of them, in the callback
thread's queue or hand, and in the poll thread between two counts; their sum
is `buf_refcnt`.  The lemmas `Of...` say of these numbers alone how each step
moves a share; one lemma per action brings the step to that form.  A buffer that
is with nobody is with the kernel or was refused by it.  `FdsInv` says why the
poll thread learns of a stream that was entered: a command that is not a
`COMMIT` is still in its pipe.  The theorems assume `HasCb`, as all streams of this
HAL have (`QCameraStream.cpp:1668`): a frame without a taker stays with nobody, as
`mm_stream_handle_rcvd_buf` does not give it back.

The answers of the requests (`GpsProofs`): `IndicationsKept` relates the slot to
the call at the end of it, some steps later.  `AnswerInv` follows a call: from the
selection on its slot names its indication and its buffer (`SlotNames`), what
comes before the wait is remembered in the slot (`EarlyKept`) and what was
matched stays so to the result (`MatchKept`).  `SuccessInv` reads it the other
way, from a success back to an indication, and needs that no wait returns
without a signal; `Response` has `None` as no member (`ResponseAssumption`).

The arming of the timerfd (`GpsProofs`): `ArmedForTop` is broken and restored
between the steps of the task; `Arming` says of the two places in between that the
heap has a top, and that the timerfd stays polled until it is set, unless the
poll thread has taken it and an expiry comes.

The AGPS machine (`GpsProofs`): a connection is granted the network by a step of
the machine that does not look at the connection but at the list of subscribers,
so the invariant relates, for each connection, what it was told to its messages
and its subscription (`ConnInv`): a subscription that waits is of a connection that
is not yet on the list, and an active subscriber has asked, or has it, or is
closing.  `QueueInv` gives the order this needs: a connection's messages are there
once, its subscription before its leaving, and who counts on the network while
the engine's restart is queued has subscribed after that restart.  Of the data
call, which subscribes again from a timer, only the types are proved; its
properties have the premise `agps.kind # "ds"`.

Queues (`QueuesProofs`): most of the HAL's properties say that a thing is in one
place.  `Count(q, X)` is the number of nodes of a queue in `X`, and the lemmas say
what each operation adds to it: one or nothing at the end, at the head, by a
flush (`CountKept`).  A sum of counts that is 1 says both that the thing is
somewhere and that it is nowhere else, which membership would not.  `Kept`, what
is left of a list when some of its places are kept, is defined without recursion,
so that what it keeps, and in which order, can be proved (`KeptNodes`).

The notifier (`CbNotifierProofs`): `OneHolder` counts the queue, the thread, the
senders and the releases of a notification: 1 once it was sent.  A flush may
come between the queueing and the job command, hence `JobsSuffice`: the senders
that still owe the command are counted with the commands.  `PictureOpen` says that
while pictures are expected the end was not told, so it is told once.

Deferred work (`DeferredWorkProofs`): the slots of the pending jobs differ and are
those in use (`JobsApart`), hence a slot that is found free is no job's.  What is
left of a plan waits for each stream it adds (`PlanInv`), and a stream whose
allocation was not tried yet has its job pending, in the slot remembered for it
(`AllocInv`): when the plan is done and all waits are over, every allocation has
ended, well or not.  That the capture then runs only with buffers is the start's
doing.  `ChannelInv` says
that every pending job is of the channel that is being built and is waited for
before the channel goes; it needs the assumption, because otherwise the plan is
left in the middle (`Deferred_delete`).

The postprocessor (`PostProcProofs`): `EachAccounted` counts six places and the
releases, which make 1, or 0 or 2 for a frame with a mishap; what had one comes back
to no place; `Commands` says what a start or a stop under way has still to do, as
both are commands of the data thread; `Reprocessed` ties the ongoing queue to the
frames of the reprocess channel, one longer while a frame is handed over, and
`Encoding` ties the jobs at the encoder and its events to the ongoing jobs.

Super buffers (`SuperBufProofs`): a command of the channel's thread changes the
list, the counters, the daemon's mode and several buffers at once, and calls
loops and helpers of its own, each of which has a lemma on what it keeps.
`SbInv` has these parts: the list's super buffers hold a frame each, are matched
when they hold all, the matched ones first, in the order of their numbers
(`ListOK`); frames still in commands are newer than what the list has of their
stream, unless a reset of the numbers is queued before them (`Numbered`); every buffer
is in the list, in a command, with the user or given back (`Accounted`); the
lengths (`Bounded`); the daemon's mode (`SnapshotWanted`).  `Counted` says that
`match_cnt` is the number of matched super buffers until the channel is started
again: the start leaves the count as it was (finding `SuperBuf_restart`), so the
loops that trust it are shown to end in a channel's first run only, and
`SnapshotsEnd` is stated from there.

The joined models.  `PartsOfGps` and `PartsOfCamera` say that a behaviour of the
model that `Gps` or `Camera` runs is a behaviour of each part's own specification,
the parts that do not move stuttering; what is proved of a part is thus proved of
the run.

Only model-checked: every liveness property (`CallsAndPicturesEnd`,
`CameraCallsEnd` and those of `Gps`), because the prover does not treat fairness
and ENABLED; and what the violation runs and the refuted statements above
show, which is a counterexample.  No safety invariant of a passing run is left
without a theorem; the theorems that have conditions have those of the run.

## Not modelled

In the modelled components: stream configurations, formats and sizes;
bracketing (HDR, multi-shot, flash bracketing) with its restart in
`SNAPSHOT_DONE`; autofocus and zoom events; face detection, histogram and frame
rate, whose batches also commit pending modes; dump, thermal and power hints;
opening and closing of the whole device; the contents of location requests and
the QMI client below them; and what the notes on each module name.

Components: `PROJECT.json` says of each one why.  Most of the repository's
lines have no state that a model could explore: QMI message tables
(`location_service_v02.c/.h`, generated), conversions between two structure
layouts (`LocApiV02.cpp`), parsing and tables of parameters
(`QCameraParameters.cpp`), formatting of NMEA, EXIF and dumps, sysfs drivers of
sensors, test programs, Java settings pages and configuration.  The map of
`PROJECT.json` therefore covers about a tenth of the repository's lines, and
nearly all lines where its threads meet.

## Plan

Next, in this order: the NI session with its response time out
(`loc_eng_ni.cpp`), the activation of virtual sensors, the OpenMAX core's tables;
the notifier composed with the state machine and both threads' ends; linked
streams; theorems about the data call of `Agps`.
