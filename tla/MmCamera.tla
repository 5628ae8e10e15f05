------------------------------ MODULE MmCamera ------------------------------
(* mm-camera-interface: one entry of the table of cameras, the locks a call *)
(* passes through, opening and closing by reference count, and the answer   *)
(* of the daemon that a mapping of a buffer waits for.  A call takes        *)
(* g_intf_lock to find the camera, and lets it go only when it has the      *)
(* camera's cam_lock; a call on a channel goes on to ch_lock the same way.  *)

EXTENDS Integers, Sequences, FiniteSets

CONSTANTS
    User,       \* threads that call the interface
    Free,       \* no user
    MaxOpens,   \* bound on camera objects, told apart by their handle
    McMayFail,  \* may mm_camera_open or the socket to the daemon fail
    TimeOuts    \* may the daemon answer later than WAIT_EVENT_TIMEOUT

ASSUME MmCameraAssumption ==
    /\ IsFiniteSet(User) /\ Free \notin User /\ MaxOpens \in Nat
    /\ McMayFail \in BOOLEAN /\ TimeOuts \in BOOLEAN

CamObj == 1 .. MaxOpens    \* an object, and its handle
NoObj == 0

VARIABLES
    g,          \* g_intf_lock, cam_obj of the table, handles given so far
    obj,        \* the camera objects
    th,         \* the call of each thread
    has,        \* the handle each thread has opened and not closed
    daemon      \* mappings the daemon has still to answer, as <<object, user>>

mcVars == <<g, obj, th, has, daemon>>

CameraOp == {"set_parms", "map_buf"}            \* with cam_lock held
ChannelOp == {"start_channel", "map_stream_buf"} \* with ch_lock held
IntfOp == CameraOp \cup ChannelOp \cup {"open", "close", "qbuf"}

McInit ==
    /\ g = [lock |-> Free, cam_obj |-> NoObj, count |-> 0]
    /\ obj = [o \in CamObj |-> [live |-> FALSE, ref_count |-> 0, cam_lock |-> Free,
                             ch_lock |-> Free, msg_lock |-> Free, evt_rcvd |-> Free]]
    /\ th = [u \in User |-> [pc |-> "idle", op |-> "open", hdl |-> NoObj]]
    /\ has = [u \in User |-> NoObj]
    /\ daemon = <<>>

McGoto(u, pc) == th' = [th EXCEPT ![u].pc = pc]
McAt(u, pc) == th[u].pc = pc
CallReturns(u) == McGoto(u, "idle")

-----------------------------------------------------------------------------
(* The table.                                                              *)

\* A thread calls with a handle, its own or an old one; on a channel only
\* with its own.  At the end it closes what it has opened.  The handle of one
\* open is not closed while another thread works in a channel by it.
Enter(u) ==
    /\ McAt(u, "idle")
    /\ \E op \in IntfOp, h \in 0 .. g.count :
        /\ op = "open" => has[u] = NoObj /\ h = NoObj
        /\ op \in ChannelOp \cup {"qbuf", "close"} => h # NoObj /\ h = has[u]
        /\ op \in CameraOp => h # NoObj
        /\ th' = [th EXCEPT ![u] = [pc |-> "lock", op |-> op, hdl |-> h]]
    /\ UNCHANGED <<g, obj, has, daemon>>

TakeIntfLock(u) ==
    /\ McAt(u, "lock") /\ g.lock = Free
    /\ g' = [g EXCEPT !.lock = u]
    /\ McGoto(u, "find")
    /\ UNCHANGED <<obj, has, daemon>>

\* mm_camera_util_get_camera_by_handler finds it.
Found(u) == th[u].hdl # NoObj /\ g.cam_obj = th[u].hdl

NotFound(u) ==
    /\ McAt(u, "find") /\ th[u].op # "open" /\ ~Found(u)
    /\ g' = [g EXCEPT !.lock = Free]
    /\ has' = [has EXCEPT ![u] = IF th[u].op = "close" THEN NoObj ELSE @]
    /\ CallReturns(u)
    /\ UNCHANGED <<obj, daemon>>

\* mutant: another user is not counted.
OpenAgainUncounted(u) ==
    /\ McAt(u, "find") /\ th[u].op = "open" /\ g.cam_obj # NoObj
    /\ has' = [has EXCEPT ![u] = g.cam_obj]
    /\ g' = [g EXCEPT !.lock = Free]
    /\ CallReturns(u)
    /\ UNCHANGED <<obj, daemon>>

\* camera_open of an open camera counts one more user,
OpenAgain(u) ==
    /\ McAt(u, "find") /\ th[u].op = "open" /\ g.cam_obj # NoObj
    /\ obj' = [obj EXCEPT ![g.cam_obj].ref_count = @ + 1]
    /\ has' = [has EXCEPT ![u] = g.cam_obj]
    /\ g' = [g EXCEPT !.lock = Free]
    /\ CallReturns(u)
    /\ UNCHANGED daemon

\* of another one makes an object with a handle of its own, and may fail then.
Open(u) ==
    /\ McAt(u, "find") /\ th[u].op = "open" /\ g.cam_obj = NoObj
    /\ \/ /\ g.count < MaxOpens
          /\ LET o == g.count + 1 IN
              /\ obj' = [obj EXCEPT ![o].live = TRUE, ![o].ref_count = 1]
              /\ g' = [lock |-> Free, cam_obj |-> o, count |-> o]
              /\ has' = [has EXCEPT ![u] = o]
       \/ /\ McMayFail \/ g.count = MaxOpens
          /\ g' = [g EXCEPT !.lock = Free, !.count = IF g.count < MaxOpens THEN @ + 1 ELSE @]
          /\ UNCHANGED <<obj, has>>
    /\ CallReturns(u)
    /\ UNCHANGED daemon

\* mutant: a user who closes is still counted.
CloseUncounted(u) ==
    /\ McAt(u, "find") /\ th[u].op = "close" /\ Found(u)
    /\ obj[th[u].hdl].ref_count # 1
    /\ g' = [g EXCEPT !.lock = Free]
    /\ CallReturns(u)
    /\ has' = [has EXCEPT ![u] = NoObj]
    /\ UNCHANGED <<obj, daemon>>

\* mm_camera_intf_close: the last user takes the camera out of the table, so
\* that nobody finds it, before waiting for the one who works with it.
CloseIntf(u) ==
    /\ McAt(u, "find") /\ th[u].op = "close" /\ Found(u)
    /\ LET o == th[u].hdl
           last == obj[o].ref_count = 1 IN
        /\ obj' = [obj EXCEPT ![o].ref_count = @ - 1]
        /\ g' = IF last THEN [g EXCEPT !.cam_obj = NoObj] ELSE [g EXCEPT !.lock = Free]
        /\ IF last THEN McGoto(u, "cam") ELSE CallReturns(u)
    /\ has' = [has EXCEPT ![u] = NoObj]
    /\ UNCHANGED daemon

\* mutant: it lets g_intf_lock go first.
FoundAndUnlocked(u) ==
    /\ McAt(u, "find") /\ th[u].op \notin {"open", "close"} /\ Found(u)
    /\ McGoto(u, "cam")
    /\ g' = [g EXCEPT !.lock = Free]
    /\ UNCHANGED <<obj, has, daemon>>

\* Every other call goes on to the camera, g_intf_lock in its hand.
FoundForCall(u) ==
    /\ McAt(u, "find") /\ th[u].op \notin {"open", "close"} /\ Found(u)
    /\ McGoto(u, "cam")
    /\ UNCHANGED <<g, obj, has, daemon>>

-----------------------------------------------------------------------------
(* The camera and its channel.                                             *)

AfterCamLock(u) ==
    CASE th[u].op = "close" -> "closing"
      [] th[u].op \in ChannelOp -> "ch"
      [] th[u].op = "qbuf" -> "qbuf"
      [] th[u].op = "map_buf" -> "send"
      [] th[u].op = "set_parms" -> "work"

TakeCamLock(u) ==
    LET o == th[u].hdl IN
    /\ McAt(u, "cam") /\ obj[o].cam_lock = Free
    /\ obj' = [obj EXCEPT ![o].cam_lock = u]
    /\ g' = IF g.lock = u THEN [g EXCEPT !.lock = Free] ELSE g
    /\ McGoto(u, AfterCamLock(u))
    /\ UNCHANGED <<has, daemon>>

\* The work on the camera ends with cam_lock unlocked.
CameraOpEnds(u) ==
    /\ McAt(u, "work") /\ th[u].op \in CameraOp
    /\ obj' = [obj EXCEPT ![th[u].hdl].cam_lock = Free]
    /\ CallReturns(u)
    /\ UNCHANGED <<g, has, daemon>>

\* mm_camera_close ends the event threads, then the object is freed.
CloseEnds(u) ==
    LET o == th[u].hdl IN
    /\ McAt(u, "closing")
    /\ obj' = [obj EXCEPT ![o].cam_lock = Free, ![o].live = FALSE]
    /\ CallReturns(u)
    /\ UNCHANGED <<g, has, daemon>>

\* On a channel: ch_lock, and only then cam_lock is let go.
TakeChLock(u) ==
    LET o == th[u].hdl IN
    /\ McAt(u, "ch") /\ obj[o].ch_lock = Free
    /\ obj' = [obj EXCEPT ![o].ch_lock = u, ![o].cam_lock = Free]
    /\ McGoto(u, IF th[u].op = "map_stream_buf" THEN "send" ELSE "work")
    /\ UNCHANGED <<g, has, daemon>>

\* mutant: the channel stays locked.
ChannelOpEndsLocked(u) ==
    /\ McAt(u, "work") /\ th[u].op \in ChannelOp
    /\ CallReturns(u)
    /\ UNCHANGED <<g, obj, has, daemon>>

ChannelOpEnds(u) ==
    /\ McAt(u, "work") /\ th[u].op \in ChannelOp
    /\ obj' = [obj EXCEPT ![th[u].hdl].ch_lock = Free]
    /\ CallReturns(u)
    /\ UNCHANGED <<g, has, daemon>>

\* mm_camera_qbuf lets cam_lock go and works with the channel without a lock.
QbufUnlocks(u) ==
    LET o == th[u].hdl IN
    /\ McAt(u, "qbuf")
    /\ IF obj[o].cam_lock = u
       THEN obj' = [obj EXCEPT ![o].cam_lock = Free] /\ UNCHANGED th
       ELSE CallReturns(u) /\ UNCHANGED obj
    /\ UNCHANGED <<g, has, daemon>>

-----------------------------------------------------------------------------
(* The daemon answers mappings by an event.                                *)

\* mm_camera_util_sendmsg, one at a time by msg_lock; what the socket refuses
\* is not waited for.
SendMsg(u) ==
    LET o == th[u].hdl IN
    /\ McAt(u, "send") /\ obj[o].msg_lock = Free
    /\ \/ /\ obj' = [obj EXCEPT ![o].msg_lock = u]
          /\ daemon' = Append(daemon, <<o, u>>)
          /\ McGoto(u, "wait")
       \/ /\ McMayFail
          /\ McGoto(u, "work")
          /\ UNCHANGED <<obj, daemon>>
    /\ UNCHANGED <<g, has>>

\* mm_camera_event_notify: the answer is kept until somebody takes it.
EventNotify ==
    /\ daemon # <<>>
    /\ LET o == Head(daemon)[1] IN
        obj' = IF obj[o].live THEN [obj EXCEPT ![o].evt_rcvd = Head(daemon)[2]] ELSE obj
    /\ daemon' = Tail(daemon)
    /\ UNCHANGED <<g, th, has>>

\* mm_camera_util_wait_for_event returns with the event, or after a time
\* without it; the answer may then still come.
WaitForEvent(u) ==
    LET o == th[u].hdl IN
    /\ McAt(u, "wait")
    /\ TimeOuts \/ obj[o].evt_rcvd # Free
    /\ obj' = [obj EXCEPT ![o].evt_rcvd = Free, ![o].msg_lock = Free]
    /\ McGoto(u, "work")
    /\ UNCHANGED <<g, has, daemon>>

\* Steps that wait for a lock, and the others.
LockStep(u) == TakeIntfLock(u) \/ TakeCamLock(u) \/ TakeChLock(u) \/ SendMsg(u)
WorkStep(u) ==
    \/ NotFound(u) \/ OpenAgain(u) \/ Open(u) \/ CloseIntf(u) \/ FoundForCall(u)
    \/ CameraOpEnds(u) \/ CloseEnds(u) \/ ChannelOpEnds(u) \/ QbufUnlocks(u)
    \/ WaitForEvent(u)

McNext == (\E u \in User : Enter(u) \/ LockStep(u) \/ WorkStep(u)) \/ EventNotify

McSpec == McInit /\ [][McNext]_mcVars

-----------------------------------------------------------------------------
(* Properties.                                                             *)

Pc == {"idle", "lock", "find", "cam", "ch", "work", "qbuf", "closing", "send", "wait"}

\* Types of the table, the objects and the calls.
McTypeOK ==
    /\ g \in [lock : User \cup {Free}, cam_obj : CamObj \cup {NoObj}, count : 0 .. MaxOpens]
    /\ obj \in [CamObj -> [live : BOOLEAN, ref_count : 0 .. Cardinality(User),
                        cam_lock : User \cup {Free}, ch_lock : User \cup {Free},
                        msg_lock : User \cup {Free}, evt_rcvd : User \cup {Free}]]
    /\ th \in [User -> [pc : Pc, op : IntfOp, hdl : CamObj \cup {NoObj}]]
    /\ has \in [User -> CamObj \cup {NoObj}]
    /\ daemon \in Seq(CamObj \X User)

\* Where a call touches the camera object it has found.
InObject == {"cam", "ch", "work", "qbuf", "closing", "send", "wait"}

\* No call works with a camera object that is freed: the hand-over of the
\* locks keeps close behind every call that has found the object, and the
\* table keeps later calls away from it.
NoUseAfterFree == \A u \in User : th[u].pc \in InObject => obj[th[u].hdl].live

\* The camera stays for as long as somebody has it open: the reference count
\* is the number of them.
CountsUsers ==
    \A o \in CamObj : obj[o].live /\ g.cam_obj = o =>
        obj[o].ref_count = Cardinality({u \in User : has[u] = o})

\* A mapping that stops waiting takes the answer to itself, not to another.
MapAnswerIsOwn ==
    \A u \in User :
        th[u].pc = "wait" /\ obj[th[u].hdl].evt_rcvd # Free => obj[th[u].hdl].evt_rcvd = u

\* Every call of the interface returns: no cycle of waits for the locks.
IntfCallReturns == \A u \in User : []<>(th[u].pc = "idle")
\* A camera lives while somebody has it open or works with it
\* (mm_camera_open and mm_camera_close by ref_count).
OpenCameraLives == NoUseAfterFree /\ CountsUsers
=============================================================================
