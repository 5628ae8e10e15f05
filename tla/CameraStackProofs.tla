------------------------- MODULE CameraStackProofs -------------------------
(* Theorems about the table of cameras, for every set of threads and         *)
(* number of objects, with failing opens and late answers.  McInv is         *)
(* inductive.  Its parts follow a call through its locks: the call that      *)
(* holds g_intf_lock decides what is in the table, the one that holds        *)
(* cam_lock works alone, a call on a channel has the camera open, and one    *)
(* that closes has taken it out of the table before it waits for cam_lock.   *)
(* A theorem about the encoder's session, for every set of jobs, any number  *)
(* of sessions one after the other, and failing encodes, when no burst is    *)
(* configured (the default): the client, the job manager and the component   *)
(* never have the one OMX session at the same time, and its destruction      *)
(* finds it at rest.  JobsInv follows the jobs: one that may be answered is   *)
(* in one place, and the client waits for it, hence the one whose abort has  *)
(* returned is in none and stays unanswered.                                 *)
(* Theorems about a stream whose frames have a callback, for every set of    *)
(* buffers, bundled and linked or not, with failing ioctls: the reference    *)
(* count of a buffer is the number of its users, a buffer is the kernel's or *)
(* has users, and none is lost.  MsInv is inductive; its part OwnedInv says  *)
(* where each share of a buffer is: with a holder, being returned, in the    *)
(* callback thread, or in the hand of the poll thread.                       *)
(* PartsOfCamera: the theorems about the parts, those of the other proof     *)
(* modules too, hold of the joined model.                                    *)
EXTENDS MCCamera, CbNotifierProofs, DeferredWorkProofs, PostProcProofs

Objects == [live : BOOLEAN, ref_count : 0 .. Cardinality(User),
            cam_lock : User \cup {Free}, ch_lock : User \cup {Free},
            msg_lock : User \cup {Free}, evt_rcvd : User \cup {Free}]
Threads == [pc : Pc, op : IntfOp, hdl : CamObj \cup {NoObj}]

\* Who has o open, by the handles h.
Opened(h, o) == {u \in User : h[u] = o}

\* The last user of a camera, between the table and the end of the object.
Closing(u) == th[u].op = "close" /\ th[u].pc \in {"cam", "closing"}

\* Where a call is fits what it does.
OpFits(u) ==
    /\ th[u].pc = "cam" => th[u].op # "open"
    /\ th[u].pc = "ch" => th[u].op \in ChannelOp
    /\ th[u].pc = "qbuf" => th[u].op = "qbuf"
    /\ th[u].pc = "closing" => th[u].op = "close"
    /\ th[u].pc \in {"work", "send", "wait"} => th[u].op \in CameraOp \cup ChannelOp

\* A handle was given, and calls that need their own have it.
CallHandle(u) ==
    /\ th[u].hdl <= g.count /\ has[u] <= g.count
    /\ th[u].pc \in InObject => th[u].hdl # NoObj
    /\ th[u].pc \in {"lock", "find"} /\ th[u].op = "open" => has[u] = NoObj
    /\ th[u].pc \in {"lock", "find"} /\ th[u].op = "close" =>
           has[u] = th[u].hdl /\ has[u] # NoObj
    /\ th[u].pc # "idle" /\ th[u].op \in ChannelOp \cup {"qbuf"} => has[u] = th[u].hdl

\* What a thread has open is in the table.
OwnHandleFound(u) == has[u] # NoObj => g.cam_obj = has[u]

\* Who searches the table, or waits for the camera it found, has g_intf_lock.
IntfLock(u) == th[u].pc \in {"find", "cam"} => g.lock = u

\* What such a call has found stays in the table.
FoundStays(u) == th[u].pc = "cam" /\ th[u].op # "close" => g.cam_obj = th[u].hdl

\* Who works with the camera has its cam_lock.
CamLock(u) ==
    th[u].pc \in {"ch", "closing"} \/ (th[u].pc \in {"work", "send", "wait"} /\ th[u].op \in CameraOp)
        => obj[th[u].hdl].cam_lock = u

CallInv ==
    \A u \in User : /\ OpFits(u) /\ CallHandle(u) /\ OwnHandleFound(u)
                    /\ IntfLock(u) /\ FoundStays(u) /\ CamLock(u)

\* One call at a time closes an object, which is not in the table any more.
CloserAlone ==
    \A u \in User : Closing(u) =>
        /\ g.cam_obj # th[u].hdl
        /\ \A v \in User : Closing(v) /\ th[v].hdl = th[u].hdl => v = u

\* The camera in the table lives.
TableIsLive == g.cam_obj # NoObj => g.cam_obj <= g.count /\ obj[g.cam_obj].live

McInv ==
    /\ McTypeOK
    /\ CallInv
    /\ CloserAlone
    /\ TableIsLive
    /\ NoUseAfterFree
    /\ CountsUsers

-----------------------------------------------------------------------------
\* The empty table satisfies the invariant.
LEMMA InitMcInv == McInit => McInv
<1> SUFFICES ASSUME McInit PROVE McInv
  OBVIOUS
<1> USE MmCameraAssumption DEF McInit
<1>1. Cardinality(User) \in Nat
  BY FS_CardinalityType
<1>2. McTypeOK
  BY <1>1 DEF McTypeOK, Pc, IntfOp, CamObj, NoObj
<1>3. CallInv
  BY DEF CallInv, OpFits, CallHandle, OwnHandleFound, IntfLock, FoundStays,
         CamLock, InObject, NoObj
<1>4. CloserAlone /\ TableIsLive /\ NoUseAfterFree /\ CountsUsers
  BY DEF CloserAlone, Closing, TableIsLive, NoUseAfterFree, CountsUsers,
         InObject, NoObj, CamObj
<1> QED
  BY <1>2, <1>3, <1>4 DEF McInv

\* The users of the camera are counted before and after a step by one who
\* opens it or closes it.
LEMMA OneMoreOrLess ==
  ASSUME NEW u \in User, NEW o, NEW h \in [User -> CamObj \cup {NoObj}]
  PROVE  /\ Cardinality(Opened(h, o)) \in 0 .. Cardinality(User)
         /\ Cardinality(Opened([h EXCEPT ![u] = o], o)) \in 0 .. Cardinality(User)
         /\ h[u] # o =>
                Cardinality(Opened([h EXCEPT ![u] = o], o)) = Cardinality(Opened(h, o)) + 1
         /\ h[u] = o /\ o # NoObj =>
                /\ Cardinality(Opened(h, o)) >= 1
                /\ Cardinality(Opened([h EXCEPT ![u] = NoObj], o))
                       = Cardinality(Opened(h, o)) - 1
                /\ Cardinality(Opened(h, o)) = 1 => Opened(h, o) = {u}
<1> DEFINE S == Opened(h, o)
           More == Opened([h EXCEPT ![u] = o], o)
           Less == Opened([h EXCEPT ![u] = NoObj], o)
<1>1. IsFiniteSet(User) /\ Cardinality(User) \in Nat
  BY MmCameraAssumption, FS_CardinalityType
<1>2. /\ IsFiniteSet(S) /\ Cardinality(S) \in Nat
      /\ Cardinality(S) <= Cardinality(User)
  <2>1. S \in SUBSET User
    BY DEF Opened
  <2> QED
    BY <1>1, <2>1, FS_Subset, FS_CardinalityType
<1>3. /\ Cardinality(More) \in Nat /\ Cardinality(More) <= Cardinality(User)
  <2>1. More \in SUBSET User
    BY DEF Opened
  <2> QED
    BY <1>1, <2>1, FS_Subset, FS_CardinalityType
<1>4. ASSUME h[u] # o PROVE Cardinality(More) = Cardinality(S) + 1
  <2>1. More = S \cup {u} /\ u \notin S
    BY <1>4 DEF Opened
  <2> QED
    BY <1>2, <2>1, FS_AddElement
<1>5. ASSUME h[u] = o, o # NoObj
      PROVE  /\ Cardinality(S) >= 1
             /\ Cardinality(Less) = Cardinality(S) - 1
             /\ Cardinality(S) = 1 => S = {u}
  <2>1. Less = S \ {u} /\ u \in S
    BY <1>5 DEF Opened
  <2>2. Cardinality(Less) = Cardinality(S) - 1
    BY <1>2, <2>1, FS_RemoveElement
  <2>3. Cardinality(S) # 0
    BY <1>2, <2>1, FS_EmptySet
  <2>4. ASSUME Cardinality(S) = 1 PROVE S = {u}
    BY <1>2, <2>1, <2>4, FS_Singleton
  <2> QED
    BY <1>2, <2>2, <2>3, <2>4
<1>6. Cardinality(S) \in 0 .. Cardinality(User) /\ Cardinality(More) \in 0 .. Cardinality(User)
  BY <1>1, <1>2, <1>3
<1> QED
  BY <1>4, <1>5, <1>6

\* The reference count of the camera in the table, by the handles.
LEMMA CountOf ==
  ASSUME McInv, g.cam_obj # NoObj
  PROVE  /\ g.cam_obj \in CamObj
         /\ obj[g.cam_obj].ref_count = Cardinality(Opened(has, g.cam_obj))
BY DEF McInv, McTypeOK, TableIsLive, CountsUsers, Opened

-----------------------------------------------------------------------------
\* Every step keeps the variables in their types.  A count stays below the
\* number of threads because it counts threads.
LEMMA NextTypeOK == McInv /\ [McNext]_mcVars => McTypeOK'
<1> SUFFICES ASSUME McInv, [McNext]_mcVars PROVE McTypeOK'
  OBVIOUS
<1> USE MmCameraAssumption
<1>1. /\ g \in [lock : User \cup {Free}, cam_obj : CamObj \cup {NoObj}, count : 0 .. MaxOpens]
      /\ obj \in [CamObj -> Objects] /\ th \in [User -> Threads]
      /\ has \in [User -> CamObj \cup {NoObj}] /\ daemon \in Seq(CamObj \X User)
  BY DEF McInv, McTypeOK, Objects, Threads
<1>ob. obj \in [CamObj -> Objects]
  BY <1>1
<1>ha. has \in [User -> CamObj \cup {NoObj}]
  BY <1>1
<1>2. Cardinality(User) \in Nat
  BY FS_CardinalityType
<1>3. \A u \in User : CallHandle(u) /\ OpFits(u) /\ OwnHandleFound(u)
  BY DEF McInv, CallInv
<1>4. \A u \in User : th[u].pc \in InObject => th[u].hdl \in CamObj
  BY <1>1, <1>3 DEF CallHandle, Threads
<1>5. ASSUME NEW u \in User, NEW pc \in Pc, McGoto(u, pc)
      PROVE th' \in [User -> Threads]
  <2>1. [th[u] EXCEPT !.pc = pc] \in Threads
    BY <1>1 DEF Threads
  <2> QED
    BY <1>1, <1>5, <2>1 DEF McGoto
<1> DEFINE Typed ==
        /\ g' \in [lock : User \cup {Free}, cam_obj : CamObj \cup {NoObj}, count : 0 .. MaxOpens]
        /\ obj' \in [CamObj -> Objects] /\ th' \in [User -> Threads]
        /\ has' \in [User -> CamObj \cup {NoObj}] /\ daemon' \in Seq(CamObj \X User)
<1>6. SUFFICES Typed
  BY DEF McTypeOK, Objects, Threads
<1>7. ASSUME NEW u \in User, Enter(u) PROVE Typed
  BY <1>1, <1>7 DEF Enter, Threads, Pc, CamObj, NoObj
<1>8. ASSUME NEW u \in User, TakeIntfLock(u) \/ NotFound(u) \/ FoundForCall(u)
      PROVE Typed
  BY <1>1, <1>5, <1>8 DEF TakeIntfLock, NotFound, FoundForCall, CallReturns, Pc
<1>9. ASSUME NEW u \in User, OpenAgain(u) PROVE Typed
  <2>0. g.cam_obj # NoObj
    BY <1>9 DEF OpenAgain
  <2>1. g.cam_obj \in CamObj
    BY <1>1, <2>0
  <2>2. obj[g.cam_obj].ref_count + 1 \in 0 .. Cardinality(User)
    <3>1. has[u] # g.cam_obj
      BY <1>3, <1>9, <2>1 DEF OpenAgain, CallHandle, McAt
    <3> QED
      <4>1. obj[g.cam_obj].ref_count = Cardinality(Opened(has, g.cam_obj))
        BY <2>0, CountOf
      <4>2. /\ Cardinality(Opened(has, g.cam_obj)) \in 0 .. Cardinality(User)
            /\ Cardinality(Opened(has, g.cam_obj)) + 1 \in 0 .. Cardinality(User)
        <5>1. /\ Cardinality(Opened(has, g.cam_obj)) \in 0 .. Cardinality(User)
              /\ Cardinality(Opened([has EXCEPT ![u] = g.cam_obj], g.cam_obj))
                     \in 0 .. Cardinality(User)
              /\ Cardinality(Opened([has EXCEPT ![u] = g.cam_obj], g.cam_obj))
                     = Cardinality(Opened(has, g.cam_obj)) + 1
          BY <1>ha, <3>1, OneMoreOrLess
        <5> QED
          BY <5>1
      <4> QED
        BY <4>1, <4>2
  <2>3. obj' \in [CamObj -> Objects]
    BY <1>ob, <1>2, <1>9, <2>1, <2>2 DEF OpenAgain, Objects
  <2> QED
    BY <1>1, <1>5, <1>9, <2>1, <2>3 DEF OpenAgain, CallReturns, Pc
<1>10. ASSUME NEW u \in User, Open(u) PROVE Typed
  <2>1. Cardinality(User) >= 1
    BY <1>2, FS_EmptySet, u \in User
  <2>2. CASE /\ g.count < MaxOpens
             /\ obj' = [obj EXCEPT ![g.count + 1].live = TRUE, ![g.count + 1].ref_count = 1]
             /\ g' = [lock |-> Free, cam_obj |-> g.count + 1, count |-> g.count + 1]
             /\ has' = [has EXCEPT ![u] = g.count + 1]
    <3>1. g.count + 1 \in CamObj /\ g.count + 1 \in 0 .. MaxOpens
      BY <1>1, <2>2 DEF CamObj
    <3>2. obj' \in [CamObj -> Objects]
      <4>1. [obj[g.count + 1] EXCEPT !.live = TRUE, !.ref_count = 1] \in Objects
        <5>1. 1 \in 0 .. Cardinality(User) /\ obj[g.count + 1] \in Objects
          BY <1>ob, <1>2, <2>1, <3>1
        <5> QED
          BY <5>1 DEF Objects
      <4>2. obj' = [obj EXCEPT ![g.count + 1] =
                        [obj[g.count + 1] EXCEPT !.live = TRUE, !.ref_count = 1]]
        BY <1>ob, <2>2, <3>1 DEF Objects
      <4> QED
        BY <1>ob, <4>1, <4>2
    <3> QED
      BY <1>1, <1>5, <1>10, <2>2, <3>1, <3>2 DEF Open, CallReturns, Pc
  <2>3. CASE /\ g' = [g EXCEPT !.lock = Free,
                           !.count = IF g.count < MaxOpens THEN @ + 1 ELSE @]
             /\ UNCHANGED <<obj, has>>
    <3>1. (IF g.count < MaxOpens THEN g.count + 1 ELSE g.count) \in 0 .. MaxOpens
      BY <1>1
    <3> QED
      BY <1>1, <1>5, <1>10, <2>3, <3>1 DEF Open, CallReturns, Pc
  <2> QED
    BY <1>10, <2>2, <2>3 DEF Open
<1>11. ASSUME NEW u \in User, CloseIntf(u) PROVE Typed
  <2> DEFINE o == th[u].hdl
  <2>1. o \in CamObj /\ g.cam_obj = o /\ has[u] = o
    BY <1>1, <1>3, <1>11 DEF CloseIntf, Found, CallHandle, McAt, Threads
  <2>2. obj[o].ref_count - 1 \in 0 .. Cardinality(User)
    <3>1. o # NoObj
      BY <2>1 DEF CamObj, NoObj
    <3>2. obj[o].ref_count = Cardinality(Opened(has, o))
      BY <2>1, <3>1, CountOf
    <3>3. /\ Cardinality(Opened(has, o)) >= 1
          /\ Cardinality(Opened(has, o)) \in 0 .. Cardinality(User)
      BY <1>ha, <2>1, <3>1, OneMoreOrLess
    <3> QED
      BY <1>2, <3>2, <3>3
  <2>3. obj' \in [CamObj -> Objects]
    BY <1>ob, <1>2, <1>11, <2>1, <2>2 DEF CloseIntf, Objects
  <2> QED
    BY <1>1, <1>5, <1>11, <2>3 DEF CloseIntf, CallReturns, Pc
<1>12. ASSUME NEW u \in User, TakeCamLock(u) PROVE Typed
  <2>1. AfterCamLock(u) \in Pc
    BY <1>1, <1>3, <1>12 DEF TakeCamLock, AfterCamLock, OpFits, McAt, Threads, Pc,
                         IntfOp, CameraOp, ChannelOp
  <2>2. obj' \in [CamObj -> Objects]
    <3>1. \A o \in CamObj : [obj[o] EXCEPT !.cam_lock = u] \in Objects
      BY <1>ob DEF Objects
    <3> QED
      BY <1>ob, <1>12, <3>1 DEF TakeCamLock
  <2> QED
    BY <1>1, <1>5, <1>12, <2>1, <2>2 DEF TakeCamLock, Pc
<1>13. ASSUME NEW u \in User,
              \/ CameraOpEnds(u) \/ CloseEnds(u) \/ TakeChLock(u) \/ ChannelOpEnds(u)
       PROVE Typed
  <2>1. obj' \in [CamObj -> Objects]
    BY <1>ob, <1>13 DEF CameraOpEnds, CloseEnds, TakeChLock, ChannelOpEnds, Objects
  <2> QED
    BY <1>1, <1>5, <1>13, <2>1 DEF CameraOpEnds, CloseEnds, TakeChLock, ChannelOpEnds, CallReturns, Pc
<1>14. ASSUME NEW u \in User, QbufUnlocks(u) PROVE Typed
  <2>1. obj' \in [CamObj -> Objects]
    BY <1>ob, <1>14 DEF QbufUnlocks, Objects
  <2> QED
    BY <1>1, <1>5, <1>14, <2>1 DEF QbufUnlocks, CallReturns, Pc
<1>15. ASSUME NEW u \in User, SendMsg(u) PROVE Typed
  <2>1. obj' \in [CamObj -> Objects]
    <3>1. \A o \in CamObj : [obj[o] EXCEPT !.msg_lock = u] \in Objects
      BY <1>ob DEF Objects
    <3> QED
      BY <1>ob, <1>15, <3>1 DEF SendMsg
  <2>2. th[u].hdl \in CamObj
    BY <1>4, <1>15 DEF SendMsg, McAt, InObject
  <2>3. daemon' = Append(daemon, <<th[u].hdl, u>>) \/ daemon' = daemon
    BY <1>15 DEF SendMsg
  <2>4. McGoto(u, "wait") \/ McGoto(u, "work")
    BY <1>15 DEF SendMsg
  <2>5. UNCHANGED <<g, has>>
    BY <1>15 DEF SendMsg
  <2>6. th' \in [User -> Threads]
    BY <1>5, <2>4 DEF Pc
  <2>7. daemon' \in Seq(CamObj \X User)
    <3>1. <<th[u].hdl, u>> \in CamObj \X User
      BY <2>2
    <3>2. daemon \in Seq(CamObj \X User)
      BY <1>1
    <3>3. \A S, e, q : e \in S /\ q \in Seq(S) => Append(q, e) \in Seq(S)
      OBVIOUS
    <3> QED
      BY <2>3, <3>1, <3>2, <3>3
  <2> QED
    BY <1>1, <2>1, <2>5, <2>6, <2>7
<1>16. ASSUME NEW u \in User, WaitForEvent(u) PROVE Typed
  <2>1. obj' \in [CamObj -> Objects]
    BY <1>ob, <1>16, ZenonT(60) DEF WaitForEvent, Objects
  <2> QED
    BY <1>1, <1>5, <1>16, <2>1 DEF WaitForEvent, Pc
<1>17. ASSUME EventNotify PROVE Typed
  <2>1. Head(daemon) \in CamObj \X User /\ Tail(daemon) \in Seq(CamObj \X User)
    BY <1>1, <1>17 DEF EventNotify
  <2>2. obj' \in [CamObj -> Objects]
    <3>1. \A o \in CamObj, v \in User : [obj[o] EXCEPT !.evt_rcvd = v] \in Objects
      BY <1>ob DEF Objects
    <3>2. Head(daemon)[2] \in User
      BY <2>1
    <3> QED
      BY <1>ob, <1>17, <3>1, <3>2 DEF EventNotify
  <2> QED
    BY <1>1, <1>17, <2>1, <2>2 DEF EventNotify
<1>18. ASSUME UNCHANGED mcVars PROVE Typed
  BY <1>1, <1>18 DEF mcVars
<1> QED
  BY <1>7, <1>8, <1>9, <1>10, <1>11, <1>12, <1>13, <1>14, <1>15, <1>16, <1>17,
     <1>18 DEF McNext, LockStep, WorkStep

-----------------------------------------------------------------------------
\* A step of one call, and the call of any thread v after it.  A step that
\* takes a lock finds it free; a step that changes the table has g_intf_lock.
LEMMA NextCallInv == McInv /\ McTypeOK' /\ [McNext]_mcVars => CallInv'
<1> SUFFICES ASSUME McInv, McTypeOK', [McNext]_mcVars, NEW v \in User
             PROVE  /\ OpFits(v)' /\ CallHandle(v)' /\ OwnHandleFound(v)'
                    /\ IntfLock(v)' /\ FoundStays(v)' /\ CamLock(v)'
  BY DEF CallInv
<1> DEFINE Keeps == /\ OpFits(v)' /\ CallHandle(v)' /\ OwnHandleFound(v)'
                   /\ IntfLock(v)' /\ FoundStays(v)' /\ CamLock(v)'
<1>th. th \in [User -> Threads] /\ th' \in [User -> Threads]
  BY DEF McInv, McTypeOK, Threads
<1>ob. obj \in [CamObj -> Objects]
  BY DEF McInv, McTypeOK, Objects
<1>ha. has \in [User -> CamObj \cup {NoObj}]
  BY DEF McInv, McTypeOK
<1>g. g \in [lock : User \cup {Free}, cam_obj : CamObj \cup {NoObj}, count : 0 .. MaxOpens]
  BY DEF McInv, McTypeOK
<1>in. \A u \in User : /\ OpFits(u) /\ CallHandle(u) /\ OwnHandleFound(u)
                       /\ IntfLock(u) /\ FoundStays(u) /\ CamLock(u)
  BY DEF McInv, CallInv
<1>fr. Free \notin User
  BY MmCameraAssumption
<1> USE DEF OpFits, CallHandle, OwnHandleFound, IntfLock, FoundStays, CamLock, InObject,
            McAt, McGoto, CallReturns, CameraOp, ChannelOp, NoObj
<1>1. ASSUME NEW u \in User, Enter(u) PROVE Keeps
  BY <1>1, <1>th, <1>ha, <1>g, <1>in DEF Enter, Threads, IntfOp
<1>2. ASSUME NEW u \in User, TakeIntfLock(u) PROVE Keeps
  BY <1>2, <1>th, <1>g, <1>in, <1>fr DEF TakeIntfLock, Threads
<1>3. ASSUME NEW u \in User, NotFound(u) PROVE Keeps
  BY <1>3, <1>th, <1>ha, <1>g, <1>in DEF NotFound, Found, Threads
<1>4. ASSUME NEW u \in User, OpenAgain(u) PROVE Keeps
  <2>1. g.cam_obj \in CamObj /\ g.cam_obj <= g.count /\ g'.cam_obj = g.cam_obj /\ g'.count = g.count
    BY <1>4, <1>g DEF OpenAgain, McInv, TableIsLive
  <2>2. \A o \in CamObj : obj'[o].cam_lock = obj[o].cam_lock
    BY <1>4, <1>ob, <2>1 DEF OpenAgain, Objects
  <2>3. CASE v = u
    <3>1. th'[v].pc = "idle" /\ th'[v].hdl = th[v].hdl /\ has'[v] = g.cam_obj
      BY <1>4, <1>th, <1>ha, <2>3 DEF OpenAgain, Threads
    <3> QED
      BY <1>in, <2>1, <3>1
  <2>4. CASE v # u
    <3>1. th'[v] = th[v] /\ has'[v] = has[v]
      BY <1>4, <1>th, <1>ha, <2>4 DEF OpenAgain
    <3>2. g'.lock = IF g.lock = u THEN Free ELSE g.lock
      BY <1>4, <1>in, <1>g DEF OpenAgain
    <3>3. th[v].hdl # NoObj => th[v].hdl \in CamObj
      BY <1>th DEF Threads
    <3> QED
      BY <1>in, <2>1, <2>2, <2>4, <3>1, <3>2, <3>3
  <2> QED
    BY <2>3, <2>4
<1>5. ASSUME NEW u \in User, Open(u) PROVE Keeps
  <2>1. /\ g.cam_obj = NoObj /\ has[v] = NoObj /\ has[u] = NoObj /\ g.count \in 0 .. MaxOpens
        /\ g.lock = u /\ th[v].hdl <= g.count
    BY <1>5, <1>g, <1>in DEF Open
  <2>2. \A o \in CamObj : obj'[o].cam_lock = obj[o].cam_lock
    BY <1>5, <1>ob, <2>1 DEF Open, Objects
  <2>3. th' = [th EXCEPT ![u].pc = "idle"]
    BY <1>5 DEF Open
  <2>4. th'[v].op = th[v].op /\ th'[v].hdl = th[v].hdl /\ (v # u => th'[v].pc = th[v].pc)
        /\ (v = u => th'[v].pc = "idle")
    BY <1>th, <2>3 DEF Threads
  <2>5. /\ g'.count \in {g.count, g.count + 1}
        /\ \/ g'.cam_obj = g.cam_obj /\ has' = has
           \/ g'.cam_obj = g.count + 1 /\ has' = [has EXCEPT ![u] = g.count + 1]
              /\ g'.count = g.count + 1
    <3>1. CASE /\ g' = [lock |-> Free, cam_obj |-> g.count + 1, count |-> g.count + 1]
               /\ has' = [has EXCEPT ![u] = g.count + 1]
      BY <3>1
    <3>2. CASE /\ g' = [g EXCEPT !.lock = Free,
                             !.count = IF g.count < MaxOpens THEN @ + 1 ELSE @]
               /\ has' = has
      BY <1>g, <3>2
    <3> QED
      BY <1>5, <3>1, <3>2 DEF Open
  <2>6. th[v].hdl # NoObj => th[v].hdl \in CamObj
    BY <1>th DEF Threads
  <2>7. v # u => th[v].pc \notin {"find", "cam"}
    BY <1>in, <2>1
  <2>8. OpFits(v)' /\ IntfLock(v)' /\ FoundStays(v)'
    BY <1>in, <2>4, <2>7
  <2>9. CamLock(v)'
    BY <1>in, <2>2, <2>4, <2>6
  <2>10. has'[v] \in {NoObj, g'.cam_obj} /\ has'[v] <= g'.count /\ (v # u => has'[v] = has[v])
    BY <1>ha, <2>1, <2>5
  <2>11. OwnHandleFound(v)'
    BY <2>10
  <2>12. th[v].hdl <= g'.count
    BY <1>th, <2>1, <2>5 DEF Threads, CamObj
  <2>13. CallHandle(v)'
    BY <1>in, <2>4, <2>10, <2>12
  <2> QED
    BY <2>8, <2>9, <2>11, <2>13
<1>6. ASSUME NEW u \in User, CloseIntf(u) PROVE Keeps
  <2> DEFINE o == th[u].hdl
  <2>1. /\ o \in CamObj /\ g.cam_obj = o /\ has[u] = o /\ g.lock = u /\ o # NoObj
        /\ th[u].pc = "find" /\ th[u].op = "close"
    BY <1>6, <1>th, <1>in DEF CloseIntf, Found, Threads
  <2>2. obj[o].ref_count = 1 => Opened(has, o) = {u}
    <3>1. obj[o].ref_count = Cardinality(Opened(has, o))
      BY <2>1, CountOf
    <3>2. Cardinality(Opened(has, o)) = 1 => Opened(has, o) = {u}
      BY <1>ha, <2>1, OneMoreOrLess
    <3> QED
      BY <3>1, <3>2
  <2>3. obj[o].ref_count = 1 /\ v # u => has[v] = NoObj
    BY <1>in, <2>1, <2>2 DEF Opened
  <2>4. /\ has'[v] = (IF v = u THEN NoObj ELSE has[v])
        /\ \A p \in CamObj : obj'[p].cam_lock = obj[p].cam_lock
    BY <1>6, <1>ha, <1>ob, <2>1 DEF CloseIntf, Objects
  <2>5. /\ g'.count = g.count
        /\ obj[o].ref_count = 1 => g'.cam_obj = NoObj /\ g'.lock = u /\ th' = [th EXCEPT ![u].pc = "cam"]
        /\ obj[o].ref_count # 1 => g'.cam_obj = o /\ th' = [th EXCEPT ![u].pc = "idle"]
    BY <1>6, <1>g, <2>1 DEF CloseIntf
  <2>6. /\ th'[v].op = th[v].op /\ th'[v].hdl = th[v].hdl /\ (v # u => th'[v].pc = th[v].pc)
        /\ v = u => th'[v].pc = (IF obj[o].ref_count = 1 THEN "cam" ELSE "idle")
    BY <1>th, <2>5 DEF Threads
  <2>7. v # u => th[v].pc \notin {"find", "cam"}
    BY <1>in, <2>1
  <2>8. th[v].hdl # NoObj => th[v].hdl \in CamObj
    BY <1>th DEF Threads
  <2>9. OpFits(v)' /\ IntfLock(v)' /\ FoundStays(v)'
    BY <1>in, <2>1, <2>5, <2>6, <2>7
  <2>10. CamLock(v)'
    BY <1>in, <2>1, <2>4, <2>6, <2>8
  <2>11. OwnHandleFound(v)'
    BY <1>in, <2>1, <2>3, <2>4, <2>5
  <2>12. CallHandle(v)'
    BY <1>in, <1>g, <2>1, <2>4, <2>5, <2>6
  <2> QED
    BY <2>9, <2>10, <2>11, <2>12
<1>7. ASSUME NEW u \in User, FoundForCall(u) PROVE Keeps
  BY <1>7, <1>th, <1>ob, <1>ha, <1>g, <1>in DEF FoundForCall, Found, Threads
<1>8. ASSUME NEW u \in User, TakeCamLock(u) PROVE Keeps
  <2> DEFINE o == th[u].hdl
  <2>1. /\ o \in CamObj /\ obj[o].cam_lock = Free /\ g.lock = u /\ th[u].pc = "cam"
        /\ th[u].op # "open" /\ th[u].op \in IntfOp
    BY <1>8, <1>th, <1>in DEF TakeCamLock, Threads
  <2>2. /\ \A p \in CamObj : obj'[p].cam_lock = (IF p = o THEN u ELSE obj[p].cam_lock)
        /\ g'.cam_obj = g.cam_obj /\ g'.count = g.count /\ has' = has
    BY <1>8, <1>ob, <1>g, <2>1 DEF TakeCamLock, Objects
  <2>3. /\ th'[v].op = th[v].op /\ th'[v].hdl = th[v].hdl /\ (v # u => th'[v].pc = th[v].pc)
        /\ v = u => th'[v].pc = AfterCamLock(u)
    BY <1>8, <1>th DEF TakeCamLock, Threads
  <2>4. /\ th[u].op = "close" => AfterCamLock(u) = "closing"
        /\ th[u].op \in ChannelOp => AfterCamLock(u) = "ch"
        /\ th[u].op = "qbuf" => AfterCamLock(u) = "qbuf"
        /\ th[u].op = "map_buf" => AfterCamLock(u) = "send"
        /\ th[u].op = "set_parms" => AfterCamLock(u) = "work"
    BY DEF AfterCamLock
  <2>5. th[u].op \in {"close", "qbuf", "map_buf", "set_parms"} \cup ChannelOp
    BY <2>1 DEF IntfOp
  <2>6. v # u => th[v].pc \notin {"find", "cam"}
    BY <1>in, <2>1
  <2>7. th[v].hdl # NoObj => th[v].hdl \in CamObj
    BY <1>th DEF Threads
  <2>8. OpFits(v)' /\ IntfLock(v)' /\ FoundStays(v)'
    BY <1>in, <2>3, <2>4, <2>5, <2>6
  <2>9. CASE v = u
    BY <1>in, <2>1, <2>2, <2>3, <2>4, <2>5, <2>8, <2>9
  <2>10. CASE v # u
    BY <1>in, <1>fr, <2>1, <2>2, <2>3, <2>6, <2>7, <2>8, <2>10
  <2> QED
    BY <2>9, <2>10
<1>9. ASSUME NEW u \in User, CameraOpEnds(u) PROVE Keeps
  BY <1>9, <1>th, <1>ob, <1>ha, <1>g, <1>in DEF CameraOpEnds, Threads, Objects
<1>10. ASSUME NEW u \in User, CloseEnds(u) PROVE Keeps
  BY <1>10, <1>th, <1>ob, <1>ha, <1>g, <1>in DEF CloseEnds, Threads, Objects
<1>11. ASSUME NEW u \in User, TakeChLock(u) PROVE Keeps
  BY <1>11, <1>th, <1>ob, <1>ha, <1>g, <1>in DEF TakeChLock, Threads, Objects
<1>12. ASSUME NEW u \in User, ChannelOpEnds(u) PROVE Keeps
  BY <1>12, <1>th, <1>ob, <1>ha, <1>g, <1>in DEF ChannelOpEnds, Threads, Objects
<1>13. ASSUME NEW u \in User, QbufUnlocks(u) PROVE Keeps
  BY <1>13, <1>th, <1>ob, <1>ha, <1>g, <1>in DEF QbufUnlocks, Threads, Objects
<1>14. ASSUME NEW u \in User, SendMsg(u) PROVE Keeps
  <2>1. th[u].pc = "send" /\ g' = g /\ has' = has
    BY <1>14 DEF SendMsg, McAt
  <2>2. \A p \in CamObj : obj'[p].cam_lock = obj[p].cam_lock
    <3>1. obj' = [obj EXCEPT ![th[u].hdl].msg_lock = u] \/ obj' = obj
      BY <1>14 DEF SendMsg
    <3>2. \A p \in CamObj : [obj[p] EXCEPT !.msg_lock = u].cam_lock = obj[p].cam_lock
      BY <1>ob DEF Objects
    <3>3. CASE obj' = [obj EXCEPT ![th[u].hdl].msg_lock = u]
      BY <1>ob, <3>2, <3>3
    <3>4. CASE obj' = obj
      BY <3>4
    <3> QED
      BY <3>1, <3>3, <3>4
  <2>3. th' = [th EXCEPT ![u].pc = "wait"] \/ th' = [th EXCEPT ![u].pc = "work"]
    BY <1>14 DEF SendMsg, McGoto
  <2>4. /\ th'[v].op = th[v].op /\ th'[v].hdl = th[v].hdl
        /\ v # u => th'[v].pc = th[v].pc
        /\ v = u => th'[v].pc \in {"wait", "work"}
    BY <1>th, <2>3 DEF Threads
  <2>5. th[v].hdl # NoObj => th[v].hdl \in CamObj
    BY <1>th DEF Threads
  <2>6. OpFits(v)' /\ OwnHandleFound(v)' /\ IntfLock(v)' /\ FoundStays(v)'
    BY <1>in, <2>1, <2>4
  <2>7. CallHandle(v)'
    BY <1>in, <2>1, <2>4
  <2>8. CamLock(v)'
    BY <1>in, <2>1, <2>2, <2>4, <2>5
  <2> QED
    BY <2>6, <2>7, <2>8
<1>15. ASSUME NEW u \in User, WaitForEvent(u) PROVE Keeps
  BY <1>15, <1>th, <1>ob, <1>ha, <1>g, <1>in DEF WaitForEvent, Threads, Objects
<1>16. ASSUME EventNotify PROVE Keeps
  BY <1>16, <1>th, <1>ob, <1>ha, <1>g, <1>in DEF EventNotify, Threads, Objects
<1>17. ASSUME UNCHANGED mcVars PROVE Keeps
  BY <1>17, <1>in DEF mcVars
<1> QED
  BY <1>1, <1>2, <1>3, <1>4, <1>5, <1>6, <1>7, <1>8, <1>9, <1>10, <1>11, <1>12,
     <1>13, <1>14, <1>15, <1>16, <1>17 DEF McNext, LockStep, WorkStep

-----------------------------------------------------------------------------
\* What the steps do to the table, to who closes and to who lives.
LEMMA TableSteps ==
  ASSUME McInv, McTypeOK', McNext
  PROVE  /\ g.count <= g'.count
         /\ \/ g'.cam_obj = g.cam_obj
            \/ g'.cam_obj = NoObj
            \/ g'.cam_obj = g.count + 1 /\ g'.cam_obj <= g'.count /\ obj'[g'.cam_obj].live
         /\ \A o \in CamObj : obj[o].live =>
                obj'[o].live \/ \E u \in User : CloseEnds(u) /\ th[u].hdl = o
         /\ \A u \in User : Closing(u)' =>
                /\ th'[u].hdl = th[u].hdl
                /\ Closing(u) \/ (CloseIntf(u) /\ th[u].hdl = g.cam_obj /\ g'.cam_obj = NoObj)
<1> USE DEF McGoto, McAt, CallReturns
<1> DEFINE Table ==
             /\ g.count <= g'.count
             /\ \/ g'.cam_obj = g.cam_obj
                \/ g'.cam_obj = NoObj
                \/ g'.cam_obj = g.count + 1 /\ g'.cam_obj <= g'.count /\ obj'[g'.cam_obj].live
           Lives ==
             \A o \in CamObj : obj[o].live =>
                 obj'[o].live \/ \E u \in User : CloseEnds(u) /\ th[u].hdl = o
           Closes ==
             \A u \in User : Closing(u)' =>
                 /\ th'[u].hdl = th[u].hdl
                 /\ Closing(u) \/ (CloseIntf(u) /\ th[u].hdl = g.cam_obj /\ g'.cam_obj = NoObj)
<1>th. th \in [User -> Threads]
  BY DEF McInv, McTypeOK, Threads
<1>ob. obj \in [CamObj -> Objects]
  BY DEF McInv, McTypeOK, Objects
<1>g. g \in [lock : User \cup {Free}, cam_obj : CamObj \cup {NoObj}, count : 0 .. MaxOpens]
  BY DEF McInv, McTypeOK
<1>in. \A u \in User : OpFits(u)
  BY DEF McInv, CallInv
<1>1. Table
  <2>1. ASSUME NEW u \in User, Open(u) PROVE Table
    <3>1. CASE /\ g.count < MaxOpens
               /\ obj' = [obj EXCEPT ![g.count + 1].live = TRUE, ![g.count + 1].ref_count = 1]
               /\ g' = [lock |-> Free, cam_obj |-> g.count + 1, count |-> g.count + 1]
      <4>1. g.count + 1 \in CamObj
        BY <1>g, <3>1, MmCameraAssumption DEF CamObj
      <4>2. obj'[g.count + 1].live
        BY <1>ob, <3>1, <4>1 DEF Objects
      <4> QED
        BY <1>g, <3>1, <4>2
    <3>2. CASE g' = [g EXCEPT !.lock = Free,
                             !.count = IF g.count < MaxOpens THEN @ + 1 ELSE @]
      BY <1>g, <3>2
    <3> QED
      BY <2>1, <3>1, <3>2 DEF Open
  <2>2. ASSUME NEW u \in User, CloseIntf(u) PROVE Table
    BY <1>g, <2>2 DEF CloseIntf
  <2>3. ASSUME g' = g PROVE Table
    BY <1>g, <2>3
  <2>4. ASSUME NEW u \in User,
               TakeIntfLock(u) \/ NotFound(u) \/ OpenAgain(u) \/ TakeCamLock(u)
        PROVE Table
    BY <1>g, <2>4 DEF TakeIntfLock, NotFound, OpenAgain, TakeCamLock
  <2> QED
    BY <2>1, <2>2, <2>3, <2>4
       DEF McNext, LockStep, WorkStep, Enter, FoundForCall, CameraOpEnds, CloseEnds,
           TakeChLock, ChannelOpEnds, QbufUnlocks, SendMsg, WaitForEvent, EventNotify
<1>2. Lives
  <2>1. ASSUME NEW u \in User, CloseEnds(u) PROVE Lives
    <3>1. \A o \in CamObj : o # th[u].hdl => obj'[o] = obj[o]
      BY <1>ob, <2>1 DEF CloseEnds
    <3> QED
      BY <2>1, <3>1
  <2>2. ASSUME NEW u \in User, Open(u) PROVE Lives
    BY <1>ob, <2>2 DEF Open, Objects
  <2>3. ASSUME NEW u \in User, OpenAgain(u) \/ CloseIntf(u) PROVE Lives
    BY <1>ob, <2>3 DEF OpenAgain, CloseIntf, Objects
  <2>4. ASSUME NEW u \in User,
               TakeCamLock(u) \/ CameraOpEnds(u) \/ TakeChLock(u) \/ ChannelOpEnds(u)
        PROVE Lives
    BY <1>ob, <2>4 DEF TakeCamLock, CameraOpEnds, TakeChLock, ChannelOpEnds, Objects
  <2>5. ASSUME NEW u \in User, QbufUnlocks(u) PROVE Lives
    BY <1>ob, <2>5 DEF QbufUnlocks, Objects
  <2>6. ASSUME NEW u \in User, SendMsg(u) \/ WaitForEvent(u) PROVE Lives
    <3>1. CASE SendMsg(u)
      BY <1>ob, <3>1 DEF SendMsg, Objects
    <3>2. CASE WaitForEvent(u)
      BY <1>ob, <3>2 DEF WaitForEvent, Objects
    <3> QED
      BY <2>6, <3>1, <3>2
  <2>7. ASSUME EventNotify PROVE Lives
    BY <1>ob, <2>7 DEF EventNotify, Objects
  <2>8. ASSUME obj' = obj PROVE Lives
    BY <2>8
  <2> QED
    BY <2>1, <2>2, <2>3, <2>4, <2>5, <2>6, <2>7, <2>8
       DEF McNext, LockStep, WorkStep, Enter, TakeIntfLock, NotFound, FoundForCall
<1>3. Closes
  <2> SUFFICES ASSUME NEW v \in User, Closing(v)'
               PROVE  /\ th'[v].hdl = th[v].hdl
                      /\ Closing(v) \/ (CloseIntf(v) /\ th[v].hdl = g.cam_obj /\ g'.cam_obj = NoObj)
    OBVIOUS
  <2> DEFINE Keeps == th'[v].hdl = th[v].hdl /\ Closing(v)
  <2>1. ASSUME th' = th PROVE Keeps
    BY <2>1 DEF Closing
  <2>2. ASSUME NEW u \in User, NEW pc, pc \notin {"cam", "closing"}, McGoto(u, pc) PROVE Keeps
    BY <1>th, <2>2 DEF Closing, Threads
  <2>3. ASSUME NEW u \in User, Enter(u) PROVE Keeps
    BY <1>th, <2>3 DEF Enter, Closing, Threads
  <2>4. ASSUME NEW u \in User, FoundForCall(u) PROVE Keeps
    BY <1>th, <2>4 DEF FoundForCall, Closing, Threads
  <2>5. ASSUME NEW u \in User, TakeCamLock(u) PROVE Keeps
    BY <1>th, <2>5 DEF TakeCamLock, Closing, Threads
  <2>6. ASSUME NEW u \in User, CloseIntf(u), u = v
        PROVE  /\ th'[v].hdl = th[v].hdl
               /\ CloseIntf(v) /\ th[v].hdl = g.cam_obj /\ g'.cam_obj = NoObj
    <3>1. CASE obj[th[u].hdl].ref_count = 1
      BY <1>th, <1>g, <2>6, <3>1 DEF CloseIntf, Found, Threads
    <3>2. CASE obj[th[u].hdl].ref_count # 1
      BY <1>th, <2>6, <3>2 DEF CloseIntf, Closing, Threads
    <3> QED
      BY <3>1, <3>2
  <2>7. ASSUME NEW u \in User, CloseIntf(u), u # v PROVE Keeps
    BY <1>th, <2>7 DEF CloseIntf, Closing, Threads
  <2>8. ASSUME NEW u \in User, QbufUnlocks(u) PROVE Keeps
    BY <1>th, <2>8 DEF QbufUnlocks, Closing, Threads
  <2>9. ASSUME NEW u \in User, TakeChLock(u) PROVE Keeps
    BY <1>th, <2>9 DEF TakeChLock, Closing, Threads
  <2>10. ASSUME NEW u \in User,
                TakeIntfLock(u) \/ NotFound(u) \/ OpenAgain(u) \/ Open(u) \/ CameraOpEnds(u)
                \/ CloseEnds(u) \/ ChannelOpEnds(u) \/ SendMsg(u) \/ WaitForEvent(u)
         PROVE Keeps
    <3>1. \E pc \in {"find", "idle", "wait", "work"} : McGoto(u, pc)
      BY <2>10 DEF TakeIntfLock, NotFound, OpenAgain, Open, CameraOpEnds, CloseEnds,
                   ChannelOpEnds, SendMsg, WaitForEvent
    <3> QED
      BY <2>2, <3>1
  <2>11. EventNotify => th' = th
    BY DEF EventNotify
  <2> QED
    BY <2>1, <2>3, <2>4, <2>5, <2>6, <2>7, <2>8, <2>9, <2>10, <2>11
       DEF McNext, LockStep, WorkStep
<1> QED
  BY <1>1, <1>2, <1>3

\* A close stays alone, and what is in the table lives.
LEMMA NextCloserAndTable ==
    McInv /\ McTypeOK' /\ CallInv' /\ McNext => CloserAlone' /\ TableIsLive'
<1> SUFFICES ASSUME McInv, McTypeOK', CallInv', McNext PROVE CloserAlone' /\ TableIsLive'
  OBVIOUS
<1>th. th \in [User -> Threads] /\ th' \in [User -> Threads]
  BY DEF McInv, McTypeOK, Threads
<1>ob. obj \in [CamObj -> Objects]
  BY DEF McInv, McTypeOK, Objects
<1>g. /\ g \in [lock : User \cup {Free}, cam_obj : CamObj \cup {NoObj}, count : 0 .. MaxOpens]
      /\ g' \in [lock : User \cup {Free}, cam_obj : CamObj \cup {NoObj}, count : 0 .. MaxOpens]
  BY DEF McInv, McTypeOK
<1>in. \A u \in User : /\ CallHandle(u) /\ OpFits(u)
                       /\ th[u].hdl <= g.count
                       /\ (Closing(u) => th[u].hdl # NoObj)
  BY DEF McInv, CallInv, CallHandle, Closing, InObject
<1>in2. \A u \in User : Closing(u)' => th'[u].hdl # NoObj
  BY DEF CallInv, CallHandle, Closing, InObject
<1>ca. \A u \in User : Closing(u) =>
          /\ g.cam_obj # th[u].hdl
          /\ \A v \in User : Closing(v) /\ th[v].hdl = th[u].hdl => v = u
  BY DEF McInv, CloserAlone
<1>1. CloserAlone'
  <2> SUFFICES ASSUME NEW u \in User, Closing(u)'
               PROVE  /\ g'.cam_obj # th'[u].hdl
                      /\ \A v \in User : Closing(v)' /\ th'[v].hdl = th'[u].hdl => v = u
    BY DEF CloserAlone
  <2>1. /\ th'[u].hdl = th[u].hdl /\ th[u].hdl # NoObj /\ th[u].hdl <= g.count
        /\ Closing(u) \/ (th[u].hdl = g.cam_obj /\ g'.cam_obj = NoObj)
    BY <1>in, <1>in2, TableSteps
  <2>2. g'.cam_obj # th'[u].hdl
    <3>1. g'.cam_obj \in {g.cam_obj, NoObj, g.count + 1}
      BY TableSteps
    <3>2. th[u].hdl # g.count + 1
      BY <1>g, <1>th, <2>1 DEF Threads, CamObj, NoObj
    <3> QED
      BY <1>ca, <2>1, <3>1, <3>2
  <2>3. ASSUME NEW v \in User, Closing(v)', th'[v].hdl = th'[u].hdl PROVE v = u
    <3>1. /\ th'[v].hdl = th[v].hdl
          /\ Closing(v) \/ (CloseIntf(v) /\ th[v].hdl = g.cam_obj)
      BY <2>3, TableSteps
    <3>2. Closing(u) \/ (CloseIntf(u) /\ th[u].hdl = g.cam_obj)
      BY TableSteps
    <3>3. CloseIntf(u) /\ CloseIntf(v) => v = u
      BY DEF McInv, CallInv, IntfLock, CloseIntf, McAt
    <3> QED
      BY <1>ca, <2>1, <2>3, <3>1, <3>2, <3>3
  <2> QED
    BY <2>2, <2>3
<1>2. TableIsLive'
  <2> SUFFICES ASSUME g'.cam_obj # NoObj PROVE g'.cam_obj <= g'.count /\ obj'[g'.cam_obj].live
    BY DEF TableIsLive
  <2>1. CASE g'.cam_obj = g.count + 1 /\ g'.cam_obj <= g'.count /\ obj'[g'.cam_obj].live
    BY <2>1
  <2>2. CASE g'.cam_obj = g.cam_obj
    <3>1. g.cam_obj \in CamObj /\ g.cam_obj <= g.count /\ obj[g.cam_obj].live /\ g.count <= g'.count
      BY <1>g, <2>2, TableSteps DEF McInv, TableIsLive
    <3>2. \A u \in User : CloseEnds(u) => th[u].hdl # g.cam_obj
      BY <1>ca, <1>in DEF CloseEnds, McAt, Closing, OpFits
    <3>3. obj'[g.cam_obj].live
      BY <3>1, <3>2, TableSteps
    <3> QED
      BY <1>g, <2>2, <3>1, <3>3 DEF CamObj
  <2> QED
    BY <2>1, <2>2, TableSteps
<1> QED
  BY <1>1, <1>2

\* Who works with an object after a step did so before, or has found it now.
LEMMA ObjectSteps ==
  ASSUME McInv, McTypeOK', McNext, NEW v \in User, th'[v].pc \in InObject
  PROVE  /\ th'[v].hdl = th[v].hdl
         /\ \/ th[v].pc \in InObject
            \/ McAt(v, "find") /\ Found(v) /\ (FoundForCall(v) \/ CloseIntf(v))
<1> USE DEF McGoto, McAt, CallReturns, InObject
<1> DEFINE Said == /\ th'[v].hdl = th[v].hdl
                   /\ \/ th[v].pc \in InObject
                      \/ McAt(v, "find") /\ Found(v) /\ (FoundForCall(v) \/ CloseIntf(v))
<1>th. th \in [User -> Threads]
  BY DEF McInv, McTypeOK, Threads
<1>1. ASSUME NEW u \in User, Enter(u) PROVE Said
  BY <1>th, <1>1 DEF Enter, Threads
<1>2. ASSUME NEW u \in User, NEW pc, th' = [th EXCEPT ![u].pc = pc],
             th[u].pc \in InObject \/ pc \notin InObject
      PROVE Said
  BY <1>th, <1>2 DEF Threads
<1>3. ASSUME NEW u \in User, FoundForCall(u) \/ CloseIntf(u) PROVE Said
  <2>1. th[u].pc = "find" /\ Found(u)
    BY <1>3 DEF FoundForCall, CloseIntf
  <2>2. \E pc : th' = [th EXCEPT ![u].pc = pc]
    BY <1>3 DEF FoundForCall, CloseIntf
  <2>3. th'[v].hdl = th[v].hdl /\ (v # u => th'[v].pc = th[v].pc)
    BY <1>th, <2>2 DEF Threads
  <2> QED
    BY <1>3, <2>1, <2>3
<1>4. ASSUME th' = th PROVE Said
  BY <1>4
<1>5. ASSUME NEW u \in User,
             TakeIntfLock(u) \/ NotFound(u) \/ OpenAgain(u) \/ Open(u) \/ TakeCamLock(u)
             \/ CameraOpEnds(u) \/ CloseEnds(u) \/ TakeChLock(u) \/ ChannelOpEnds(u)
             \/ SendMsg(u) \/ WaitForEvent(u)
      PROVE Said
  <2>1. CASE TakeIntfLock(u)
    BY <1>2, <2>1 DEF TakeIntfLock
  <2>2. CASE NotFound(u) \/ OpenAgain(u) \/ Open(u)
    BY <1>2, <2>2 DEF NotFound, OpenAgain, Open
  <2>3. CASE CameraOpEnds(u) \/ CloseEnds(u) \/ ChannelOpEnds(u)
    BY <1>2, <2>3 DEF CameraOpEnds, CloseEnds, ChannelOpEnds
  <2>4. CASE TakeCamLock(u)
    BY <1>2, <2>4 DEF TakeCamLock
  <2>5. CASE TakeChLock(u) \/ SendMsg(u) \/ WaitForEvent(u)
    BY <1>2, <2>5 DEF TakeChLock, SendMsg, WaitForEvent
  <2> QED
    BY <1>5, <2>1, <2>2, <2>3, <2>4, <2>5
<1>6. ASSUME NEW u \in User, QbufUnlocks(u) PROVE Said
  BY <1>2, <1>4, <1>6 DEF QbufUnlocks
<1>7. EventNotify => th' = th
  BY DEF EventNotify
<1> QED
  BY <1>1, <1>3, <1>4, <1>5, <1>6, <1>7 DEF McNext, LockStep, WorkStep

\* Only the close that has the object to itself ends its life.
LEMMA NextNoUseAfterFree == McInv /\ McTypeOK' /\ McNext => NoUseAfterFree'
<1> SUFFICES ASSUME McInv, McTypeOK', McNext, NEW v \in User, th'[v].pc \in InObject
             PROVE  obj'[th'[v].hdl].live
  BY DEF NoUseAfterFree
<1> DEFINE o == th[v].hdl
<1>th. th \in [User -> Threads]
  BY DEF McInv, McTypeOK, Threads
<1>g. g.cam_obj \in CamObj \cup {NoObj}
  BY DEF McInv, McTypeOK
<1>in. \A u \in User : /\ OpFits(u) /\ CallHandle(u) /\ OwnHandleFound(u)
                       /\ FoundStays(u) /\ CamLock(u)
  BY DEF McInv, CallInv
<1>ca. \A u \in User : Closing(u) =>
          /\ g.cam_obj # th[u].hdl
          /\ \A w \in User : Closing(w) /\ th[w].hdl = th[u].hdl => w = u
  BY DEF McInv, CloserAlone
<1>1. o \in CamObj /\ obj[o].live /\ th'[v].hdl = o
  <2>1. CASE th[v].pc \in InObject
    BY <1>th, <1>in, <2>1, ObjectSteps DEF McInv, NoUseAfterFree, CallHandle, Threads
  <2>2. CASE Found(v)
    BY <1>g, <2>2, ObjectSteps DEF McInv, TableIsLive, Found
  <2> QED
    BY <2>1, <2>2, ObjectSteps
<1>2. ASSUME NEW u \in User, CloseEnds(u), th[u].hdl = o PROVE FALSE
  <2>1. Closing(u) /\ th[u].pc = "closing" /\ obj[o].cam_lock = u
    BY <1>in, <1>2 DEF CloseEnds, McAt, Closing, OpFits, CamLock
  <2>2. th'[u].pc = "idle" /\ v # u
    BY <1>th, <1>2 DEF CloseEnds, CallReturns, McGoto, InObject, Threads
  <2>3. th[v].pc \in InObject
    BY <1>th, <1>2, <2>2 DEF CloseEnds, CallReturns, McGoto
  <2>4. g.cam_obj # o
    BY <1>ca, <1>2, <2>1
  <2>5. ~Closing(v)
    BY <1>ca, <1>2, <2>1, <2>2
  <2>6. has[v] # o
    BY <1>1, <1>in, <2>4 DEF OwnHandleFound, CamObj, NoObj
  <2>7. th[v].op \notin ChannelOp \cup {"qbuf"}
    BY <1>in, <2>3, <2>6 DEF CallHandle, InObject
  <2>8. th[v].pc # "cam"
    BY <1>in, <2>4, <2>5 DEF FoundStays, Closing
  <2>9. obj[o].cam_lock # v
    BY <2>1, <2>2
  <2> QED
    BY <1>in, <2>3, <2>5, <2>7, <2>8, <2>9 DEF CamLock, OpFits, InObject, Closing
<1> QED
  BY <1>1, <1>2, TableSteps

\* The count follows the handles.
LEMMA NextCountsUsers == McInv /\ McTypeOK' /\ [McNext]_mcVars => CountsUsers'
<1> SUFFICES ASSUME McInv, McTypeOK', [McNext]_mcVars, g'.cam_obj \in CamObj
             PROVE  obj'[g'.cam_obj].ref_count = Cardinality(Opened(has', g'.cam_obj))
  BY DEF CountsUsers, Opened
<1> USE DEF McAt
<1> DEFINE Counted == obj'[g'.cam_obj].ref_count = Cardinality(Opened(has', g'.cam_obj))
           c == g.cam_obj
<1>th. th \in [User -> Threads]
  BY DEF McInv, McTypeOK, Threads
<1>ob. obj \in [CamObj -> Objects]
  BY DEF McInv, McTypeOK, Objects
<1>ha. has \in [User -> CamObj \cup {NoObj}]
  BY DEF McInv, McTypeOK
<1>g. g \in [lock : User \cup {Free}, cam_obj : CamObj \cup {NoObj}, count : 0 .. MaxOpens]
  BY DEF McInv, McTypeOK
<1>in. \A u \in User : CallHandle(u) /\ OwnHandleFound(u)
  BY DEF McInv, CallInv
<1>no. \A o \in CamObj : o # NoObj
  BY DEF CamObj, NoObj
<1>rc. c # NoObj => c \in CamObj /\ obj[c].ref_count = Cardinality(Opened(has, c))
  BY CountOf
<1>1. ASSUME g'.cam_obj = c, has' = has, \A o \in CamObj : obj'[o].ref_count = obj[o].ref_count
      PROVE Counted
  BY <1>1, <1>no, <1>rc
<1>2. ASSUME NEW u \in User, OpenAgain(u) PROVE Counted
  <2>1. c # NoObj /\ has[u] # c /\ c \in CamObj /\ g'.cam_obj = c /\ has' = [has EXCEPT ![u] = c]
    BY <1>2, <1>g, <1>in, <1>rc DEF OpenAgain, CallHandle
  <2>2. obj'[c].ref_count = obj[c].ref_count + 1
    BY <1>2, <1>ob, <2>1 DEF OpenAgain, Objects
  <2>3. Cardinality(Opened(has', c)) = Cardinality(Opened(has, c)) + 1
    BY <1>ha, <2>1, OneMoreOrLess
  <2> QED
    BY <1>rc, <2>1, <2>2, <2>3
<1>3. ASSUME NEW u \in User, Open(u) PROVE Counted
  <2> DEFINE o == g.count + 1
  <2>1. c = NoObj /\ \A v \in User : has[v] = NoObj
    BY <1>3, <1>in DEF Open, OwnHandleFound
  <2>2. /\ obj' = [obj EXCEPT ![o].live = TRUE, ![o].ref_count = 1]
        /\ g'.cam_obj = o /\ has' = [has EXCEPT ![u] = o] /\ o \in CamObj
    <3>1. CASE /\ obj' = [obj EXCEPT ![o].live = TRUE, ![o].ref_count = 1]
               /\ g' = [lock |-> Free, cam_obj |-> o, count |-> o]
               /\ has' = [has EXCEPT ![u] = o]
      BY <3>1
    <3>2. CASE g' = [g EXCEPT !.lock = Free, !.count = IF g.count < MaxOpens THEN @ + 1 ELSE @]
      BY <1>g, <1>no, <2>1, <3>2
    <3> QED
      BY <1>3, <3>1, <3>2 DEF Open
  <2>3. obj'[o].ref_count = 1
    BY <1>ob, <2>2 DEF Objects
  <2>4. Opened(has', o) = {u}
    BY <1>ha, <1>no, <2>1, <2>2 DEF Opened
  <2> QED
    BY <2>2, <2>3, <2>4, FS_Singleton
<1>4. ASSUME NEW u \in User, CloseIntf(u) PROVE Counted
  <2>1. /\ th[u].hdl = c /\ c # NoObj /\ has[u] = c /\ has' = [has EXCEPT ![u] = NoObj]
        /\ obj' = [obj EXCEPT ![c].ref_count = @ - 1]
    BY <1>4, <1>in DEF CloseIntf, Found, CallHandle
  <2>2. g'.cam_obj = c
    BY <1>4, <1>g, <1>no DEF CloseIntf
  <2>3. obj'[c].ref_count = obj[c].ref_count - 1
    BY <1>ob, <1>rc, <2>1 DEF Objects
  <2>4. Cardinality(Opened(has', c)) = Cardinality(Opened(has, c)) - 1
    BY <1>ha, <2>1, OneMoreOrLess
  <2> QED
    BY <1>rc, <2>1, <2>2, <2>3, <2>4
<1>5. ASSUME NEW u \in User, NotFound(u) PROVE Counted
  <2>1. th[u].op # "close"
    BY <1>5, <1>in DEF NotFound, Found, CallHandle, OwnHandleFound
  <2>2. has' = has /\ obj' = obj /\ g'.cam_obj = c
    BY <1>5, <1>ha, <1>g, <2>1 DEF NotFound
  <2> QED
    BY <1>1, <2>2
<1>6. ASSUME NEW u \in User, Enter(u) \/ TakeIntfLock(u) \/ FoundForCall(u) PROVE Counted
  BY <1>1, <1>6, <1>g DEF Enter, TakeIntfLock, FoundForCall
<1>7. ASSUME NEW u \in User, TakeCamLock(u) PROVE Counted
  <2>1. has' = has /\ g'.cam_obj = c
    BY <1>7, <1>g DEF TakeCamLock
  <2>2. \A o \in CamObj : obj'[o].ref_count = obj[o].ref_count
    BY <1>7, <1>ob DEF TakeCamLock, Objects
  <2> QED
    BY <1>1, <2>1, <2>2
<1>8. ASSUME NEW u \in User,
             \/ CameraOpEnds(u) \/ CloseEnds(u) \/ TakeChLock(u) \/ ChannelOpEnds(u)
      PROVE Counted
  <2>1. has' = has /\ g'.cam_obj = c
    BY <1>8 DEF CameraOpEnds, CloseEnds, TakeChLock, ChannelOpEnds
  <2>2. \A o \in CamObj : obj'[o].ref_count = obj[o].ref_count
    BY <1>8, <1>ob DEF CameraOpEnds, CloseEnds, TakeChLock, ChannelOpEnds, Objects
  <2> QED
    BY <1>1, <2>1, <2>2
<1>9. ASSUME NEW u \in User, QbufUnlocks(u) PROVE Counted
  <2>1. has' = has /\ g'.cam_obj = c
    BY <1>9 DEF QbufUnlocks
  <2>2. \A o \in CamObj : obj'[o].ref_count = obj[o].ref_count
    BY <1>9, <1>ob DEF QbufUnlocks, Objects
  <2> QED
    BY <1>1, <2>1, <2>2
<1>10. ASSUME NEW u \in User, SendMsg(u) PROVE Counted
  <2>1. has' = has /\ g'.cam_obj = c
    BY <1>10 DEF SendMsg
  <2>2. \A o \in CamObj : obj'[o].ref_count = obj[o].ref_count
    BY <1>10, <1>ob DEF SendMsg, Objects
  <2> QED
    BY <1>1, <2>1, <2>2
<1>11. ASSUME NEW u \in User, WaitForEvent(u) PROVE Counted
  <2>1. has' = has /\ g'.cam_obj = c
    BY <1>11 DEF WaitForEvent
  <2>2. \A o \in CamObj : obj'[o].ref_count = obj[o].ref_count
    BY <1>11, <1>ob DEF WaitForEvent, Objects
  <2> QED
    BY <1>1, <2>1, <2>2
<1>12. ASSUME EventNotify PROVE Counted
  <2>1. has' = has /\ g'.cam_obj = c
    BY <1>12 DEF EventNotify
  <2>2. \A o \in CamObj : obj'[o].ref_count = obj[o].ref_count
    BY <1>12, <1>ob DEF EventNotify, Objects
  <2> QED
    BY <1>1, <2>1, <2>2
<1>13. ASSUME UNCHANGED mcVars PROVE Counted
  BY <1>1, <1>13 DEF mcVars
<1> QED
  BY <1>2, <1>3, <1>4, <1>5, <1>6, <1>7, <1>8, <1>9, <1>10, <1>11, <1>12, <1>13
     DEF McNext, LockStep, WorkStep

\* McInv is kept by every step.
LEMMA NextMcInv == McInv /\ [McNext]_mcVars => McInv'
<1> SUFFICES ASSUME McInv, [McNext]_mcVars PROVE McInv'
  OBVIOUS
<1>1. McTypeOK'
  BY NextTypeOK
<1>2. CallInv'
  BY <1>1, NextCallInv
<1>3. CASE McNext
  BY <1>1, <1>2, <1>3, NextCloserAndTable, NextNoUseAfterFree, NextCountsUsers DEF McInv
<1>4. CASE UNCHANGED mcVars
  BY <1>1, <1>2, <1>4, NextCountsUsers
     DEF McInv, mcVars, CloserAlone, Closing, TableIsLive, NoUseAfterFree
<1> QED
  BY <1>3, <1>4

\* The variables of the interface keep their types.
THEOREM CameraTyped == McSpec => []McTypeOK
<1>1. McInv => McTypeOK
  BY DEF McInv
<1> QED
  BY <1>1, InitMcInv, NextMcInv, PTL DEF McSpec

\* A camera lives while somebody has it open or works with it
\* (mm_camera_open, mm_camera_intf_close and the hand-over of the locks).
THEOREM CameraLivesWhileOpen == McSpec => []OpenCameraLives
<1>1. McInv => OpenCameraLives
  BY DEF McInv, OpenCameraLives
<1> QED
  BY <1>1, InitMcInv, NextMcInv, PTL DEF McSpec

-----------------------------------------------------------------------------
\* The one session.
e == ses[1]

\* The variables have the fields they start with.
Shaped ==
    /\ mj = [job_queue |-> mj.job_queue, ongoing_job_q |-> mj.ongoing_job_q,
             job_sem |-> mj.job_sem, job_lock |-> mj.job_lock,
             session_handle_q |-> mj.session_handle_q, out_buf_q |-> mj.out_buf_q,
             active |-> mj.active, sessions |-> mj.sessions]
    /\ jmgr = [pc |-> jmgr.pc, job |-> jmgr.job, s |-> jmgr.s, dst_index |-> jmgr.dst_index]
    /\ jhal = [pc |-> jhal.pc, call |-> jhal.call, s |-> jhal.s, ongoing |-> jhal.ongoing]

\* There is one session, with the fields of a session.
OneSession ==
    /\ ses = [s \in {1} |-> e]
    /\ e = [lock |-> e.lock, abort_state |-> e.abort_state, encoding |-> e.encoding,
            jobId |-> e.jobId, dst_index |-> e.dst_index,
            auto_out_buf |-> e.auto_out_buf, omx |-> e.omx, done |-> e.done,
            by |-> e.by]

Ranges ==
    /\ mj.session_handle_q \in {<<>>, <<1>>} /\ mj.active \in BOOLEAN
    /\ jmgr.s = 1 /\ jhal.s = 1
    /\ e.lock \in BOOLEAN /\ e.encoding \in BOOLEAN
    /\ e.abort_state \in {"NONE", "INIT", "DONE"} /\ e.omx \in {"idle", "input", "busy"}
    /\ e.done \in {"no", "remove", "handle", "buf", "post"} /\ e.by \in {"mgr", "omx"}

InHand == jmgr.pc \in {"buf", "ongoing", "encode"}
Free1 == mj.session_handle_q # <<>>
Busy == e.omx = "busy"
Finishing == e.done \in {"remove", "handle"}
Aborting == jhal.pc \in {"abort", "abort_wait", "aborted"}

\* The session is free, in the job manager's hand, with the component or at
\* the end of a job.
OnePlace ==
    /\ Free1 => ~InHand /\ ~Busy /\ ~Finishing
    /\ InHand => ~Busy /\ ~Finishing
    /\ Busy => e.done = "no"

\* Who has which lock.
Locks ==
    /\ mj.job_lock = "mgr" <=> InHand \/ jmgr.pc = "job_done"
    /\ mj.job_lock = "hal" <=> Aborting
    /\ e.lock <=> e.done # "no" /\ e.by = "omx"
    /\ jmgr.pc = "job_done" <=> e.done # "no" /\ e.by = "mgr"

\* How far an abort is tells whether the component works.
AbortInv ==
    /\ Busy => e.encoding
    /\ e.abort_state # "NONE" => e.done = "no"
    /\ e.abort_state = "INIT" => jhal.pc = "abort_wait"
    /\ e.abort_state = "DONE" => ~Busy
    /\ jhal.pc = "abort_wait" => e.abort_state # "NONE"
    /\ jhal.pc = "aborted" => e.abort_state = "DONE"

\* A session that is destroyed, or about to be, gets no job.
DestroyInv ==
    /\ Aborting \/ jhal.pc = "stop" => mj.active
    /\ Aborting /\ jhal.call = "destroy" => mj.job_queue = <<>>
    /\ ~mj.active => mj.job_queue = <<>> /\ ~Busy /\ e.done = "no" /\ ~InHand

MjInv == Shaped /\ OneSession /\ Ranges /\ OnePlace /\ Locks /\ AbortInv /\ DestroyInv

-----------------------------------------------------------------------------
\* No session satisfies the invariant.
LEMMA InitMjInv == ~Burst /\ MjInit => MjInv
<1> SUFFICES ASSUME ~Burst, MjInit PROVE MjInv
  OBVIOUS
<1> USE DEF MjInit, Chain, NewSession
<1>1. ses = [s \in {1} |-> NewSession] /\ e = NewSession
  BY DEF e
<1>2. Shaped /\ OneSession
  BY <1>1 DEF Shaped, OneSession
<1>3. Ranges /\ OnePlace /\ Locks /\ AbortInv /\ DestroyInv
  BY <1>1 DEF Ranges, OnePlace, Locks, AbortInv, DestroyInv, InHand, Free1, Busy, Finishing, Aborting
<1> QED
  BY <1>2, <1>3 DEF MjInv

\* What a step does to the fields that the invariant speaks of.
Fields(lock, active, list, jobs, mpc, hpc, call) ==
    /\ mj'.job_lock = lock /\ mj'.active = active /\ mj'.session_handle_q = list
    /\ mj'.job_queue = jobs /\ jmgr'.pc = mpc /\ jmgr'.s = jmgr.s
    /\ jhal'.pc = hpc /\ jhal'.call = call /\ jhal'.s = jhal.s

Session(lock, abort_state, encoding, omx, done, by) ==
    /\ e'.lock = lock /\ e'.abort_state = abort_state /\ e'.encoding = encoding
    /\ e'.omx = omx /\ e'.done = done /\ e'.by = by

SessionSame == Session(e.lock, e.abort_state, e.encoding, e.omx, e.done, e.by)

\* The client's calls that begin and end nothing in a session.
LEMMA CallsKeep == ~Burst /\ MjInv /\ (CreateSession \/ StopJpeg \/ \E j \in Job : StartJob(j) \/ TakeJpegEvt(j)) => MjInv'
<1> SUFFICES ASSUME ~Burst, MjInv, (CreateSession \/ StopJpeg \/ \E j \in Job : StartJob(j) \/ TakeJpegEvt(j)) PROVE MjInv'
  OBVIOUS
<1>sh. Shaped /\ OneSession
  BY DEF MjInv
<1>in. Ranges /\ OnePlace /\ Locks /\ AbortInv /\ DestroyInv
  BY DEF MjInv
<1>ch. Chain = {1} /\ jhal.s = 1 /\ jmgr.s = 1
  BY <1>in DEF Chain, Ranges
<1>1. ASSUME CreateSession PROVE MjInv'
  <2>a. ses' = [s \in {1} |-> NewSession] /\ e' = NewSession
    BY <1>1, <1>ch DEF CreateSession, e
  <2>b. Session(FALSE, "NONE", FALSE, "idle", "no", "omx") /\ OneSession'
    BY <2>a DEF OneSession, Session, NewSession
  <2>1. jhal.pc = "idle" /\ ~mj.active /\ Fields(mj.job_lock, TRUE, <<1>>, mj.job_queue, jmgr.pc, jhal.pc, jhal.call)
        /\ Shaped'
    BY <1>1, <1>sh, <1>ch DEF CreateSession, ChainSeq, Shaped, Fields
  <2>2. (Ranges /\ OnePlace /\ Locks /\ AbortInv /\ DestroyInv)'
    BY <1>in, <2>1, <2>b DEF Fields, Session, Ranges, OnePlace, Locks, AbortInv, DestroyInv, InHand, Free1, Busy, Finishing, Aborting
  <2> QED
    BY <2>1, <2>2, <2>b DEF MjInv
<1>2. ASSUME NEW j \in Job, StartJob(j) PROVE MjInv'
  <2>1. jhal.pc = "idle" /\ mj.active /\ Fields(mj.job_lock, mj.active, mj.session_handle_q, mj'.job_queue, jmgr.pc, jhal.pc, jhal.call)
        /\ SessionSame /\ Shaped' /\ OneSession'
    BY <1>2, <1>sh, <1>ch DEF StartJob, Shaped, OneSession, Fields, Session, SessionSame, e
  <2>2. (Ranges /\ OnePlace /\ Locks /\ AbortInv /\ DestroyInv)'
    BY <1>in, <2>1 DEF Fields, Session, SessionSame, Ranges, OnePlace, Locks, AbortInv, DestroyInv, InHand, Free1, Busy, Finishing, Aborting
  <2> QED
    BY <2>1, <2>2 DEF MjInv
<1>3. ASSUME NEW j \in Job, TakeJpegEvt(j) PROVE MjInv'
  <2>1. jhal.pc = "idle" /\ Fields(mj.job_lock, mj.active, mj.session_handle_q, mj.job_queue, jmgr.pc, jhal.pc, jhal.call)
        /\ SessionSame /\ Shaped' /\ OneSession'
    BY <1>3, <1>sh, <1>ch DEF TakeJpegEvt, Shaped, OneSession, Fields, Session, SessionSame, e
  <2>2. (Ranges /\ OnePlace /\ Locks /\ AbortInv /\ DestroyInv)'
    BY <1>in, <2>1 DEF Fields, Session, SessionSame, Ranges, OnePlace, Locks, AbortInv, DestroyInv, InHand, Free1, Busy, Finishing, Aborting
  <2> QED
    BY <2>1, <2>2 DEF MjInv
<1>4. ASSUME StopJpeg PROVE MjInv'
  <2>1. jhal.pc = "idle" /\ mj.active /\ Fields(mj.job_lock, mj.active, mj.session_handle_q, mj.job_queue, jmgr.pc, "stop", jhal.call)
        /\ SessionSame /\ Shaped' /\ OneSession'
    BY <1>4, <1>sh, <1>ch DEF StopJpeg, Shaped, OneSession, Fields, Session, SessionSame, e
  <2>2. (Ranges /\ OnePlace /\ Locks /\ AbortInv /\ DestroyInv)'
    BY <1>in, <2>1 DEF Fields, Session, SessionSame, Ranges, OnePlace, Locks, AbortInv, DestroyInv, InHand, Free1, Busy, Finishing, Aborting
  <2> QED
    BY <2>1, <2>2 DEF MjInv
<1> QED
  BY <1>ch, <1>1, <1>2, <1>3, <1>4 DEF CreateSession

\* A step of the client's aborts and of the destruction.
LEMMA ClientKeeps == ~Burst /\ MjInv /\ Client => MjInv'
<1> SUFFICES ASSUME ~Burst, MjInv, Client PROVE MjInv'
  OBVIOUS
<1>sh. Shaped /\ OneSession
  BY DEF MjInv
<1>in. Ranges /\ OnePlace /\ Locks /\ AbortInv /\ DestroyInv
  BY DEF MjInv
<1>ch. Chain = {1} /\ jhal.s = 1 /\ jmgr.s = 1
  BY <1>in DEF Chain, Ranges
<1>1. ASSUME AbortJpegJob, jhal'.pc = "stop" PROVE MjInv'
  <2>1. jhal.pc = "stop" /\ Fields(mj.job_lock, mj.active, mj.session_handle_q, mj'.job_queue, jmgr.pc, jhal.pc, jhal.call)
        /\ SessionSame /\ Shaped' /\ OneSession'
    BY <1>1, <1>sh, <1>ch DEF AbortJpegJob, Shaped, OneSession, Fields, Session, SessionSame, e
  <2>2. (Ranges /\ OnePlace /\ Locks /\ AbortInv /\ DestroyInv)'
    BY <1>in, <2>1 DEF Fields, Session, SessionSame, Ranges, OnePlace, Locks, AbortInv, DestroyInv, InHand, Free1, Busy, Finishing, Aborting
  <2> QED
    BY <2>1, <2>2 DEF MjInv
<1>2. ASSUME AbortJpegJob, jhal'.pc # "stop" PROVE MjInv'
  <2>1. jhal.pc = "stop" /\ mj.job_lock = "free" /\ Fields("hal", mj.active, mj.session_handle_q, mj.job_queue, jmgr.pc, "abort", "abort")
        /\ SessionSame /\ Shaped' /\ OneSession'
    BY <1>2, <1>sh, <1>ch DEF AbortJpegJob, Shaped, OneSession, Fields, Session, SessionSame, e
  <2>2. (Ranges /\ OnePlace /\ Locks /\ AbortInv /\ DestroyInv)'
    BY <1>in, <2>1 DEF Fields, Session, SessionSame, Ranges, OnePlace, Locks, AbortInv, DestroyInv, InHand, Free1, Busy, Finishing, Aborting
  <2> QED
    BY <2>1, <2>2 DEF MjInv
<1>3. ASSUME DestroySession PROVE MjInv'
  <2>1. jhal.pc = "stop" /\ mj.job_lock = "free" /\ Fields("hal", mj.active, mj.session_handle_q, <<>>, jmgr.pc, "abort", "destroy")
        /\ SessionSame /\ Shaped' /\ OneSession'
    BY <1>3, <1>sh, <1>ch DEF DestroySession, Shaped, OneSession, Fields, Session, SessionSame, e
  <2>2. (Ranges /\ OnePlace /\ Locks /\ AbortInv /\ DestroyInv)'
    BY <1>in, <2>1 DEF Fields, Session, SessionSame, Ranges, OnePlace, Locks, AbortInv, DestroyInv, InHand, Free1, Busy, Finishing, Aborting
  <2> QED
    BY <2>1, <2>2 DEF MjInv
<1>4. ASSUME SessionAbort, e.abort_state # "NONE" PROVE MjInv'
  <2>1. jhal.pc = "abort" /\ Fields(mj.job_lock, mj.active, mj.session_handle_q, mj.job_queue, jmgr.pc, "aborted", jhal.call)
        /\ SessionSame /\ Shaped' /\ OneSession'
    BY <1>4, <1>sh, <1>ch DEF SessionAbort, AbortedChain, Shaped, OneSession, Fields, Session, SessionSame, e
  <2>r. (Ranges /\ OnePlace)'
    BY <1>in, <2>1 DEF Fields, Session, SessionSame, Ranges, OnePlace, Locks, InHand, Free1, Busy, Finishing
  <2>l. Locks'
    BY <1>in, <2>1 DEF Fields, Session, SessionSame, Ranges, Locks, InHand, Aborting
  <2>ab. AbortInv'
    BY <1>4, <1>in, <2>1 DEF Fields, Session, SessionSame, Ranges, OnePlace, Locks, AbortInv, InHand, Aborting, Busy, Finishing
  <2>ds. DestroyInv'
    BY <1>in, <2>1 DEF Fields, Session, SessionSame, Ranges, OnePlace, Locks, DestroyInv, InHand, Aborting, Busy, Finishing
  <2>2. (Ranges /\ OnePlace /\ Locks /\ AbortInv /\ DestroyInv)'
    BY <2>r, <2>l, <2>ab, <2>ds
  <2> QED
    BY <2>1, <2>2 DEF MjInv
<1>5. ASSUME SessionAbort, e.abort_state = "NONE", e.encoding PROVE MjInv'
  <2>a. ses' = [ses EXCEPT ![1] = [e EXCEPT !.abort_state = "INIT"]]
    BY <1>5, <1>sh, <1>in, <1>ch DEF SessionAbort, Unheld, OneSession, e
  <2>b. e' = [e EXCEPT !.abort_state = "INIT"] /\ ses' = [s \in {1} |-> e']
    BY <2>a, <1>sh DEF OneSession, e
  <2>c. Session(e.lock, "INIT", e.encoding, e.omx, e.done, e.by) /\ OneSession'
    BY <2>b, <1>sh DEF OneSession, Session, SessionSame
  <2>d. jhal.pc = "abort" /\ ~e.lock /\ Fields(mj.job_lock, mj.active, mj.session_handle_q, mj.job_queue, jmgr.pc, "abort_wait", jhal.call) /\ Shaped'
    BY <1>5, <1>sh, <1>ch DEF SessionAbort, Unheld, Shaped, Fields, e
  <2>1. jhal.pc = "abort" /\ ~e.lock /\ Fields(mj.job_lock, mj.active, mj.session_handle_q, mj.job_queue, jmgr.pc, "abort_wait", jhal.call)
        /\ Session(e.lock, "INIT", e.encoding, e.omx, e.done, e.by) /\ Shaped' /\ OneSession'
    BY <2>c, <2>d
  <2>2. (Ranges /\ OnePlace /\ Locks /\ AbortInv /\ DestroyInv)'
    BY <1>in, <2>1 DEF Fields, Session, SessionSame, Ranges, OnePlace, Locks, AbortInv, DestroyInv, InHand, Free1, Busy, Finishing, Aborting
  <2> QED
    BY <2>1, <2>2 DEF MjInv
<1>6. ASSUME SessionAbort, e.abort_state = "NONE", ~e.encoding PROVE MjInv'
  <2>a. ses' = [ses EXCEPT ![1] = [e EXCEPT !.abort_state = "DONE"]]
    BY <1>6, <1>sh, <1>in, <1>ch DEF SessionAbort, Unheld, AbortedChain, NextOfChain, OneSession, e
  <2>b. e' = [e EXCEPT !.abort_state = "DONE"] /\ ses' = [s \in {1} |-> e']
    BY <2>a, <1>sh DEF OneSession, e
  <2>c. Session(e.lock, "DONE", e.encoding, e.omx, e.done, e.by) /\ OneSession'
    BY <2>b, <1>sh DEF OneSession, Session, SessionSame
  <2>d. jhal.pc = "abort" /\ ~e.lock /\ Fields(mj.job_lock, mj.active, mj.session_handle_q, mj.job_queue, jmgr.pc, "aborted", jhal.call) /\ Shaped'
    BY <1>6, <1>sh, <1>ch DEF SessionAbort, Unheld, AbortedChain, NextOfChain, Shaped, Fields, e
  <2>1. jhal.pc = "abort" /\ ~e.lock /\ Fields(mj.job_lock, mj.active, mj.session_handle_q, mj.job_queue, jmgr.pc, "aborted", jhal.call)
        /\ Session(e.lock, "DONE", e.encoding, e.omx, e.done, e.by) /\ Shaped' /\ OneSession'
    BY <2>c, <2>d
  <2>r. (Ranges /\ OnePlace)'
    BY <1>in, <2>1 DEF Fields, Session, SessionSame, Ranges, OnePlace, Locks, InHand, Free1, Busy, Finishing
  <2>l. Locks'
    BY <1>in, <2>1 DEF Fields, Session, SessionSame, Ranges, Locks, InHand, Aborting
  <2>ab. AbortInv'
    BY <1>6, <1>in, <2>1 DEF Fields, Session, SessionSame, Ranges, OnePlace, Locks, AbortInv, InHand, Aborting, Busy, Finishing
  <2>ds. DestroyInv'
    BY <1>in, <2>1 DEF Fields, Session, SessionSame, Ranges, OnePlace, Locks, DestroyInv, InHand, Aborting, Busy, Finishing
  <2>2. (Ranges /\ OnePlace /\ Locks /\ AbortInv /\ DestroyInv)'
    BY <2>r, <2>l, <2>ab, <2>ds
  <2> QED
    BY <2>1, <2>2 DEF MjInv
<1>7. ASSUME SessionAbortWait PROVE MjInv'
  <2>a. ses' = [ses EXCEPT ![1] = [e EXCEPT !.abort_state = "DONE"]]
    BY <1>7, <1>sh, <1>in, <1>ch DEF SessionAbortWait, AbortedChain, NextOfChain, OneSession, e
  <2>b. e' = [e EXCEPT !.abort_state = "DONE"] /\ ses' = [s \in {1} |-> e']
    BY <2>a, <1>sh DEF OneSession, e
  <2>c. Session(e.lock, "DONE", e.encoding, e.omx, e.done, e.by) /\ OneSession'
    BY <2>b, <1>sh DEF OneSession, Session, SessionSame
  <2>d. jhal.pc = "abort_wait" /\ e.abort_state # "INIT" /\ Fields(mj.job_lock, mj.active, mj.session_handle_q, mj.job_queue, jmgr.pc, "aborted", jhal.call) /\ Shaped'
    BY <1>7, <1>sh, <1>ch DEF SessionAbortWait, AbortedChain, NextOfChain, Shaped, Fields, e
  <2>1. jhal.pc = "abort_wait" /\ e.abort_state # "INIT" /\ Fields(mj.job_lock, mj.active, mj.session_handle_q, mj.job_queue, jmgr.pc, "aborted", jhal.call)
        /\ Session(e.lock, "DONE", e.encoding, e.omx, e.done, e.by) /\ Shaped' /\ OneSession'
    BY <2>c, <2>d
  <2>2. (Ranges /\ OnePlace /\ Locks /\ AbortInv /\ DestroyInv)'
    BY <1>in, <2>1 DEF Fields, Session, SessionSame, Ranges, OnePlace, Locks, AbortInv, DestroyInv, InHand, Free1, Busy, Finishing, Aborting
  <2> QED
    BY <2>1, <2>2 DEF MjInv
<1>8. ASSUME AbortReturns PROVE MjInv'
  <2>1. jhal.pc = "aborted" /\ Fields("free", mj.active, mj.session_handle_q, mj.job_queue, jmgr.pc, "stop", jhal.call)
        /\ SessionSame /\ Shaped' /\ OneSession'
    BY <1>8, <1>sh, <1>ch DEF AbortReturns, Shaped, OneSession, Fields, Session, SessionSame, e
  <2>2. (Ranges /\ OnePlace /\ Locks /\ AbortInv /\ DestroyInv)'
    BY <1>in, <2>1 DEF Fields, Session, SessionSame, Ranges, OnePlace, Locks, AbortInv, DestroyInv, InHand, Free1, Busy, Finishing, Aborting
  <2> QED
    BY <2>1, <2>2 DEF MjInv
<1>9. ASSUME FreeSessions PROVE MjInv'
  <2>1. jhal.pc = "aborted" /\ jhal.call = "destroy" /\ Fields("free", FALSE, mj.session_handle_q, mj.job_queue, jmgr.pc, "drain", jhal.call)
        /\ SessionSame /\ Shaped' /\ OneSession'
    BY <1>9, <1>sh, <1>ch DEF FreeSessions, Shaped, OneSession, Fields, Session, SessionSame, e
  <2>2. (Ranges /\ OnePlace /\ Locks /\ AbortInv /\ DestroyInv)'
    BY <1>in, <2>1 DEF Fields, Session, SessionSame, Ranges, OnePlace, Locks, AbortInv, DestroyInv, InHand, Free1, Busy, Finishing, Aborting
  <2> QED
    BY <2>1, <2>2 DEF MjInv
<1>10. ASSUME FreeQueues PROVE MjInv'
  <2>1. jhal.pc = "drain" /\ Fields(mj.job_lock, mj.active, <<>>, mj.job_queue, jmgr.pc, "idle", jhal.call)
        /\ SessionSame /\ Shaped' /\ OneSession'
    BY <1>10, <1>sh, <1>ch DEF FreeQueues, Shaped, OneSession, Fields, Session, SessionSame, e
  <2>2. (Ranges /\ OnePlace /\ Locks /\ AbortInv /\ DestroyInv)'
    BY <1>in, <2>1 DEF Fields, Session, SessionSame, Ranges, OnePlace, Locks, AbortInv, DestroyInv, InHand, Free1, Busy, Finishing, Aborting
  <2> QED
    BY <2>1, <2>2 DEF MjInv
<1> QED
  BY <1>ch, <1>1, <1>2, <1>3, <1>4, <1>5, <1>6, <1>7, <1>8, <1>9, <1>10 DEF Client, SessionAbort, e

\* A step of the job manager.
LEMMA JobMgrKeeps == ~Burst /\ MjInv /\ JobMgr => MjInv'
<1> SUFFICES ASSUME ~Burst, MjInv, JobMgr PROVE MjInv'
  OBVIOUS
<1>sh. Shaped /\ OneSession
  BY DEF MjInv
<1>in. Ranges /\ OnePlace /\ Locks /\ AbortInv /\ DestroyInv
  BY DEF MjInv
<1>ch. Chain = {1} /\ jhal.s = 1 /\ jmgr.s = 1
  BY <1>in DEF Chain, Ranges
<1>1. ASSUME JobMgrWakes PROVE MjInv'
  <2>1. jmgr.pc = "wait" /\ jmgr'.pc \in {"wait", "lock"} /\ Fields(mj.job_lock, mj.active, mj.session_handle_q, mj.job_queue, jmgr'.pc, jhal.pc, jhal.call)
        /\ SessionSame /\ Shaped' /\ OneSession'
    BY <1>1, <1>sh, <1>ch DEF JobMgrWakes, Shaped, OneSession, Fields, Session, SessionSame, e
  <2>2. (Ranges /\ OnePlace /\ Locks /\ AbortInv /\ DestroyInv)'
    BY <1>in, <2>1 DEF Fields, Session, SessionSame, Ranges, OnePlace, Locks, AbortInv, DestroyInv, InHand, Free1, Busy, Finishing, Aborting
  <2> QED
    BY <2>1, <2>2 DEF MjInv
<1>2. ASSUME GetSession PROVE MjInv'
  <2>hd. jmgr.pc = "lock" /\ mj.job_lock = "free" /\ mj.job_queue # <<>> /\ mj.session_handle_q # <<>>
    BY <1>2 DEF GetSession
  <2>e. mj.session_handle_q = <<1>> /\ Tail(<<1>>) = <<>> /\ Head(mj.session_handle_q) = 1
    BY <2>hd, <1>in DEF Ranges
  <2>a. ses' = [ses EXCEPT ![1] = [e EXCEPT !.auto_out_buf = FALSE]]
    BY <1>2, <1>sh, <2>e, <1>ch DEF GetSession, OneSession, e
  <2>b. e' = [e EXCEPT !.auto_out_buf = FALSE] /\ ses' = [s \in {1} |-> e']
    BY <2>a, <1>sh DEF OneSession, e
  <2>c. SessionSame /\ OneSession'
    BY <2>b, <1>sh DEF OneSession, Session, SessionSame
  <2>d. jmgr.pc = "lock" /\ mj.job_lock = "free" /\ mj.job_queue # <<>> /\ mj.session_handle_q # <<>> /\ Fields("mgr", mj.active, Tail(mj.session_handle_q), Tail(mj.job_queue), "buf", jhal.pc, jhal.call) /\ Shaped'
    BY <1>2, <1>sh, <2>e, <2>hd, <1>ch DEF GetSession, Shaped, Fields
  <2>1. jmgr.pc = "lock" /\ mj.job_lock = "free" /\ mj.job_queue # <<>> /\ mj.session_handle_q # <<>> /\ Fields("mgr", mj.active, Tail(mj.session_handle_q), Tail(mj.job_queue), "buf", jhal.pc, jhal.call)
        /\ SessionSame /\ Shaped' /\ OneSession'
    BY <2>c, <2>d
  <2>2. (Ranges /\ OnePlace /\ Locks /\ AbortInv /\ DestroyInv)'
    BY <1>in, <2>1, <2>e DEF Fields, Session, SessionSame, Ranges, OnePlace, Locks, AbortInv, DestroyInv, InHand, Free1, Busy, Finishing, Aborting
  <2> QED
    BY <2>1, <2>2 DEF MjInv
<1>3. ASSUME NothingToDo PROVE MjInv'
  <2>1. jmgr.pc = "lock" /\ Fields(mj.job_lock, mj.active, mj.session_handle_q, mj.job_queue, "wait", jhal.pc, jhal.call)
        /\ SessionSame /\ Shaped' /\ OneSession'
    BY <1>3, <1>sh, <1>ch DEF NothingToDo, Shaped, OneSession, Fields, Session, SessionSame, e
  <2>2. (Ranges /\ OnePlace /\ Locks /\ AbortInv /\ DestroyInv)'
    BY <1>in, <2>1 DEF Fields, Session, SessionSame, Ranges, OnePlace, Locks, AbortInv, DestroyInv, InHand, Free1, Busy, Finishing, Aborting
  <2> QED
    BY <2>1, <2>2 DEF MjInv
<1>4. ASSUME GetOutBuf PROVE MjInv'
  <2>1. jmgr.pc = "buf" /\ Fields(mj.job_lock, mj.active, mj.session_handle_q, mj.job_queue, "ongoing", jhal.pc, jhal.call)
        /\ SessionSame /\ Shaped' /\ OneSession'
    BY <1>4, <1>sh, <1>ch DEF GetOutBuf, Shaped, OneSession, Fields, Session, SessionSame, e
  <2>2. (Ranges /\ OnePlace /\ Locks /\ AbortInv /\ DestroyInv)'
    BY <1>in, <2>1 DEF Fields, Session, SessionSame, Ranges, OnePlace, Locks, AbortInv, DestroyInv, InHand, Free1, Busy, Finishing, Aborting
  <2> QED
    BY <2>1, <2>2 DEF MjInv
<1>5. ASSUME BeginJob PROVE MjInv'
  <2>a. ses' = [ses EXCEPT ![1] = [e EXCEPT !.jobId = jmgr.job, !.dst_index = jmgr.dst_index]]
    BY <1>5, <1>sh, <1>in, <1>ch DEF BeginJob, OneSession, e
  <2>b. e' = [e EXCEPT !.jobId = jmgr.job, !.dst_index = jmgr.dst_index] /\ ses' = [s \in {1} |-> e']
    BY <2>a, <1>sh DEF OneSession, e
  <2>c. SessionSame /\ OneSession'
    BY <2>b, <1>sh DEF OneSession, Session, SessionSame
  <2>d. jmgr.pc = "ongoing" /\ Fields(mj.job_lock, mj.active, mj.session_handle_q, mj.job_queue, "encode", jhal.pc, jhal.call) /\ Shaped'
    BY <1>5, <1>sh, <1>ch DEF BeginJob, Shaped, Fields, e
  <2>1. jmgr.pc = "ongoing" /\ Fields(mj.job_lock, mj.active, mj.session_handle_q, mj.job_queue, "encode", jhal.pc, jhal.call)
        /\ SessionSame /\ Shaped' /\ OneSession'
    BY <2>c, <2>d
  <2>2. (Ranges /\ OnePlace /\ Locks /\ AbortInv /\ DestroyInv)'
    BY <1>in, <2>1 DEF Fields, Session, SessionSame, Ranges, OnePlace, Locks, AbortInv, DestroyInv, InHand, Free1, Busy, Finishing, Aborting
  <2> QED
    BY <2>1, <2>2 DEF MjInv
<1>6. ASSUME SessionEncode PROVE MjInv'
  <2>a. ses' = [ses EXCEPT ![1] = [e EXCEPT !.abort_state = "NONE", !.encoding = TRUE, !.omx = "busy"]]
    BY <1>6, <1>sh, <1>in, <1>ch DEF SessionEncode, Unheld, OneSession, e
  <2>b. e' = [e EXCEPT !.abort_state = "NONE", !.encoding = TRUE, !.omx = "busy"] /\ ses' = [s \in {1} |-> e']
    BY <2>a, <1>sh DEF OneSession, e
  <2>c. Session(e.lock, "NONE", TRUE, "busy", e.done, e.by) /\ OneSession'
    BY <2>b, <1>sh DEF OneSession, Session, SessionSame
  <2>d. jmgr.pc = "encode" /\ ~e.lock /\ Fields("free", mj.active, mj.session_handle_q, mj.job_queue, "wait", jhal.pc, jhal.call) /\ Shaped'
    BY <1>6, <1>sh, <1>ch DEF SessionEncode, Unheld, Shaped, Fields, e
  <2>1. jmgr.pc = "encode" /\ ~e.lock /\ Fields("free", mj.active, mj.session_handle_q, mj.job_queue, "wait", jhal.pc, jhal.call)
        /\ Session(e.lock, "NONE", TRUE, "busy", e.done, e.by) /\ Shaped' /\ OneSession'
    BY <2>c, <2>d
  <2>2. (Ranges /\ OnePlace /\ Locks /\ AbortInv /\ DestroyInv)'
    BY <1>in, <2>1 DEF Fields, Session, SessionSame, Ranges, OnePlace, Locks, AbortInv, DestroyInv, InHand, Free1, Busy, Finishing, Aborting
  <2> QED
    BY <2>1, <2>2 DEF MjInv
<1>7. ASSUME SessionEncodeFails PROVE MjInv'
  <2>0. PICK given \in BOOLEAN, omx \in {e.omx, "input"} :
            ses' = [ses EXCEPT ![1].abort_state = "NONE", ![1].encoding = given,
                               ![1].omx = omx, ![1].done = "remove", ![1].by = "mgr"]
    BY <1>7, <1>ch DEF SessionEncodeFails, e
  <2>o. omx \in {"idle", "input", "busy"} /\ (omx = "busy" => Busy)
    BY <1>in DEF Ranges, Busy
  <2>b. /\ e' = [e EXCEPT !.abort_state = "NONE", !.encoding = given, !.omx = omx,
                         !.done = "remove", !.by = "mgr"]
        /\ ses' = [s \in {1} |-> e']
    BY <2>0, <1>sh DEF OneSession, e
  <2>c. Session(e.lock, "NONE", given, omx, "remove", "mgr") /\ OneSession'
    BY <2>b, <1>sh DEF OneSession, Session, SessionSame
  <2>d. jmgr.pc = "encode" /\ ~e.lock /\ Fields(mj.job_lock, mj.active, mj.session_handle_q, mj.job_queue, "job_done", jhal.pc, jhal.call) /\ Shaped'
    BY <1>7, <1>sh, <1>ch DEF SessionEncodeFails, Unheld, Shaped, Fields, e
  <2>1. jmgr.pc = "encode" /\ ~e.lock /\ Fields(mj.job_lock, mj.active, mj.session_handle_q, mj.job_queue, "job_done", jhal.pc, jhal.call)
        /\ Session(e.lock, "NONE", given, omx, "remove", "mgr") /\ Shaped' /\ OneSession'
    BY <2>c, <2>d
  <2>2. (Ranges /\ OnePlace /\ Locks /\ AbortInv /\ DestroyInv)'
    BY <1>in, <2>1, <2>o DEF Fields, Session, SessionSame, Ranges, OnePlace, Locks, AbortInv, DestroyInv, InHand, Free1, Busy, Finishing, Aborting
  <2> QED
    BY <2>1, <2>2 DEF MjInv
<1> QED
  BY <1>ch, <1>1, <1>2, <1>3, <1>4, <1>5, <1>6, <1>7 DEF JobMgr

\* A step of the component, or of the end of a job.
LEMMA OmxKeeps == ~Burst /\ MjInv /\ OmxThread => MjInv'
<1> SUFFICES ASSUME ~Burst, MjInv, OmxThread PROVE MjInv'
  OBVIOUS
<1>sh. Shaped /\ OneSession
  BY DEF MjInv
<1>in. Ranges /\ OnePlace /\ Locks /\ AbortInv /\ DestroyInv
  BY DEF MjInv
<1>ch. Chain = {1} /\ jhal.s = 1 /\ jmgr.s = 1
  BY <1>in DEF Chain, Ranges
<1>1. ASSUME AbortAnswered(1), e.omx = "busy", ~e.lock, e.abort_state # "NONE" PROVE MjInv'
  <2>a. ses' = [ses EXCEPT ![1] = [e EXCEPT !.abort_state = "DONE", !.omx = "idle"]]
    BY <1>1, <1>sh, <1>in, <1>ch DEF AbortAnswered, OneSession, e
  <2>b. e' = [e EXCEPT !.abort_state = "DONE", !.omx = "idle"] /\ ses' = [s \in {1} |-> e']
    BY <2>a, <1>sh DEF OneSession, e
  <2>c. Session(e.lock, "DONE", e.encoding, "idle", e.done, e.by) /\ OneSession'
    BY <2>b, <1>sh DEF OneSession, Session, SessionSame
  <2>d. e.omx = "busy" /\ e.abort_state # "NONE" /\ Fields(mj.job_lock, mj.active, mj.session_handle_q, mj.job_queue, jmgr.pc, jhal.pc, jhal.call) /\ Shaped'
    BY <1>1, <1>sh, <1>ch DEF AbortAnswered, Shaped, Fields, e
  <2>1. e.omx = "busy" /\ e.abort_state # "NONE" /\ Fields(mj.job_lock, mj.active, mj.session_handle_q, mj.job_queue, jmgr.pc, jhal.pc, jhal.call)
        /\ Session(e.lock, "DONE", e.encoding, "idle", e.done, e.by) /\ Shaped' /\ OneSession'
    BY <2>c, <2>d
  <2>2. (Ranges /\ OnePlace /\ Locks /\ AbortInv /\ DestroyInv)'
    BY <1>in, <2>1 DEF Fields, Session, SessionSame, Ranges, OnePlace, Locks, AbortInv, DestroyInv, InHand, Free1, Busy, Finishing, Aborting
  <2> QED
    BY <2>1, <2>2 DEF MjInv
<1>2. ASSUME JobAnswered(1), e.omx = "busy", ~e.lock, e.abort_state # "INIT" PROVE MjInv'
  <2>a. ses' = [ses EXCEPT ![1] = [e EXCEPT !.omx = "idle", !.lock = TRUE, !.done = "remove", !.by = "omx"]]
    BY <1>2, <1>sh, <1>in, <1>ch DEF JobAnswered, OneSession, e
  <2>b. e' = [e EXCEPT !.omx = "idle", !.lock = TRUE, !.done = "remove", !.by = "omx"] /\ ses' = [s \in {1} |-> e']
    BY <2>a, <1>sh DEF OneSession, e
  <2>c. Session(TRUE, e.abort_state, e.encoding, "idle", "remove", "omx") /\ OneSession'
    BY <2>b, <1>sh DEF OneSession, Session, SessionSame
  <2>d. e.omx = "busy" /\ e.abort_state # "INIT" /\ Fields(mj.job_lock, mj.active, mj.session_handle_q, mj.job_queue, jmgr.pc, jhal.pc, jhal.call) /\ Shaped'
    BY <1>2, <1>sh, <1>ch DEF JobAnswered, Shaped, Fields, e
  <2>1. e.omx = "busy" /\ e.abort_state # "INIT" /\ Fields(mj.job_lock, mj.active, mj.session_handle_q, mj.job_queue, jmgr.pc, jhal.pc, jhal.call)
        /\ Session(TRUE, e.abort_state, e.encoding, "idle", "remove", "omx") /\ Shaped' /\ OneSession'
    BY <2>c, <2>d
  <2>r. (Ranges /\ OnePlace)'
    BY <1>in, <2>1 DEF Fields, Session, SessionSame, Ranges, OnePlace, Locks, InHand, Free1, Busy, Finishing
  <2>l. Locks'
    BY <1>2, <1>in, <2>1 DEF Fields, Session, SessionSame, Ranges, OnePlace, Locks, InHand, Busy, Aborting
  <2>ab. AbortInv'
    BY <1>in, <2>1 DEF Fields, Session, SessionSame, Ranges, OnePlace, Locks, AbortInv, InHand, Aborting, Busy, Finishing
  <2>ds. DestroyInv'
    BY <1>in, <2>1 DEF Fields, Session, SessionSame, Ranges, OnePlace, Locks, DestroyInv, InHand, Aborting, Busy, Finishing
  <2>2. (Ranges /\ OnePlace /\ Locks /\ AbortInv /\ DestroyInv)'
    BY <2>r, <2>l, <2>ab, <2>ds
  <2> QED
    BY <2>1, <2>2 DEF MjInv
<1>3. ASSUME RemoveOngoing(1) PROVE MjInv'
  <2>a. ses' = [ses EXCEPT ![1] = [e EXCEPT !.encoding = FALSE, !.done = "handle"]]
    BY <1>3, <1>sh, <1>in, <1>ch DEF RemoveOngoing, OneSession, e
  <2>b. e' = [e EXCEPT !.encoding = FALSE, !.done = "handle"] /\ ses' = [s \in {1} |-> e']
    BY <2>a, <1>sh DEF OneSession, e
  <2>c. Session(e.lock, e.abort_state, FALSE, e.omx, "handle", e.by) /\ OneSession'
    BY <2>b, <1>sh DEF OneSession, Session, SessionSame
  <2>d. e.done = "remove" /\ Fields(mj.job_lock, mj.active, mj.session_handle_q, mj.job_queue, jmgr.pc, jhal.pc, jhal.call) /\ Shaped'
    BY <1>3, <1>sh, <1>ch DEF RemoveOngoing, Shaped, Fields, e
  <2>1. e.done = "remove" /\ Fields(mj.job_lock, mj.active, mj.session_handle_q, mj.job_queue, jmgr.pc, jhal.pc, jhal.call)
        /\ Session(e.lock, e.abort_state, FALSE, e.omx, "handle", e.by) /\ Shaped' /\ OneSession'
    BY <2>c, <2>d
  <2>2. (Ranges /\ OnePlace /\ Locks /\ AbortInv /\ DestroyInv)'
    BY <1>in, <2>1, ZenonT(60) DEF Fields, Session, SessionSame, Ranges, OnePlace, Locks, AbortInv, DestroyInv, InHand, Free1, Busy, Finishing, Aborting
  <2> QED
    BY <2>1, <2>2 DEF MjInv
<1>4. ASSUME ReturnSession(1) PROVE MjInv'
  <2>a. ses' = [ses EXCEPT ![1] = [e EXCEPT !.done = "buf"]]
    BY <1>4, <1>sh, <1>in, <1>ch DEF ReturnSession, OneSession, e
  <2>b. e' = [e EXCEPT !.done = "buf"] /\ ses' = [s \in {1} |-> e']
    BY <2>a, <1>sh DEF OneSession, e
  <2>c. Session(e.lock, e.abort_state, e.encoding, e.omx, "buf", e.by) /\ OneSession'
    BY <2>b, <1>sh DEF OneSession, Session, SessionSame
  <2>d. e.done = "handle" /\ Fields(mj.job_lock, mj.active, Append(mj.session_handle_q, 1), mj.job_queue, jmgr.pc, jhal.pc, jhal.call) /\ Shaped'
    BY <1>4, <1>sh, <1>ch DEF ReturnSession, Shaped, Fields, e
  <2>1. e.done = "handle" /\ Fields(mj.job_lock, mj.active, Append(mj.session_handle_q, 1), mj.job_queue, jmgr.pc, jhal.pc, jhal.call)
        /\ Session(e.lock, e.abort_state, e.encoding, e.omx, "buf", e.by) /\ Shaped' /\ OneSession'
    BY <2>c, <2>d
  <2>e. mj.session_handle_q = <<>> /\ Append(<<>>, 1) = <<1>>
    BY <2>d, <1>in DEF Ranges, OnePlace, Free1, Finishing
  <2>2. (Ranges /\ OnePlace /\ Locks /\ AbortInv /\ DestroyInv)'
    BY <1>in, <2>1, <2>e DEF Fields, Session, SessionSame, Ranges, OnePlace, Locks, AbortInv, DestroyInv, InHand, Free1, Busy, Finishing, Aborting
  <2> QED
    BY <2>1, <2>2 DEF MjInv
<1>5. ASSUME ReturnOutBuf(1) PROVE MjInv'
  <2>a. ses' = [ses EXCEPT ![1] = [e EXCEPT !.done = "post"]]
    BY <1>5, <1>sh, <1>in, <1>ch DEF ReturnOutBuf, OneSession, e
  <2>b. e' = [e EXCEPT !.done = "post"] /\ ses' = [s \in {1} |-> e']
    BY <2>a, <1>sh DEF OneSession, e
  <2>c. Session(e.lock, e.abort_state, e.encoding, e.omx, "post", e.by) /\ OneSession'
    BY <2>b, <1>sh DEF OneSession, Session, SessionSame
  <2>d. e.done = "buf" /\ Fields(mj.job_lock, mj.active, mj.session_handle_q, mj.job_queue, jmgr.pc, jhal.pc, jhal.call) /\ Shaped'
    BY <1>5, <1>sh, <1>ch DEF ReturnOutBuf, Shaped, Fields, e
  <2>1. e.done = "buf" /\ Fields(mj.job_lock, mj.active, mj.session_handle_q, mj.job_queue, jmgr.pc, jhal.pc, jhal.call)
        /\ Session(e.lock, e.abort_state, e.encoding, e.omx, "post", e.by) /\ Shaped' /\ OneSession'
    BY <2>c, <2>d
  <2>2. (Ranges /\ OnePlace /\ Locks /\ AbortInv /\ DestroyInv)'
    BY <1>in, <2>1 DEF Fields, Session, SessionSame, Ranges, OnePlace, Locks, AbortInv, DestroyInv, InHand, Free1, Busy, Finishing, Aborting
  <2> QED
    BY <2>1, <2>2 DEF MjInv
<1>6. ASSUME WakeJobMgr(1), e.by = "mgr" PROVE MjInv'
  <2>a. ses' = [ses EXCEPT ![1] = [e EXCEPT !.done = "no", !.lock = FALSE]]
    BY <1>6, <1>sh, <1>in, <1>ch DEF WakeJobMgr, JobDoneReturns, OneSession, e
  <2>b. e' = [e EXCEPT !.done = "no", !.lock = FALSE] /\ ses' = [s \in {1} |-> e']
    BY <2>a, <1>sh DEF OneSession, e
  <2>c. Session(FALSE, e.abort_state, e.encoding, e.omx, "no", e.by) /\ OneSession'
    BY <2>b, <1>sh DEF OneSession, Session, SessionSame
  <2>d. e.done = "post" /\ e.by = "mgr" /\ Fields("free", mj.active, mj.session_handle_q, mj.job_queue, "wait", jhal.pc, jhal.call) /\ Shaped'
    BY <1>6, <1>sh, <1>ch DEF WakeJobMgr, JobDoneReturns, Shaped, Fields, e
  <2>1. e.done = "post" /\ e.by = "mgr" /\ Fields("free", mj.active, mj.session_handle_q, mj.job_queue, "wait", jhal.pc, jhal.call)
        /\ Session(FALSE, e.abort_state, e.encoding, e.omx, "no", e.by) /\ Shaped' /\ OneSession'
    BY <2>c, <2>d
  <2>2. (Ranges /\ OnePlace /\ Locks /\ AbortInv /\ DestroyInv)'
    BY <1>in, <2>1 DEF Fields, Session, SessionSame, Ranges, OnePlace, Locks, AbortInv, DestroyInv, InHand, Free1, Busy, Finishing, Aborting
  <2> QED
    BY <2>1, <2>2 DEF MjInv
<1>7. ASSUME WakeJobMgr(1), e.by # "mgr" PROVE MjInv'
  <2>a. ses' = [ses EXCEPT ![1] = [e EXCEPT !.done = "no", !.lock = FALSE]]
    BY <1>7, <1>sh, <1>in, <1>ch DEF WakeJobMgr, JobDoneReturns, OneSession, e
  <2>b. e' = [e EXCEPT !.done = "no", !.lock = FALSE] /\ ses' = [s \in {1} |-> e']
    BY <2>a, <1>sh DEF OneSession, e
  <2>c. Session(FALSE, e.abort_state, e.encoding, e.omx, "no", e.by) /\ OneSession'
    BY <2>b, <1>sh DEF OneSession, Session, SessionSame
  <2>d. e.done = "post" /\ e.by # "mgr" /\ Fields(mj.job_lock, mj.active, mj.session_handle_q, mj.job_queue, jmgr.pc, jhal.pc, jhal.call) /\ Shaped'
    BY <1>7, <1>sh, <1>ch DEF WakeJobMgr, JobDoneReturns, Shaped, Fields, e
  <2>1. e.done = "post" /\ e.by # "mgr" /\ Fields(mj.job_lock, mj.active, mj.session_handle_q, mj.job_queue, jmgr.pc, jhal.pc, jhal.call)
        /\ Session(FALSE, e.abort_state, e.encoding, e.omx, "no", e.by) /\ Shaped' /\ OneSession'
    BY <2>c, <2>d
  <2>2. (Ranges /\ OnePlace /\ Locks /\ AbortInv /\ DestroyInv)'
    BY <1>in, <2>1, ZenonT(60) DEF Fields, Session, SessionSame, Ranges, OnePlace, Locks, AbortInv, DestroyInv, InHand, Free1, Busy, Finishing, Aborting
  <2> QED
    BY <2>1, <2>2 DEF MjInv
<1> QED
  BY <1>ch, <1>1, <1>2, <1>3, <1>4, <1>5, <1>6, <1>7 DEF OmxThread, FillBufferDone, ErrorEvent, JobDone, Unheld, e

\* The late error of a job that has been done with.
LEMMA LateKeeps ==
  ASSUME ~Burst, MjInv, LateError(1), ~astray'
  PROVE  /\ MjInv' /\ UNCHANGED <<mj, jmgr, jhal, called, gone>>
         /\ e.omx = "input" /\ e' = [e EXCEPT !.omx = "idle"]
<1>sh. Shaped /\ OneSession
  BY DEF MjInv
<1>in. Ranges /\ OnePlace /\ Locks /\ AbortInv /\ DestroyInv
  BY DEF MjInv
<1>1. /\ e.omx = "input" /\ ses' = [ses EXCEPT ![1].omx = "idle"]
      /\ UNCHANGED <<mj, jmgr, jhal, called, gone>>
  BY DEF LateError, LateAnswer, LateErrorIgnored, e
<1>2. e' = [e EXCEPT !.omx = "idle"] /\ ses' = [s \in {1} |-> e']
  BY <1>1, <1>sh DEF OneSession, e
<1>3. Session(e.lock, e.abort_state, e.encoding, "idle", e.done, e.by) /\ OneSession'
  BY <1>2, <1>sh DEF OneSession, Session
<1>4. Fields(mj.job_lock, mj.active, mj.session_handle_q, mj.job_queue, jmgr.pc, jhal.pc, jhal.call) /\ Shaped'
  BY <1>1, <1>sh DEF Shaped, Fields
<1>5. (Ranges /\ OnePlace /\ Locks /\ AbortInv /\ DestroyInv)'
  BY <1>in, <1>1, <1>3, <1>4 DEF Fields, Session, SessionSame, Ranges, OnePlace, Locks, AbortInv, DestroyInv, InHand, Free1, Busy, Finishing, Aborting
<1> QED
  BY <1>1, <1>2, <1>3, <1>4, <1>5 DEF MjInv

\* What has gone astray stays so.
LEMMA AstrayStays ==
  [MjNext]_mjVars /\ astray \in BOOLEAN => astray' \in BOOLEAN /\ (astray => astray')
<1> SUFFICES ASSUME [MjNext]_mjVars PROVE astray' = astray \/ astray' = TRUE
  OBVIOUS
<1>1. ASSUME CreateSession \/ StopJpeg \/ \E j \in Job : StartJob(j) \/ TakeJpegEvt(j)
      PROVE  astray' = astray
  BY <1>1 DEF CreateSession, StopJpeg, StartJob, TakeJpegEvt
<1>2. ASSUME Client PROVE astray' = astray
  BY <1>2 DEF Client, AbortJpegJob, DestroySession, SessionAbort, SessionAbortWait,
     AbortReturns, FreeSessions, FreeQueues
<1>3. ASSUME JobMgr PROVE astray' = astray
  BY <1>3 DEF JobMgr, JobMgrWakes, GetSession, NothingToDo, GetOutBuf, BeginJob,
     SessionEncode, SessionEncodeFails
<1>4. ASSUME OmxThread PROVE astray' = astray
  BY <1>4 DEF OmxThread, FillBufferDone, ErrorEvent, AbortAnswered, JobAnswered, JobDone,
     RemoveOngoing, ReturnSession, ReturnOutBuf, WakeJobMgr, JobDoneReturns
<1>5. ASSUME SpuriousWakeup PROVE astray' = TRUE
  BY <1>5 DEF SpuriousWakeup
<1>6. ASSUME NEW s \in Chain, LateError(s) PROVE astray' = astray \/ astray' = TRUE
  BY <1>6 DEF LateError, LateAnswer, LateErrorIgnored
<1>7. CASE UNCHANGED mjVars
  BY <1>7 DEF mjVars
<1> QED
  BY <1>1, <1>2, <1>3, <1>4, <1>5, <1>6, <1>7 DEF MjNext

\* MjInv is kept by every step with which nothing goes astray.
LEMMA NextMjInv == ~Burst /\ MjInv /\ ~astray' /\ [MjNext]_mjVars => MjInv'
<1> SUFFICES ASSUME ~Burst, MjInv, ~astray', [MjNext]_mjVars PROVE MjInv'
  OBVIOUS
<1>1. CASE MjNext
  <2>1. ~SpuriousWakeup
    BY DEF SpuriousWakeup
  <2>2. ASSUME NEW s \in Chain, LateError(s) PROVE MjInv'
    <3>1. s = 1
      BY DEF Chain
    <3> QED
      BY <2>2, <3>1, LateKeeps
  <2> QED
    BY <1>1, <2>1, <2>2, CallsKeep, ClientKeeps, JobMgrKeeps, OmxKeeps DEF MjNext
<1>2. CASE UNCHANGED mjVars
  BY <1>2 DEF mjVars, MjInv, Shaped, OneSession, e, Ranges, OnePlace, Locks, AbortInv, DestroyInv, InHand, Free1, Busy, Finishing, Aborting
<1> QED
  BY <1>1, <1>2

\* MjInv says that the session has one job, and is quiet when destroyed.
LEMMA MjInvImplies == ~Burst /\ MjInv => SessionOfOneJob
<1> SUFFICES ASSUME ~Burst, MjInv PROVE SessionOfOneJob
  OBVIOUS
<1>1. Chain = {1}
  BY DEF Chain
<1>2. mj.session_handle_q \in {<<>>, <<1>>}
  BY DEF MjInv, Ranges
<1>3. SessionInOnePlace
  <2>1. CASE mj.session_handle_q = <<>>
    BY <2>1 DEF SessionInOnePlace, Listed
  <2>2. CASE mj.session_handle_q = <<1>>
    <3>1. DOMAIN mj.session_handle_q = {1} /\ mj.session_handle_q[1] = 1
      BY <2>2
    <3>2. Listed(mj.session_handle_q) = {1}
      BY <3>1 DEF Listed
    <3>3. mj.session_handle_q # <<>>
      BY <2>2
    <3> QED
      BY <3>1, <3>2, <3>3 DEF SessionInOnePlace, MjInv, Ranges, OnePlace, Free1, InHand, Busy, Finishing, e
  <2> QED
    BY <1>2, <2>1, <2>2
<1>4. QuietWhenDestroyed
  BY <1>1 DEF QuietWhenDestroyed, MjInv, Ranges, DestroyInv, Busy, e
<1> QED
  BY <1>3, <1>4 DEF SessionOfOneJob

\* Without bursts, a session is free, being encoded in or at a job's end, and
\* is quiet when mm_jpeg_destroy_session frees what its threads use, as long as
\* no wait of an abort ends without an answer and no error of a failing job
\* comes late.
THEOREM OneJobPerSession ==
    ASSUME ~Burst PROVE MjSpec => []SessionOfOneJob
<1> DEFINE I == astray \in BOOLEAN /\ (astray \/ MjInv)
<1>1. MjInit => I
  BY InitMjInv DEF MjInit
<1>2. I /\ [MjNext]_mjVars => I'
  BY NextMjInv, AstrayStays
<1>3. I => SessionOfOneJob
  BY MjInvImplies DEF SessionOfOneJob
<1> HIDE DEF I
<1> QED
  BY <1>1, <1>2, <1>3, PTL DEF MjSpec

\* No job twice in a queue.
Once(q) == \A i, k \in DOMAIN q : q[i] = q[k] => i = k

\* A job that may still be answered: queued, in the job manager's hand, or with
\* the component.
AnswerToCome(q, mpc, mjob, omx, jobId, j) ==
    \/ j \in q
    \/ mpc \in {"buf", "ongoing", "encode"} /\ mjob = j
    \/ omx = "busy" /\ jobId = j

\* The jobs: q are queued, running in ongoing_job_q, mjob in the hand of the job
\* manager at mpc, jobId the session's with omx and done, list what the client
\* waits for, first of which it aborts at hpc, cs how often each was answered.
JobsAs(q, running, mpc, mjob, omx, done, jobId, hpc, call, list, first, cs, gn) ==
    /\ mpc \in {"buf", "ongoing", "encode"} => mjob \in Job /\ mjob \notin q
    /\ omx = "busy" => jobId \in Job /\ jobId \notin q
    /\ \A j \in Job : AnswerToCome(q, mpc, mjob, omx, jobId, j) =>
                          j \in list /\ cs[j] = 0 /\ j \notin gn
    /\ done = "remove" => jobId \in Job /\ cs[jobId] = 1
    /\ \A j \in running : \/ mpc = "encode" /\ j = mjob
                          \/ j = jobId /\ (omx = "busy" \/ done = "remove")
    /\ hpc \in {"abort", "abort_wait", "aborted"} => running = {}
    /\ omx = "busy" => hpc \in {"abort", "abort_wait", "aborted"} \/ jobId \in running
    /\ mpc = "encode" => jobId = mjob /\ mjob \in running
    /\ hpc \in {"abort", "abort_wait", "aborted"} /\ call = "abort" =>
           first \in list /\ first \notin q

JobsNow ==
    JobsAs(Listed(mj.job_queue), mj.ongoing_job_q, jmgr.pc, jmgr.job, e.omx, e.done,
           e.jobId, jhal.pc, jhal.call, Listed(jhal.ongoing), Head(jhal.ongoing),
           called, gone)

JobsInv == Once(mj.job_queue) /\ JobsNow

\* What a step does to the jobs.
JobsBecome(q, running, mpc, mjob, omx, done, jobId, hpc, call, list, cs, gn) ==
    /\ Listed(mj'.job_queue) = q /\ mj'.ongoing_job_q = running
    /\ jmgr'.pc = mpc /\ jmgr'.job = mjob
    /\ e'.omx = omx /\ e'.done = done /\ e'.jobId = jobId
    /\ jhal'.pc = hpc /\ jhal'.call = call /\ Listed(jhal'.ongoing) = list
    /\ called' = cs /\ gone' = gn
    /\ Once(mj.job_queue) => Once(mj'.job_queue)

\* No job that is gone is answered.
Silent == \A j \in gone : called'[j] = called[j]

JobQueues == [job_queue : Seq(Job), ongoing_job_q : SUBSET Job, job_sem : Nat,
              job_lock : {"free", "mgr", "hal"}, session_handle_q : Seq({1}),
              out_buf_q : Seq({1}), active : BOOLEAN, sessions : 0 .. MaxSessions]
JobManagers == [pc : {"wait", "lock", "buf", "ongoing", "encode", "job_done"},
                job : Job \cup {NoJpeg}, s : {1}, dst_index : {1}]
Sessions == [lock : BOOLEAN, abort_state : {"NONE", "INIT", "DONE"},
             encoding : BOOLEAN, jobId : Job \cup {NoJpeg}, dst_index : {1},
             auto_out_buf : BOOLEAN, omx : {"idle", "input", "busy"},
             done : {"no", "remove", "handle", "buf", "post"}, by : {"mgr", "omx"}]
Clients == [pc : {"idle", "stop", "abort", "abort_wait", "aborted", "drain"},
            call : {"abort", "destroy"}, s : {1}, ongoing : Seq(Job)]

\* Types of the fields of mj.
FieldsTyped ==
    /\ mj.job_queue \in Seq(Job) /\ mj.ongoing_job_q \subseteq Job /\ mj.job_sem \in Nat
    /\ mj.job_lock \in {"free", "mgr", "hal"} /\ mj.session_handle_q \in Seq({1})
    /\ mj.out_buf_q \in Seq({1}) /\ mj.active \in BOOLEAN
    /\ mj.sessions \in 0 .. MaxSessions

\* Types; no job is answered twice.
MjTyped ==
    /\ mj \in JobQueues /\ jmgr \in JobManagers /\ e \in Sessions /\ jhal \in Clients
    /\ called \in [Job -> 0 .. 1] /\ gone \subseteq Job

-----------------------------------------------------------------------------
\* What is in a queue of jobs after it has been appended to or begun.
LEMMA ListedIs ==
  ASSUME NEW S, NEW q \in Seq(S)
  PROVE  /\ \A x \in Listed(q) : x \in S
         /\ \A x \in S : /\ Append(q, x) \in Seq(S)
                         /\ Listed(Append(q, x)) = Listed(q) \cup {x}
                         /\ Once(q) /\ x \notin Listed(q) => Once(Append(q, x))
         /\ q # <<>> => /\ Head(q) \in S /\ Head(q) \in Listed(q) /\ Tail(q) \in Seq(S)
                        /\ Listed(q) = Listed(Tail(q)) \cup {Head(q)}
                        /\ Once(q) => Once(Tail(q)) /\ Head(q) \notin Listed(Tail(q))
         /\ Listed(<<>>) = {} /\ Once(<<>>)
<1>1. \A x \in Listed(q) : x \in S
  BY DEF Listed
<1>2. ASSUME NEW x \in S
      PROVE  /\ Append(q, x) \in Seq(S) /\ Listed(Append(q, x)) = Listed(q) \cup {x}
             /\ Once(q) /\ x \notin Listed(q) => Once(Append(q, x))
  <2> DEFINE a == Append(q, x)
  <2>1. /\ a \in Seq(S) /\ DOMAIN a = 1 .. Len(q) + 1 /\ DOMAIN q = 1 .. Len(q) /\ Len(q) \in Nat
        /\ \A i \in 1 .. Len(q) : a[i] = q[i]
        /\ a[Len(q) + 1] = x
    OBVIOUS
  <2> HIDE DEF a
  <2>2. Listed(a) = Listed(q) \cup {x}
    <3>1. \A y \in Listed(a) : y \in Listed(q) \cup {x}
      BY <2>1 DEF Listed
    <3>2. \A y \in Listed(q) : y \in Listed(a)
      <4> SUFFICES ASSUME NEW i \in DOMAIN q PROVE q[i] \in Listed(a)
        BY DEF Listed
      <4>1. i \in DOMAIN a /\ a[i] = q[i]
        BY <2>1
      <4> QED
        BY <4>1 DEF Listed
    <3>3. x \in Listed(a)
      <4>1. Len(q) + 1 \in DOMAIN a
        BY <2>1
      <4> QED
        BY <2>1, <4>1 DEF Listed
    <3> QED
      BY <3>1, <3>2, <3>3
  <2>3. Once(q) /\ x \notin Listed(q) => Once(a)
    BY <2>1 DEF Once, Listed
  <2> QED
    BY <2>1, <2>2, <2>3 DEF a
<1>3. ASSUME q # <<>>
      PROVE  /\ Head(q) \in S /\ Head(q) \in Listed(q) /\ Tail(q) \in Seq(S)
             /\ Listed(q) = Listed(Tail(q)) \cup {Head(q)}
             /\ Once(q) => Once(Tail(q)) /\ Head(q) \notin Listed(Tail(q))
  <2> DEFINE t == Tail(q)
             h == Head(q)
  <2>1. /\ t \in Seq(S) /\ Len(q) \in Nat /\ Len(q) > 0 /\ h = q[1] /\ h \in S
        /\ DOMAIN q = 1 .. Len(q) /\ DOMAIN t = 1 .. Len(q) - 1
        /\ \A i \in 1 .. Len(q) - 1 : t[i] = q[i + 1]
    BY <1>3
  <2> HIDE DEF t, h
  <2>2. h \in Listed(q) /\ \A y \in Listed(t) : y \in Listed(q)
    BY <2>1 DEF Listed
  <2>3. \A y \in Listed(q) : y \in Listed(t) \cup {h}
    <3> SUFFICES ASSUME NEW i \in DOMAIN q, q[i] # h PROVE q[i] \in Listed(t)
      BY DEF Listed
    <3>1. i - 1 \in 1 .. Len(q) - 1 /\ i = (i - 1) + 1
      BY <2>1
    <3>2. i - 1 \in DOMAIN t /\ t[i - 1] = q[i]
      BY <2>1, <3>1
    <3> QED
      BY <3>2 DEF Listed
  <2>4. Once(q) => Once(t) /\ h \notin Listed(t)
    <3>1. \A i \in DOMAIN t : i + 1 \in DOMAIN q /\ t[i] = q[i + 1] /\ i \in Nat /\ i + 1 # 1
      BY <2>1
    <3>2. 1 \in DOMAIN q
      BY <2>1
    <3> QED
      BY <2>1, <3>1, <3>2 DEF Once, Listed
  <2> QED
    BY <2>1, <2>2, <2>3, <2>4 DEF t, h
<1>4. Listed(<<>>) = {} /\ Once(<<>>)
  BY DEF Listed, Once
<1> QED
  BY <1>1, <1>2, <1>3, <1>4

\* What is in a queue of jobs of which some nodes are left.
LEMMA OnceKept ==
  ASSUME NEW S, NEW q \in Seq(S), NEW K \in SUBSET (1 .. Len(q))
  PROVE  /\ Kept(q, K) \in Seq(S) /\ Listed(Kept(q, K)) = {q[i] : i \in K}
         /\ Once(q) => Once(Kept(q, K))
<1>1. /\ Kept(q, K) \in Seq(S) /\ Len(Kept(q, K)) = Cardinality(K)
      /\ IsFiniteSet(K) /\ Cardinality(K) <= Len(q)
      /\ \E f \in [1 .. Len(Kept(q, K)) -> K] :
            /\ \A i \in 1 .. Len(Kept(q, K)) : Kept(q, K)[i] = q[f[i]]
            /\ \A i, j \in 1 .. Len(Kept(q, K)) : i < j => f[i] < f[j]
            /\ \A k \in K : \E i \in 1 .. Len(Kept(q, K)) : f[i] = k
  BY KeptNodes
<1> DEFINE w == Kept(q, K)
<1>2. /\ w \in Seq(S)
      /\ \E f \in [1 .. Len(w) -> K] :
            /\ \A i \in 1 .. Len(w) : w[i] = q[f[i]]
            /\ \A i, j \in 1 .. Len(w) : i < j => f[i] < f[j]
            /\ \A k \in K : \E i \in 1 .. Len(w) : f[i] = k
  BY <1>1
<1> HIDE DEF w
<1>3. PICK f \in [1 .. Len(w) -> K] :
            /\ \A i \in 1 .. Len(w) : w[i] = q[f[i]]
            /\ \A i, j \in 1 .. Len(w) : i < j => f[i] < f[j]
            /\ \A k \in K : \E i \in 1 .. Len(w) : f[i] = k
  BY <1>2
<1>4. DOMAIN w = 1 .. Len(w) /\ Len(w) \in Nat /\ DOMAIN q = 1 .. Len(q)
  BY <1>2
<1>5. Listed(w) = {q[i] : i \in K}
  <2>1. \A y \in Listed(w) : y \in {q[i] : i \in K}
    <3> SUFFICES ASSUME NEW n \in DOMAIN w PROVE w[n] \in {q[i] : i \in K}
      BY DEF Listed
    <3>1. f[n] \in K /\ w[n] = q[f[n]]
      BY <1>3, <1>4
    <3> QED
      BY <3>1
  <2>2. ASSUME NEW k \in K PROVE q[k] \in Listed(w)
    <3>1. PICK n \in 1 .. Len(w) : f[n] = k
      BY <1>3
    <3> QED
      BY <1>3, <1>4, <3>1 DEF Listed
  <2> QED
    BY <2>1, <2>2
<1>6. Once(q) => Once(w)
  <2> SUFFICES ASSUME Once(q), NEW i \in 1 .. Len(w), NEW k \in 1 .. Len(w), w[i] = w[k]
               PROVE  i = k
    BY <1>4 DEF Once
  <2>1. f[i] \in K /\ f[k] \in K /\ q[f[i]] = q[f[k]]
    BY <1>3
  <2>2. f[i] = f[k]
    BY <1>4, <2>1 DEF Once
  <2>n. f[i] \in 1 .. Len(q)
    BY <2>1
  <2>3. f[i] \in Int /\ ~(f[i] < f[k]) /\ ~(f[k] < f[i])
    BY <2>2, <2>n
  <2>4. ~(i < k) /\ ~(k < i)
    BY <1>3, <2>3
  <2> QED
    BY <2>4
<1> QED
  BY <1>2, <1>5, <1>6 DEF w

\* What is in a queue of jobs when one has been removed.
LEMMA WithoutIs ==
  ASSUME NEW S, NEW q \in Seq(S), NEW j
  PROVE  /\ WithoutJob(q, j) \in Seq(S) /\ Listed(WithoutJob(q, j)) = Listed(q) \ {j}
         /\ Once(q) => Once(WithoutJob(q, j))
<1>1. PICK K : K = {i \in DOMAIN q : q[i] # j}
  OBVIOUS
<1>2. K \in SUBSET (1 .. Len(q)) /\ WithoutJob(q, j) = Kept(q, K)
  BY <1>1 DEF WithoutJob
<1>3. {q[i] : i \in K} = Listed(q) \ {j}
  BY <1>1 DEF Listed
<1>4. /\ Kept(q, K) \in Seq(S) /\ Listed(Kept(q, K)) = {q[i] : i \in K}
      /\ Once(q) => Once(Kept(q, K))
  BY <1>2, OnceKept
<1> QED
  BY <1>2, <1>3, <1>4


\* The client's calls that begin and end nothing in a session.
LEMMA CallsJobs == ~Burst /\ MjInv /\ MjTyped /\ JobsInv /\ (CreateSession \/ StopJpeg \/ \E j \in Job : StartJob(j) \/ TakeJpegEvt(j)) => JobsInv' /\ Silent
<1> SUFFICES ASSUME ~Burst, MjInv, MjTyped, JobsInv, (CreateSession \/ StopJpeg \/ \E j \in Job : StartJob(j) \/ TakeJpegEvt(j)) PROVE JobsInv' /\ Silent
  OBVIOUS
<1>sh. Shaped /\ OneSession
  BY DEF MjInv
<1>in. Ranges /\ OnePlace /\ Locks /\ AbortInv /\ DestroyInv
  BY DEF MjInv
<1>ch. Chain = {1} /\ jhal.s = 1 /\ jmgr.s = 1
  BY <1>in DEF Chain, Ranges
<1>q. mj.job_queue \in Seq(Job) /\ jhal.ongoing \in Seq(Job) /\ called \in [Job -> 0 .. 1] /\ gone \subseteq Job
  BY DEF MjTyped, JobQueues, Clients
<1>j. JobsNow /\ Once(mj.job_queue)
  BY DEF JobsInv
<1>1. ASSUME CreateSession PROVE JobsInv' /\ Silent
  <2>b. ses' = [s \in {1} |-> NewSession] /\ e' = NewSession
    BY <1>1, <1>ch DEF CreateSession, e
  <2>1. JobsBecome(Listed(mj.job_queue), mj.ongoing_job_q, jmgr.pc, jmgr.job, "idle", "no",
           NoJpeg, jhal.pc, jhal.call, Listed(jhal.ongoing), called, gone)
    BY <1>1, <1>sh, <1>ch, <1>q, <2>b DEF CreateSession, NewSession, Shaped, OneSession, JobsBecome
  <2>2. /\ jhal.pc = "idle"
        /\ e.omx # "busy" /\ e.done = "no" /\ jmgr.pc \notin {"buf", "ongoing", "encode"}
    BY <1>1, <1>in, <1>ch DEF CreateSession, NewSession, e, Ranges, OnePlace, Locks, AbortInv, DestroyInv, InHand, Free1, Busy, Finishing, Aborting
  <2>3. JobsAs(Listed(mj.job_queue), mj.ongoing_job_q, jmgr.pc, jmgr.job, "idle", "no",
           NoJpeg, jhal.pc, jhal.call, Listed(jhal.ongoing), Head(jhal'.ongoing), called, gone)
    BY <1>1, <1>j, <1>q, <2>2, <2>1 DEF JobsNow, JobsAs, AnswerToCome
  <2>4. JobsNow'
    BY <2>1, <2>3 DEF JobsNow, JobsBecome
  <2>5. Silent
    BY <1>j, <1>q, <2>2, <2>1 DEF JobsNow, JobsBecome, JobsAs, AnswerToCome, Silent
  <2> QED
    BY <1>j, <2>1, <2>4, <2>5 DEF JobsInv, JobsBecome
<1>2. ASSUME NEW j \in Job, StartJob(j) PROVE JobsInv' /\ Silent
  <2>w. j \notin Listed(mj.job_queue)
    BY <1>2, <1>j DEF StartJob, JobsNow, JobsAs, AnswerToCome
  <2>y. mj'.job_queue = Append(mj.job_queue, j) /\ jhal'.ongoing = Append(jhal.ongoing, j)
    BY <1>2, <1>sh DEF StartJob, Shaped
  <2>z. /\ Listed(mj'.job_queue) = Listed(mj.job_queue) \cup {j}
        /\ Listed(jhal'.ongoing) = Listed(jhal.ongoing) \cup {j}
    BY <1>q, <2>y, ListedIs
  <2>x. Once(mj.job_queue) => Once(mj'.job_queue)
    BY <1>q, <2>w, <2>y, ListedIs
  <2>b. e' = e
    BY <1>2, <1>ch DEF StartJob, e
  <2>1. JobsBecome(Listed(mj.job_queue) \cup {j}, mj.ongoing_job_q, jmgr.pc, jmgr.job, e.omx, e.done,
           e.jobId, jhal.pc, jhal.call, Listed(jhal.ongoing) \cup {j}, called, gone)
    BY <1>2, <1>sh, <1>ch, <1>q, <2>b, <2>x, <2>z DEF StartJob, Shaped, OneSession, JobsBecome
  <2>2. /\ jhal.pc = "idle" /\ j \notin Listed(jhal.ongoing) /\ called[j] = 0 /\ j \notin gone
    BY <1>2, <1>in, <1>ch, <2>x, <2>z DEF StartJob, e, Ranges, OnePlace, Locks, AbortInv, DestroyInv, InHand, Free1, Busy, Finishing, Aborting
  <2>3. JobsAs(Listed(mj.job_queue) \cup {j}, mj.ongoing_job_q, jmgr.pc, jmgr.job, e.omx, e.done,
           e.jobId, jhal.pc, jhal.call, Listed(jhal.ongoing) \cup {j}, Head(jhal'.ongoing), called, gone)
    BY <1>2, <1>j, <1>q, <2>2, <2>1 DEF JobsNow, JobsAs, AnswerToCome
  <2>4. JobsNow'
    BY <2>1, <2>3 DEF JobsNow, JobsBecome
  <2>5. Silent
    BY <1>j, <1>q, <2>2, <2>1 DEF JobsNow, JobsBecome, JobsAs, AnswerToCome, Silent
  <2> QED
    BY <1>j, <2>1, <2>4, <2>5 DEF JobsInv, JobsBecome
<1>3. ASSUME NEW j \in Job, TakeJpegEvt(j) PROVE JobsInv' /\ Silent
  <2>b. e' = e
    BY <1>3, <1>ch DEF TakeJpegEvt, e
  <2>1. JobsBecome(Listed(mj.job_queue), mj.ongoing_job_q, jmgr.pc, jmgr.job, e.omx, e.done,
           e.jobId, jhal.pc, jhal.call, Listed(jhal.ongoing) \ {j}, called, gone)
    BY <1>3, <1>sh, <1>ch, <1>q, <2>b, WithoutIs DEF TakeJpegEvt, Shaped, OneSession, JobsBecome
  <2>2. /\ jhal.pc = "idle" /\ called[j] > 0
    BY <1>3, <1>in, <1>ch, WithoutIs DEF TakeJpegEvt, e, Ranges, OnePlace, Locks, AbortInv, DestroyInv, InHand, Free1, Busy, Finishing, Aborting
  <2>3. JobsAs(Listed(mj.job_queue), mj.ongoing_job_q, jmgr.pc, jmgr.job, e.omx, e.done,
           e.jobId, jhal.pc, jhal.call, Listed(jhal.ongoing) \ {j}, Head(jhal'.ongoing), called, gone)
    BY <1>3, <1>j, <1>q, <2>2, <2>1 DEF JobsNow, JobsAs, AnswerToCome
  <2>4. JobsNow'
    BY <2>1, <2>3 DEF JobsNow, JobsBecome
  <2>5. Silent
    BY <1>j, <1>q, <2>2, <2>1 DEF JobsNow, JobsBecome, JobsAs, AnswerToCome, Silent
  <2> QED
    BY <1>j, <2>1, <2>4, <2>5 DEF JobsInv, JobsBecome
<1>4. ASSUME StopJpeg PROVE JobsInv' /\ Silent
  <2>b. e' = e
    BY <1>4, <1>ch DEF StopJpeg, e
  <2>1. JobsBecome(Listed(mj.job_queue), mj.ongoing_job_q, jmgr.pc, jmgr.job, e.omx, e.done,
           e.jobId, "stop", jhal.call, Listed(jhal.ongoing), called, gone)
    BY <1>4, <1>sh, <1>ch, <1>q, <2>b DEF StopJpeg, Shaped, OneSession, JobsBecome
  <2>2. /\ jhal.pc = "idle"
    BY <1>4, <1>in, <1>ch DEF StopJpeg, e, Ranges, OnePlace, Locks, AbortInv, DestroyInv, InHand, Free1, Busy, Finishing, Aborting
  <2>3. JobsAs(Listed(mj.job_queue), mj.ongoing_job_q, jmgr.pc, jmgr.job, e.omx, e.done,
           e.jobId, "stop", jhal.call, Listed(jhal.ongoing), Head(jhal'.ongoing), called, gone)
    BY <1>4, <1>j, <1>q, <2>2, <2>1 DEF JobsNow, JobsAs, AnswerToCome
  <2>4. JobsNow'
    BY <2>1, <2>3 DEF JobsNow, JobsBecome
  <2>5. Silent
    BY <1>j, <1>q, <2>2, <2>1 DEF JobsNow, JobsBecome, JobsAs, AnswerToCome, Silent
  <2> QED
    BY <1>j, <2>1, <2>4, <2>5 DEF JobsInv, JobsBecome
<1> QED
  BY <1>1, <1>2, <1>3, <1>4

\* A step of the client's aborts and of the destruction.
LEMMA ClientJobs == ~Burst /\ MjInv /\ MjTyped /\ JobsInv /\ Client => JobsInv' /\ Silent
<1> SUFFICES ASSUME ~Burst, MjInv, MjTyped, JobsInv, Client PROVE JobsInv' /\ Silent
  OBVIOUS
<1>sh. Shaped /\ OneSession
  BY DEF MjInv
<1>in. Ranges /\ OnePlace /\ Locks /\ AbortInv /\ DestroyInv
  BY DEF MjInv
<1>ch. Chain = {1} /\ jhal.s = 1 /\ jmgr.s = 1
  BY <1>in DEF Chain, Ranges
<1>q. mj.job_queue \in Seq(Job) /\ jhal.ongoing \in Seq(Job) /\ called \in [Job -> 0 .. 1] /\ gone \subseteq Job
  BY DEF MjTyped, JobQueues, Clients
<1>j. JobsNow /\ Once(mj.job_queue)
  BY DEF JobsInv
<1>h. ASSUME jhal.ongoing # <<>>
      PROVE  /\ Head(jhal.ongoing) \in Job /\ Head(jhal.ongoing) \in Listed(jhal.ongoing)
             /\ \A j \in Listed(jhal.ongoing) : j # Head(jhal.ongoing) => j \in Listed(Tail(jhal.ongoing))
  BY <1>h, <1>q, ListedIs
<1>1. ASSUME AbortJpegJob, Head(jhal.ongoing) \in Listed(mj.job_queue), jhal'.pc = "stop" PROVE JobsInv' /\ Silent
  <2>h. jhal.ongoing # <<>> /\ jhal.pc = "stop"
    BY <1>1 DEF AbortJpegJob
  <2>x. /\ Head(jhal.ongoing) \in Job /\ Head(jhal.ongoing) \in Listed(jhal.ongoing)
        /\ \A j \in Listed(jhal.ongoing) : j # Head(jhal.ongoing) => j \in Listed(Tail(jhal.ongoing))
    BY <1>h, <2>h
  <2>w. /\ Listed(WithoutJob(mj.job_queue, Head(jhal.ongoing))) = Listed(mj.job_queue) \ {Head(jhal.ongoing)}
        /\ Once(mj.job_queue) => Once(WithoutJob(mj.job_queue, Head(jhal.ongoing)))
    BY <1>q, WithoutIs
  <2>r. Head(jhal.ongoing) \notin mj.ongoing_job_q
    BY <1>1, <1>in, <1>j, <2>h DEF JobsNow, JobsAs, AnswerToCome, Ranges, OnePlace, Locks, AbortInv, InHand, Free1, Busy, Finishing, Aborting
  <2>z. /\ mj'.job_queue = WithoutJob(mj.job_queue, Head(jhal.ongoing)) /\ mj'.ongoing_job_q = mj.ongoing_job_q
        /\ jhal' = [jhal EXCEPT !.ongoing = Tail(@)] /\ gone' = gone \cup {Head(jhal.ongoing)}
        /\ mj.job_lock = "free"
    BY <1>1, <1>sh, <2>r DEF AbortJpegJob, Shaped
  <2>b. e' = e
    BY <1>1, <1>ch DEF AbortJpegJob, e
  <2>1. JobsBecome(Listed(mj.job_queue) \ {Head(jhal.ongoing)}, mj.ongoing_job_q, jmgr.pc, jmgr.job, e.omx, e.done,
           e.jobId, "stop", jhal.call, Listed(Tail(jhal.ongoing)), called, gone \cup {Head(jhal.ongoing)})
    BY <1>1, <1>sh, <1>ch, <1>q, <2>b, <2>h, <2>x, <2>w, <2>z DEF AbortJpegJob, Shaped, OneSession, JobsBecome
  <2>2. /\ Head(jhal.ongoing) \in Job /\ \A j \in Listed(jhal.ongoing) : j # Head(jhal.ongoing) => j \in Listed(Tail(jhal.ongoing))
        /\ jhal.pc = "stop" /\ jmgr.pc \notin {"buf", "ongoing", "encode"}
    BY <1>1, <1>in, <1>ch, <2>h, <2>x, <2>w, <2>z DEF AbortJpegJob, e, Ranges, OnePlace, Locks, AbortInv, DestroyInv, InHand, Free1, Busy, Finishing, Aborting
  <2>3. JobsAs(Listed(mj.job_queue) \ {Head(jhal.ongoing)}, mj.ongoing_job_q, jmgr.pc, jmgr.job, e.omx, e.done,
           e.jobId, "stop", jhal.call, Listed(Tail(jhal.ongoing)), Head(jhal'.ongoing), called, gone \cup {Head(jhal.ongoing)})
    BY <1>1, <1>j, <1>q, <2>2, <2>1 DEF JobsNow, JobsAs, AnswerToCome
  <2>4. JobsNow'
    BY <2>1, <2>3 DEF JobsNow, JobsBecome
  <2>5. Silent
    BY <1>j, <1>q, <2>2, <2>1 DEF JobsNow, JobsBecome, JobsAs, AnswerToCome, Silent
  <2> QED
    BY <1>j, <2>1, <2>4, <2>5 DEF JobsInv, JobsBecome
<1>2. ASSUME AbortJpegJob, jhal'.pc # "stop" PROVE JobsInv' /\ Silent
  <2>h. jhal.ongoing # <<>> /\ jhal.pc = "stop"
    BY <1>2 DEF AbortJpegJob
  <2>x. /\ Head(jhal.ongoing) \in Job /\ Head(jhal.ongoing) \in Listed(jhal.ongoing)
        /\ \A j \in Listed(jhal.ongoing) : j # Head(jhal.ongoing) => j \in Listed(Tail(jhal.ongoing))
    BY <1>h, <2>h
  <2>b. e' = e
    BY <1>2, <1>ch DEF AbortJpegJob, e
  <2>1. JobsBecome(Listed(mj.job_queue), mj.ongoing_job_q \ {Head(jhal.ongoing)}, jmgr.pc, jmgr.job, e.omx, e.done,
           e.jobId, "abort", "abort", Listed(jhal.ongoing), called, gone)
    BY <1>2, <1>sh, <1>ch, <1>q, <2>b, <2>h, <2>x DEF AbortJpegJob, Shaped, OneSession, JobsBecome
  <2>2. /\ jhal.pc = "stop" /\ jmgr.pc \notin {"buf", "ongoing", "encode"}
        /\ Head(jhal.ongoing) \in mj.ongoing_job_q /\ Head(jhal.ongoing) \in Listed(jhal.ongoing) /\ jhal'.ongoing = jhal.ongoing
    BY <1>2, <1>in, <1>ch, <1>sh, <2>h, <2>x DEF AbortJpegJob, e, Shaped, Ranges, OnePlace, Locks, AbortInv, DestroyInv, InHand, Free1, Busy, Finishing, Aborting
  <2>3. JobsAs(Listed(mj.job_queue), mj.ongoing_job_q \ {Head(jhal.ongoing)}, jmgr.pc, jmgr.job, e.omx, e.done,
           e.jobId, "abort", "abort", Listed(jhal.ongoing), Head(jhal'.ongoing), called, gone)
    BY <1>2, <1>j, <1>q, <2>2, <2>1 DEF JobsNow, JobsAs, AnswerToCome, AbortJpegJob
  <2>4. JobsNow'
    BY <2>1, <2>3 DEF JobsNow, JobsBecome
  <2>5. Silent
    BY <1>j, <1>q, <2>2, <2>1 DEF JobsNow, JobsBecome, JobsAs, AnswerToCome, Silent
  <2> QED
    BY <1>j, <2>1, <2>4, <2>5 DEF JobsInv, JobsBecome
<1>3. ASSUME AbortJpegJob, jhal'.pc = "stop", Head(jhal.ongoing) \notin Listed(mj.job_queue) PROVE JobsInv' /\ Silent
  <2>h. jhal.ongoing # <<>> /\ jhal.pc = "stop"
    BY <1>3 DEF AbortJpegJob
  <2>x. /\ Head(jhal.ongoing) \in Job /\ Head(jhal.ongoing) \in Listed(jhal.ongoing)
        /\ \A j \in Listed(jhal.ongoing) : j # Head(jhal.ongoing) => j \in Listed(Tail(jhal.ongoing))
    BY <1>h, <2>h
  <2>r. Head(jhal.ongoing) \notin mj.ongoing_job_q
    BY <1>3, <1>sh DEF AbortJpegJob, Shaped
  <2>b. e' = e
    BY <1>3, <1>ch DEF AbortJpegJob, e
  <2>1. JobsBecome(Listed(mj.job_queue), mj.ongoing_job_q, jmgr.pc, jmgr.job, e.omx, e.done,
           e.jobId, "stop", jhal.call, Listed(Tail(jhal.ongoing)), called, gone)
    BY <1>3, <1>sh, <1>ch, <1>q, <2>b, <2>h, <2>x, <2>r DEF AbortJpegJob, Shaped, OneSession, JobsBecome
  <2>2. /\ Head(jhal.ongoing) \in Job /\ \A j \in Listed(jhal.ongoing) : j # Head(jhal.ongoing) => j \in Listed(Tail(jhal.ongoing))
        /\ jhal.pc = "stop" /\ jmgr.pc \notin {"buf", "ongoing", "encode"}
        /\ Head(jhal.ongoing) \notin mj.ongoing_job_q
    BY <1>3, <1>in, <1>ch, <2>h, <2>x, <2>r DEF AbortJpegJob, e, Ranges, OnePlace, Locks, AbortInv, DestroyInv, InHand, Free1, Busy, Finishing, Aborting
  <2>3. JobsAs(Listed(mj.job_queue), mj.ongoing_job_q, jmgr.pc, jmgr.job, e.omx, e.done,
           e.jobId, "stop", jhal.call, Listed(Tail(jhal.ongoing)), Head(jhal'.ongoing), called, gone)
    BY <1>3, <1>j, <1>q, <2>2, <2>1 DEF JobsNow, JobsAs, AnswerToCome
  <2>4. JobsNow'
    BY <2>1, <2>3 DEF JobsNow, JobsBecome
  <2>5. Silent
    BY <1>j, <1>q, <2>2, <2>1 DEF JobsNow, JobsBecome, JobsAs, AnswerToCome, Silent
  <2> QED
    BY <1>j, <2>1, <2>4, <2>5 DEF JobsInv, JobsBecome
<1>4. ASSUME DestroySession PROVE JobsInv' /\ Silent
  <2>e. Listed(jhal.ongoing) = {} /\ Listed(<<>>) = {} /\ Once(<<>>)
    BY <1>4 DEF DestroySession, Listed, Once
  <2>b. e' = e
    BY <1>4, <1>ch DEF DestroySession, e
  <2>1. JobsBecome({}, {}, jmgr.pc, jmgr.job, e.omx, e.done,
           e.jobId, "abort", "destroy", {}, called, gone)
    BY <1>4, <1>sh, <1>ch, <1>q, <2>b, <2>e DEF DestroySession, Shaped, OneSession, JobsBecome
  <2>2. /\ jhal.pc = "stop" /\ jmgr.pc \notin {"buf", "ongoing", "encode"}
        /\ Listed(jhal.ongoing) = {}
    BY <1>4, <1>in, <1>ch, <2>e DEF DestroySession, e, Ranges, OnePlace, Locks, AbortInv, DestroyInv, InHand, Free1, Busy, Finishing, Aborting
  <2>3. JobsAs({}, {}, jmgr.pc, jmgr.job, e.omx, e.done,
           e.jobId, "abort", "destroy", {}, Head(jhal'.ongoing), called, gone)
    BY <1>4, <1>j, <1>q, <2>2, <2>1 DEF JobsNow, JobsAs, AnswerToCome
  <2>4. JobsNow'
    BY <2>1, <2>3 DEF JobsNow, JobsBecome
  <2>5. Silent
    BY <1>j, <1>q, <2>2, <2>1 DEF JobsNow, JobsBecome, JobsAs, AnswerToCome, Silent
  <2> QED
    BY <1>j, <2>1, <2>4, <2>5 DEF JobsInv, JobsBecome
<1>5. ASSUME SessionAbort, e.abort_state # "NONE" PROVE JobsInv' /\ Silent
  <2>b. e' = e
    BY <1>5, <1>ch DEF SessionAbort, AbortedChain, NextOfChain, e
  <2>1. JobsBecome(Listed(mj.job_queue), mj.ongoing_job_q, jmgr.pc, jmgr.job, e.omx, e.done,
           e.jobId, "aborted", jhal.call, Listed(jhal.ongoing), called, gone)
    BY <1>5, <1>sh, <1>ch, <1>q, <2>b DEF SessionAbort, AbortedChain, NextOfChain, Shaped, OneSession, JobsBecome
  <2>2. /\ jhal.pc = "abort"
        /\ jhal'.ongoing = jhal.ongoing
    BY <1>5, <1>in, <1>ch, <1>sh DEF SessionAbort, AbortedChain, NextOfChain, e, Shaped, Ranges, OnePlace, Locks, AbortInv, DestroyInv, InHand, Free1, Busy, Finishing, Aborting
  <2>3. JobsAs(Listed(mj.job_queue), mj.ongoing_job_q, jmgr.pc, jmgr.job, e.omx, e.done,
           e.jobId, "aborted", jhal.call, Listed(jhal.ongoing), Head(jhal'.ongoing), called, gone)
    BY <1>5, <1>j, <1>q, <2>2, <2>1 DEF JobsNow, JobsAs, AnswerToCome, SessionAbort, AbortedChain, NextOfChain
  <2>4. JobsNow'
    BY <2>1, <2>3 DEF JobsNow, JobsBecome
  <2>5. Silent
    BY <1>j, <1>q, <2>2, <2>1 DEF JobsNow, JobsBecome, JobsAs, AnswerToCome, Silent
  <2> QED
    BY <1>j, <2>1, <2>4, <2>5 DEF JobsInv, JobsBecome
<1>6. ASSUME SessionAbort, e.abort_state = "NONE", e.encoding PROVE JobsInv' /\ Silent
  <2>a. ses' = [ses EXCEPT ![1] = [e EXCEPT !.abort_state = "INIT"]]
    BY <1>6, <1>sh, <1>ch DEF SessionAbort, AbortedChain, NextOfChain, OneSession, e
  <2>b. e' = [e EXCEPT !.abort_state = "INIT"]
    BY <2>a, <1>sh DEF OneSession, e
  <2>1. JobsBecome(Listed(mj.job_queue), mj.ongoing_job_q, jmgr.pc, jmgr.job, e.omx, e.done,
           e.jobId, "abort_wait", jhal.call, Listed(jhal.ongoing), called, gone)
    BY <1>6, <1>sh, <1>ch, <1>q, <2>b DEF SessionAbort, AbortedChain, NextOfChain, Shaped, OneSession, JobsBecome
  <2>2. /\ jhal.pc = "abort"
        /\ jhal'.ongoing = jhal.ongoing
    BY <1>6, <1>in, <1>ch, <1>sh DEF SessionAbort, AbortedChain, NextOfChain, e, Shaped, Ranges, OnePlace, Locks, AbortInv, DestroyInv, InHand, Free1, Busy, Finishing, Aborting
  <2>3. JobsAs(Listed(mj.job_queue), mj.ongoing_job_q, jmgr.pc, jmgr.job, e.omx, e.done,
           e.jobId, "abort_wait", jhal.call, Listed(jhal.ongoing), Head(jhal'.ongoing), called, gone)
    BY <1>6, <1>j, <1>q, <2>2, <2>1 DEF JobsNow, JobsAs, AnswerToCome, SessionAbort, AbortedChain, NextOfChain
  <2>4. JobsNow'
    BY <2>1, <2>3 DEF JobsNow, JobsBecome
  <2>5. Silent
    BY <1>j, <1>q, <2>2, <2>1 DEF JobsNow, JobsBecome, JobsAs, AnswerToCome, Silent
  <2> QED
    BY <1>j, <2>1, <2>4, <2>5 DEF JobsInv, JobsBecome
<1>7. ASSUME SessionAbort, e.abort_state = "NONE", ~e.encoding PROVE JobsInv' /\ Silent
  <2>a. ses' = [ses EXCEPT ![1] = [e EXCEPT !.abort_state = "DONE"]]
    BY <1>7, <1>sh, <1>ch DEF SessionAbort, AbortedChain, NextOfChain, OneSession, e
  <2>b. e' = [e EXCEPT !.abort_state = "DONE"]
    BY <2>a, <1>sh DEF OneSession, e
  <2>1. JobsBecome(Listed(mj.job_queue), mj.ongoing_job_q, jmgr.pc, jmgr.job, e.omx, e.done,
           e.jobId, "aborted", jhal.call, Listed(jhal.ongoing), called, gone)
    BY <1>7, <1>sh, <1>ch, <1>q, <2>b DEF SessionAbort, AbortedChain, NextOfChain, Shaped, OneSession, JobsBecome
  <2>2. /\ jhal.pc = "abort"
        /\ jhal'.ongoing = jhal.ongoing
    BY <1>7, <1>in, <1>ch, <1>sh DEF SessionAbort, AbortedChain, NextOfChain, e, Shaped, Ranges, OnePlace, Locks, AbortInv, DestroyInv, InHand, Free1, Busy, Finishing, Aborting
  <2>3. JobsAs(Listed(mj.job_queue), mj.ongoing_job_q, jmgr.pc, jmgr.job, e.omx, e.done,
           e.jobId, "aborted", jhal.call, Listed(jhal.ongoing), Head(jhal'.ongoing), called, gone)
    BY <1>7, <1>j, <1>q, <2>2, <2>1 DEF JobsNow, JobsAs, AnswerToCome, SessionAbort, AbortedChain, NextOfChain
  <2>4. JobsNow'
    BY <2>1, <2>3 DEF JobsNow, JobsBecome
  <2>5. Silent
    BY <1>j, <1>q, <2>2, <2>1 DEF JobsNow, JobsBecome, JobsAs, AnswerToCome, Silent
  <2> QED
    BY <1>j, <2>1, <2>4, <2>5 DEF JobsInv, JobsBecome
<1>8. ASSUME SessionAbortWait PROVE JobsInv' /\ Silent
  <2>a. ses' = [ses EXCEPT ![1] = [e EXCEPT !.abort_state = "DONE"]]
    BY <1>8, <1>sh, <1>ch DEF SessionAbortWait, AbortedChain, NextOfChain, OneSession, e
  <2>b. e' = [e EXCEPT !.abort_state = "DONE"]
    BY <2>a, <1>sh DEF OneSession, e
  <2>1. JobsBecome(Listed(mj.job_queue), mj.ongoing_job_q, jmgr.pc, jmgr.job, e.omx, e.done,
           e.jobId, "aborted", jhal.call, Listed(jhal.ongoing), called, gone)
    BY <1>8, <1>sh, <1>ch, <1>q, <2>b DEF SessionAbortWait, AbortedChain, NextOfChain, Shaped, OneSession, JobsBecome
  <2>2. /\ jhal.pc = "abort_wait"
        /\ jhal'.ongoing = jhal.ongoing
    BY <1>8, <1>in, <1>ch, <1>sh DEF SessionAbortWait, AbortedChain, NextOfChain, e, Shaped, Ranges, OnePlace, Locks, AbortInv, DestroyInv, InHand, Free1, Busy, Finishing, Aborting
  <2>3. JobsAs(Listed(mj.job_queue), mj.ongoing_job_q, jmgr.pc, jmgr.job, e.omx, e.done,
           e.jobId, "aborted", jhal.call, Listed(jhal.ongoing), Head(jhal'.ongoing), called, gone)
    BY <1>8, <1>j, <1>q, <2>2, <2>1 DEF JobsNow, JobsAs, AnswerToCome, SessionAbortWait, AbortedChain, NextOfChain
  <2>4. JobsNow'
    BY <2>1, <2>3 DEF JobsNow, JobsBecome
  <2>5. Silent
    BY <1>j, <1>q, <2>2, <2>1 DEF JobsNow, JobsBecome, JobsAs, AnswerToCome, Silent
  <2> QED
    BY <1>j, <2>1, <2>4, <2>5 DEF JobsInv, JobsBecome
<1>9. ASSUME AbortReturns PROVE JobsInv' /\ Silent
  <2>h. Head(jhal.ongoing) \in Listed(jhal.ongoing)
    BY <1>9, <1>j DEF AbortReturns, JobsNow, JobsAs
  <2>x. jhal.ongoing # <<>>
    BY <2>h DEF Listed
  <2>b. e' = e
    BY <1>9, <1>ch DEF AbortReturns, e
  <2>1. JobsBecome(Listed(mj.job_queue), mj.ongoing_job_q, jmgr.pc, jmgr.job, e.omx, e.done,
           e.jobId, "stop", jhal.call, Listed(Tail(jhal.ongoing)), called, gone \cup {Head(jhal.ongoing)})
    BY <1>9, <1>sh, <1>ch, <1>q, <2>b, <1>h, <2>x DEF AbortReturns, Shaped, OneSession, JobsBecome
  <2>2. /\ jhal.pc = "aborted" /\ jhal.call = "abort"
        /\ e.omx # "busy" /\ jmgr.pc \notin {"buf", "ongoing", "encode"}
        /\ Head(jhal.ongoing) \in Job /\ \A j \in Listed(jhal.ongoing) : j # Head(jhal.ongoing) => j \in Listed(Tail(jhal.ongoing))
    BY <1>9, <1>in, <1>ch, <1>h, <2>x DEF AbortReturns, e, Ranges, OnePlace, Locks, AbortInv, DestroyInv, InHand, Free1, Busy, Finishing, Aborting
  <2>3. JobsAs(Listed(mj.job_queue), mj.ongoing_job_q, jmgr.pc, jmgr.job, e.omx, e.done,
           e.jobId, "stop", jhal.call, Listed(Tail(jhal.ongoing)), Head(jhal'.ongoing), called, gone \cup {Head(jhal.ongoing)})
    BY <1>9, <1>j, <1>q, <2>2, <2>1 DEF JobsNow, JobsAs, AnswerToCome
  <2>4. JobsNow'
    BY <2>1, <2>3 DEF JobsNow, JobsBecome
  <2>5. Silent
    BY <1>j, <1>q, <2>2, <2>1 DEF JobsNow, JobsBecome, JobsAs, AnswerToCome, Silent
  <2> QED
    BY <1>j, <2>1, <2>4, <2>5 DEF JobsInv, JobsBecome
<1>10. ASSUME FreeSessions PROVE JobsInv' /\ Silent
  <2>b. e' = e
    BY <1>10, <1>ch DEF FreeSessions, e
  <2>1. JobsBecome(Listed(mj.job_queue), mj.ongoing_job_q, jmgr.pc, jmgr.job, e.omx, e.done,
           e.jobId, "drain", jhal.call, Listed(jhal.ongoing), called, gone)
    BY <1>10, <1>sh, <1>ch, <1>q, <2>b DEF FreeSessions, Shaped, OneSession, JobsBecome
  <2>2. /\ jhal.pc = "aborted"
        /\ e.omx # "busy"
    BY <1>10, <1>in, <1>ch DEF FreeSessions, e, Ranges, OnePlace, Locks, AbortInv, DestroyInv, InHand, Free1, Busy, Finishing, Aborting
  <2>3. JobsAs(Listed(mj.job_queue), mj.ongoing_job_q, jmgr.pc, jmgr.job, e.omx, e.done,
           e.jobId, "drain", jhal.call, Listed(jhal.ongoing), Head(jhal'.ongoing), called, gone)
    BY <1>10, <1>j, <1>q, <2>2, <2>1 DEF JobsNow, JobsAs, AnswerToCome
  <2>4. JobsNow'
    BY <2>1, <2>3 DEF JobsNow, JobsBecome
  <2>5. Silent
    BY <1>j, <1>q, <2>2, <2>1 DEF JobsNow, JobsBecome, JobsAs, AnswerToCome, Silent
  <2> QED
    BY <1>j, <2>1, <2>4, <2>5 DEF JobsInv, JobsBecome
<1>11. ASSUME FreeQueues PROVE JobsInv' /\ Silent
  <2>b. e' = e
    BY <1>11, <1>ch DEF FreeQueues, e
  <2>1. JobsBecome(Listed(mj.job_queue), mj.ongoing_job_q, jmgr.pc, jmgr.job, e.omx, e.done,
           e.jobId, "idle", jhal.call, Listed(jhal.ongoing), called, gone)
    BY <1>11, <1>sh, <1>ch, <1>q, <2>b DEF FreeQueues, Shaped, OneSession, JobsBecome
  <2>2. /\ jhal.pc = "drain"
    BY <1>11, <1>in, <1>ch DEF FreeQueues, e, Ranges, OnePlace, Locks, AbortInv, DestroyInv, InHand, Free1, Busy, Finishing, Aborting
  <2>3. JobsAs(Listed(mj.job_queue), mj.ongoing_job_q, jmgr.pc, jmgr.job, e.omx, e.done,
           e.jobId, "idle", jhal.call, Listed(jhal.ongoing), Head(jhal'.ongoing), called, gone)
    BY <1>11, <1>j, <1>q, <2>2, <2>1 DEF JobsNow, JobsAs, AnswerToCome
  <2>4. JobsNow'
    BY <2>1, <2>3 DEF JobsNow, JobsBecome
  <2>5. Silent
    BY <1>j, <1>q, <2>2, <2>1 DEF JobsNow, JobsBecome, JobsAs, AnswerToCome, Silent
  <2> QED
    BY <1>j, <2>1, <2>4, <2>5 DEF JobsInv, JobsBecome
<1> QED
  BY <1>ch, <1>1, <1>2, <1>3, <1>4, <1>5, <1>6, <1>7, <1>8, <1>9, <1>10, <1>11 DEF Client, AbortJpegJob, e

\* A step of the job manager.
LEMMA JobMgrJobs == ~Burst /\ MjInv /\ MjTyped /\ JobsInv /\ JobMgr => JobsInv' /\ Silent
<1> SUFFICES ASSUME ~Burst, MjInv, MjTyped, JobsInv, JobMgr PROVE JobsInv' /\ Silent
  OBVIOUS
<1>sh. Shaped /\ OneSession
  BY DEF MjInv
<1>in. Ranges /\ OnePlace /\ Locks /\ AbortInv /\ DestroyInv
  BY DEF MjInv
<1>ch. Chain = {1} /\ jhal.s = 1 /\ jmgr.s = 1
  BY <1>in DEF Chain, Ranges
<1>q. mj.job_queue \in Seq(Job) /\ jhal.ongoing \in Seq(Job) /\ called \in [Job -> 0 .. 1] /\ gone \subseteq Job
  BY DEF MjTyped, JobQueues, Clients
<1>j. JobsNow /\ Once(mj.job_queue)
  BY DEF JobsInv
<1>1. ASSUME JobMgrWakes PROVE JobsInv' /\ Silent
  <2>b. e' = e
    BY <1>1, <1>ch DEF JobMgrWakes, e
  <2>1. JobsBecome(Listed(mj.job_queue), mj.ongoing_job_q, jmgr'.pc, jmgr.job, e.omx, e.done,
           e.jobId, jhal.pc, jhal.call, Listed(jhal.ongoing), called, gone)
    BY <1>1, <1>sh, <1>ch, <1>q, <2>b DEF JobMgrWakes, Shaped, OneSession, JobsBecome
  <2>2. /\ jmgr.pc = "wait" /\ jmgr'.pc \in {"wait", "lock"}
        /\ jhal'.ongoing = jhal.ongoing
    BY <1>1, <1>in, <1>ch, <1>sh DEF JobMgrWakes, e, Shaped, Ranges, OnePlace, Locks, AbortInv, DestroyInv, InHand, Free1, Busy, Finishing, Aborting
  <2>3. JobsAs(Listed(mj.job_queue), mj.ongoing_job_q, jmgr'.pc, jmgr.job, e.omx, e.done,
           e.jobId, jhal.pc, jhal.call, Listed(jhal.ongoing), Head(jhal'.ongoing), called, gone)
    BY <1>1, <1>j, <1>q, <2>2, <2>1 DEF JobsNow, JobsAs, AnswerToCome
  <2>4. JobsNow'
    BY <2>1, <2>3 DEF JobsNow, JobsBecome
  <2>5. Silent
    BY <1>j, <1>q, <2>2, <2>1 DEF JobsNow, JobsBecome, JobsAs, AnswerToCome, Silent
  <2> QED
    BY <1>j, <2>1, <2>4, <2>5 DEF JobsInv, JobsBecome
<1>2. ASSUME GetSession PROVE JobsInv' /\ Silent
  <2>x. mj.session_handle_q = <<1>> /\ Head(mj.session_handle_q) = 1 /\ mj.job_queue # <<>>
    BY <1>2, <1>in DEF GetSession, Ranges
  <2>a. ses' = [ses EXCEPT ![1] = [e EXCEPT !.auto_out_buf = FALSE]]
    BY <1>2, <1>sh, <1>ch, <2>x DEF GetSession, OneSession, e
  <2>b. e' = [e EXCEPT !.auto_out_buf = FALSE]
    BY <2>a, <1>sh DEF OneSession, e
  <2>1. JobsBecome(Listed(Tail(mj.job_queue)), mj.ongoing_job_q, "buf", Head(mj.job_queue), e.omx, e.done,
           e.jobId, jhal.pc, jhal.call, Listed(jhal.ongoing), called, gone)
    BY <1>2, <1>sh, <1>ch, <1>q, <2>b, <1>j, <1>q, <2>x, ListedIs DEF GetSession, Shaped, OneSession, JobsBecome
  <2>2. /\ jmgr.pc = "lock" /\ e.omx # "busy" /\ e.done # "remove"
        /\ Head(mj.job_queue) \in Job /\ Listed(mj.job_queue) = Listed(Tail(mj.job_queue)) \cup {Head(mj.job_queue)} /\ Head(mj.job_queue) \notin Listed(Tail(mj.job_queue))
        /\ jhal'.ongoing = jhal.ongoing
    BY <1>2, <1>in, <1>ch, <1>sh, <1>j, <1>q, <2>x, ListedIs DEF GetSession, e, Shaped, Ranges, OnePlace, Locks, AbortInv, DestroyInv, InHand, Free1, Busy, Finishing, Aborting
  <2>3. JobsAs(Listed(Tail(mj.job_queue)), mj.ongoing_job_q, "buf", Head(mj.job_queue), e.omx, e.done,
           e.jobId, jhal.pc, jhal.call, Listed(jhal.ongoing), Head(jhal'.ongoing), called, gone)
    BY <1>2, <1>j, <1>q, <2>2, <2>1 DEF JobsNow, JobsAs, AnswerToCome
  <2>4. JobsNow'
    BY <2>1, <2>3 DEF JobsNow, JobsBecome
  <2>5. Silent
    BY <1>j, <1>q, <2>2, <2>1 DEF JobsNow, JobsBecome, JobsAs, AnswerToCome, Silent
  <2> QED
    BY <1>j, <2>1, <2>4, <2>5 DEF JobsInv, JobsBecome
<1>3. ASSUME NothingToDo PROVE JobsInv' /\ Silent
  <2>b. e' = e
    BY <1>3, <1>ch DEF NothingToDo, e
  <2>1. JobsBecome(Listed(mj.job_queue), mj.ongoing_job_q, "wait", jmgr.job, e.omx, e.done,
           e.jobId, jhal.pc, jhal.call, Listed(jhal.ongoing), called, gone)
    BY <1>3, <1>sh, <1>ch, <1>q, <2>b DEF NothingToDo, Shaped, OneSession, JobsBecome
  <2>2. /\ jmgr.pc = "lock"
        /\ jhal'.ongoing = jhal.ongoing
    BY <1>3, <1>in, <1>ch, <1>sh DEF NothingToDo, e, Shaped, Ranges, OnePlace, Locks, AbortInv, DestroyInv, InHand, Free1, Busy, Finishing, Aborting
  <2>3. JobsAs(Listed(mj.job_queue), mj.ongoing_job_q, "wait", jmgr.job, e.omx, e.done,
           e.jobId, jhal.pc, jhal.call, Listed(jhal.ongoing), Head(jhal'.ongoing), called, gone)
    BY <1>3, <1>j, <1>q, <2>2, <2>1 DEF JobsNow, JobsAs, AnswerToCome
  <2>4. JobsNow'
    BY <2>1, <2>3 DEF JobsNow, JobsBecome
  <2>5. Silent
    BY <1>j, <1>q, <2>2, <2>1 DEF JobsNow, JobsBecome, JobsAs, AnswerToCome, Silent
  <2> QED
    BY <1>j, <2>1, <2>4, <2>5 DEF JobsInv, JobsBecome
<1>4. ASSUME GetOutBuf PROVE JobsInv' /\ Silent
  <2>b. e' = e
    BY <1>4, <1>ch DEF GetOutBuf, e
  <2>1. JobsBecome(Listed(mj.job_queue), mj.ongoing_job_q, "ongoing", jmgr.job, e.omx, e.done,
           e.jobId, jhal.pc, jhal.call, Listed(jhal.ongoing), called, gone)
    BY <1>4, <1>sh, <1>ch, <1>q, <2>b DEF GetOutBuf, Shaped, OneSession, JobsBecome
  <2>2. /\ jmgr.pc = "buf"
        /\ jhal'.ongoing = jhal.ongoing
    BY <1>4, <1>in, <1>ch, <1>sh DEF GetOutBuf, e, Shaped, Ranges, OnePlace, Locks, AbortInv, DestroyInv, InHand, Free1, Busy, Finishing, Aborting
  <2>3. JobsAs(Listed(mj.job_queue), mj.ongoing_job_q, "ongoing", jmgr.job, e.omx, e.done,
           e.jobId, jhal.pc, jhal.call, Listed(jhal.ongoing), Head(jhal'.ongoing), called, gone)
    BY <1>4, <1>j, <1>q, <2>2, <2>1 DEF JobsNow, JobsAs, AnswerToCome
  <2>4. JobsNow'
    BY <2>1, <2>3 DEF JobsNow, JobsBecome
  <2>5. Silent
    BY <1>j, <1>q, <2>2, <2>1 DEF JobsNow, JobsBecome, JobsAs, AnswerToCome, Silent
  <2> QED
    BY <1>j, <2>1, <2>4, <2>5 DEF JobsInv, JobsBecome
<1>5. ASSUME BeginJob PROVE JobsInv' /\ Silent
  <2>a. ses' = [ses EXCEPT ![1] = [e EXCEPT !.jobId = jmgr.job, !.dst_index = jmgr.dst_index]]
    BY <1>5, <1>sh, <1>ch DEF BeginJob, OneSession, e
  <2>b. e' = [e EXCEPT !.jobId = jmgr.job, !.dst_index = jmgr.dst_index]
    BY <2>a, <1>sh DEF OneSession, e
  <2>1. JobsBecome(Listed(mj.job_queue), mj.ongoing_job_q \cup {jmgr.job}, "encode", jmgr.job, e.omx, e.done,
           jmgr.job, jhal.pc, jhal.call, Listed(jhal.ongoing), called, gone)
    BY <1>5, <1>sh, <1>ch, <1>q, <2>b DEF BeginJob, Shaped, OneSession, JobsBecome
  <2>2. /\ jmgr.pc = "ongoing" /\ e.omx # "busy" /\ e.done # "remove"
        /\ jhal.pc \notin {"abort", "abort_wait", "aborted"}
    BY <1>5, <1>in, <1>ch DEF BeginJob, e, Ranges, OnePlace, Locks, AbortInv, DestroyInv, InHand, Free1, Busy, Finishing, Aborting
  <2>3. JobsAs(Listed(mj.job_queue), mj.ongoing_job_q \cup {jmgr.job}, "encode", jmgr.job, e.omx, e.done,
           jmgr.job, jhal.pc, jhal.call, Listed(jhal.ongoing), Head(jhal'.ongoing), called, gone)
    BY <1>5, <1>j, <1>q, <2>2, <2>1 DEF JobsNow, JobsAs, AnswerToCome
  <2>4. JobsNow'
    BY <2>1, <2>3 DEF JobsNow, JobsBecome
  <2>5. Silent
    BY <1>j, <1>q, <2>2, <2>1 DEF JobsNow, JobsBecome, JobsAs, AnswerToCome, Silent
  <2> QED
    BY <1>j, <2>1, <2>4, <2>5 DEF JobsInv, JobsBecome
<1>6. ASSUME SessionEncode PROVE JobsInv' /\ Silent
  <2>a. ses' = [ses EXCEPT ![1] = [e EXCEPT !.abort_state = "NONE", !.encoding = TRUE, !.omx = "busy"]]
    BY <1>6, <1>sh, <1>ch DEF SessionEncode, OneSession, e
  <2>b. e' = [e EXCEPT !.abort_state = "NONE", !.encoding = TRUE, !.omx = "busy"]
    BY <2>a, <1>sh DEF OneSession, e
  <2>1. JobsBecome(Listed(mj.job_queue), mj.ongoing_job_q, "wait", NoJpeg, "busy", e.done,
           e.jobId, jhal.pc, jhal.call, Listed(jhal.ongoing), called, gone)
    BY <1>6, <1>sh, <1>ch, <1>q, <2>b DEF SessionEncode, Shaped, OneSession, JobsBecome
  <2>2. /\ jmgr.pc = "encode" /\ e.omx # "busy" /\ e.done # "remove"
        /\ jhal'.ongoing = jhal.ongoing
    BY <1>6, <1>in, <1>ch, <1>sh DEF SessionEncode, e, Shaped, Ranges, OnePlace, Locks, AbortInv, DestroyInv, InHand, Free1, Busy, Finishing, Aborting
  <2>3. JobsAs(Listed(mj.job_queue), mj.ongoing_job_q, "wait", NoJpeg, "busy", e.done,
           e.jobId, jhal.pc, jhal.call, Listed(jhal.ongoing), Head(jhal'.ongoing), called, gone)
    BY <1>6, <1>j, <1>q, <2>2, <2>1 DEF JobsNow, JobsAs, AnswerToCome
  <2>4. JobsNow'
    BY <2>1, <2>3 DEF JobsNow, JobsBecome
  <2>5. Silent
    BY <1>j, <1>q, <2>2, <2>1 DEF JobsNow, JobsBecome, JobsAs, AnswerToCome, Silent
  <2> QED
    BY <1>j, <2>1, <2>4, <2>5 DEF JobsInv, JobsBecome
<1>7. ASSUME SessionEncodeFails PROVE JobsInv' /\ Silent
  <2>a. PICK given \in BOOLEAN, omx \in {e.omx, "input"} :
            ses' = [ses EXCEPT ![1].abort_state = "NONE", ![1].encoding = given,
                               ![1].omx = omx, ![1].done = "remove", ![1].by = "mgr"]
    BY <1>7, <1>ch DEF SessionEncodeFails, e
  <2>b. e' = [e EXCEPT !.abort_state = "NONE", !.encoding = given, !.omx = omx,
                       !.done = "remove", !.by = "mgr"]
    BY <2>a, <1>sh DEF OneSession, e
  <2>e. e'.omx = omx /\ e'.done = "remove" /\ e'.jobId = e.jobId
    BY <2>b, <1>sh DEF OneSession
  <2>1. JobsBecome(Listed(mj.job_queue), mj.ongoing_job_q, "job_done", jmgr.job, omx, "remove",
           e.jobId, jhal.pc, jhal.call, Listed(jhal.ongoing), [called EXCEPT ![jmgr.job] = @ + 1], gone)
    BY <1>7, <1>sh, <1>ch, <1>q, <2>e DEF SessionEncodeFails, Calls, Shaped, OneSession, JobsBecome
  <2>2. /\ jmgr.pc = "encode" /\ e.omx # "busy" /\ omx # "busy" /\ e.done # "remove"
        /\ jhal'.ongoing = jhal.ongoing
    BY <1>7, <1>in, <1>ch, <1>sh DEF SessionEncodeFails, Calls, e, Shaped, Ranges, OnePlace, Locks, AbortInv, DestroyInv, InHand, Free1, Busy, Finishing, Aborting
  <2>3. JobsAs(Listed(mj.job_queue), mj.ongoing_job_q, "job_done", jmgr.job, omx, "remove",
           e.jobId, jhal.pc, jhal.call, Listed(jhal.ongoing), Head(jhal'.ongoing), [called EXCEPT ![jmgr.job] = @ + 1], gone)
    BY <1>7, <1>j, <1>q, <2>2, <2>1 DEF JobsNow, JobsAs, AnswerToCome
  <2>4. JobsNow'
    BY <2>1, <2>3 DEF JobsNow, JobsBecome
  <2>5. Silent
    BY <1>j, <1>q, <2>2, <2>1 DEF JobsNow, JobsBecome, JobsAs, AnswerToCome, Silent
  <2> QED
    BY <1>j, <2>1, <2>4, <2>5 DEF JobsInv, JobsBecome
<1> QED
  BY <1>1, <1>2, <1>3, <1>4, <1>5, <1>6, <1>7 DEF JobMgr

\* A step of the component's thread, or the end of a job.
LEMMA OmxJobs == ~Burst /\ MjInv /\ MjTyped /\ JobsInv /\ OmxThread => JobsInv' /\ Silent
<1> SUFFICES ASSUME ~Burst, MjInv, MjTyped, JobsInv, OmxThread PROVE JobsInv' /\ Silent
  OBVIOUS
<1>sh. Shaped /\ OneSession
  BY DEF MjInv
<1>in. Ranges /\ OnePlace /\ Locks /\ AbortInv /\ DestroyInv
  BY DEF MjInv
<1>ch. Chain = {1} /\ jhal.s = 1 /\ jmgr.s = 1
  BY <1>in DEF Chain, Ranges
<1>q. mj.job_queue \in Seq(Job) /\ jhal.ongoing \in Seq(Job) /\ called \in [Job -> 0 .. 1] /\ gone \subseteq Job
  BY DEF MjTyped, JobQueues, Clients
<1>j. JobsNow /\ Once(mj.job_queue)
  BY DEF JobsInv
<1>1. ASSUME AbortAnswered(1), e.omx = "busy", e.abort_state # "NONE" PROVE JobsInv' /\ Silent
  <2>a. ses' = [ses EXCEPT ![1] = [e EXCEPT !.abort_state = "DONE", !.omx = "idle"]]
    BY <1>1, <1>sh, <1>ch DEF AbortAnswered, OneSession, e
  <2>b. e' = [e EXCEPT !.abort_state = "DONE", !.omx = "idle"]
    BY <2>a, <1>sh DEF OneSession, e
  <2>1. JobsBecome(Listed(mj.job_queue), mj.ongoing_job_q, jmgr.pc, jmgr.job, "idle", e.done,
           e.jobId, jhal.pc, jhal.call, Listed(jhal.ongoing), called, gone)
    BY <1>1, <1>sh, <1>ch, <1>q, <2>b DEF AbortAnswered, Shaped, OneSession, JobsBecome
  <2>2. /\ e.omx = "busy" /\ e.done = "no" /\ jhal.pc = "abort_wait"
        /\ jhal'.ongoing = jhal.ongoing
    BY <1>1, <1>in, <1>ch, <1>sh DEF AbortAnswered, e, Shaped, Ranges, OnePlace, Locks, AbortInv, DestroyInv, InHand, Free1, Busy, Finishing, Aborting
  <2>3. JobsAs(Listed(mj.job_queue), mj.ongoing_job_q, jmgr.pc, jmgr.job, "idle", e.done,
           e.jobId, jhal.pc, jhal.call, Listed(jhal.ongoing), Head(jhal'.ongoing), called, gone)
    BY <1>1, <1>j, <1>q, <2>2, <2>1 DEF JobsNow, JobsAs, AnswerToCome, AbortAnswered
  <2>4. JobsNow'
    BY <2>1, <2>3 DEF JobsNow, JobsBecome
  <2>5. Silent
    BY <1>j, <1>q, <2>2, <2>1 DEF JobsNow, JobsBecome, JobsAs, AnswerToCome, Silent
  <2> QED
    BY <1>j, <2>1, <2>4, <2>5 DEF JobsInv, JobsBecome
<1>2. ASSUME JobAnswered(1), e.omx = "busy", e.abort_state # "INIT" PROVE JobsInv' /\ Silent
  <2>a. ses' = [ses EXCEPT ![1] = [e EXCEPT !.omx = "idle", !.lock = TRUE, !.done = "remove", !.by = "omx"]]
    BY <1>2, <1>sh, <1>ch DEF JobAnswered, Calls, OneSession, e
  <2>b. e' = [e EXCEPT !.omx = "idle", !.lock = TRUE, !.done = "remove", !.by = "omx"]
    BY <2>a, <1>sh DEF OneSession, e
  <2>1. JobsBecome(Listed(mj.job_queue), mj.ongoing_job_q, jmgr.pc, jmgr.job, "idle", "remove",
           e.jobId, jhal.pc, jhal.call, Listed(jhal.ongoing), [called EXCEPT ![e.jobId] = @ + 1], gone)
    BY <1>2, <1>sh, <1>ch, <1>q, <2>b DEF JobAnswered, Calls, Shaped, OneSession, JobsBecome
  <2>2. /\ e.omx = "busy" /\ jmgr.pc \notin {"buf", "ongoing", "encode"}
        /\ jhal'.ongoing = jhal.ongoing
    BY <1>2, <1>in, <1>ch, <1>sh DEF JobAnswered, Calls, e, Shaped, Ranges, OnePlace, Locks, AbortInv, DestroyInv, InHand, Free1, Busy, Finishing, Aborting
  <2>3. JobsAs(Listed(mj.job_queue), mj.ongoing_job_q, jmgr.pc, jmgr.job, "idle", "remove",
           e.jobId, jhal.pc, jhal.call, Listed(jhal.ongoing), Head(jhal'.ongoing), [called EXCEPT ![e.jobId] = @ + 1], gone)
    BY <1>2, <1>j, <1>q, <2>2, <2>1 DEF JobsNow, JobsAs, AnswerToCome
  <2>4. JobsNow'
    BY <2>1, <2>3 DEF JobsNow, JobsBecome
  <2>5. Silent
    BY <1>j, <1>q, <2>2, <2>1 DEF JobsNow, JobsBecome, JobsAs, AnswerToCome, Silent
  <2> QED
    BY <1>j, <2>1, <2>4, <2>5 DEF JobsInv, JobsBecome
<1>3. ASSUME RemoveOngoing(1) PROVE JobsInv' /\ Silent
  <2>a. ses' = [ses EXCEPT ![1] = [e EXCEPT !.encoding = FALSE, !.done = "handle"]]
    BY <1>3, <1>sh, <1>ch DEF RemoveOngoing, OneSession, e
  <2>b. e' = [e EXCEPT !.encoding = FALSE, !.done = "handle"]
    BY <2>a, <1>sh DEF OneSession, e
  <2>1. JobsBecome(Listed(mj.job_queue), mj.ongoing_job_q \ {e.jobId}, jmgr.pc, jmgr.job, e.omx, "handle",
           e.jobId, jhal.pc, jhal.call, Listed(jhal.ongoing), called, gone)
    BY <1>3, <1>sh, <1>ch, <1>q, <2>b DEF RemoveOngoing, Shaped, OneSession, JobsBecome
  <2>2. /\ e.done = "remove" /\ e.omx # "busy" /\ jmgr.pc \notin {"buf", "ongoing", "encode"}
        /\ jhal'.ongoing = jhal.ongoing
    BY <1>3, <1>in, <1>ch, <1>sh DEF RemoveOngoing, e, Shaped, Ranges, OnePlace, Locks, AbortInv, DestroyInv, InHand, Free1, Busy, Finishing, Aborting
  <2>3. JobsAs(Listed(mj.job_queue), mj.ongoing_job_q \ {e.jobId}, jmgr.pc, jmgr.job, e.omx, "handle",
           e.jobId, jhal.pc, jhal.call, Listed(jhal.ongoing), Head(jhal'.ongoing), called, gone)
    BY <1>3, <1>j, <1>q, <2>2, <2>1 DEF JobsNow, JobsAs, AnswerToCome
  <2>4. JobsNow'
    BY <2>1, <2>3 DEF JobsNow, JobsBecome
  <2>5. Silent
    BY <1>j, <1>q, <2>2, <2>1 DEF JobsNow, JobsBecome, JobsAs, AnswerToCome, Silent
  <2> QED
    BY <1>j, <2>1, <2>4, <2>5 DEF JobsInv, JobsBecome
<1>4. ASSUME ReturnSession(1) PROVE JobsInv' /\ Silent
  <2>a. ses' = [ses EXCEPT ![1] = [e EXCEPT !.done = "buf"]]
    BY <1>4, <1>sh, <1>ch DEF ReturnSession, OneSession, e
  <2>b. e' = [e EXCEPT !.done = "buf"]
    BY <2>a, <1>sh DEF OneSession, e
  <2>1. JobsBecome(Listed(mj.job_queue), mj.ongoing_job_q, jmgr.pc, jmgr.job, e.omx, "buf",
           e.jobId, jhal.pc, jhal.call, Listed(jhal.ongoing), called, gone)
    BY <1>4, <1>sh, <1>ch, <1>q, <2>b DEF ReturnSession, Shaped, OneSession, JobsBecome
  <2>2. /\ e.done = "handle"
        /\ jhal'.ongoing = jhal.ongoing
    BY <1>4, <1>in, <1>ch, <1>sh DEF ReturnSession, e, Shaped, Ranges, OnePlace, Locks, AbortInv, DestroyInv, InHand, Free1, Busy, Finishing, Aborting
  <2>3. JobsAs(Listed(mj.job_queue), mj.ongoing_job_q, jmgr.pc, jmgr.job, e.omx, "buf",
           e.jobId, jhal.pc, jhal.call, Listed(jhal.ongoing), Head(jhal'.ongoing), called, gone)
    BY <1>4, <1>j, <1>q, <2>2, <2>1 DEF JobsNow, JobsAs, AnswerToCome
  <2>4. JobsNow'
    BY <2>1, <2>3 DEF JobsNow, JobsBecome
  <2>5. Silent
    BY <1>j, <1>q, <2>2, <2>1 DEF JobsNow, JobsBecome, JobsAs, AnswerToCome, Silent
  <2> QED
    BY <1>j, <2>1, <2>4, <2>5 DEF JobsInv, JobsBecome
<1>5. ASSUME ReturnOutBuf(1) PROVE JobsInv' /\ Silent
  <2>a. ses' = [ses EXCEPT ![1] = [e EXCEPT !.done = "post"]]
    BY <1>5, <1>sh, <1>ch DEF ReturnOutBuf, OneSession, e
  <2>b. e' = [e EXCEPT !.done = "post"]
    BY <2>a, <1>sh DEF OneSession, e
  <2>1. JobsBecome(Listed(mj.job_queue), mj.ongoing_job_q, jmgr.pc, jmgr.job, e.omx, "post",
           e.jobId, jhal.pc, jhal.call, Listed(jhal.ongoing), called, gone)
    BY <1>5, <1>sh, <1>ch, <1>q, <2>b DEF ReturnOutBuf, Shaped, OneSession, JobsBecome
  <2>2. /\ e.done = "buf"
        /\ jhal'.ongoing = jhal.ongoing
    BY <1>5, <1>in, <1>ch, <1>sh DEF ReturnOutBuf, e, Shaped, Ranges, OnePlace, Locks, AbortInv, DestroyInv, InHand, Free1, Busy, Finishing, Aborting
  <2>3. JobsAs(Listed(mj.job_queue), mj.ongoing_job_q, jmgr.pc, jmgr.job, e.omx, "post",
           e.jobId, jhal.pc, jhal.call, Listed(jhal.ongoing), Head(jhal'.ongoing), called, gone)
    BY <1>5, <1>j, <1>q, <2>2, <2>1 DEF JobsNow, JobsAs, AnswerToCome
  <2>4. JobsNow'
    BY <2>1, <2>3 DEF JobsNow, JobsBecome
  <2>5. Silent
    BY <1>j, <1>q, <2>2, <2>1 DEF JobsNow, JobsBecome, JobsAs, AnswerToCome, Silent
  <2> QED
    BY <1>j, <2>1, <2>4, <2>5 DEF JobsInv, JobsBecome
<1>6. ASSUME WakeJobMgr(1), e.by = "mgr" PROVE JobsInv' /\ Silent
  <2>a. ses' = [ses EXCEPT ![1] = [e EXCEPT !.done = "no", !.lock = FALSE]]
    BY <1>6, <1>sh, <1>ch DEF WakeJobMgr, JobDoneReturns, OneSession, e
  <2>b. e' = [e EXCEPT !.done = "no", !.lock = FALSE]
    BY <2>a, <1>sh DEF OneSession, e
  <2>1. JobsBecome(Listed(mj.job_queue), mj.ongoing_job_q, "wait", NoJpeg, e.omx, "no",
           e.jobId, jhal.pc, jhal.call, Listed(jhal.ongoing), called, gone)
    BY <1>6, <1>sh, <1>ch, <1>q, <2>b DEF WakeJobMgr, JobDoneReturns, Shaped, OneSession, JobsBecome
  <2>2. /\ e.done = "post" /\ jmgr.pc \notin {"buf", "ongoing", "encode"}
        /\ jhal'.ongoing = jhal.ongoing
    BY <1>6, <1>in, <1>ch, <1>sh DEF WakeJobMgr, JobDoneReturns, e, Shaped, Ranges, OnePlace, Locks, AbortInv, DestroyInv, InHand, Free1, Busy, Finishing, Aborting
  <2>3. JobsAs(Listed(mj.job_queue), mj.ongoing_job_q, "wait", NoJpeg, e.omx, "no",
           e.jobId, jhal.pc, jhal.call, Listed(jhal.ongoing), Head(jhal'.ongoing), called, gone)
    BY <1>6, <1>j, <1>q, <2>2, <2>1 DEF JobsNow, JobsAs, AnswerToCome
  <2>4. JobsNow'
    BY <2>1, <2>3 DEF JobsNow, JobsBecome
  <2>5. Silent
    BY <1>j, <1>q, <2>2, <2>1 DEF JobsNow, JobsBecome, JobsAs, AnswerToCome, Silent
  <2> QED
    BY <1>j, <2>1, <2>4, <2>5 DEF JobsInv, JobsBecome
<1>7. ASSUME WakeJobMgr(1), e.by # "mgr" PROVE JobsInv' /\ Silent
  <2>a. ses' = [ses EXCEPT ![1] = [e EXCEPT !.done = "no", !.lock = FALSE]]
    BY <1>7, <1>sh, <1>ch DEF WakeJobMgr, JobDoneReturns, OneSession, e
  <2>b. e' = [e EXCEPT !.done = "no", !.lock = FALSE]
    BY <2>a, <1>sh DEF OneSession, e
  <2>1. JobsBecome(Listed(mj.job_queue), mj.ongoing_job_q, jmgr.pc, jmgr.job, e.omx, "no",
           e.jobId, jhal.pc, jhal.call, Listed(jhal.ongoing), called, gone)
    BY <1>7, <1>sh, <1>ch, <1>q, <2>b DEF WakeJobMgr, JobDoneReturns, Shaped, OneSession, JobsBecome
  <2>2. /\ e.done = "post"
        /\ jhal'.ongoing = jhal.ongoing
    BY <1>7, <1>in, <1>ch, <1>sh DEF WakeJobMgr, JobDoneReturns, e, Shaped, Ranges, OnePlace, Locks, AbortInv, DestroyInv, InHand, Free1, Busy, Finishing, Aborting
  <2>3. JobsAs(Listed(mj.job_queue), mj.ongoing_job_q, jmgr.pc, jmgr.job, e.omx, "no",
           e.jobId, jhal.pc, jhal.call, Listed(jhal.ongoing), Head(jhal'.ongoing), called, gone)
    BY <1>7, <1>j, <1>q, <2>2, <2>1 DEF JobsNow, JobsAs, AnswerToCome
  <2>4. JobsNow'
    BY <2>1, <2>3 DEF JobsNow, JobsBecome
  <2>5. Silent
    BY <1>j, <1>q, <2>2, <2>1 DEF JobsNow, JobsBecome, JobsAs, AnswerToCome, Silent
  <2> QED
    BY <1>j, <2>1, <2>4, <2>5 DEF JobsInv, JobsBecome
<1> QED
  BY <1>ch, <1>1, <1>2, <1>3, <1>4, <1>5, <1>6, <1>7 DEF OmxThread, FillBufferDone, ErrorEvent, JobDone, Unheld, e

-----------------------------------------------------------------------------
\* Types, by the client's calls that begin and end nothing in a session.
LEMMA CallsTyped == ~Burst /\ MjInv /\ MjTyped /\ JobsInv /\ (CreateSession \/ StopJpeg \/ \E j \in Job : StartJob(j) \/ TakeJpegEvt(j)) => MjTyped'
<1> SUFFICES ASSUME ~Burst, MjInv, MjTyped, JobsInv, (CreateSession \/ StopJpeg \/ \E j \in Job : StartJob(j) \/ TakeJpegEvt(j)) PROVE MjTyped'
  OBVIOUS
<1>sh. Shaped /\ OneSession
  BY DEF MjInv
<1>in. Ranges /\ OnePlace /\ Locks /\ AbortInv /\ DestroyInv
  BY DEF MjInv
<1>ch. Chain = {1} /\ OutBuf = {1} /\ jhal.s = 1 /\ jmgr.s = 1
  BY <1>in DEF Chain, OutBuf, Ranges
<1>q. mj \in JobQueues /\ jmgr \in JobManagers /\ e \in Sessions /\ jhal \in Clients /\ called \in [Job -> 0 .. 1] /\ gone \subseteq Job
  BY DEF MjTyped
<1>s. mj.job_queue \in Seq(Job) /\ jhal.ongoing \in Seq(Job) /\ mj.session_handle_q \in Seq({1}) /\ mj.out_buf_q \in Seq({1})
  BY <1>q DEF JobQueues, Clients
<1>t. /\ <<>> \in Seq(Job) /\ <<>> \in Seq({1}) /\ Tail(<<1>>) = <<>>
      /\ Append(mj.session_handle_q, 1) \in Seq({1}) /\ Append(mj.out_buf_q, 1) \in Seq({1})
      /\ mj.job_sem + 1 \in Nat /\ (mj.job_sem > 0 => mj.job_sem - 1 \in Nat)
      /\ ses[1].by = e.by
  BY <1>s, <1>q DEF JobQueues, e
<1>z. FieldsTyped
  BY <1>q DEF JobQueues, FieldsTyped
<1>j. JobsNow
  BY DEF JobsInv
<1>1. ASSUME CreateSession PROVE MjTyped'
  <2>x. ChainSeq = <<1>> /\ <<1>> \in Seq({1}) /\ mj.sessions + 1 \in 0 .. MaxSessions
    BY <1>1, <1>q, MmJpegAssumption DEF ChainSeq, CreateSession, JobQueues
  <2>b. e' = NewSession
    BY <1>1, <1>ch DEF CreateSession, e
  <2>c. e' \in Sessions
    BY <2>b DEF NewSession, Sessions
  <2>m. Shaped' /\ FieldsTyped'
    BY <1>1, <1>sh, <1>z, <1>t, <1>ch, <2>x DEF CreateSession, Shaped, FieldsTyped
  <2>1. mj' \in JobQueues
    BY <2>m DEF Shaped, FieldsTyped, JobQueues
  <2>2. jmgr' \in JobManagers
    BY <1>1, <1>q, <1>s, <1>ch, <2>x DEF CreateSession, JobManagers
  <2>3. jhal' \in Clients
    BY <1>1, <1>q, <1>s, <1>ch, <2>x DEF CreateSession, Clients
  <2>4. called' \in [Job -> 0 .. 1] /\ gone' \subseteq Job
    BY <1>1, <1>q, <1>ch, <2>x DEF CreateSession
  <2> QED
    BY <2>c, <2>1, <2>2, <2>3, <2>4 DEF MjTyped
<1>2. ASSUME NEW j \in Job, StartJob(j) PROVE MjTyped'
  <2>y. Append(mj.job_queue, j) \in Seq(Job) /\ Append(jhal.ongoing, j) \in Seq(Job) /\ mj.job_sem + 1 \in Nat
    BY <1>s, <1>q DEF JobQueues
  <2>c. e' \in Sessions
    BY <1>2, <1>ch, <1>q DEF StartJob, e
  <2>m. Shaped' /\ FieldsTyped'
    BY <1>2, <1>sh, <1>z, <1>t, <1>ch, <2>y DEF StartJob, Shaped, FieldsTyped
  <2>1. mj' \in JobQueues
    BY <2>m DEF Shaped, FieldsTyped, JobQueues
  <2>2. jmgr' \in JobManagers
    BY <1>2, <1>q, <1>s, <1>ch, <2>y DEF StartJob, JobManagers
  <2>d. PICK l \in Seq(Job) : jhal' = [jhal EXCEPT !.ongoing = l]
    BY <1>2, <1>q, <1>s, <1>ch, <2>y DEF StartJob, Clients
  <2>3. jhal' \in Clients
    BY <1>q, <2>d DEF Clients
  <2>4. called' \in [Job -> 0 .. 1] /\ gone' \subseteq Job
    BY <1>2, <1>q, <1>ch, <2>y DEF StartJob
  <2> QED
    BY <2>c, <2>1, <2>2, <2>3, <2>4 DEF MjTyped
<1>3. ASSUME NEW j \in Job, TakeJpegEvt(j) PROVE MjTyped'
  <2>c. e' \in Sessions
    BY <1>3, <1>ch, <1>q DEF TakeJpegEvt, e
  <2>m. Shaped' /\ FieldsTyped'
    BY <1>3, <1>sh, <1>z, <1>t, <1>ch, WithoutIs DEF TakeJpegEvt, Shaped, FieldsTyped
  <2>1. mj' \in JobQueues
    BY <2>m DEF Shaped, FieldsTyped, JobQueues
  <2>2. jmgr' \in JobManagers
    BY <1>3, <1>q, <1>s, <1>ch, WithoutIs DEF TakeJpegEvt, JobManagers
  <2>3. jhal' \in Clients
    BY <1>3, <1>q, <1>s, <1>ch, WithoutIs DEF TakeJpegEvt, Clients
  <2>4. called' \in [Job -> 0 .. 1] /\ gone' \subseteq Job
    BY <1>3, <1>q, <1>ch, WithoutIs DEF TakeJpegEvt
  <2> QED
    BY <2>c, <2>1, <2>2, <2>3, <2>4 DEF MjTyped
<1>4. ASSUME StopJpeg PROVE MjTyped'
  <2>c. e' \in Sessions
    BY <1>4, <1>ch, <1>q DEF StopJpeg, e
  <2>m. Shaped' /\ FieldsTyped'
    BY <1>4, <1>sh, <1>z, <1>t, <1>ch DEF StopJpeg, Shaped, FieldsTyped
  <2>1. mj' \in JobQueues
    BY <2>m DEF Shaped, FieldsTyped, JobQueues
  <2>2. jmgr' \in JobManagers
    BY <1>4, <1>q, <1>s, <1>ch DEF StopJpeg, JobManagers
  <2>3. jhal' \in Clients
    BY <1>4, <1>q, <1>s, <1>ch DEF StopJpeg, Clients
  <2>4. called' \in [Job -> 0 .. 1] /\ gone' \subseteq Job
    BY <1>4, <1>q, <1>ch DEF StopJpeg
  <2> QED
    BY <2>c, <2>1, <2>2, <2>3, <2>4 DEF MjTyped
<1> QED
  BY <1>1, <1>2, <1>3, <1>4

\* Types, by a step of the client's aborts and of the destruction.
LEMMA ClientTyped == ~Burst /\ MjInv /\ MjTyped /\ JobsInv /\ Client => MjTyped'
<1> SUFFICES ASSUME ~Burst, MjInv, MjTyped, JobsInv, Client PROVE MjTyped'
  OBVIOUS
<1>sh. Shaped /\ OneSession
  BY DEF MjInv
<1>in. Ranges /\ OnePlace /\ Locks /\ AbortInv /\ DestroyInv
  BY DEF MjInv
<1>ch. Chain = {1} /\ OutBuf = {1} /\ jhal.s = 1 /\ jmgr.s = 1
  BY <1>in DEF Chain, OutBuf, Ranges
<1>q. mj \in JobQueues /\ jmgr \in JobManagers /\ e \in Sessions /\ jhal \in Clients /\ called \in [Job -> 0 .. 1] /\ gone \subseteq Job
  BY DEF MjTyped
<1>s. mj.job_queue \in Seq(Job) /\ jhal.ongoing \in Seq(Job) /\ mj.session_handle_q \in Seq({1}) /\ mj.out_buf_q \in Seq({1})
  BY <1>q DEF JobQueues, Clients
<1>t. /\ <<>> \in Seq(Job) /\ <<>> \in Seq({1}) /\ Tail(<<1>>) = <<>>
      /\ Append(mj.session_handle_q, 1) \in Seq({1}) /\ Append(mj.out_buf_q, 1) \in Seq({1})
      /\ mj.job_sem + 1 \in Nat /\ (mj.job_sem > 0 => mj.job_sem - 1 \in Nat)
      /\ ses[1].by = e.by
  BY <1>s, <1>q DEF JobQueues, e
<1>z. FieldsTyped
  BY <1>q DEF JobQueues, FieldsTyped
<1>j. JobsNow
  BY DEF JobsInv
<1>h. jhal.ongoing # <<>> => Head(jhal.ongoing) \in Job /\ Tail(jhal.ongoing) \in Seq(Job)
  BY <1>s, ListedIs
<1>1. ASSUME AbortJpegJob PROVE MjTyped'
  <2>w. WithoutJob(mj.job_queue, Head(jhal.ongoing)) \in Seq(Job)
    BY <1>s, WithoutIs
  <2>c. e' \in Sessions
    BY <1>1, <1>ch, <1>q DEF AbortJpegJob, e
  <2>m. Shaped' /\ FieldsTyped'
    <3> DEFINE j == Head(jhal.ongoing)
    <3>n. jmgr' = jmgr
      BY <1>1 DEF AbortJpegJob
    <3>1. CASE /\ mj' = [mj EXCEPT !.job_queue = WithoutJob(@, j)]
               /\ jhal' = [jhal EXCEPT !.ongoing = Tail(@)]
      BY <3>1, <3>n, <1>sh, <1>z, <2>w DEF Shaped, FieldsTyped
    <3>2. CASE /\ mj' = [mj EXCEPT !.ongoing_job_q = @ \ {j}, !.job_lock = "hal"]
               /\ jhal' = [jhal EXCEPT !.pc = "abort", !.call = "abort", !.s = 1]
      BY <3>2, <3>n, <1>sh, <1>z DEF Shaped, FieldsTyped
    <3>3. CASE mj' = mj /\ jhal' = [jhal EXCEPT !.ongoing = Tail(@)]
      BY <3>3, <3>n, <1>sh, <1>z DEF Shaped, FieldsTyped
    <3> QED
      BY <1>1, <3>1, <3>2, <3>3 DEF AbortJpegJob
  <2>1. mj' \in JobQueues
    BY <2>m DEF Shaped, FieldsTyped, JobQueues
  <2>2. jmgr' \in JobManagers
    BY <1>1, <1>q, <1>s, <1>ch, <1>h, <2>w DEF AbortJpegJob, JobManagers
  <2>3. jhal' \in Clients
    BY <1>1, <1>q, <1>s, <1>ch, <1>h, <2>w DEF AbortJpegJob, Clients
  <2>4. called' \in [Job -> 0 .. 1] /\ gone' \subseteq Job
    BY <1>1, <1>q, <1>ch, <1>h, <2>w DEF AbortJpegJob
  <2> QED
    BY <2>c, <2>1, <2>2, <2>3, <2>4 DEF MjTyped
<1>2. ASSUME DestroySession PROVE MjTyped'
  <2>c. e' \in Sessions
    BY <1>2, <1>ch, <1>q DEF DestroySession, e
  <2>m. Shaped' /\ FieldsTyped'
    BY <1>2, <1>sh, <1>z, <1>t, <1>ch DEF DestroySession, Shaped, FieldsTyped
  <2>1. mj' \in JobQueues
    BY <2>m DEF Shaped, FieldsTyped, JobQueues
  <2>2. jmgr' \in JobManagers
    BY <1>2, <1>q, <1>s, <1>ch DEF DestroySession, JobManagers
  <2>3. jhal' \in Clients
    BY <1>2, <1>q, <1>s, <1>ch DEF DestroySession, Clients
  <2>4. called' \in [Job -> 0 .. 1] /\ gone' \subseteq Job
    BY <1>2, <1>q, <1>ch DEF DestroySession
  <2> QED
    BY <2>c, <2>1, <2>2, <2>3, <2>4 DEF MjTyped
<1>3. ASSUME SessionAbort, e.abort_state # "NONE" PROVE MjTyped'
  <2>c. e' \in Sessions
    BY <1>3, <1>ch, <1>q DEF SessionAbort, AbortedChain, NextOfChain, e
  <2>m. Shaped' /\ FieldsTyped'
    BY <1>3, <1>sh, <1>z, <1>t, <1>ch DEF SessionAbort, AbortedChain, NextOfChain, Shaped, FieldsTyped
  <2>1. mj' \in JobQueues
    BY <2>m DEF Shaped, FieldsTyped, JobQueues
  <2>2. jmgr' \in JobManagers
    BY <1>3, <1>q, <1>s, <1>ch DEF SessionAbort, AbortedChain, NextOfChain, JobManagers
  <2>3. jhal' \in Clients
    BY <1>3, <1>q, <1>s, <1>ch DEF SessionAbort, AbortedChain, NextOfChain, Clients
  <2>4. called' \in [Job -> 0 .. 1] /\ gone' \subseteq Job
    BY <1>3, <1>q, <1>ch DEF SessionAbort, AbortedChain, NextOfChain
  <2> QED
    BY <2>c, <2>1, <2>2, <2>3, <2>4 DEF MjTyped
<1>4. ASSUME SessionAbort, e.abort_state = "NONE", e.encoding PROVE MjTyped'
  <2>a. ses' = [ses EXCEPT ![1] = [e EXCEPT !.abort_state = "INIT"]]
    BY <1>4, <1>sh, <1>ch DEF SessionAbort, AbortedChain, NextOfChain, OneSession, e
  <2>b. e' = [e EXCEPT !.abort_state = "INIT"]
    BY <2>a, <1>sh DEF OneSession, e
  <2>c. e' \in Sessions
    BY <2>b, <1>q DEF Sessions, JobManagers
  <2>m. Shaped' /\ FieldsTyped'
    BY <1>4, <1>sh, <1>z, <1>t, <1>ch, <2>b DEF SessionAbort, AbortedChain, NextOfChain, Shaped, FieldsTyped
  <2>1. mj' \in JobQueues
    BY <2>m DEF Shaped, FieldsTyped, JobQueues
  <2>2. jmgr' \in JobManagers
    BY <1>4, <1>q, <1>s, <1>ch DEF SessionAbort, AbortedChain, NextOfChain, JobManagers
  <2>3. jhal' \in Clients
    BY <1>4, <1>q, <1>s, <1>ch DEF SessionAbort, AbortedChain, NextOfChain, Clients
  <2>4. called' \in [Job -> 0 .. 1] /\ gone' \subseteq Job
    BY <1>4, <1>q, <1>ch DEF SessionAbort, AbortedChain, NextOfChain
  <2> QED
    BY <2>c, <2>1, <2>2, <2>3, <2>4 DEF MjTyped
<1>5. ASSUME SessionAbort, e.abort_state = "NONE", ~e.encoding PROVE MjTyped'
  <2>a. ses' = [ses EXCEPT ![1] = [e EXCEPT !.abort_state = "DONE"]]
    BY <1>5, <1>sh, <1>ch DEF SessionAbort, AbortedChain, NextOfChain, OneSession, e
  <2>b. e' = [e EXCEPT !.abort_state = "DONE"]
    BY <2>a, <1>sh DEF OneSession, e
  <2>c. e' \in Sessions
    BY <2>b, <1>q DEF Sessions, JobManagers
  <2>m. Shaped' /\ FieldsTyped'
    BY <1>5, <1>sh, <1>z, <1>t, <1>ch, <2>b DEF SessionAbort, AbortedChain, NextOfChain, Shaped, FieldsTyped
  <2>1. mj' \in JobQueues
    BY <2>m DEF Shaped, FieldsTyped, JobQueues
  <2>2. jmgr' \in JobManagers
    BY <1>5, <1>q, <1>s, <1>ch DEF SessionAbort, AbortedChain, NextOfChain, JobManagers
  <2>3. jhal' \in Clients
    BY <1>5, <1>q, <1>s, <1>ch DEF SessionAbort, AbortedChain, NextOfChain, Clients
  <2>4. called' \in [Job -> 0 .. 1] /\ gone' \subseteq Job
    BY <1>5, <1>q, <1>ch DEF SessionAbort, AbortedChain, NextOfChain
  <2> QED
    BY <2>c, <2>1, <2>2, <2>3, <2>4 DEF MjTyped
<1>6. ASSUME SessionAbortWait PROVE MjTyped'
  <2>a. ses' = [ses EXCEPT ![1] = [e EXCEPT !.abort_state = "DONE"]]
    BY <1>6, <1>sh, <1>ch DEF SessionAbortWait, AbortedChain, NextOfChain, OneSession, e
  <2>b. e' = [e EXCEPT !.abort_state = "DONE"]
    BY <2>a, <1>sh DEF OneSession, e
  <2>c. e' \in Sessions
    BY <2>b, <1>q DEF Sessions, JobManagers
  <2>m. Shaped' /\ FieldsTyped'
    BY <1>6, <1>sh, <1>z, <1>t, <1>ch, <2>b DEF SessionAbortWait, AbortedChain, NextOfChain, Shaped, FieldsTyped
  <2>1. mj' \in JobQueues
    BY <2>m DEF Shaped, FieldsTyped, JobQueues
  <2>2. jmgr' \in JobManagers
    BY <1>6, <1>q, <1>s, <1>ch DEF SessionAbortWait, AbortedChain, NextOfChain, JobManagers
  <2>3. jhal' \in Clients
    BY <1>6, <1>q, <1>s, <1>ch DEF SessionAbortWait, AbortedChain, NextOfChain, Clients
  <2>4. called' \in [Job -> 0 .. 1] /\ gone' \subseteq Job
    BY <1>6, <1>q, <1>ch DEF SessionAbortWait, AbortedChain, NextOfChain
  <2> QED
    BY <2>c, <2>1, <2>2, <2>3, <2>4 DEF MjTyped
<1>7. ASSUME AbortReturns PROVE MjTyped'
  <2>h. Head(jhal.ongoing) \in Listed(jhal.ongoing)
    BY <1>7, <1>j DEF AbortReturns, JobsNow, JobsAs
  <2>x. jhal.ongoing # <<>>
    BY <2>h DEF Listed
  <2>c. e' \in Sessions
    BY <1>7, <1>ch, <1>q DEF AbortReturns, e
  <2>m. Shaped' /\ FieldsTyped'
    BY <1>7, <1>sh, <1>z, <1>t, <1>ch, <1>h, <2>x DEF AbortReturns, Shaped, FieldsTyped
  <2>1. mj' \in JobQueues
    BY <2>m DEF Shaped, FieldsTyped, JobQueues
  <2>2. jmgr' \in JobManagers
    BY <1>7, <1>q, <1>s, <1>ch, <1>h, <2>x DEF AbortReturns, JobManagers
  <2>3. jhal' \in Clients
    BY <1>7, <1>q, <1>s, <1>ch, <1>h, <2>x DEF AbortReturns, Clients
  <2>4. called' \in [Job -> 0 .. 1] /\ gone' \subseteq Job
    BY <1>7, <1>q, <1>ch, <1>h, <2>x DEF AbortReturns
  <2> QED
    BY <2>c, <2>1, <2>2, <2>3, <2>4 DEF MjTyped
<1>8. ASSUME FreeSessions PROVE MjTyped'
  <2>c. e' \in Sessions
    BY <1>8, <1>ch, <1>q DEF FreeSessions, e
  <2>m. Shaped' /\ FieldsTyped'
    BY <1>8, <1>sh, <1>z, <1>t, <1>ch DEF FreeSessions, Shaped, FieldsTyped
  <2>1. mj' \in JobQueues
    BY <2>m DEF Shaped, FieldsTyped, JobQueues
  <2>2. jmgr' \in JobManagers
    BY <1>8, <1>q, <1>s, <1>ch DEF FreeSessions, JobManagers
  <2>3. jhal' \in Clients
    BY <1>8, <1>q, <1>s, <1>ch DEF FreeSessions, Clients
  <2>4. called' \in [Job -> 0 .. 1] /\ gone' \subseteq Job
    BY <1>8, <1>q, <1>ch DEF FreeSessions
  <2> QED
    BY <2>c, <2>1, <2>2, <2>3, <2>4 DEF MjTyped
<1>9. ASSUME FreeQueues PROVE MjTyped'
  <2>c. e' \in Sessions
    BY <1>9, <1>ch, <1>q DEF FreeQueues, e
  <2>m. Shaped' /\ FieldsTyped'
    BY <1>9, <1>sh, <1>z, <1>t, <1>ch DEF FreeQueues, Shaped, FieldsTyped
  <2>1. mj' \in JobQueues
    BY <2>m DEF Shaped, FieldsTyped, JobQueues
  <2>2. jmgr' \in JobManagers
    BY <1>9, <1>q, <1>s, <1>ch DEF FreeQueues, JobManagers
  <2>3. jhal' \in Clients
    BY <1>9, <1>q, <1>s, <1>ch DEF FreeQueues, Clients
  <2>4. called' \in [Job -> 0 .. 1] /\ gone' \subseteq Job
    BY <1>9, <1>q, <1>ch DEF FreeQueues
  <2> QED
    BY <2>c, <2>1, <2>2, <2>3, <2>4 DEF MjTyped
<1> QED
  BY <1>ch, <1>1, <1>2, <1>3, <1>4, <1>5, <1>6, <1>7, <1>8, <1>9 DEF Client

\* Types, by a step of the job manager.
LEMMA JobMgrTyped == ~Burst /\ MjInv /\ MjTyped /\ JobsInv /\ JobMgr => MjTyped'
<1> SUFFICES ASSUME ~Burst, MjInv, MjTyped, JobsInv, JobMgr PROVE MjTyped'
  OBVIOUS
<1>sh. Shaped /\ OneSession
  BY DEF MjInv
<1>in. Ranges /\ OnePlace /\ Locks /\ AbortInv /\ DestroyInv
  BY DEF MjInv
<1>ch. Chain = {1} /\ OutBuf = {1} /\ jhal.s = 1 /\ jmgr.s = 1
  BY <1>in DEF Chain, OutBuf, Ranges
<1>q. mj \in JobQueues /\ jmgr \in JobManagers /\ e \in Sessions /\ jhal \in Clients /\ called \in [Job -> 0 .. 1] /\ gone \subseteq Job
  BY DEF MjTyped
<1>s. mj.job_queue \in Seq(Job) /\ jhal.ongoing \in Seq(Job) /\ mj.session_handle_q \in Seq({1}) /\ mj.out_buf_q \in Seq({1})
  BY <1>q DEF JobQueues, Clients
<1>t. /\ <<>> \in Seq(Job) /\ <<>> \in Seq({1}) /\ Tail(<<1>>) = <<>>
      /\ Append(mj.session_handle_q, 1) \in Seq({1}) /\ Append(mj.out_buf_q, 1) \in Seq({1})
      /\ mj.job_sem + 1 \in Nat /\ (mj.job_sem > 0 => mj.job_sem - 1 \in Nat)
      /\ ses[1].by = e.by
  BY <1>s, <1>q DEF JobQueues, e
<1>z. FieldsTyped
  BY <1>q DEF JobQueues, FieldsTyped
<1>j. JobsNow
  BY DEF JobsInv
<1>1. ASSUME JobMgrWakes PROVE MjTyped'
  <2>c. e' \in Sessions
    BY <1>1, <1>ch, <1>q DEF JobMgrWakes, e
  <2>m. Shaped' /\ FieldsTyped'
    BY <1>1, <1>sh, <1>z, <1>t, <1>ch DEF JobMgrWakes, Shaped, FieldsTyped
  <2>1. mj' \in JobQueues
    BY <2>m DEF Shaped, FieldsTyped, JobQueues
  <2>2. jmgr' \in JobManagers
    BY <1>1, <1>q, <1>s, <1>ch DEF JobMgrWakes, JobManagers
  <2>3. jhal' \in Clients
    BY <1>1, <1>q, <1>s, <1>ch DEF JobMgrWakes, Clients
  <2>4. called' \in [Job -> 0 .. 1] /\ gone' \subseteq Job
    BY <1>1, <1>q, <1>ch DEF JobMgrWakes
  <2> QED
    BY <2>c, <2>1, <2>2, <2>3, <2>4 DEF MjTyped
<1>2. ASSUME GetSession PROVE MjTyped'
  <2>x. mj.session_handle_q = <<1>> /\ Head(mj.session_handle_q) = 1 /\ mj.job_queue # <<>>
    BY <1>2, <1>in DEF GetSession, Ranges
  <2>y. Tail(<<1>>) = <<>> /\ Head(mj.job_queue) \in Job /\ Tail(mj.job_queue) \in Seq(Job)
    BY <1>s, <2>x, ListedIs
  <2>a. ses' = [ses EXCEPT ![1] = [e EXCEPT !.auto_out_buf = FALSE]]
    BY <1>2, <1>sh, <1>ch, <2>x DEF GetSession, OneSession, e
  <2>b. e' = [e EXCEPT !.auto_out_buf = FALSE]
    BY <2>a, <1>sh DEF OneSession, e
  <2>c. e' \in Sessions
    BY <2>b, <1>q, <2>x DEF Sessions, JobManagers
  <2>m. Shaped' /\ FieldsTyped'
    BY <1>2, <1>sh, <1>z, <1>t, <1>ch, <2>x, <2>y, <2>b DEF GetSession, Shaped, FieldsTyped
  <2>1. mj' \in JobQueues
    BY <2>m DEF Shaped, FieldsTyped, JobQueues
  <2>2. jmgr' \in JobManagers
    BY <1>2, <1>q, <1>s, <1>ch, <2>x, <2>y DEF GetSession, JobManagers
  <2>3. jhal' \in Clients
    BY <1>2, <1>q, <1>s, <1>ch, <2>x, <2>y DEF GetSession, Clients
  <2>4. called' \in [Job -> 0 .. 1] /\ gone' \subseteq Job
    BY <1>2, <1>q, <1>ch, <2>x, <2>y DEF GetSession
  <2> QED
    BY <2>c, <2>1, <2>2, <2>3, <2>4 DEF MjTyped
<1>3. ASSUME NothingToDo PROVE MjTyped'
  <2>c. e' \in Sessions
    BY <1>3, <1>ch, <1>q DEF NothingToDo, e
  <2>m. Shaped' /\ FieldsTyped'
    BY <1>3, <1>sh, <1>z, <1>t, <1>ch DEF NothingToDo, Shaped, FieldsTyped
  <2>1. mj' \in JobQueues
    BY <2>m DEF Shaped, FieldsTyped, JobQueues
  <2>2. jmgr' \in JobManagers
    BY <1>3, <1>q, <1>s, <1>ch DEF NothingToDo, JobManagers
  <2>3. jhal' \in Clients
    BY <1>3, <1>q, <1>s, <1>ch DEF NothingToDo, Clients
  <2>4. called' \in [Job -> 0 .. 1] /\ gone' \subseteq Job
    BY <1>3, <1>q, <1>ch DEF NothingToDo
  <2> QED
    BY <2>c, <2>1, <2>2, <2>3, <2>4 DEF MjTyped
<1>4. ASSUME GetOutBuf PROVE MjTyped'
  <2>c. e' \in Sessions
    BY <1>4, <1>ch, <1>q DEF GetOutBuf, e
  <2>m. Shaped' /\ FieldsTyped'
    BY <1>4, <1>sh, <1>z, <1>t, <1>ch DEF GetOutBuf, Shaped, FieldsTyped
  <2>1. mj' \in JobQueues
    BY <2>m DEF Shaped, FieldsTyped, JobQueues
  <2>2. jmgr' \in JobManagers
    BY <1>4, <1>q, <1>s, <1>ch DEF GetOutBuf, JobManagers
  <2>3. jhal' \in Clients
    BY <1>4, <1>q, <1>s, <1>ch DEF GetOutBuf, Clients
  <2>4. called' \in [Job -> 0 .. 1] /\ gone' \subseteq Job
    BY <1>4, <1>q, <1>ch DEF GetOutBuf
  <2> QED
    BY <2>c, <2>1, <2>2, <2>3, <2>4 DEF MjTyped
<1>5. ASSUME BeginJob PROVE MjTyped'
  <2>x. jmgr.job \in Job
    BY <1>5, <1>j DEF BeginJob, JobsNow, JobsAs
  <2>a. ses' = [ses EXCEPT ![1] = [e EXCEPT !.jobId = jmgr.job, !.dst_index = jmgr.dst_index]]
    BY <1>5, <1>sh, <1>ch DEF BeginJob, OneSession, e
  <2>b. e' = [e EXCEPT !.jobId = jmgr.job, !.dst_index = jmgr.dst_index]
    BY <2>a, <1>sh DEF OneSession, e
  <2>c. e' \in Sessions
    BY <2>b, <1>q DEF Sessions, JobManagers
  <2>m. Shaped' /\ FieldsTyped'
    BY <1>5, <1>sh, <1>z, <1>t, <1>ch, <2>x, <2>b DEF BeginJob, Shaped, FieldsTyped
  <2>1. mj' \in JobQueues
    BY <2>m DEF Shaped, FieldsTyped, JobQueues
  <2>2. jmgr' \in JobManagers
    BY <1>5, <1>q, <1>s, <1>ch, <2>x DEF BeginJob, JobManagers
  <2>3. jhal' \in Clients
    BY <1>5, <1>q, <1>s, <1>ch, <2>x DEF BeginJob, Clients
  <2>4. called' \in [Job -> 0 .. 1] /\ gone' \subseteq Job
    BY <1>5, <1>q, <1>ch, <2>x DEF BeginJob
  <2> QED
    BY <2>c, <2>1, <2>2, <2>3, <2>4 DEF MjTyped
<1>6. ASSUME SessionEncode PROVE MjTyped'
  <2>a. ses' = [ses EXCEPT ![1] = [e EXCEPT !.abort_state = "NONE", !.encoding = TRUE, !.omx = "busy"]]
    BY <1>6, <1>sh, <1>ch DEF SessionEncode, OneSession, e
  <2>b. e' = [e EXCEPT !.abort_state = "NONE", !.encoding = TRUE, !.omx = "busy"]
    BY <2>a, <1>sh DEF OneSession, e
  <2>c. e' \in Sessions
    BY <2>b, <1>q DEF Sessions, JobManagers
  <2>m. Shaped' /\ FieldsTyped'
    BY <1>6, <1>sh, <1>z, <1>t, <1>ch, <2>b DEF SessionEncode, Shaped, FieldsTyped
  <2>1. mj' \in JobQueues
    BY <2>m DEF Shaped, FieldsTyped, JobQueues
  <2>2. jmgr' \in JobManagers
    BY <1>6, <1>q, <1>s, <1>ch DEF SessionEncode, JobManagers
  <2>3. jhal' \in Clients
    BY <1>6, <1>q, <1>s, <1>ch DEF SessionEncode, Clients
  <2>4. called' \in [Job -> 0 .. 1] /\ gone' \subseteq Job
    BY <1>6, <1>q, <1>ch DEF SessionEncode
  <2> QED
    BY <2>c, <2>1, <2>2, <2>3, <2>4 DEF MjTyped
<1>7. ASSUME SessionEncodeFails PROVE MjTyped'
  <2>x. jmgr.job \in Job /\ called[jmgr.job] = 0
    BY <1>7, <1>j DEF SessionEncodeFails, JobsNow, JobsAs, AnswerToCome
  <2>a. PICK given \in BOOLEAN, omx \in {e.omx, "input"} :
            ses' = [ses EXCEPT ![1].abort_state = "NONE", ![1].encoding = given,
                               ![1].omx = omx, ![1].done = "remove", ![1].by = "mgr"]
    BY <1>7, <1>ch DEF SessionEncodeFails, e
  <2>o. omx \in {"idle", "input", "busy"}
    BY <1>in DEF Ranges
  <2>b. e' = [e EXCEPT !.abort_state = "NONE", !.encoding = given, !.omx = omx,
                       !.done = "remove", !.by = "mgr"]
    BY <2>a, <1>sh DEF OneSession, e
  <2>c. e' \in Sessions
    BY <2>b, <2>o, <1>q DEF Sessions, JobManagers
  <2>m. Shaped' /\ FieldsTyped'
    BY <1>7, <1>sh, <1>z, <1>t, <1>ch, <2>x, <2>b DEF SessionEncodeFails, Calls, Shaped, FieldsTyped
  <2>1. mj' \in JobQueues
    BY <2>m DEF Shaped, FieldsTyped, JobQueues
  <2>2. jmgr' \in JobManagers
    BY <1>7, <1>q, <1>s, <1>ch, <2>x DEF SessionEncodeFails, Calls, JobManagers
  <2>3. jhal' \in Clients
    BY <1>7, <1>q, <1>s, <1>ch, <2>x DEF SessionEncodeFails, Calls, Clients
  <2>4. called' \in [Job -> 0 .. 1] /\ gone' \subseteq Job
    BY <1>7, <1>q, <1>ch, <2>x DEF SessionEncodeFails, Calls
  <2> QED
    BY <2>c, <2>1, <2>2, <2>3, <2>4 DEF MjTyped
<1> QED
  BY <1>1, <1>2, <1>3, <1>4, <1>5, <1>6, <1>7 DEF JobMgr

\* Types, by a step of the component's thread, or the end of a job.
LEMMA OmxTyped == ~Burst /\ MjInv /\ MjTyped /\ JobsInv /\ OmxThread => MjTyped'
<1> SUFFICES ASSUME ~Burst, MjInv, MjTyped, JobsInv, OmxThread PROVE MjTyped'
  OBVIOUS
<1>sh. Shaped /\ OneSession
  BY DEF MjInv
<1>in. Ranges /\ OnePlace /\ Locks /\ AbortInv /\ DestroyInv
  BY DEF MjInv
<1>ch. Chain = {1} /\ OutBuf = {1} /\ jhal.s = 1 /\ jmgr.s = 1
  BY <1>in DEF Chain, OutBuf, Ranges
<1>q. mj \in JobQueues /\ jmgr \in JobManagers /\ e \in Sessions /\ jhal \in Clients /\ called \in [Job -> 0 .. 1] /\ gone \subseteq Job
  BY DEF MjTyped
<1>s. mj.job_queue \in Seq(Job) /\ jhal.ongoing \in Seq(Job) /\ mj.session_handle_q \in Seq({1}) /\ mj.out_buf_q \in Seq({1})
  BY <1>q DEF JobQueues, Clients
<1>t. /\ <<>> \in Seq(Job) /\ <<>> \in Seq({1}) /\ Tail(<<1>>) = <<>>
      /\ Append(mj.session_handle_q, 1) \in Seq({1}) /\ Append(mj.out_buf_q, 1) \in Seq({1})
      /\ mj.job_sem + 1 \in Nat /\ (mj.job_sem > 0 => mj.job_sem - 1 \in Nat)
      /\ ses[1].by = e.by
  BY <1>s, <1>q DEF JobQueues, e
<1>z. FieldsTyped
  BY <1>q DEF JobQueues, FieldsTyped
<1>j. JobsNow
  BY DEF JobsInv
<1>1. ASSUME AbortAnswered(1) PROVE MjTyped'
  <2>a. ses' = [ses EXCEPT ![1] = [e EXCEPT !.abort_state = "DONE", !.omx = "idle"]]
    BY <1>1, <1>sh, <1>ch DEF AbortAnswered, OneSession, e
  <2>b. e' = [e EXCEPT !.abort_state = "DONE", !.omx = "idle"]
    BY <2>a, <1>sh DEF OneSession, e
  <2>c. e' \in Sessions
    BY <2>b, <1>q DEF Sessions, JobManagers
  <2>m. Shaped' /\ FieldsTyped'
    BY <1>1, <1>sh, <1>z, <1>t, <1>ch, <2>b DEF AbortAnswered, Shaped, FieldsTyped
  <2>1. mj' \in JobQueues
    BY <2>m DEF Shaped, FieldsTyped, JobQueues
  <2>2. jmgr' \in JobManagers
    BY <1>1, <1>q, <1>s, <1>ch DEF AbortAnswered, JobManagers
  <2>3. jhal' \in Clients
    BY <1>1, <1>q, <1>s, <1>ch DEF AbortAnswered, Clients
  <2>4. called' \in [Job -> 0 .. 1] /\ gone' \subseteq Job
    BY <1>1, <1>q, <1>ch DEF AbortAnswered
  <2> QED
    BY <2>c, <2>1, <2>2, <2>3, <2>4 DEF MjTyped
<1>2. ASSUME JobAnswered(1), e.omx = "busy" PROVE MjTyped'
  <2>y. ses[1].jobId = e.jobId
    BY DEF e
  <2>x. e.jobId \in Job /\ called[e.jobId] = 0
    BY <1>2, <1>j DEF JobsNow, JobsAs, AnswerToCome
  <2>a. ses' = [ses EXCEPT ![1] = [e EXCEPT !.omx = "idle", !.lock = TRUE, !.done = "remove", !.by = "omx"]]
    BY <1>2, <1>sh, <1>ch DEF JobAnswered, Calls, OneSession, e
  <2>b. e' = [e EXCEPT !.omx = "idle", !.lock = TRUE, !.done = "remove", !.by = "omx"]
    BY <2>a, <1>sh DEF OneSession, e
  <2>c. e' \in Sessions
    BY <2>b, <1>q DEF Sessions, JobManagers
  <2>m. Shaped' /\ FieldsTyped'
    BY <1>2, <1>sh, <1>z, <1>t, <1>ch, <2>x, <2>y, <2>b DEF JobAnswered, Calls, Shaped, FieldsTyped
  <2>1. mj' \in JobQueues
    BY <2>m DEF Shaped, FieldsTyped, JobQueues
  <2>2. jmgr' \in JobManagers
    BY <1>2, <1>q, <1>s, <1>ch, <2>x, <2>y DEF JobAnswered, Calls, JobManagers
  <2>3. jhal' \in Clients
    BY <1>2, <1>q, <1>s, <1>ch, <2>x, <2>y DEF JobAnswered, Calls, Clients
  <2>4. called' \in [Job -> 0 .. 1] /\ gone' \subseteq Job
    BY <1>2, <1>q, <1>ch, <2>x, <2>y DEF JobAnswered, Calls
  <2> QED
    BY <2>c, <2>1, <2>2, <2>3, <2>4 DEF MjTyped
<1>3. ASSUME RemoveOngoing(1) PROVE MjTyped'
  <2>a. ses' = [ses EXCEPT ![1] = [e EXCEPT !.encoding = FALSE, !.done = "handle"]]
    BY <1>3, <1>sh, <1>ch DEF RemoveOngoing, OneSession, e
  <2>b. e' = [e EXCEPT !.encoding = FALSE, !.done = "handle"]
    BY <2>a, <1>sh DEF OneSession, e
  <2>c. e' \in Sessions
    BY <2>b, <1>q DEF Sessions, JobManagers
  <2>m. Shaped' /\ FieldsTyped'
    BY <1>3, <1>sh, <1>z, <1>t, <1>ch, <2>b DEF RemoveOngoing, Shaped, FieldsTyped
  <2>1. mj' \in JobQueues
    BY <2>m DEF Shaped, FieldsTyped, JobQueues
  <2>2. jmgr' \in JobManagers
    BY <1>3, <1>q, <1>s, <1>ch DEF RemoveOngoing, JobManagers
  <2>3. jhal' \in Clients
    BY <1>3, <1>q, <1>s, <1>ch DEF RemoveOngoing, Clients
  <2>4. called' \in [Job -> 0 .. 1] /\ gone' \subseteq Job
    BY <1>3, <1>q, <1>ch DEF RemoveOngoing
  <2> QED
    BY <2>c, <2>1, <2>2, <2>3, <2>4 DEF MjTyped
<1>4. ASSUME ReturnSession(1) PROVE MjTyped'
  <2>a. ses' = [ses EXCEPT ![1] = [e EXCEPT !.done = "buf"]]
    BY <1>4, <1>sh, <1>ch DEF ReturnSession, OneSession, e
  <2>b. e' = [e EXCEPT !.done = "buf"]
    BY <2>a, <1>sh DEF OneSession, e
  <2>c. e' \in Sessions
    BY <2>b, <1>q DEF Sessions, JobManagers
  <2>m. Shaped' /\ FieldsTyped'
    BY <1>4, <1>sh, <1>z, <1>t, <1>ch, <2>b DEF ReturnSession, Shaped, FieldsTyped
  <2>1. mj' \in JobQueues
    BY <2>m DEF Shaped, FieldsTyped, JobQueues
  <2>2. jmgr' \in JobManagers
    BY <1>4, <1>q, <1>s, <1>ch DEF ReturnSession, JobManagers
  <2>3. jhal' \in Clients
    BY <1>4, <1>q, <1>s, <1>ch DEF ReturnSession, Clients
  <2>4. called' \in [Job -> 0 .. 1] /\ gone' \subseteq Job
    BY <1>4, <1>q, <1>ch DEF ReturnSession
  <2> QED
    BY <2>c, <2>1, <2>2, <2>3, <2>4 DEF MjTyped
<1>5. ASSUME ReturnOutBuf(1) PROVE MjTyped'
  <2>y. ses[1].dst_index = 1
    BY <1>q DEF e, Sessions
  <2>a. ses' = [ses EXCEPT ![1] = [e EXCEPT !.done = "post"]]
    BY <1>5, <1>sh, <1>ch DEF ReturnOutBuf, OneSession, e
  <2>b. e' = [e EXCEPT !.done = "post"]
    BY <2>a, <1>sh DEF OneSession, e
  <2>c. e' \in Sessions
    BY <2>b, <1>q DEF Sessions, JobManagers
  <2>m. Shaped' /\ FieldsTyped'
    BY <1>5, <1>sh, <1>z, <1>t, <1>ch, <2>y, <2>b DEF ReturnOutBuf, Shaped, FieldsTyped
  <2>1. mj' \in JobQueues
    BY <2>m DEF Shaped, FieldsTyped, JobQueues
  <2>2. jmgr' \in JobManagers
    BY <1>5, <1>q, <1>s, <1>ch, <2>y DEF ReturnOutBuf, JobManagers
  <2>3. jhal' \in Clients
    BY <1>5, <1>q, <1>s, <1>ch, <2>y DEF ReturnOutBuf, Clients
  <2>4. called' \in [Job -> 0 .. 1] /\ gone' \subseteq Job
    BY <1>5, <1>q, <1>ch, <2>y DEF ReturnOutBuf
  <2> QED
    BY <2>c, <2>1, <2>2, <2>3, <2>4 DEF MjTyped
<1>6. ASSUME WakeJobMgr(1), e.by = "mgr" PROVE MjTyped'
  <2>a. ses' = [ses EXCEPT ![1] = [e EXCEPT !.done = "no", !.lock = FALSE]]
    BY <1>6, <1>sh, <1>ch DEF WakeJobMgr, JobDoneReturns, OneSession, e
  <2>b. e' = [e EXCEPT !.done = "no", !.lock = FALSE]
    BY <2>a, <1>sh DEF OneSession, e
  <2>c. e' \in Sessions
    BY <2>b, <1>q DEF Sessions, JobManagers
  <2>m. Shaped' /\ FieldsTyped'
    BY <1>6, <1>sh, <1>z, <1>t, <1>ch, <2>b DEF WakeJobMgr, JobDoneReturns, Shaped, FieldsTyped
  <2>1. mj' \in JobQueues
    BY <2>m DEF Shaped, FieldsTyped, JobQueues
  <2>2. jmgr' \in JobManagers
    BY <1>6, <1>q, <1>s, <1>ch DEF WakeJobMgr, JobDoneReturns, JobManagers
  <2>3. jhal' \in Clients
    BY <1>6, <1>q, <1>s, <1>ch DEF WakeJobMgr, JobDoneReturns, Clients
  <2>4. called' \in [Job -> 0 .. 1] /\ gone' \subseteq Job
    BY <1>6, <1>q, <1>ch DEF WakeJobMgr, JobDoneReturns
  <2> QED
    BY <2>c, <2>1, <2>2, <2>3, <2>4 DEF MjTyped
<1>7. ASSUME WakeJobMgr(1), e.by # "mgr" PROVE MjTyped'
  <2>a. ses' = [ses EXCEPT ![1] = [e EXCEPT !.done = "no", !.lock = FALSE]]
    BY <1>7, <1>sh, <1>ch DEF WakeJobMgr, JobDoneReturns, OneSession, e
  <2>b. e' = [e EXCEPT !.done = "no", !.lock = FALSE]
    BY <2>a, <1>sh DEF OneSession, e
  <2>c. e' \in Sessions
    BY <2>b, <1>q DEF Sessions, JobManagers
  <2>m. Shaped' /\ FieldsTyped'
    BY <1>7, <1>sh, <1>z, <1>t, <1>ch, <2>b DEF WakeJobMgr, JobDoneReturns, Shaped, FieldsTyped
  <2>1. mj' \in JobQueues
    BY <2>m DEF Shaped, FieldsTyped, JobQueues
  <2>2. jmgr' \in JobManagers
    BY <1>7, <1>q, <1>s, <1>ch DEF WakeJobMgr, JobDoneReturns, JobManagers
  <2>3. jhal' \in Clients
    BY <1>7, <1>q, <1>s, <1>ch DEF WakeJobMgr, JobDoneReturns, Clients
  <2>4. called' \in [Job -> 0 .. 1] /\ gone' \subseteq Job
    BY <1>7, <1>q, <1>ch DEF WakeJobMgr, JobDoneReturns
  <2> QED
    BY <2>c, <2>1, <2>2, <2>3, <2>4 DEF MjTyped
<1> QED
  BY <1>ch, <1>1, <1>2, <1>3, <1>4, <1>5, <1>6, <1>7 DEF OmxThread, FillBufferDone, ErrorEvent, JobDone, Unheld, e

-----------------------------------------------------------------------------
\* At first there are no jobs.
LEMMA InitJobs == ~Burst /\ MjInit => MjTyped /\ JobsInv
<1> SUFFICES ASSUME ~Burst, MjInit PROVE MjTyped /\ JobsInv
  OBVIOUS
<1> USE DEF MjInit, Chain, NewSession
<1>1. ses = [s \in {1} |-> NewSession] /\ e = NewSession
  BY DEF e
<1>2. <<>> \in Seq(Job) /\ <<>> \in Seq({1}) /\ 0 \in 0 .. MaxSessions
  BY MmJpegAssumption
<1>3. MjTyped
  BY <1>1, <1>2 DEF MjTyped, JobQueues, JobManagers, Sessions, Clients
<1>4. Listed(<<>>) = {} /\ Once(<<>>)
  BY DEF Listed, Once
<1>5. JobsInv
  BY <1>1, <1>4 DEF JobsInv, JobsNow, JobsAs, AnswerToCome
<1> QED
  BY <1>3, <1>5

\* The late error of a job that has been done with is no answer.
LEMMA LateJobs ==
  ASSUME ~Burst, MjInv, MjTyped, JobsInv, LateError(1), ~astray'
  PROVE  MjTyped' /\ JobsInv' /\ Silent
<1>1. /\ UNCHANGED <<mj, jmgr, jhal, called, gone>>
      /\ e.omx = "input" /\ e' = [e EXCEPT !.omx = "idle"]
  BY LateKeeps
<1>2. e \in Sessions
  BY DEF MjTyped
<1>3. e'.omx = "idle" /\ e'.done = e.done /\ e'.jobId = e.jobId /\ e' \in Sessions
  BY <1>1, <1>2 DEF Sessions
<1>4. MjTyped'
  BY <1>1, <1>3 DEF MjTyped
<1>5. JobsInv'
  BY <1>1, <1>3 DEF JobsInv, JobsNow, JobsAs, AnswerToCome
<1> QED
  BY <1>1, <1>4, <1>5 DEF Silent

\* The jobs stay where they can be, and who is gone is not answered.
LEMMA NextJobs == ~Burst /\ MjInv /\ MjTyped /\ JobsInv /\ ~astray' /\ [MjNext]_mjVars => MjTyped' /\ JobsInv' /\ Silent
<1> SUFFICES ASSUME ~Burst, MjInv, MjTyped, JobsInv, ~astray', [MjNext]_mjVars PROVE MjTyped' /\ JobsInv' /\ Silent
  OBVIOUS
<1>1. CASE MjNext
  <2>1. ~SpuriousWakeup
    BY DEF SpuriousWakeup
  <2>2. ASSUME NEW s \in Chain, LateError(s) PROVE MjTyped' /\ JobsInv' /\ Silent
    <3>1. s = 1
      BY DEF Chain
    <3> QED
      BY <2>2, <3>1, LateJobs
  <2>3. CASE Client
    BY <2>3, ClientJobs, ClientTyped
  <2>4. CASE JobMgr
    BY <2>4, JobMgrJobs, JobMgrTyped
  <2>5. CASE OmxThread
    BY <2>5, OmxJobs, OmxTyped
  <2>6. CASE CreateSession \/ StopJpeg \/ \E j \in Job : StartJob(j) \/ TakeJpegEvt(j)
    BY <2>6, CallsJobs, CallsTyped
  <2> QED
    BY <1>1, <2>1, <2>2, <2>3, <2>4, <2>5, <2>6 DEF MjNext
<1>2. CASE UNCHANGED mjVars
  BY <1>2 DEF mjVars, MjTyped, JobsInv, JobsNow, Silent, e
<1> QED
  BY <1>1, <1>2

MjAll == MjInv /\ MjTyped /\ JobsInv
UntilAstray == astray \in BOOLEAN /\ (astray \/ MjAll)

\* The invariant of the jobs.
LEMMA JobsInvariant == ~Burst => (MjSpec => []UntilAstray)
<1> SUFFICES ASSUME ~Burst PROVE MjSpec => []UntilAstray
  OBVIOUS
<1>1. MjInit => UntilAstray
  BY InitMjInv, InitJobs DEF MjAll, UntilAstray, MjInit
<1>2. UntilAstray /\ [MjNext]_mjVars => UntilAstray'
  BY NextMjInv, NextJobs, AstrayStays DEF MjAll, UntilAstray
<1> QED
  BY <1>1, <1>2, PTL DEF MjSpec

\* The queues, the session and the calls have their types, and no job is
\* answered twice, by its failure and by the component, until an abort's wait
\* ends without an answer or the error of a failing job comes late.
THEOREM JpegTyped == ~Burst => (MjSpec => [](astray \/ MjTypeOK))
<1> SUFFICES ASSUME ~Burst PROVE MjSpec => [](astray \/ MjTypeOK)
  OBVIOUS
<1>1. MjAll /\ astray \in BOOLEAN => MjTypeOK
  <2> SUFFICES ASSUME MjInv, MjTyped, astray \in BOOLEAN PROVE MjTypeOK
    BY DEF MjAll
  <2>1. Chain = {1} /\ OutBuf = {1} /\ ses = [s \in {1} |-> e]
    BY DEF Chain, OutBuf, MjInv, OneSession
  <2>2. ses \in [{1} -> Sessions]
    BY <2>1 DEF MjTyped
  <2>3. called \in [Job -> 0 .. 1] /\ called \in [Job -> Nat]
    BY DEF MjTyped
  <2> QED
    BY <2>1, <2>2, <2>3 DEF MjTyped, MjTypeOK, JobQueues, JobManagers, Sessions, Clients
<1>2. UntilAstray => astray \/ MjTypeOK
  BY <1>1 DEF UntilAstray
<1> QED
  BY <1>2, JobsInvariant, PTL

\* Once the abort of a job has returned, its callback is not called any more:
\* not by the component, not by an error, not by an encode that fails, as long
\* as the waits of aborts end with an answer and no error comes late.
THEOREM AbortedStaysSilent == ~Burst => (MjSpec => SilentAfterAbort)
<1> SUFFICES ASSUME ~Burst PROVE MjSpec => SilentAfterAbort
  OBVIOUS
<1>1. UntilAstray /\ [MjNext]_mjVars => [~astray' => Silent]_mjVars
  BY NextJobs, AstrayStays DEF MjAll, UntilAstray
<1> QED
  BY <1>1, JobsInvariant, PTL DEF MjSpec, SilentAfterAbort, Silent

-----------------------------------------------------------------------------

\* Where a buffer is, as numbers: with a holder, on its way back from one, in
\* the queue of the callback thread, in its hand; and how far the poll thread
\* is with it.
Has(h, b) == Bit(b \in held[h])
Returned(h, b) == Bit(<<h, b>> \in held["return"])
InApp(b) == Count(app.queue, {b})
AtApp(b) == Bit(app.buf = b)
AtPoll(b) == IF poll.buf = b THEN poll.pc ELSE "poll"
Coming(at) == Bit(at \in {"link", "app"})
IsQueued(b) == Bit(b \in ms.queued)
Refused(b) == Bit(b \in ms.failed)

\* A buffer with its count, whether the kernel has or has refused it, where
\* the poll thread is with it, the shares of bundle, linked channel and user,
\* those of them being returned, and those of the callback thread.
OwnedAs(rc, kernel, refused, at, hb, hl, hu, rb, rl, ru, q, a) ==
    /\ rc = hb + hl + hu + rb + rl + ru + q + a + Coming(at)
    /\ hb + rb <= 1 /\ hl + rl <= 1 /\ hu + ru <= 1
    /\ Coming(at) + q + a <= 1
    /\ Coming(at) + q = 1 => hu + ru = 0
    /\ at = "link" => hl + rl = 0
    /\ kernel = 1 \/ at = "mark" => rc = 0
    /\ kernel = 1 => at \notin {"mark", "link", "app"}
    /\ kernel = 1 \/ refused = 1 \/ rc > 0 \/ at = "mark"

Owned(b) ==
    OwnedAs(ms.buf_refcnt[b], IsQueued(b), Refused(b), AtPoll(b),
            Has("bundle", b), Has("linked", b), Has("user", b),
            Returned("bundle", b), Returned("linked", b), Returned("user", b),
            InApp(b), AtApp(b))

\* From the registration to the stop the counts are kept.
Counted == ms.on \/ (ctl.pc = "idle" /\ ms.state = "REG")
OwnedInv ==
    Counted => /\ \A b \in Buf : Owned(b)
               /\ ms.queued_buffer_count = Cardinality(ms.queued)
               /\ ctl.pc = "idle" => (ms.entry <=> ms.queued_buffer_count # 0)

\* What the control thread's place says of the others.
CtlInv ==
    /\ ms.on <=> ms.state = "ACTIVE" /\ ctl.pc \in {"idle", "off"}
    /\ ctl.pc = "off" => ms.state = "ACTIVE"
    /\ ctl.pc = "unstart" => ms.state = "REG"
    /\ ctl.pc = "join" => ms.state \in {"REG", "ACTIVE"}
    /\ ctl.pc = "unwind" => ms.state \in {"REG", "BUFFED"}
    /\ app.active <=> ctl.pc \in {"unstart", "off", "join"} \/ ms.state = "ACTIVE"
    /\ ~app.active => app.queue = <<>> /\ app.buf = NoBuf
    /\ poll.buf # NoBuf <=> poll.pc \in {"mark", "link", "app"}
    /\ ctl.pc \in {"idle", "unstart"} /\ ms.state # "ACTIVE" => poll.buf = NoBuf

\* What is polled follows poll_entries once the pipe has been read.
Rebuilds(pipe) == \E i \in DOMAIN pipe : pipe[i] # "COMMIT"
FdsInv == poll.fds # ms.entry => Rebuilds(poll.pipe)

MsTyped ==
    MsTypeOK /\ held \in [Holder \cup {"return"} -> (SUBSET Buf) \cup SUBSET (Holder \X Buf)]

MsInv == MsTyped /\ CtlInv /\ FdsInv /\ OwnedInv


Polls == [pc : {"poll", "data", "mark", "link", "app"}, buf : Buf \cup {NoBuf},
          pipe : Seq(Pipe), fds : BOOLEAN]
Apps == [active : BOOLEAN, queue : Seq(Buf), buf : Buf \cup {NoBuf}]
Ctls == [pc : {"idle", "unstart", "off", "join", "unwind"}, signalled : BOOLEAN]
Helds == [Holder \cup {"return"} -> (SUBSET Buf) \cup SUBSET (Holder \X Buf)]

-----------------------------------------------------------------------------
(* The sets that are counted.                                               *)

\* Of three things a set has as many as are in it.
LEMMA OfThree ==
  ASSUME NEW x, NEW y, NEW z, x # y, y # z, x # z, NEW S \in SUBSET {x, y, z}
  PROVE  Cardinality(S) = Bit(x \in S) + Bit(y \in S) + Bit(z \in S)
<1> DEFINE T == S \ {x}
           U == T \ {y}
           V == U \ {z}
<1>1. IsFiniteSet({x, y, z})
  <2>1. IsFiniteSet({x} \cup {y})
    BY FS_Singleton, FS_AddElement
  <2>2. IsFiniteSet(({x} \cup {y}) \cup {z})
    BY <2>1, FS_AddElement
  <2>3. {x, y, z} = ({x} \cup {y}) \cup {z}
    OBVIOUS
  <2> QED
    BY <2>2, <2>3
<1>2. IsFiniteSet(S)
  BY <1>1, FS_Subset
<1>3. IsFiniteSet(T) /\ Cardinality(T) = IF x \in S THEN Cardinality(S) - 1 ELSE Cardinality(S)
  BY <1>2, FS_RemoveElement
<1>4. IsFiniteSet(U) /\ Cardinality(U) = IF y \in T THEN Cardinality(T) - 1 ELSE Cardinality(T)
  BY <1>3, FS_RemoveElement
<1>5. Cardinality(V) = IF z \in U THEN Cardinality(U) - 1 ELSE Cardinality(U)
  BY <1>4, FS_RemoveElement
<1>6. V = {} /\ (y \in T <=> y \in S) /\ (z \in U <=> z \in S)
  OBVIOUS
<1>7. Cardinality(V) = 0
  BY <1>6, FS_EmptySet
<1>8. Cardinality(S) \in Nat /\ Cardinality(T) \in Nat /\ Cardinality(U) \in Nat
  BY <1>2, <1>3, <1>4, FS_CardinalityType
<1> HIDE DEF T, U, V
<1> QED
  BY <1>3, <1>4, <1>5, <1>6, <1>7, <1>8 DEF Bit

\* Who has b, or is about to return it, one by one.
LEMMA UsersOneByOne ==
  ASSUME MsTyped, NEW b \in Buf
  PROVE  /\ Users(b) = Has("bundle", b) + Has("linked", b) + Has("user", b)
                       + Returned("bundle", b) + Returned("linked", b) + Returned("user", b)
                       + InApp(b) + AtApp(b)
         /\ Users(b) \in Nat
<1> DEFINE H == {h \in Holder : b \in held[h]}
           R == {r \in held["return"] : r[2] = b}
<1>1. Cardinality(H) = Has("bundle", b) + Has("linked", b) + Has("user", b)
  <2>1. H \in SUBSET {"bundle", "linked", "user"}
    BY DEF Holder
  <2>2. /\ "bundle" \in H <=> b \in held["bundle"]
        /\ "linked" \in H <=> b \in held["linked"]
        /\ "user" \in H <=> b \in held["user"]
    BY DEF Holder
  <2>3. Cardinality(H) = Bit("bundle" \in H) + Bit("linked" \in H) + Bit("user" \in H)
    <3> HIDE DEF H
    <3>1. "bundle" # "linked" /\ "linked" # "user" /\ "bundle" # "user"
      OBVIOUS
    <3>2. ASSUME NEW x, NEW y, NEW z, x # y, y # z, x # z, H \in SUBSET {x, y, z}
          PROVE  Cardinality(H) = Bit(x \in H) + Bit(y \in H) + Bit(z \in H)
      BY <3>2, OfThree
    <3> QED
      BY <2>1, <3>1, <3>2
  <2> HIDE DEF H
  <2> QED
    BY <2>2, <2>3 DEF Has
<1>2. Cardinality(R) = Returned("bundle", b) + Returned("linked", b) + Returned("user", b)
  <2>1. R \in SUBSET {<<"bundle", b>>, <<"linked", b>>, <<"user", b>>}
    <3>1. \A r \in Holder \X Buf : r[2] = b => r \in {<<"bundle", b>>, <<"linked", b>>, <<"user", b>>}
      BY DEF Holder
    <3> QED
      BY <3>1 DEF MsTyped, MsTypeOK
  <2>2. \A h \in Holder : <<h, b>> \in R <=> <<h, b>> \in held["return"]
    OBVIOUS
  <2>3. Cardinality(R) = Bit(<<"bundle", b>> \in R) + Bit(<<"linked", b>> \in R)
                         + Bit(<<"user", b>> \in R)
    <3> HIDE DEF R
    <3>1. /\ <<"bundle", b>> # <<"linked", b>>
          /\ <<"linked", b>> # <<"user", b>>
          /\ <<"bundle", b>> # <<"user", b>>
      OBVIOUS
    <3>2. ASSUME NEW x, NEW y, NEW z, x # y, y # z, x # z, R \in SUBSET {x, y, z}
          PROVE  Cardinality(R) = Bit(x \in R) + Bit(y \in R) + Bit(z \in R)
      BY <3>2, OfThree
    <3> QED
      BY <2>1, <3>1, <3>2
  <2>4. /\ <<"bundle", b>> \in R <=> <<"bundle", b>> \in held["return"]
        /\ <<"linked", b>> \in R <=> <<"linked", b>> \in held["return"]
        /\ <<"user", b>> \in R <=> <<"user", b>> \in held["return"]
    BY <2>2 DEF Holder
  <2> HIDE DEF R
  <2> QED
    BY <2>3, <2>4 DEF Returned
<1>3. {i \in DOMAIN app.queue : app.queue[i] = b} = At(app.queue, {b})
  BY DEF At
<1>4. Cardinality(At(app.queue, {b})) \in Nat
  BY CountType DEF MsTyped, MsTypeOK, Count
<1> HIDE DEF H, R
<1>5. Users(b) = Cardinality(H) + Cardinality(R) + InApp(b) + AtApp(b)
  BY <1>3 DEF Users, H, R, InApp, AtApp, Count
<1>6. /\ Has("bundle", b) \in Nat /\ Has("linked", b) \in Nat /\ Has("user", b) \in Nat
      /\ Returned("bundle", b) \in Nat /\ Returned("linked", b) \in Nat /\ Returned("user", b) \in Nat
      /\ InApp(b) \in Nat /\ AtApp(b) \in Nat
  BY <1>4 DEF Has, Returned, InApp, AtApp, Count, Bit
<1> QED
  BY <1>1, <1>2, <1>5, <1>6

\* The numbers that say where a buffer is.
LEMMA PlacesOfBuf ==
  ASSUME MsTyped, NEW b \in Buf
  PROVE  /\ Has("bundle", b) \in {0, 1} /\ Has("linked", b) \in {0, 1} /\ Has("user", b) \in {0, 1}
         /\ Returned("bundle", b) \in {0, 1} /\ Returned("linked", b) \in {0, 1}
         /\ Returned("user", b) \in {0, 1}
         /\ InApp(b) \in Nat /\ AtApp(b) \in {0, 1}
         /\ IsQueued(b) \in {0, 1} /\ Refused(b) \in {0, 1} /\ ms.buf_refcnt[b] \in Nat
<1>1. InApp(b) \in Nat
  BY CountType DEF MsTyped, MsTypeOK, InApp
<1> QED
  BY <1>1 DEF Has, Returned, AtApp, IsQueued, Refused, Bit, MsTyped, MsTypeOK, Stream

-----------------------------------------------------------------------------
(* mm_stream_buf_done and the entries.                                      *)

\* Being done with b lowers its count; the last one gives b to the kernel or
\* has it refused.  The stream is in the entries afterwards if it has buffers
\* queued, when it was so before.
LEMMA DoneIs ==
  ASSUME NEW s \in Stream, NEW b \in Buf, NEW t \in BufDone(s, b)
  PROVE  /\ t \in Stream /\ t.state = s.state /\ t.on = s.on
         /\ \A c \in Buf : c # b => /\ t.buf_refcnt[c] = s.buf_refcnt[c]
                                    /\ c \in t.queued <=> c \in s.queued
                                    /\ c \in t.failed <=> c \in s.failed
         /\ s.buf_refcnt[b] > 0 => /\ t.buf_refcnt[b] = s.buf_refcnt[b] - 1
                                   /\ b \in t.queued \/ b \in t.failed \/ t.buf_refcnt[b] > 0
                                   /\ b \in t.queued => b \in s.queued \/ t.buf_refcnt[b] = 0
         /\ IsFiniteSet(s.queued) /\ s.queued_buffer_count = Cardinality(s.queued)
            /\ (b \in s.queued => s.buf_refcnt[b] = 0)
               => t.queued_buffer_count = Cardinality(t.queued)
         /\ (s.entry <=> s.queued_buffer_count # 0) => (t.entry <=> t.queued_buffer_count # 0)
<1> DEFINE rc == s.buf_refcnt[b]
<1>0. /\ s.buf_refcnt \in [Buf -> Nat] /\ s.in_kernel \in [Buf -> BOOLEAN] /\ s.queued \in SUBSET Buf
      /\ s.failed \in SUBSET Buf /\ s.queued_buffer_count \in Nat /\ s.entry \in BOOLEAN
      /\ s.state \in StreamState /\ s.on \in BOOLEAN /\ s.previewSkipCnt \in Nat
      /\ rc \in Nat
  BY DEF Stream
<1>1. CASE rc = 0
  <2>1. t = s
    BY <1>1 DEF BufDone, BufDoneOk
  <2> QED
    BY <1>1, <2>1
<1>2. CASE rc > 1
  <2>1. t = [s EXCEPT !.buf_refcnt[b] = rc - 1]
    BY <1>0, <1>2 DEF BufDone, BufDoneOk
  <2>2. /\ t = [s EXCEPT !.buf_refcnt = t.buf_refcnt]
        /\ t.buf_refcnt = [s.buf_refcnt EXCEPT ![b] = rc - 1]
    BY <2>1 DEF Stream
  <2>3. rc - 1 \in Nat /\ rc - 1 > 0
    BY <1>0, <1>2
  <2>4. t.buf_refcnt \in [Buf -> Nat] /\ t.buf_refcnt[b] = rc - 1
    BY <1>0, <2>2, <2>3
  <2>5. \A c \in Buf : c # b => t.buf_refcnt[c] = s.buf_refcnt[c]
    BY <1>0, <2>2
  <2>6. /\ t.state = s.state /\ t.on = s.on /\ t.queued = s.queued /\ t.failed = s.failed
        /\ t.queued_buffer_count = s.queued_buffer_count /\ t.entry = s.entry
    BY <2>2 DEF Stream
  <2>7. t \in Stream
    BY <2>2, <2>4 DEF Stream
  <2> QED
    BY <1>2, <2>3, <2>4, <2>5, <2>6, <2>7
<1>3. CASE rc = 1 /\ t = BufDoneOk(s, b)
  <2>1. t = [Qbuf(s, b) EXCEPT !.buf_refcnt[b] = 0, !.in_kernel[b] = TRUE]
    BY <1>3 DEF BufDoneOk
  <2>2. Qbuf(s, b) = [s EXCEPT !.queued = s.queued \cup {b},
                         !.queued_buffer_count = s.queued_buffer_count + 1,
                         !.entry = s.entry \/ s.queued_buffer_count = 0]
    BY DEF Qbuf
  <2>3. /\ t.buf_refcnt = [s.buf_refcnt EXCEPT ![b] = 0]
        /\ t.queued = s.queued \cup {b} /\ t.failed = s.failed
        /\ t.queued_buffer_count = s.queued_buffer_count + 1
        /\ t.entry = (s.entry \/ s.queued_buffer_count = 0)
        /\ t.state = s.state /\ t.on = s.on
    BY <2>1, <2>2 DEF Stream
  <2>4. t \in Stream
    <3>1. t = [s EXCEPT !.queued = s.queued \cup {b},
                  !.queued_buffer_count = s.queued_buffer_count + 1,
                  !.entry = s.entry \/ s.queued_buffer_count = 0,
                  !.buf_refcnt = [s.buf_refcnt EXCEPT ![b] = 0],
                  !.in_kernel = [s.in_kernel EXCEPT ![b] = TRUE]]
      BY <2>1, <2>2 DEF Stream
    <3>2. s.queued_buffer_count + 1 \in Nat
      BY <1>0
    <3>3. /\ s.queued \cup {b} \in SUBSET Buf /\ [s.buf_refcnt EXCEPT ![b] = 0] \in [Buf -> Nat]
          /\ [s.in_kernel EXCEPT ![b] = TRUE] \in [Buf -> BOOLEAN]
          /\ (s.entry \/ s.queued_buffer_count = 0) \in BOOLEAN
      BY <1>0
    <3> QED
      BY <3>1, <3>2, <3>3 DEF Stream
  <2>5. \A c \in Buf : /\ c # b => t.buf_refcnt[c] = s.buf_refcnt[c]
                       /\ c # b => (c \in t.queued <=> c \in s.queued)
    BY <1>0, <2>3
  <2>6. t.buf_refcnt[b] = 0 /\ b \in t.queued
    BY <1>0, <2>3
  <2>7. IsFiniteSet(s.queued) /\ b \notin s.queued => Cardinality(t.queued) = Cardinality(s.queued) + 1
    BY <2>3, FS_AddElement
  <2>8. t.queued_buffer_count # 0
    BY <1>0, <2>3
  <2>9. (b \in s.queued => rc = 0) => b \notin s.queued
    BY <1>3
  <2>10. IsFiniteSet(s.queued) /\ s.queued_buffer_count = Cardinality(s.queued)
         /\ (b \in s.queued => rc = 0) => t.queued_buffer_count = Cardinality(t.queued)
    BY <2>3, <2>7, <2>9
  <2>11. s.buf_refcnt[b] > 0 =>
             /\ t.buf_refcnt[b] = s.buf_refcnt[b] - 1
             /\ b \in t.queued \/ b \in t.failed \/ t.buf_refcnt[b] > 0
             /\ b \in t.queued => b \in s.queued \/ t.buf_refcnt[b] = 0
    BY <1>3, <2>6
  <2> QED
    BY <1>0, <2>3, <2>4, <2>5, <2>8, <2>10, <2>11
<1>4. CASE rc = 1 /\ t = [QbufFails(s, b) EXCEPT !.buf_refcnt[b] = 0]
  <2>1. QbufFails(s, b) = [s EXCEPT !.failed = s.failed \cup {b},
                              !.entry = s.entry /\ s.queued_buffer_count # 0]
    BY DEF QbufFails
  <2>2. /\ t.buf_refcnt = [s.buf_refcnt EXCEPT ![b] = 0]
        /\ t.queued = s.queued /\ t.failed = s.failed \cup {b}
        /\ t.queued_buffer_count = s.queued_buffer_count
        /\ t.entry = (s.entry /\ s.queued_buffer_count # 0)
        /\ t.state = s.state /\ t.on = s.on
    BY <1>4, <2>1 DEF Stream
  <2>3. t \in Stream
    <3>1. t = [s EXCEPT !.failed = s.failed \cup {b},
                  !.entry = s.entry /\ s.queued_buffer_count # 0,
                  !.buf_refcnt = [s.buf_refcnt EXCEPT ![b] = 0]]
      BY <1>4, <2>1 DEF Stream
    <3>2. /\ s.failed \cup {b} \in SUBSET Buf /\ [s.buf_refcnt EXCEPT ![b] = 0] \in [Buf -> Nat]
          /\ (s.entry /\ s.queued_buffer_count # 0) \in BOOLEAN
      BY <1>0
    <3> QED
      BY <3>1, <3>2 DEF Stream
  <2>4. \A c \in Buf : /\ c # b => t.buf_refcnt[c] = s.buf_refcnt[c]
                       /\ c # b => (c \in t.failed <=> c \in s.failed)
    BY <1>0, <2>2
  <2>5. t.buf_refcnt[b] = 0 /\ b \in t.failed
    BY <1>0, <2>2
  <2> QED
    BY <1>0, <1>4, <2>2, <2>3, <2>4, <2>5
<1> QED
  BY <1>0, <1>1, <1>2, <1>3, <1>4 DEF BufDone, BufDoneOk

\* A command is sent whenever the stream enters or leaves the entries.
LEMMA AsyncIs ==
  ASSUME NEW p, p.pipe \in Seq(Pipe), p = [pc |-> p.pc, buf |-> p.buf, pipe |-> p.pipe, fds |-> p.fds],
         NEW old, NEW new
  PROVE  /\ Async(p, old, new) = [p EXCEPT !.pipe = Async(p, old, new).pipe]
         /\ Async(p, old, new).pipe \in Seq(Pipe)
         /\ \/ Async(p, old, new).pipe = p.pipe /\ old.entry = new.entry
            \/ Async(p, old, new).pipe = Append(p.pipe, "UPDATED_ASYNC")
<1>1. /\ p = [p EXCEPT !.pipe = p.pipe]
      /\ [p EXCEPT !.pipe = Append(@, "UPDATED_ASYNC")].pipe = Append(p.pipe, "UPDATED_ASYNC")
      /\ "UPDATED_ASYNC" \in Pipe
  BY DEF Pipe
<1> QED
  BY <1>1, SMTT(30) DEF Async

\* What is sent or read from the pipe, and whether poll_fds is built again.
LEMMA SentRebuilds ==
  ASSUME NEW q \in Seq(Pipe), NEW cmd \in Pipe
  PROVE  /\ Rebuilds(q) => Rebuilds(Append(q, cmd))
         /\ cmd # "COMMIT" => Rebuilds(Append(q, cmd))
<1>1. /\ DOMAIN Append(q, cmd) = 1 .. Len(q) + 1 /\ DOMAIN q = 1 .. Len(q)
      /\ \A i \in 1 .. Len(q) : Append(q, cmd)[i] = q[i]
      /\ Append(q, cmd)[Len(q) + 1] = cmd
      /\ Len(q) \in Nat
  OBVIOUS
<1>2. Len(q) + 1 \in 1 .. Len(q) + 1 /\ \A i \in 1 .. Len(q) : i \in 1 .. Len(q) + 1
  BY <1>1
<1> QED
  BY <1>1, <1>2 DEF Rebuilds

LEMMA ReadRebuilds ==
  ASSUME NEW q \in Seq(Pipe), q # <<>>, Head(q) = "COMMIT", Rebuilds(q)
  PROVE  Rebuilds(Tail(q))
<1>1. PICK i \in DOMAIN q : q[i] # "COMMIT"
  BY DEF Rebuilds
<1>2. i \in 1 .. Len(q) /\ i # 1 /\ Len(q) \in Nat
  BY <1>1
<1>3. DOMAIN Tail(q) = 1 .. Len(q) - 1 /\ Tail(q)[i - 1] = q[i] /\ i - 1 \in 1 .. Len(q) - 1
  BY <1>2
<1> QED
  BY <1>1, <1>3 DEF Rebuilds

-----------------------------------------------------------------------------
(* Types.                                                                   *)

\* The fields of the stream and of the threads.
LEMMA MsFields ==
  ASSUME MsTyped
  PROVE  /\ ms.state \in StreamState /\ ms.on \in BOOLEAN /\ ms.queued \in SUBSET Buf
         /\ ms.queued_buffer_count \in Nat /\ ms.buf_refcnt \in [Buf -> Nat]
         /\ ms.in_kernel \in [Buf -> BOOLEAN] /\ ms.previewSkipCnt \in Nat
         /\ ms.failed \in SUBSET Buf /\ ms.entry \in BOOLEAN
         /\ ms = [state |-> ms.state, on |-> ms.on, queued |-> ms.queued,
                  queued_buffer_count |-> ms.queued_buffer_count, buf_refcnt |-> ms.buf_refcnt,
                  in_kernel |-> ms.in_kernel, previewSkipCnt |-> ms.previewSkipCnt,
                  failed |-> ms.failed, entry |-> ms.entry]
         /\ poll.pc \in {"poll", "data", "mark", "link", "app"} /\ poll.buf \in Buf \cup {NoBuf}
         /\ poll.pipe \in Seq(Pipe) /\ poll.fds \in BOOLEAN
         /\ poll = [pc |-> poll.pc, buf |-> poll.buf, pipe |-> poll.pipe, fds |-> poll.fds]
         /\ app.active \in BOOLEAN /\ app.queue \in Seq(Buf) /\ app.buf \in Buf \cup {NoBuf}
         /\ app = [active |-> app.active, queue |-> app.queue, buf |-> app.buf]
         /\ ctl.pc \in {"idle", "unstart", "off", "join", "unwind"} /\ ctl.signalled \in BOOLEAN
         /\ ctl = [pc |-> ctl.pc, signalled |-> ctl.signalled]
         /\ held \in Helds /\ held["return"] \in SUBSET (Holder \X Buf)
         /\ \A h \in Holder : held[h] \in SUBSET Buf
BY DEF MsTyped, MsTypeOK, Stream, Helds

\* What a step leaves typed.
LEMMA TypedFrom ==
  ASSUME ms' \in Stream, poll' \in Polls, app' \in Apps, ctl' \in Ctls, held' \in Helds,
         held'["return"] \in SUBSET (Holder \X Buf), \A h \in Holder : held'[h] \in SUBSET Buf
  PROVE  MsTyped'
BY DEF MsTyped, MsTypeOK, Polls, Apps, Ctls, Helds

LEMMA TypedNow ==
  ASSUME MsTyped
  PROVE  /\ ms \in Stream /\ poll \in Polls /\ app \in Apps /\ ctl \in Ctls /\ held \in Helds
         /\ held["return"] \in SUBSET (Holder \X Buf) /\ \A h \in Holder : held[h] \in SUBSET Buf
BY DEF MsTyped, MsTypeOK, Polls, Apps, Ctls, Helds

\* What the kernel has of a stream that is counted.
LEMMA QueuedNow ==
  ASSUME MsTyped, OwnedInv, Counted
  PROVE  /\ IsFiniteSet(ms.queued) /\ ms.queued_buffer_count = Cardinality(ms.queued)
         /\ ms.queued # {} <=> ms.queued_buffer_count # 0
<1>1. IsFiniteSet(Buf)
  BY MmStreamAssumption
<1>2. IsFiniteSet(ms.queued)
  BY <1>1, MsFields, FS_Subset
<1> QED
  BY <1>2, FS_EmptySet DEF OwnedInv

\* Sending a command.
LEMMA AsyncTyped ==
  ASSUME NEW p \in Polls, NEW old, NEW new, NEW a, a = Async(p, old, new)
  PROVE  /\ a.pipe \in Seq(Pipe) /\ a.pc = p.pc /\ a.buf = p.buf /\ a.fds = p.fds
         /\ a = [pc |-> a.pc, buf |-> a.buf, pipe |-> a.pipe, fds |-> a.fds]
         /\ a \in Polls
         /\ old.entry # new.entry => Rebuilds(a.pipe)
         /\ Rebuilds(p.pipe) => Rebuilds(a.pipe)
<1>1. p.pipe \in Seq(Pipe) /\ p = [pc |-> p.pc, buf |-> p.buf, pipe |-> p.pipe, fds |-> p.fds]
  BY DEF Polls
<1>2. a = [p EXCEPT !.pipe = a.pipe] /\ a.pipe \in Seq(Pipe)
  BY <1>1, AsyncIs
<1>3. \/ a.pipe = p.pipe /\ old.entry = new.entry
      \/ a.pipe = Append(p.pipe, "UPDATED_ASYNC")
  BY <1>1, AsyncIs
<1>4. old.entry # new.entry => Rebuilds(a.pipe)
  BY <1>1, <1>3, SentRebuilds DEF Pipe
<1>5. Rebuilds(p.pipe) => Rebuilds(a.pipe)
  BY <1>1, <1>3, SentRebuilds DEF Pipe
<1>6. /\ a.pc = p.pc /\ a.buf = p.buf /\ a.fds = p.fds
      /\ a = [pc |-> a.pc, buf |-> a.buf, pipe |-> a.pipe, fds |-> a.fds]
  BY <1>1, <1>2
<1>7. a \in Polls
  BY <1>1, <1>2, <1>6 DEF Polls
<1> QED
  BY <1>2, <1>4, <1>5, <1>6, <1>7

\* The poll thread.
LEMMA PollTyped ==
  ASSUME MsTyped, CtlInv, OwnedInv, PollThread
  PROVE  MsTyped'
<1> USE MsFields, TypedNow
<1>1. CASE ProcPipe
  <2>1. Tail(poll.pipe) \in Seq(Pipe)
    BY <1>1 DEF ProcPipe
  <2>2. poll' \in Polls
    BY <1>1, <2>1 DEF ProcPipe, Polls
  <2>3. ctl' \in Ctls
    BY <1>1 DEF ProcPipe, Ctls
  <2> QED
    BY <1>1, <2>2, <2>3, TypedFrom DEF ProcPipe
<1>2. CASE PollReturns
  <2>1. poll' \in Polls
    BY <1>2 DEF PollReturns, Polls
  <2> QED
    BY <1>2, <2>1, TypedFrom DEF PollReturns
<1>3. CASE DataNotify
  <2>1. ASSUME NEW b \in ms.queued, Dequeue(b), ms.on
        PROVE  ms' \in Stream /\ poll' \in Polls
    <3>1. ms.queued_buffer_count # 0
      BY <2>1, QueuedNow DEF Counted
    <3>2. ms.queued_buffer_count - 1 \in Nat
      BY <3>1
    <3>3. ms.queued \ {b} \in SUBSET Buf
      OBVIOUS
    <3>4. ms' \in Stream
      BY <2>1, <3>2, <3>3 DEF Dequeue, Stream
    <3>5. PICK a : a = Async(poll, ms, ms')
      OBVIOUS
    <3>6. a \in Polls
      BY <3>5, AsyncTyped
    <3>7. poll' = [a EXCEPT !.pc = "mark", !.buf = b]
      BY <2>1, <3>5 DEF Dequeue
    <3>8. poll' \in Polls
      BY <3>6, <3>7 DEF Polls
    <3> QED
      BY <3>4, <3>8
  <2>2. ms' \in Stream /\ poll' \in Polls
    <3>1. CASE poll' = [poll EXCEPT !.pc = "poll"] /\ UNCHANGED ms
      BY <3>1 DEF Polls
    <3> QED
      BY <1>3, <2>1, <3>1 DEF DataNotify
  <2> QED
    BY <1>3, <2>2, TypedFrom DEF DataNotify
<1>4. CASE Mark
  <2> DEFINE b == poll.buf
             n == ms.buf_refcnt[b] + Bit(Bundled) + Bit(HasCb)
  <2>1. b \in Buf
    BY <1>4 DEF Mark, CtlInv
  <2>2. n \in Nat
    BY <2>1 DEF Bit
  <2>3. ms' = [ms EXCEPT !.in_kernel = [ms.in_kernel EXCEPT ![b] = FALSE],
                         !.buf_refcnt = [ms.buf_refcnt EXCEPT ![b] = n]]
    BY <1>4 DEF Mark
  <2>4. /\ [ms.in_kernel EXCEPT ![b] = FALSE] \in [Buf -> BOOLEAN]
        /\ [ms.buf_refcnt EXCEPT ![b] = n] \in [Buf -> Nat]
    BY <2>1, <2>2
  <2>5. ms' \in Stream
    <3> HIDE DEF n
    <3> QED
      BY <2>3, <2>4 DEF Stream
  <2>6. held' \in Helds /\ held'["return"] \in SUBSET (Holder \X Buf)
        /\ \A h \in Holder : held'[h] \in SUBSET Buf
    BY <1>4, <2>1 DEF Mark, Helds, Holder
  <2>7. poll' \in Polls
    BY <1>4 DEF Mark, Polls
  <2> QED
    BY <1>4, <2>5, <2>6, <2>7, TypedFrom DEF Mark
<1>5. CASE Link
  <2>1. poll.buf \in Buf
    BY <1>5 DEF Link, CtlInv
  <2>2. ms' \in Stream
    <3>1. CASE Linked
      <4>1. ms.buf_refcnt[poll.buf] + 1 \in Nat
        BY <2>1
      <4>2. ms' = [ms EXCEPT !.buf_refcnt = [ms.buf_refcnt EXCEPT ![poll.buf] = ms.buf_refcnt[poll.buf] + 1]]
        BY <1>5, <3>1 DEF Link
      <4>3. [ms.buf_refcnt EXCEPT ![poll.buf] = ms.buf_refcnt[poll.buf] + 1] \in [Buf -> Nat]
        BY <4>1
      <4> QED
        BY <4>2, <4>3 DEF Stream
    <3> QED
      BY <1>5, <3>1 DEF Link
  <2>3. held' \in Helds /\ held'["return"] \in SUBSET (Holder \X Buf)
        /\ \A h \in Holder : held'[h] \in SUBSET Buf
    <3>1. CASE Linked
      <4>1. held' = [held EXCEPT !["linked"] = held["linked"] \cup {poll.buf}]
        BY <1>5, <3>1 DEF Link
      <4> QED
        BY <2>1, <4>1 DEF Helds, Holder
    <3> QED
      BY <1>5, <3>1 DEF Link
  <2>4. poll' \in Polls
    BY <1>5 DEF Link, Polls
  <2> QED
    BY <1>5, <2>2, <2>3, <2>4, TypedFrom DEF Link
<1>6. CASE SkipFrame
  <2>1. poll.buf \in Buf
    BY <1>6 DEF SkipFrame, CtlInv
  <2>2. PICK s : s = [ms EXCEPT !.previewSkipCnt = ms.previewSkipCnt - 1]
    OBVIOUS
  <2>3. s \in Stream
    <3>1. ms.previewSkipCnt - 1 \in Nat
      BY <1>6 DEF SkipFrame
    <3> QED
      BY <2>2, <3>1 DEF Stream
  <2>4. ms' \in BufDone(s, poll.buf)
        /\ poll' = [Async(poll, ms, ms') EXCEPT !.pc = "poll", !.buf = NoBuf]
    BY <1>6, <2>2 DEF SkipFrame
  <2>5. ms' \in Stream
    BY <2>1, <2>3, <2>4, DoneIs
  <2>6. PICK a : a = Async(poll, ms, ms')
    OBVIOUS
  <2>7. a \in Polls
    BY <2>6, AsyncTyped
  <2>8. poll' \in Polls
    BY <2>4, <2>6, <2>7 DEF Polls
  <2> QED
    BY <1>6, <2>5, <2>8, TypedFrom DEF SkipFrame
<1>7. CASE EnqueueForApp
  <2>1. poll.buf \in Buf
    BY <1>7 DEF EnqueueForApp, CtlInv
  <2>2. app' \in Apps
    <3>1. Append(app.queue, poll.buf) \in Seq(Buf)
      BY <2>1
    <3> QED
      BY <1>7, <3>1 DEF EnqueueForApp, Apps
  <2>3. poll' \in Polls
    BY <1>7 DEF EnqueueForApp, Polls
  <2> QED
    BY <1>7, <2>2, <2>3, TypedFrom DEF EnqueueForApp
<1> QED
  BY <1>1, <1>2, <1>3, <1>4, <1>5, <1>6, <1>7 DEF PollThread

\* Those who hold frames.
LEMMA HolderTyped ==
  ASSUME MsTyped,
         AppCallback \/ AppDone \/ ReturnDone \/ \E h \in Holder, b \in Buf : Return(h, b)
  PROVE  MsTyped'
<1> USE MsFields, TypedNow
<1>1. CASE AppCallback
  <2> DEFINE b == Head(app.queue)
  <2>1. b \in Buf /\ Tail(app.queue) \in Seq(Buf)
    BY <1>1 DEF AppCallback
  <2>2. ms.buf_refcnt[b] + 1 \in Nat
    BY <2>1
  <2>3. /\ app' = [app EXCEPT !.queue = Tail(app.queue), !.buf = b]
        /\ ms' = [ms EXCEPT !.buf_refcnt = [ms.buf_refcnt EXCEPT ![b] = ms.buf_refcnt[b] + 1]]
        /\ held' = [held EXCEPT !["user"] = held["user"] \cup {b}]
    BY <1>1 DEF AppCallback
  <2> HIDE DEF b
  <2>4. [ms.buf_refcnt EXCEPT ![b] = ms.buf_refcnt[b] + 1] \in [Buf -> Nat]
    BY <2>1, <2>2
  <2>5. ms' \in Stream
    BY <2>3, <2>4 DEF Stream
  <2>6. app' \in Apps
    BY <2>1, <2>3 DEF Apps
  <2>7. held' \in Helds /\ held'["return"] \in SUBSET (Holder \X Buf)
        /\ \A h \in Holder : held'[h] \in SUBSET Buf
    BY <2>1, <2>3 DEF Helds, Holder
  <2> QED
    BY <1>1, <2>5, <2>6, <2>7, TypedFrom DEF AppCallback
<1>2. CASE AppDone
  <2>1. app.buf \in Buf /\ ms' \in BufDone(ms, app.buf) /\ poll' = Async(poll, ms, ms')
    BY <1>2 DEF AppDone
  <2>2. ms' \in Stream
    BY <2>1, DoneIs
  <2>3. poll' \in Polls
    BY <2>1, AsyncTyped
  <2>4. app' \in Apps
    BY <1>2 DEF AppDone, Apps
  <2> QED
    BY <1>2, <2>2, <2>3, <2>4, TypedFrom DEF AppDone
<1>3. CASE ReturnDone
  <2>1. PICK r \in held["return"] :
           /\ ms' \in BufDone(ms, r[2]) /\ poll' = Async(poll, ms, ms')
           /\ held' = [held EXCEPT !["return"] = held["return"] \ {r}]
    BY <1>3 DEF ReturnDone
  <2>2. r[2] \in Buf
    OBVIOUS
  <2>3. ms' \in Stream
    BY <2>1, <2>2, DoneIs
  <2>4. poll' \in Polls
    BY <2>1, AsyncTyped
  <2>5. held' \in Helds /\ held'["return"] \in SUBSET (Holder \X Buf)
        /\ \A h \in Holder : held'[h] \in SUBSET Buf
    BY <2>1 DEF Helds, Holder
  <2> QED
    BY <1>3, <2>3, <2>4, <2>5, TypedFrom DEF ReturnDone
<1>4. ASSUME NEW h \in Holder, NEW b \in Buf, Return(h, b)
      PROVE  MsTyped'
  <2>1. PICK R : R = held["return"] \cup (IF ms.state = "ACTIVE" THEN {<<h, b>>} ELSE {})
    OBVIOUS
  <2>2. R \in SUBSET (Holder \X Buf)
    BY <2>1
  <2>3. held' = [held EXCEPT ![h] = held[h] \ {b}, !["return"] = R]
    <3>1. h # "return"
      BY DEF Holder
    <3> QED
      BY <1>4, <2>1, <3>1 DEF Return
  <2>4. held' \in Helds /\ held'["return"] \in SUBSET (Holder \X Buf)
        /\ \A k \in Holder : held'[k] \in SUBSET Buf
    BY <2>2, <2>3 DEF Helds, Holder
  <2> QED
    BY <1>4, <2>4, TypedFrom DEF Return
<1> QED
  BY <1>1, <1>2, <1>3, <1>4

\* mm_stream_reg_buf: a buffer given to the kernel has count 0, one the HAL
\* keeps has 1.
LEMMA Registered ==
  ASSUME MsTyped, NEW given \in SUBSET InitReg, NEW r, r = Register(given)
  PROVE  /\ r \in Stream /\ r.state = ms.state /\ r.on = ms.on /\ r.queued = given
         /\ IsFiniteSet(given) /\ r.queued_buffer_count = Cardinality(given)
         /\ r.queued_buffer_count \in Nat
         /\ r.entry = (ms.entry \/ r.queued_buffer_count > 0)
         /\ \A b \in Buf : r.buf_refcnt[b] = IF b \in given THEN 0
                                             ELSE IF b \notin InitReg THEN 1 ELSE ms.buf_refcnt[b]
<1> USE MsFields
<1>1. IsFiniteSet(given) /\ given \in SUBSET Buf
  BY MmStreamAssumption, FS_Subset
<1> DEFINE n == Cardinality(given)
           rc == [b \in Buf |-> IF b \in given THEN 0
                                ELSE IF b \notin InitReg THEN 1 ELSE ms.buf_refcnt[b]]
           ik == [b \in Buf |-> b \in given]
<1>2. n \in Nat
  BY <1>1, FS_CardinalityType
<1>3. rc \in [Buf -> Nat] /\ ik \in [Buf -> BOOLEAN]
  OBVIOUS
<1>4. \A b \in Buf : rc[b] = IF b \in given THEN 0
                             ELSE IF b \notin InitReg THEN 1 ELSE ms.buf_refcnt[b]
  OBVIOUS
<1>5. r = [ms EXCEPT !.queued = given, !.queued_buffer_count = n, !.entry = ms.entry \/ n > 0,
                     !.buf_refcnt = rc, !.in_kernel = ik]
  BY DEF Register
<1> HIDE DEF n, rc, ik
<1>6. (ms.entry \/ n > 0) \in BOOLEAN
  OBVIOUS
<1>7. r \in Stream
  BY <1>1, <1>2, <1>3, <1>5, <1>6 DEF Stream
<1>8. /\ r.state = ms.state /\ r.on = ms.on /\ r.queued = given
      /\ r.queued_buffer_count = n /\ r.buf_refcnt = rc
      /\ r.entry = (ms.entry \/ n > 0)
  BY <1>5
<1> QED
  BY <1>1, <1>2, <1>4, <1>7, <1>8 DEF n

\* What RegBuf does, when all the buffers of InitReg are given or only some.
LEMMA RegBufIs ==
  ASSUME MsTyped, RegBuf
  PROVE  /\ \E given \in SUBSET InitReg :
               \/ /\ given = InitReg /\ ctl' = ctl
                  /\ ms' = [Register(given) EXCEPT !.state = "REG"]
                  /\ held' = [held EXCEPT !["user"] = Buf \ InitReg]
               \/ /\ ms' = Register(given) /\ ctl' = [ctl EXCEPT !.pc = "unwind"] /\ held' = held
         /\ ms' \in Stream /\ poll' \in Polls
         /\ poll'.pc = poll.pc /\ poll'.buf = poll.buf /\ poll'.fds = poll.fds
         /\ ms'.entry # ms.entry => Rebuilds(poll'.pipe)
         /\ Rebuilds(poll.pipe) => Rebuilds(poll'.pipe)
<1> USE MsFields, TypedNow
<1>1. PICK given \in SUBSET InitReg :
          \/ /\ given = InitReg /\ ctl' = ctl
             /\ ms' = [Register(given) EXCEPT !.state = "REG"]
             /\ held' = [held EXCEPT !["user"] = Buf \ InitReg]
          \/ /\ ms' = Register(given) /\ ctl' = [ctl EXCEPT !.pc = "unwind"] /\ held' = held
  BY DEF RegBuf
<1>2. PICK r : r = Register(given)
  OBVIOUS
<1>3. /\ r \in Stream /\ r.queued_buffer_count \in Nat
      /\ r.entry = (ms.entry \/ r.queued_buffer_count > 0)
  BY <1>2, Registered
<1>4. /\ ms' \in Stream /\ ms'.queued_buffer_count = r.queued_buffer_count
      /\ ms'.entry = r.entry
  BY <1>1, <1>2, <1>3 DEF Stream, StreamState
<1>5. poll' = IF r.queued_buffer_count > 0
              THEN [poll EXCEPT !.pipe = Append(poll.pipe, "UPDATED_ASYNC")] ELSE poll
  BY <1>4 DEF RegBuf
<1>6. "UPDATED_ASYNC" \in Pipe
  BY DEF Pipe
<1>7. poll' \in Polls /\ poll'.pc = poll.pc /\ poll'.buf = poll.buf /\ poll'.fds = poll.fds
  <2>1. CASE poll' = [poll EXCEPT !.pipe = Append(poll.pipe, "UPDATED_ASYNC")]
    <3>1. Append(poll.pipe, "UPDATED_ASYNC") \in Seq(Pipe)
      BY <1>6
    <3> QED
      BY <2>1, <3>1 DEF Polls
  <2>2. CASE poll' = poll
    BY <2>2
  <2> QED
    BY <1>5, <2>1, <2>2
<1>8. /\ ms'.entry # ms.entry => Rebuilds(poll'.pipe)
      /\ Rebuilds(poll.pipe) => Rebuilds(poll'.pipe)
  <2>1. CASE r.queued_buffer_count > 0
    <3>1. poll'.pipe = Append(poll.pipe, "UPDATED_ASYNC")
      BY <1>5, <2>1
    <3>2. Rebuilds(Append(poll.pipe, "UPDATED_ASYNC"))
      BY <1>6, SentRebuilds
    <3> QED
      BY <3>1, <3>2
  <2>2. CASE ~(r.queued_buffer_count > 0)
    <3>1. ms'.entry = ms.entry
      BY <1>3, <1>4, <2>2
    <3> QED
      BY <1>5, <2>2, <3>1
  <2> QED
    BY <2>1, <2>2
<1> QED
  BY <1>1, <1>4, <1>7, <1>8

\* The control thread.
LEMMA ControlTyped ==
  ASSUME MsTyped, Control
  PROVE  MsTyped'
<1> USE MsFields, TypedNow
<1>1. ASSUME NEW at, NEW from, NEW s \in Stream, Event(at, from, s)
      PROVE  MsTyped'
  BY <1>1, TypedFrom DEF Event
<1>2. CASE MsInitStream \/ Acquire \/ SetFmt \/ Release
  <2>1. ASSUME NEW st \in StreamState
        PROVE  [ms EXCEPT !.state = st] \in Stream
    BY DEF Stream
  <2>2. {"INITED", "ACQUIRED", "CFG", "NOTUSED"} \subseteq StreamState
    BY DEF StreamState
  <2> QED
    BY <1>1, <1>2, <2>1, <2>2 DEF MsInitStream, Acquire, SetFmt, Release
<1>3. CASE GetBuf \/ UnregBuf
  <2>1. /\ [ms EXCEPT !.state = "BUFFED", !.buf_refcnt = [b \in Buf |-> 0],
                      !.in_kernel = [b \in Buf |-> FALSE], !.failed = {}] \in Stream
        /\ [ms EXCEPT !.state = "BUFFED", !.queued = {},
                      !.buf_refcnt = [b \in Buf |-> 0], !.in_kernel = [b \in Buf |-> FALSE]] \in Stream
    BY DEF Stream, StreamState
  <2> QED
    BY <1>1, <1>3, <2>1 DEF GetBuf, UnregBuf
<1>4. CASE PutBuf
  <2>1. ms' \in Stream /\ ctl' \in Ctls
    BY <1>4 DEF PutBuf, Stream, StreamState, Ctls
  <2> QED
    BY <1>4, <2>1, TypedFrom DEF PutBuf
<1>5. CASE RegBuf
  <2>1. ms' \in Stream /\ poll' \in Polls
    BY <1>5, RegBufIs
  <2>2. ctl' \in Ctls
    BY <1>5 DEF RegBuf, Ctls
  <2>3. held' \in Helds /\ held'["return"] \in SUBSET (Holder \X Buf)
        /\ \A h \in Holder : held'[h] \in SUBSET Buf
    <3>1. CASE held' = [held EXCEPT !["user"] = Buf \ InitReg]
      BY <3>1 DEF Helds, Holder
    <3> QED
      BY <1>5, <3>1 DEF RegBuf
  <2> QED
    BY <1>5, <2>1, <2>2, <2>3, TypedFrom DEF RegBuf
<1>6. CASE Start
  <2>1. ms' \in Stream /\ app' \in Apps
    BY <1>6, MmStreamAssumption DEF Start, Stream, StreamState, Apps
  <2> QED
    BY <1>6, <2>1, TypedFrom DEF Start
<1>7. ASSUME DelPollFd PROVE ms' \in Stream /\ poll' \in Polls
  <2>1. Append(poll.pipe, "UPDATED") \in Seq(Pipe)
    BY DEF Pipe
  <2> QED
    BY <1>7, <2>1 DEF DelPollFd, Send, Stream, Polls
<1>8. CASE StartFails
  <2>1. ms' \in Stream /\ poll' \in Polls
    BY <1>7, <1>8 DEF StartFails
  <2>2. app' \in Apps /\ ctl' \in Ctls
    <3>1. app' \in Apps
      BY <1>8, MmStreamAssumption DEF StartFails, Apps
    <3>2. CASE ctl' = [pc |-> "unstart", signalled |-> FALSE]
      BY <3>1, <3>2 DEF Ctls
    <3>3. CASE ctl' = [ctl EXCEPT !.pc = "join"]
      BY <3>1, <3>3 DEF Ctls
    <3> QED
      BY <1>8, <3>2, <3>3 DEF StartFails
  <2> QED
    BY <1>8, <2>1, <2>2, TypedFrom DEF StartFails
<1>9. CASE Unstart
  <2>1. ctl' \in Ctls
    BY <1>9 DEF Unstart, Ctls
  <2> QED
    BY <1>9, <2>1, TypedFrom DEF Unstart
<1>10. CASE Stop
  <2>1. Append(poll.pipe, "COMMIT") \in Seq(Pipe)
    BY DEF Pipe
  <2>2. ms' \in Stream /\ poll' \in Polls
    <3>1. CASE Send("COMMIT") /\ UNCHANGED ms
      BY <2>1, <3>1 DEF Send, Polls
    <3> QED
      BY <1>7, <1>10, <3>1 DEF Stop
  <2>3. ctl' \in Ctls
    BY <1>10 DEF Stop, Ctls
  <2> QED
    BY <1>10, <2>2, <2>3, TypedFrom DEF Stop
<1>11. CASE StreamOff
  <2>1. ms' \in Stream /\ ctl' \in Ctls
    BY <1>11 DEF StreamOff, Stream, Ctls
  <2> QED
    BY <1>11, <2>1, TypedFrom DEF StreamOff
<1>12. CASE Join
  <2>1. ms' \in Stream /\ ctl' \in Ctls /\ app' \in Apps
    BY <1>12 DEF Join, Stream, StreamState, Ctls, Apps
  <2> QED
    BY <1>12, <2>1, TypedFrom DEF Join
<1> QED
  BY <1>2, <1>3, <1>4, <1>5, <1>6, <1>8, <1>9, <1>10, <1>11, <1>12 DEF Control

-----------------------------------------------------------------------------
(* The control thread and the others.                                       *)

\* Steps of the poll thread and of those who hold frames: control stays.
LEMMA DataCtl ==
  ASSUME HasCb, MsTyped, CtlInv,
         PollThread \/ AppCallback \/ AppDone \/ ReturnDone
         \/ \E h \in Holder, b \in Buf : Return(h, b)
  PROVE  /\ CtlInv' /\ ms'.state = ms.state /\ ms'.on = ms.on /\ ctl'.pc = ctl.pc
         /\ app'.active = app.active
<1> USE MsFields, TypedNow
<1>1. ASSUME NEW b \in Buf, NEW s \in Stream, ms' \in BufDone(s, b)
      PROVE  ms'.state = s.state /\ ms'.on = s.on
  BY <1>1, DoneIs
<1>2. ASSUME NEW a, a = Async(poll, ms, ms')
      PROVE  a \in Polls /\ a.pc = poll.pc /\ a.buf = poll.buf
  BY <1>2, AsyncTyped
<1>3. CASE ProcPipe
  <2>1. /\ ms' = ms /\ app' = app /\ ctl'.pc = ctl.pc
        /\ poll'.pc = poll.pc /\ poll'.buf = poll.buf
    BY <1>3 DEF ProcPipe
  <2> QED
    BY <2>1 DEF CtlInv
<1>4. CASE PollReturns
  <2>1. /\ ms' = ms /\ app' = app /\ ctl' = ctl
        /\ poll.pc = "poll" /\ poll'.pc = "data" /\ poll'.buf = poll.buf
    BY <1>4 DEF PollReturns
  <2> QED
    BY <2>1 DEF CtlInv
<1>5. CASE DataNotify
  <2>1. /\ ms'.state = ms.state /\ ms'.on = ms.on /\ app' = app /\ ctl' = ctl /\ poll.pc = "data"
        /\ \/ poll'.pc = "poll" /\ poll'.buf = poll.buf
           \/ ms.state = "ACTIVE" /\ poll'.pc = "mark" /\ poll'.buf \in Buf
    <3>1. ASSUME NEW b \in ms.queued, Dequeue(b)
          PROVE  ms'.state = ms.state /\ ms'.on = ms.on /\ poll'.pc = "mark" /\ poll'.buf \in Buf
      <4>1. ms'.state = ms.state /\ ms'.on = ms.on
        BY <3>1 DEF Dequeue
      <4>2. PICK a : a = Async(poll, ms, ms')
        OBVIOUS
      <4>3. a \in Polls
        BY <1>2, <4>2
      <4>4. poll' = [a EXCEPT !.pc = "mark", !.buf = b]
        BY <3>1, <4>2 DEF Dequeue
      <4> QED
        BY <4>1, <4>3, <4>4 DEF Polls
    <3>2. CASE poll' = [poll EXCEPT !.pc = "poll"] /\ UNCHANGED ms
      BY <1>5, <3>2 DEF DataNotify
    <3> QED
      BY <1>5, <3>1, <3>2 DEF DataNotify
  <2>2. NoBuf \notin Buf
    BY MmStreamAssumption
  <2> QED
    BY <2>1, <2>2 DEF CtlInv
<1>6. CASE Mark \/ Link
  <2>1. /\ ms'.state = ms.state /\ ms'.on = ms.on /\ app' = app /\ ctl' = ctl
        /\ poll.pc \in {"mark", "link"} /\ poll'.pc \in {"link", "app"} /\ poll'.buf = poll.buf
    BY <1>6 DEF Mark, Link
  <2> QED
    BY <2>1 DEF CtlInv
<1>7. CASE SkipFrame
  <2>1. poll.pc = "app" /\ poll.buf \in Buf /\ app' = app /\ ctl' = ctl
    BY <1>7 DEF SkipFrame, CtlInv
  <2>2. PICK s : s = [ms EXCEPT !.previewSkipCnt = ms.previewSkipCnt - 1]
    OBVIOUS
  <2>3. s \in Stream /\ s.state = ms.state /\ s.on = ms.on
    <3>1. ms.previewSkipCnt - 1 \in Nat
      BY <1>7 DEF SkipFrame
    <3> QED
      BY <2>2, <3>1 DEF Stream
  <2>4. PICK a : a = Async(poll, ms, ms')
    OBVIOUS
  <2>5. ms' \in BufDone(s, poll.buf) /\ poll' = [a EXCEPT !.pc = "poll", !.buf = NoBuf]
    BY <1>7, <2>2, <2>4 DEF SkipFrame
  <2>6. ms'.state = ms.state /\ ms'.on = ms.on
    BY <1>1, <2>1, <2>3, <2>5
  <2>7. poll'.pc = "poll" /\ poll'.buf = NoBuf
    <3>1. a \in Polls
      BY <1>2, <2>4
    <3> QED
      BY <2>5, <3>1 DEF Polls
  <2> QED
    BY <2>1, <2>6, <2>7 DEF CtlInv
<1>8. CASE EnqueueForApp
  <2>1. /\ ms' = ms /\ ctl' = ctl /\ poll.pc = "app" /\ poll'.pc = "poll" /\ poll'.buf = NoBuf
        /\ app'.active = app.active /\ app'.buf = app.buf
        /\ ~app.active => app'.queue = app.queue
    BY <1>8 DEF EnqueueForApp
  <2> QED
    BY <2>1 DEF CtlInv
<1>9. CASE AppCallback
  <2>1. /\ ms'.state = ms.state /\ ms'.on = ms.on /\ poll' = poll /\ ctl' = ctl
        /\ app'.active = app.active /\ app.queue # <<>>
    BY <1>9 DEF AppCallback
  <2> QED
    BY <2>1 DEF CtlInv
<1>10. CASE AppDone
  <2>1. app.buf \in Buf /\ ms' \in BufDone(ms, app.buf) /\ poll' = Async(poll, ms, ms')
        /\ ctl' = ctl /\ app'.active = app.active /\ app'.queue = app.queue /\ app'.buf = NoBuf
    BY <1>10 DEF AppDone
  <2>2. ms'.state = ms.state /\ ms'.on = ms.on
    BY <1>1, <2>1
  <2>3. poll'.pc = poll.pc /\ poll'.buf = poll.buf
    BY <1>2, <2>1
  <2> QED
    BY <2>1, <2>2, <2>3 DEF CtlInv
<1>11. CASE ReturnDone
  <2>1. PICK r \in held["return"] :
           ms' \in BufDone(ms, r[2]) /\ poll' = Async(poll, ms, ms')
    BY <1>11 DEF ReturnDone
  <2>2. app' = app /\ ctl' = ctl /\ r[2] \in Buf
    BY <1>11 DEF ReturnDone
  <2>3. ms'.state = ms.state /\ ms'.on = ms.on
    BY <1>1, <2>1, <2>2
  <2>4. poll'.pc = poll.pc /\ poll'.buf = poll.buf
    BY <1>2, <2>1
  <2> QED
    BY <2>2, <2>3, <2>4 DEF CtlInv
<1>12. CASE \E h \in Holder, b \in Buf : Return(h, b)
  <2>1. ms' = ms /\ poll' = poll /\ app' = app /\ ctl' = ctl
    BY <1>12 DEF Return
  <2> QED
    BY <2>1 DEF CtlInv
<1> QED
  BY <1>3, <1>4, <1>5, <1>6, <1>7, <1>8, <1>9, <1>10, <1>11, <1>12 DEF PollThread

\* Steps of the control thread.
LEMMA ControlCtl ==
  ASSUME HasCb, MsTyped, CtlInv, Control
  PROVE  CtlInv'
<1> USE MsFields, TypedNow
<1>1. CASE MsInitStream \/ Acquire \/ SetFmt \/ Release \/ GetBuf \/ UnregBuf
  <2>1. /\ poll' = poll /\ app' = app /\ ctl' = ctl /\ ms'.on = ms.on
        /\ ms.state # "ACTIVE" /\ ms'.state # "ACTIVE"
        /\ (ctl.pc = "unwind" /\ ms'.state = "BUFFED") \/ ctl.pc = "idle"
    BY <1>1 DEF MsInitStream, Acquire, SetFmt, Release, GetBuf, UnregBuf, Event
  <2> QED
    BY <2>1 DEF CtlInv
<1>2. CASE PutBuf
  <2>1. /\ poll' = poll /\ app' = app /\ ctl.pc = "unwind" /\ ctl'.pc = "idle"
        /\ ms.state = "BUFFED" /\ ms'.state = "CFG" /\ ms'.on = ms.on /\ poll.buf = NoBuf
    BY <1>2 DEF PutBuf
  <2> QED
    BY <2>1 DEF CtlInv
<1>3. CASE RegBuf
  <2>1. PICK given \in SUBSET InitReg :
           \/ ctl' = ctl /\ ms' = [Register(given) EXCEPT !.state = "REG"]
           \/ ms' = Register(given) /\ ctl' = [ctl EXCEPT !.pc = "unwind"]
    BY <1>3, RegBufIs
  <2>2. PICK r : r = Register(given)
    OBVIOUS
  <2>3. r \in Stream /\ r.state = ms.state /\ r.on = ms.on
    BY <2>2, Registered
  <2>4. /\ app' = app /\ poll'.pc = poll.pc /\ poll'.buf = poll.buf /\ ctl.pc = "idle"
        /\ ms.state = "BUFFED" /\ ms'.on = ms.on
        /\ \/ ctl'.pc = "idle" /\ ms'.state = "REG"
           \/ ctl'.pc = "unwind" /\ ms'.state = "BUFFED"
    <3>1. app' = app /\ ctl.pc = "idle" /\ ms.state = "BUFFED"
      BY <1>3 DEF RegBuf
    <3>2. poll'.pc = poll.pc /\ poll'.buf = poll.buf
      BY <1>3, RegBufIs
    <3> QED
      BY <2>1, <2>2, <2>3, <3>1, <3>2 DEF Stream
  <2> QED
    BY <2>4 DEF CtlInv
<1>4. CASE Start
  <2>1. /\ poll' = poll /\ ctl' = ctl /\ ctl.pc = "idle" /\ ms.state = "REG"
        /\ ms'.state = "ACTIVE" /\ ms'.on /\ app'.active /\ app'.queue = app.queue
        /\ app'.buf = app.buf
    BY <1>4 DEF Start
  <2> QED
    BY <2>1 DEF CtlInv
<1>5. ASSUME DelPollFd
      PROVE  /\ ms'.state = ms.state /\ ms'.on = ms.on /\ poll'.pc = poll.pc /\ poll'.buf = poll.buf
  BY <1>5 DEF DelPollFd, Send
<1>6. CASE StartFails
  <2>1. /\ ms'.state = ms.state /\ ms'.on = ms.on /\ poll'.pc = poll.pc /\ poll'.buf = poll.buf
    BY <1>5, <1>6 DEF StartFails
  <2>2. /\ ctl.pc = "idle" /\ ms.state = "REG" /\ ctl'.pc \in {"unstart", "join"}
        /\ app'.active /\ app'.queue = app.queue /\ app'.buf = app.buf
    BY <1>6 DEF StartFails
  <2> QED
    BY <2>1, <2>2 DEF CtlInv
<1>7. CASE Unstart
  <2>1. /\ ms' = ms /\ poll' = poll /\ app' = app /\ ctl.pc = "unstart" /\ ctl'.pc = "join"
    BY <1>7 DEF Unstart
  <2> QED
    BY <2>1 DEF CtlInv
<1>8. CASE Stop
  <2>1. /\ ms'.state = ms.state /\ ms'.on = ms.on /\ poll'.pc = poll.pc /\ poll'.buf = poll.buf
    <3>1. CASE Send("COMMIT") /\ UNCHANGED ms
      BY <3>1 DEF Send
    <3> QED
      BY <1>5, <1>8, <3>1 DEF Stop
  <2>2. ctl.pc = "idle" /\ ms.state = "ACTIVE" /\ ctl'.pc = "off" /\ app' = app
    BY <1>8 DEF Stop
  <2> QED
    BY <2>1, <2>2 DEF CtlInv
<1>9. CASE StreamOff
  <2>1. /\ ms'.state = ms.state /\ ~ms'.on /\ poll' = poll /\ app' = app
        /\ ctl.pc = "off" /\ ctl'.pc = "join"
    BY <1>9 DEF StreamOff
  <2> QED
    BY <2>1 DEF CtlInv
<1>10. CASE Join
  <2>1. /\ ctl.pc = "join" /\ ctl'.pc = "unwind" /\ poll' = poll /\ ms'.state = "REG"
        /\ ms'.on = ms.on /\ ~app'.active /\ app'.queue = <<>> /\ app'.buf = NoBuf
    BY <1>10 DEF Join
  <2> QED
    BY <2>1 DEF CtlInv
<1> QED
  BY <1>1, <1>2, <1>3, <1>4, <1>6, <1>7, <1>8, <1>9, <1>10 DEF Control

\* What is polled: a change of the entries is followed by a command.
LEMMA FdsFrom ==
  ASSUME FdsInv, poll'.fds = poll.fds,
         ms'.entry # ms.entry => Rebuilds(poll'.pipe),
         Rebuilds(poll.pipe) => Rebuilds(poll'.pipe)
  PROVE  FdsInv'
<1>1. poll'.fds # ms'.entry => Rebuilds(poll'.pipe)
  BY DEF FdsInv
<1> QED
  BY <1>1 DEF FdsInv, Rebuilds

LEMMA FdsStep ==
  ASSUME MsTyped, CtlInv, FdsInv, MsNext
  PROVE  FdsInv'
<1> USE MsFields, TypedNow
<1>1. ASSUME NEW a, a = Async(poll, ms, ms'), poll'.fds = a.fds, poll'.pipe = a.pipe
      PROVE  FdsInv'
  <2>1. /\ a.fds = poll.fds
        /\ Rebuilds(poll.pipe) => Rebuilds(a.pipe)
        /\ ms'.entry # ms.entry => Rebuilds(a.pipe)
    BY <1>1, AsyncTyped
  <2> QED
    BY <1>1, <2>1, FdsFrom
<1>2. ASSUME ms'.entry = ms.entry, poll'.fds = poll.fds, poll'.pipe = poll.pipe
      PROVE  FdsInv'
  BY <1>2, FdsFrom
<1>3. CASE ProcPipe
  <2> DEFINE cmd == Head(poll.pipe)
  <2>1. /\ poll'.fds = IF cmd = "COMMIT" THEN poll.fds ELSE ms.entry
        /\ poll'.pipe = Tail(poll.pipe) /\ poll.pipe # <<>> /\ ms' = ms
    BY <1>3 DEF ProcPipe
  <2>2. CASE cmd = "COMMIT"
    <3>1. Rebuilds(poll.pipe) => Rebuilds(poll'.pipe)
      BY <2>1, <2>2, ReadRebuilds
    <3> QED
      BY <2>1, <2>2, <3>1, FdsFrom
  <2>3. CASE cmd # "COMMIT"
    BY <2>1, <2>3 DEF FdsInv
  <2> QED
    BY <2>2, <2>3
<1>4. CASE DataNotify
  <2>1. ASSUME NEW b \in ms.queued, Dequeue(b)
        PROVE  FdsInv'
    <3>1. PICK a : a = Async(poll, ms, ms')
      OBVIOUS
    <3>2. a \in Polls
      BY <3>1, AsyncTyped
    <3>3. poll'.fds = a.fds /\ poll'.pipe = a.pipe
      BY <2>1, <3>1, <3>2 DEF Dequeue, Polls
    <3> QED
      BY <1>1, <3>1, <3>3
  <2>2. CASE poll' = [poll EXCEPT !.pc = "poll"] /\ UNCHANGED ms
    <3>1. ms'.entry = ms.entry /\ poll'.fds = poll.fds /\ poll'.pipe = poll.pipe
      BY <2>2
    <3> QED
      BY <1>2, <3>1
  <2> QED
    BY <1>4, <2>1, <2>2 DEF DataNotify
<1>5. CASE SkipFrame
  <2>1. PICK a : a = Async(poll, ms, ms')
    OBVIOUS
  <2>2. a \in Polls
    BY <2>1, AsyncTyped
  <2>3. poll'.fds = a.fds /\ poll'.pipe = a.pipe
    BY <1>5, <2>1, <2>2 DEF SkipFrame, Polls
  <2> QED
    BY <1>1, <2>1, <2>3
<1>6. CASE AppDone
  BY <1>1, <1>6 DEF AppDone
<1>7. CASE ReturnDone
  BY <1>1, <1>7 DEF ReturnDone
<1>8. CASE PollReturns \/ Mark \/ Link \/ EnqueueForApp \/ AppCallback
  <2>1. ms'.entry = ms.entry
    BY <1>8 DEF PollReturns, Mark, Link, EnqueueForApp, AppCallback
  <2>2. poll'.fds = poll.fds /\ poll'.pipe = poll.pipe
    BY <1>8 DEF PollReturns, Mark, Link, EnqueueForApp, AppCallback
  <2> QED
    BY <1>2, <2>1, <2>2
<1>9. CASE \E h \in Holder, b \in Buf : Return(h, b)
  BY <1>2, <1>9 DEF Return
<1>10. CASE RegBuf
  <2>1. /\ poll'.fds = poll.fds
        /\ ms'.entry # ms.entry => Rebuilds(poll'.pipe)
        /\ Rebuilds(poll.pipe) => Rebuilds(poll'.pipe)
    BY <1>10, RegBufIs
  <2> QED
    BY <2>1, FdsFrom
<1>11. CASE MsInitStream \/ Acquire \/ SetFmt \/ Release \/ GetBuf \/ PutBuf \/ UnregBuf
            \/ Start \/ Unstart \/ StreamOff \/ Join
  <2>1. ms'.entry = ms.entry /\ poll' = poll
    BY <1>11 DEF MsInitStream, Acquire, SetFmt, Release, GetBuf, PutBuf, UnregBuf, Event,
                 Start, Unstart, StreamOff, Join
  <2> QED
    BY <1>2, <2>1
<1>12. ASSUME NEW cmd \in Pipe, Send(cmd), cmd # "COMMIT" \/ UNCHANGED ms
       PROVE  FdsInv'
  <2>1. poll'.fds = poll.fds /\ poll'.pipe = Append(poll.pipe, cmd)
    BY <1>12 DEF Send
  <2>2. /\ Rebuilds(poll.pipe) => Rebuilds(poll'.pipe)
        /\ cmd # "COMMIT" => Rebuilds(poll'.pipe)
    BY <2>1, SentRebuilds
  <2> QED
    BY <1>12, <2>1, <2>2, FdsFrom
<1>13. CASE StartFails \/ Stop
  <2>1. CASE DelPollFd
    BY <1>12, <2>1 DEF DelPollFd, Pipe
  <2>2. CASE Send("COMMIT") /\ UNCHANGED ms
    BY <1>12, <2>2 DEF Pipe
  <2>3. CASE UNCHANGED <<ms, poll>>
    BY <1>2, <2>3
  <2> QED
    BY <1>13, <2>1, <2>2, <2>3 DEF StartFails, Stop
<1> QED
  BY <1>3, <1>4, <1>5, <1>6, <1>7, <1>8, <1>9, <1>10, <1>11, <1>13 DEF MsNext, PollThread, Control

-----------------------------------------------------------------------------
(* The owners of a buffer.                                                  *)

\* A buffer that nothing happens to.
LEMMA OwnedSame ==
  ASSUME NEW c \in Buf, Owned(c), ms'.buf_refcnt[c] = ms.buf_refcnt[c],
         c \in ms'.queued <=> c \in ms.queued, c \in ms'.failed <=> c \in ms.failed,
         AtPoll(c)' = AtPoll(c), InApp(c)' = InApp(c), AtApp(c)' = AtApp(c),
         \A h \in Holder : /\ c \in held'[h] <=> c \in held[h]
                           /\ <<h, c>> \in held'["return"] <=> <<h, c>> \in held["return"]
  PROVE  Owned(c)'
<1>1. /\ Has("bundle", c)' = Has("bundle", c) /\ Has("linked", c)' = Has("linked", c)
      /\ Has("user", c)' = Has("user", c) /\ Returned("bundle", c)' = Returned("bundle", c)
      /\ Returned("linked", c)' = Returned("linked", c) /\ Returned("user", c)' = Returned("user", c)
  BY DEF Has, Returned, Holder
<1>2. IsQueued(c)' = IsQueued(c) /\ Refused(c)' = Refused(c)
  BY DEF IsQueued, Refused
<1> QED
  BY <1>1, <1>2 DEF Owned

LEMMA PollSame ==
  ASSUME NEW c \in Buf, poll'.buf = poll.buf \/ (poll.buf # c /\ poll'.buf # c),
         poll'.buf = c => poll'.pc = poll.pc
  PROVE  AtPoll(c)' = AtPoll(c)
BY DEF AtPoll

LEMMA AppSame ==
  ASSUME NEW c \in Buf, app' = app
  PROVE  InApp(c)' = InApp(c) /\ AtApp(c)' = AtApp(c)
BY DEF InApp, AtApp

LEMMA HeldSame ==
  ASSUME NEW c \in Buf, held' = held
  PROVE  /\ Has("bundle", c)' = Has("bundle", c) /\ Has("linked", c)' = Has("linked", c)
         /\ Has("user", c)' = Has("user", c) /\ Returned("bundle", c)' = Returned("bundle", c)
         /\ Returned("linked", c)' = Returned("linked", c)
         /\ Returned("user", c)' = Returned("user", c)
BY DEF Has, Returned

\* What a step does to the numbers of the buffer that it moves: the callback
\* thread's queue, a linked channel, the callback thread itself,
LEMMA OfApp ==
  ASSUME NEW rc \in Nat, NEW k \in Nat, NEW f \in Nat, NEW hb \in Nat, NEW hl \in Nat, NEW hu \in Nat,
         NEW rb \in Nat, NEW rl \in Nat, NEW ru \in Nat, NEW q \in Nat, NEW a \in Nat,
         OwnedAs(rc, k, f, "app", hb, hl, hu, rb, rl, ru, q, a)
  PROVE  OwnedAs(rc, k, f, "poll", hb, hl, hu, rb, rl, ru, q + 1, a)
<1>1. Coming("app") = 1 /\ Coming("poll") = 0
  BY DEF Coming, Bit
<1> QED
  BY <1>1 DEF OwnedAs

LEMMA OfLink ==
  ASSUME NEW rc \in Nat, NEW k \in Nat, NEW f \in Nat, NEW hb \in Nat, NEW hl \in Nat, NEW hu \in Nat,
         NEW rb \in Nat, NEW rl \in Nat, NEW ru \in Nat, NEW q \in Nat, NEW a \in Nat,
         OwnedAs(rc, k, f, "link", hb, hl, hu, rb, rl, ru, q, a), NEW n \in Nat, n <= 1
  PROVE  OwnedAs(rc + n, k, f, "app", hb, n, hu, rb, rl, ru, q, a)
<1>1. Coming("app") = 1 /\ Coming("link") = 1
  BY DEF Coming, Bit
<1>2. rc = hb + hl + hu + rb + rl + ru + q + a + 1
  BY <1>1 DEF OwnedAs
<1>3. hl = 0 /\ rl = 0 /\ k # 1
  BY <1>2 DEF OwnedAs
<1>4. rc + n = hb + n + hu + rb + rl + ru + q + a + 1 /\ rc + n > 0
  BY <1>2, <1>3
<1> QED
  BY <1>1, <1>3, <1>4 DEF OwnedAs

LEMMA OfQueue ==
  ASSUME NEW rc \in Nat, NEW k \in Nat, NEW f \in Nat, NEW hb \in Nat, NEW hl \in Nat, NEW hu \in Nat,
         NEW rb \in Nat, NEW rl \in Nat, NEW ru \in Nat, NEW q \in Nat, NEW a \in Nat, NEW at,
         OwnedAs(rc, k, f, at, hb, hl, hu, rb, rl, ru, q, a), q > 0
  PROVE  hu = 0 /\ OwnedAs(rc + 1, k, f, at, hb, hl, 1, rb, rl, ru, q - 1, 1)
<1>1. Coming(at) \in {0, 1}
  BY DEF Coming, Bit
<1>2. /\ rc = hb + hl + hu + rb + rl + ru + q + a + Coming(at)
      /\ Coming(at) + q + a <= 1 /\ (Coming(at) + q = 1 => hu + ru = 0)
  BY DEF OwnedAs
<1>3. q = 1 /\ Coming(at) = 0 /\ a = 0
  BY <1>1, <1>2
<1>4. hu = 0 /\ ru = 0 /\ rc > 0
  BY <1>2, <1>3
<1>5. at # "mark" /\ k # 1
  BY <1>4 DEF OwnedAs
<1>6. rc + 1 = hb + hl + 1 + rb + rl + ru + (q - 1) + 1 + Coming(at) /\ rc + 1 > 0
  BY <1>2, <1>3, <1>4
<1> QED
  BY <1>3, <1>4, <1>5, <1>6 DEF OwnedAs

\* a return, which is on its way,
LEMMA OfReturn ==
  ASSUME NEW rc \in Nat, NEW k \in Nat, NEW f \in Nat, NEW x \in Nat, NEW y \in Nat,
         NEW v \in Nat, NEW w \in Nat, NEW q \in Nat, NEW a \in Nat, NEW at
  PROVE  /\ OwnedAs(rc, k, f, at, 1, x, y, 0, v, w, q, a) =>
                OwnedAs(rc, k, f, at, 0, x, y, 1, v, w, q, a)
         /\ OwnedAs(rc, k, f, at, x, 1, y, v, 0, w, q, a) =>
                OwnedAs(rc, k, f, at, x, 0, y, v, 1, w, q, a)
         /\ OwnedAs(rc, k, f, at, x, y, 1, v, w, 0, q, a) =>
                OwnedAs(rc, k, f, at, x, y, 0, v, w, 1, q, a)
<1>1. Coming(at) \in Nat
  BY DEF Coming, Bit
<1>2. /\ 1 + x + y + 0 + v + w + q + a + Coming(at) = 0 + x + y + 1 + v + w + q + a + Coming(at)
      /\ x + 1 + y + v + 0 + w + q + a + Coming(at) = x + 0 + y + v + 1 + w + q + a + Coming(at)
      /\ x + y + 1 + v + w + 0 + q + a + Coming(at) = x + y + 0 + v + w + 1 + q + a + Coming(at)
  BY <1>1
<1>3. OwnedAs(rc, k, f, at, 1, x, y, 0, v, w, q, a) =>
          OwnedAs(rc, k, f, at, 0, x, y, 1, v, w, q, a)
  BY <1>2 DEF OwnedAs
<1>4. OwnedAs(rc, k, f, at, x, 1, y, v, 0, w, q, a) =>
          OwnedAs(rc, k, f, at, x, 0, y, v, 1, w, q, a)
  BY <1>2 DEF OwnedAs
<1>5. OwnedAs(rc, k, f, at, x, y, 1, v, w, 0, q, a) =>
          OwnedAs(rc, k, f, at, x, y, 0, v, w, 1, q, a)
  BY <1>2 DEF OwnedAs
<1> QED
  BY <1>3, <1>4, <1>5

\* Who has a share is counted.
LEMMA OfShare ==
  ASSUME NEW rc \in Nat, NEW k \in Nat, NEW f \in Nat, NEW hb \in Nat, NEW hl \in Nat, NEW hu \in Nat,
         NEW rb \in Nat, NEW rl \in Nat, NEW ru \in Nat, NEW q \in Nat, NEW a \in Nat, NEW at,
         OwnedAs(rc, k, f, at, hb, hl, hu, rb, rl, ru, q, a),
         at = "app" \/ rb > 0 \/ rl > 0 \/ ru > 0 \/ a > 0
  PROVE  rc > 0
<1>1. Coming(at) \in Nat /\ (at = "app" => Coming(at) > 0)
  BY DEF Coming, Bit
<1>2. rc = hb + hl + hu + rb + rl + ru + q + a + Coming(at)
  BY DEF OwnedAs
<1> QED
  BY <1>1, <1>2

\* and the end of a share, with mm_stream_buf_done.
LEMMA OfDone ==
  ASSUME NEW rc \in Nat, NEW k \in Nat, NEW f \in Nat, NEW hb \in Nat, NEW hl \in Nat, NEW hu \in Nat,
         NEW rb \in Nat, NEW rl \in Nat, NEW ru \in Nat, NEW q \in Nat, NEW a \in Nat, NEW at,
         OwnedAs(rc, k, f, at, hb, hl, hu, rb, rl, ru, q, a),
         NEW k2 \in Nat, NEW f2 \in Nat, NEW rb2 \in Nat, NEW rl2 \in Nat, NEW ru2 \in Nat,
         NEW a2 \in Nat, NEW at2,
         rb2 <= rb, rl2 <= rl, ru2 <= ru, a2 <= a, at2 = at \/ (at = "app" /\ at2 = "poll"),
         rb2 + rl2 + ru2 + a2 + Coming(at2) = rb + rl + ru + a + Coming(at) - 1,
         k2 = 1 => rc - 1 = 0, k2 = 1 \/ f2 = 1 \/ rc - 1 > 0
  PROVE  OwnedAs(rc - 1, k2, f2, at2, hb, hl, hu, rb2, rl2, ru2, q, a2)
<1>1. /\ Coming(at) \in {0, 1} /\ Coming(at2) \in {0, 1} /\ Coming("app") = 1 /\ Coming("poll") = 0
      /\ Coming("link") = 1
  BY DEF Coming, Bit
<1>2. Coming(at2) <= Coming(at)
  BY <1>1
<1>3. rc = hb + hl + hu + rb + rl + ru + q + a + Coming(at)
  BY DEF OwnedAs
<1>4. rc - 1 = hb + hl + hu + rb2 + rl2 + ru2 + q + a2 + Coming(at2) /\ rc > 0
  <2>1. Coming(at) \in Nat /\ Coming(at2) \in Nat
    BY <1>1
  <2>2. rc - 1 = hb + hl + hu + rb2 + rl2 + ru2 + q + a2 + Coming(at2)
    BY <1>3, <2>1
  <2>3. rc - 1 >= 0
    BY <2>1, <2>2
  <2> QED
    BY <2>2, <2>3
<1>5. /\ hb + rb2 <= 1 /\ hl + rl2 <= 1 /\ hu + ru2 <= 1 /\ Coming(at2) + q + a2 <= 1
      /\ at2 = "link" => hl + rl2 = 0
  BY <1>1, <1>2 DEF OwnedAs
<1>6. Coming(at2) + q = 1 => hu + ru2 = 0
  <2>1. Coming(at) + q <= 1 /\ (Coming(at) + q = 1 => hu + ru = 0)
    BY <1>1 DEF OwnedAs
  <2> QED
    BY <1>1, <1>2, <2>1
<1>7. at2 # "mark"
  BY <1>4 DEF OwnedAs
<1>8. k2 = 1 => at2 \notin {"mark", "link", "app"}
  <2>1. at2 \in {"link", "app"} => Coming(at2) = 1
    BY <1>1
  <2>2. k2 = 1 => Coming(at2) = 0
    BY <1>1, <1>4
  <2> QED
    BY <1>7, <2>1, <2>2
<1> QED
  BY <1>4, <1>5, <1>6, <1>7, <1>8 DEF OwnedAs

LEMMA OfSkip ==
  ASSUME NEW rc \in Nat, NEW k \in Nat, NEW f \in Nat, NEW hb \in Nat, NEW hl \in Nat, NEW hu \in Nat,
         NEW rb \in Nat, NEW rl \in Nat, NEW ru \in Nat, NEW q \in Nat, NEW a \in Nat, 
         OwnedAs(rc, k, f, "app", hb, hl, hu, rb, rl, ru, q, a),
         NEW k2 \in Nat, NEW f2 \in Nat, k2 = 1 => rc - 1 = 0, k2 = 1 \/ f2 = 1 \/ rc - 1 > 0
  PROVE  OwnedAs(rc - 1, k2, f2, "poll", hb, hl, hu, rb, rl, ru, q, a)
<1>1. rb + rl + ru + a + Coming("poll") = rb + rl + ru + a + Coming("app") - 1
  BY DEF Coming, Bit
<1>2. rb <= rb /\ rl <= rl /\ ru <= ru /\ a <= a
  OBVIOUS
<1> QED
  BY <1>1, <1>2, OfDone, ZenonT(60)

LEMMA OfAppDone ==
  ASSUME NEW rc \in Nat, NEW k \in Nat, NEW f \in Nat, NEW hb \in Nat, NEW hl \in Nat, NEW hu \in Nat,
         NEW rb \in Nat, NEW rl \in Nat, NEW ru \in Nat, NEW q \in Nat, NEW at,
         OwnedAs(rc, k, f, at, hb, hl, hu, rb, rl, ru, q, 1),
         NEW k2 \in Nat, NEW f2 \in Nat, k2 = 1 => rc - 1 = 0, k2 = 1 \/ f2 = 1 \/ rc - 1 > 0
  PROVE  OwnedAs(rc - 1, k2, f2, at, hb, hl, hu, rb, rl, ru, q, 0)
<1>1. rb + rl + ru + 0 + Coming(at) = rb + rl + ru + 1 + Coming(at) - 1
  BY DEF Coming, Bit
<1>2. rb <= rb /\ rl <= rl /\ ru <= ru /\ 0 <= 1
  OBVIOUS
<1> QED
  BY <1>1, <1>2, OfDone, ZenonT(60)

LEMMA OfReturned ==
  ASSUME NEW rc \in Nat, NEW k \in Nat, NEW f \in Nat, NEW hb \in Nat, NEW hl \in Nat, NEW hu \in Nat,
         NEW rb \in Nat, NEW rl \in Nat, NEW ru \in Nat, NEW q \in Nat, NEW a \in Nat, NEW at,
         OwnedAs(rc, k, f, at, hb, hl, hu, rb, rl, ru, q, a),
         NEW k2 \in Nat, NEW f2 \in Nat, k2 = 1 => rc - 1 = 0, k2 = 1 \/ f2 = 1 \/ rc - 1 > 0,
         NEW rb2 \in Nat, NEW rl2 \in Nat, NEW ru2 \in Nat, rb2 <= rb, rl2 <= rl, ru2 <= ru,
         rb2 + rl2 + ru2 = rb + rl + ru - 1
  PROVE  OwnedAs(rc - 1, k2, f2, at, hb, hl, hu, rb2, rl2, ru2, q, a)
<1>1. rb2 + rl2 + ru2 + a + Coming(at) = rb + rl + ru + a + Coming(at) - 1
  BY DEF Coming, Bit
<1>2. a <= a
  OBVIOUS
<1> QED
  BY <1>1, <1>2, OfDone, ZenonT(60)

LEMMA PlacesNat ==
  ASSUME MsTyped, NEW b \in Buf
  PROVE  /\ Has("bundle", b) \in Nat /\ Has("linked", b) \in Nat /\ Has("user", b) \in Nat
         /\ Returned("bundle", b) \in Nat /\ Returned("linked", b) \in Nat
         /\ Returned("user", b) \in Nat
         /\ InApp(b) \in Nat /\ AtApp(b) \in Nat
         /\ IsQueued(b) \in Nat /\ Refused(b) \in Nat /\ ms.buf_refcnt[b] \in Nat
BY PlacesOfBuf

\* A frame is dequeued: the kernel does not have it any more.
LEMMA DequeueOwned ==
  ASSUME MsInv, Counted, MsTyped', NEW b \in ms.queued, poll.buf = NoBuf, Dequeue(b),
         UNCHANGED <<app, held>>, NEW c \in Buf
  PROVE  Owned(c)'
<1> USE MsFields, TypedNow DEF MsInv
<1>1. NoBuf \notin Buf
  BY MmStreamAssumption
<1>2. /\ ms'.queued = ms.queued \ {b} /\ ms'.failed = ms.failed /\ ms'.buf_refcnt = ms.buf_refcnt
  BY DEF Dequeue
<1>3. poll'.pc = "mark" /\ poll'.buf = b
  <2>1. PICK a : a = Async(poll, ms, ms')
    OBVIOUS
  <2>2. a \in Polls
    BY <2>1, AsyncTyped
  <2> QED
    BY <2>1, <2>2 DEF Dequeue, Polls
<1>4. Owned(c)
  BY DEF OwnedInv
<1>5. CASE c # b
  <2>1. AtPoll(c)' = AtPoll(c)
    BY <1>1, <1>3, <1>5, PollSame
  <2> QED
    BY <1>2, <1>4, <1>5, <2>1, AppSame, OwnedSame
<1>6. CASE c = b
  <2>1. AtPoll(c) = "poll" /\ AtPoll(c)' = "mark"
    BY <1>1, <1>3, <1>6 DEF AtPoll
  <2>2. ms'.buf_refcnt[c] = ms.buf_refcnt[c] /\ IsQueued(c) = 1 /\ IsQueued(c)' = 0
    BY <1>2, <1>6 DEF IsQueued, Bit
  <2>3. /\ InApp(c)' = InApp(c) /\ AtApp(c)' = AtApp(c)
    BY AppSame
  <2> QED
    BY <1>4, <2>1, <2>2, <2>3, PlacesOfBuf, HeldSame DEF Owned, OwnedAs, Coming, Bit
<1> QED
  BY <1>5, <1>6

\* It is counted and goes to the bundle,
LEMMA MarkOwned ==
  ASSUME HasCb, MsInv, Counted, MsTyped', Mark, NEW c \in Buf
  PROVE  Owned(c)'
<1> USE MsFields, TypedNow DEF MsInv
<1> DEFINE b == poll.buf
<1>1. b \in Buf /\ poll.pc = "mark"
  BY DEF Mark, CtlInv
<1>2. /\ ms'.queued = ms.queued /\ ms'.failed = ms.failed
      /\ ms'.buf_refcnt = [ms.buf_refcnt EXCEPT ![b] = @ + Bit(Bundled) + Bit(HasCb)]
      /\ held' = IF Bundled THEN [held EXCEPT !["bundle"] = @ \cup {b}] ELSE held
      /\ poll'.pc = "link" /\ poll'.buf = b /\ app' = app
  BY DEF Mark
<1>3. /\ "bundle" \in Holder \cup {"return"}
      /\ \A h \in Holder : h # "return" /\ h \in Holder \cup {"return"}
      /\ held \in [Holder \cup {"return"} -> (SUBSET Buf) \cup SUBSET (Holder \X Buf)]
  BY DEF Holder, Helds
<1>4. /\ held'["return"] = held["return"]
      /\ \A h \in Holder : h # "bundle" => held'[h] = held[h]
      /\ held'["bundle"] = IF Bundled THEN held["bundle"] \cup {b} ELSE held["bundle"]
  BY <1>2, <1>3
<1>5. Owned(c)
  BY DEF OwnedInv
<1>6. CASE c # b
  <2>1. AtPoll(c)' = AtPoll(c)
    BY <1>1, <1>2, <1>6, PollSame
  <2>2. \A h \in Holder : /\ c \in held'[h] <=> c \in held[h]
                          /\ <<h, c>> \in held'["return"] <=> <<h, c>> \in held["return"]
    BY <1>4, <1>6
  <2>3. ms'.buf_refcnt[c] = ms.buf_refcnt[c]
    BY <1>2, <1>6
  <2> QED
    BY <1>2, <1>5, <2>1, <2>2, <2>3, AppSame, OwnedSame
<1>7. CASE c = b
  <2>1. AtPoll(c) = "mark" /\ AtPoll(c)' = "link"
    BY <1>1, <1>2, <1>7 DEF AtPoll
  <2>2. ms'.buf_refcnt[c] = ms.buf_refcnt[c] + Bit(Bundled) + 1
    BY <1>1, <1>2, <1>7 DEF Bit
  <2>3. /\ Has("linked", c)' = Has("linked", c) /\ Has("user", c)' = Has("user", c)
        /\ Returned("bundle", c)' = Returned("bundle", c)
        /\ Returned("linked", c)' = Returned("linked", c)
        /\ Returned("user", c)' = Returned("user", c)
    BY <1>4 DEF Has, Returned, Holder
  <2>4. Has("bundle", c) = 0 => Has("bundle", c)' = Bit(Bundled)
    BY <1>4, <1>7 DEF Has, Bit
  <2>5. /\ InApp(c)' = InApp(c) /\ AtApp(c)' = AtApp(c)
    BY <1>2, AppSame
  <2>6. IsQueued(c)' = IsQueued(c)
    BY <1>2 DEF IsQueued
  <2>7. /\ ms.buf_refcnt[c] = 0 /\ IsQueued(c) = 0
        /\ Has("bundle", c) = 0 /\ Has("linked", c) = 0 /\ Has("user", c) = 0
        /\ Returned("bundle", c) = 0 /\ Returned("linked", c) = 0 /\ Returned("user", c) = 0
        /\ InApp(c) = 0 /\ AtApp(c) = 0
    BY <1>5, <2>1, PlacesOfBuf, SMTT(30) DEF Owned, OwnedAs, Coming, Bit
  <2>8. Bit(Bundled) \in {0, 1}
    BY DEF Bit
  <2>9. Coming("link") = 1
    BY DEF Coming, Bit
  <2> QED
    BY <2>1, <2>2, <2>3, <2>4, <2>5, <2>6, <2>7, <2>8, <2>9 DEF Owned, OwnedAs
<1> QED
  BY <1>6, <1>7

\* and to a linked channel,
LEMMA LinkOwned ==
  ASSUME MsInv, Counted, MsTyped', Link, NEW c \in Buf
  PROVE  Owned(c)'
<1> USE MsFields, TypedNow DEF MsInv
<1> DEFINE b == poll.buf
<1>1. b \in Buf /\ poll.pc = "link"
  BY DEF Link, CtlInv
<1>2. /\ ms'.queued = ms.queued /\ ms'.failed = ms.failed
      /\ ms'.buf_refcnt = IF Linked THEN [ms.buf_refcnt EXCEPT ![b] = @ + 1] ELSE ms.buf_refcnt
      /\ held' = IF Linked THEN [held EXCEPT !["linked"] = @ \cup {b}] ELSE held
      /\ poll'.pc = "app" /\ poll'.buf = b /\ app' = app
  BY DEF Link
<1>3. /\ "linked" \in Holder \cup {"return"}
      /\ \A h \in Holder : h # "return" /\ h \in Holder \cup {"return"}
      /\ held \in [Holder \cup {"return"} -> (SUBSET Buf) \cup SUBSET (Holder \X Buf)]
  BY DEF Holder, Helds
<1>4. /\ held'["return"] = held["return"]
      /\ \A h \in Holder : h # "linked" => held'[h] = held[h]
      /\ held'["linked"] = IF Linked THEN held["linked"] \cup {b} ELSE held["linked"]
  BY <1>2, <1>3
<1>5. Owned(c)
  BY DEF OwnedInv
<1>6. CASE c # b
  <2>1. AtPoll(c)' = AtPoll(c)
    BY <1>1, <1>2, <1>6, PollSame
  <2>2. \A h \in Holder : /\ c \in held'[h] <=> c \in held[h]
                          /\ <<h, c>> \in held'["return"] <=> <<h, c>> \in held["return"]
    BY <1>4, <1>6
  <2>3. ms'.buf_refcnt[c] = ms.buf_refcnt[c]
    BY <1>2, <1>6
  <2> QED
    BY <1>2, <1>5, <2>1, <2>2, <2>3, AppSame, OwnedSame
<1>7. CASE c = b
  <2>1. AtPoll(c) = "link" /\ AtPoll(c)' = "app"
    BY <1>1, <1>2, <1>7 DEF AtPoll
  <2>2. ms'.buf_refcnt[c] = ms.buf_refcnt[c] + Bit(Linked)
    BY <1>1, <1>2, <1>7 DEF Bit
  <2>3. /\ Has("bundle", c)' = Has("bundle", c) /\ Has("user", c)' = Has("user", c)
        /\ Returned("bundle", c)' = Returned("bundle", c)
        /\ Returned("linked", c)' = Returned("linked", c)
        /\ Returned("user", c)' = Returned("user", c)
    BY <1>4 DEF Has, Returned, Holder
  <2>4. Has("linked", c) = 0 => Has("linked", c)' = Bit(Linked)
    BY <1>4, <1>7 DEF Has, Bit
  <2>5. /\ InApp(c)' = InApp(c) /\ AtApp(c)' = AtApp(c)
    BY <1>2, AppSame
  <2>6. IsQueued(c)' = IsQueued(c) /\ Refused(c)' = Refused(c)
    BY <1>2 DEF IsQueued, Refused
  <2>7. Bit(Linked) \in {0, 1} /\ Coming("link") = 1 /\ Coming("app") = 1
    BY DEF Bit, Coming
  <2>8. /\ IsQueued(c) = 0 /\ Has("linked", c) = 0 /\ Returned("linked", c) = 0
    BY <1>5, <2>1, PlacesOfBuf DEF Owned, OwnedAs
  <2>9. PICK n \in Nat : n = Bit(Linked) /\ n <= 1
    BY <2>7
  <2>10. OwnedAs(ms.buf_refcnt[c] + n, IsQueued(c), Refused(c), "app",
                Has("bundle", c), n, Has("user", c), Returned("bundle", c),
                Returned("linked", c), Returned("user", c), InApp(c), AtApp(c))
    <3>1. OwnedAs(ms.buf_refcnt[c], IsQueued(c), Refused(c), "link",
                  Has("bundle", c), Has("linked", c), Has("user", c), Returned("bundle", c),
                  Returned("linked", c), Returned("user", c), InApp(c), AtApp(c))
      BY <1>5, <2>1 DEF Owned
    <3> QED
      BY <2>9, <3>1, PlacesNat, OfLink
  <2> QED
    BY <2>1, <2>2, <2>3, <2>4, <2>5, <2>6, <2>8, <2>9, <2>10 DEF Owned
<1> QED
  BY <1>6, <1>7

\* and waits for the callback thread.
LEMMA EnqueueOwned ==
  ASSUME HasCb, MsInv, Counted, MsTyped', EnqueueForApp, NEW c \in Buf
  PROVE  Owned(c)'
<1> USE MsFields, TypedNow DEF MsInv
<1> DEFINE b == poll.buf
<1>1. b \in Buf /\ poll.pc = "app" /\ NoBuf \notin Buf
  BY MmStreamAssumption DEF EnqueueForApp, CtlInv
<1>2. app.active
  BY <1>1 DEF Counted, CtlInv
<1>3. /\ ms' = ms /\ held' = held /\ app'.queue = Append(app.queue, b) /\ app'.buf = app.buf
      /\ poll'.pc = "poll" /\ poll'.buf = NoBuf
  BY <1>2 DEF EnqueueForApp
<1>4. InApp(c)' = InApp(c) + Bit(c = b) /\ AtApp(c)' = AtApp(c)
  <2>1. Count(Append(app.queue, b), {c}) = Count(app.queue, {c}) + (IF b \in {c} THEN 1 ELSE 0)
    BY <1>1, CountAppend
  <2>2. b \in {c} <=> c = b
    OBVIOUS
  <2> QED
    BY <1>3, <2>1, <2>2 DEF InApp, AtApp, Bit
<1>5. Owned(c)
  BY DEF OwnedInv
<1>6. CASE c # b
  <2>1. AtPoll(c)' = AtPoll(c)
    BY <1>1, <1>3, <1>6, PollSame
  <2>2. InApp(c)' = InApp(c)
    BY <1>4, <1>6, PlacesOfBuf DEF Bit
  <2> QED
    BY <1>3, <1>4, <1>5, <2>1, <2>2, OwnedSame
<1>7. CASE c = b
  <2>1. AtPoll(c) = "app" /\ AtPoll(c)' = "poll"
    BY <1>1, <1>3, <1>7 DEF AtPoll
  <2>2. InApp(c)' = InApp(c) + 1
    BY <1>4, <1>7 DEF Bit
  <2>3. Coming("app") = 1 /\ Coming("poll") = 0
    BY DEF Coming, Bit
  <2>4. /\ IsQueued(c)' = IsQueued(c) /\ Refused(c)' = Refused(c)
        /\ ms'.buf_refcnt[c] = ms.buf_refcnt[c]
    BY <1>3 DEF IsQueued, Refused
  <2>5. OwnedAs(ms.buf_refcnt[c], IsQueued(c), Refused(c), "poll",
                Has("bundle", c), Has("linked", c), Has("user", c), Returned("bundle", c),
                Returned("linked", c), Returned("user", c), InApp(c) + 1, AtApp(c))
    <3>1. OwnedAs(ms.buf_refcnt[c], IsQueued(c), Refused(c), "app",
                  Has("bundle", c), Has("linked", c), Has("user", c), Returned("bundle", c),
                  Returned("linked", c), Returned("user", c), InApp(c), AtApp(c))
      BY <1>5, <2>1 DEF Owned
    <3> QED
      BY <3>1, PlacesNat, OfApp
  <2> QED
    BY <1>3, <1>4, <2>1, <2>2, <2>4, <2>5, HeldSame DEF Owned
<1> QED
  BY <1>6, <1>7

\* Somebody is done with b.
LEMMA GivenBack ==
  ASSUME MsInv, Counted, MsTyped', NEW s \in Stream,
         s.buf_refcnt = ms.buf_refcnt, s.queued = ms.queued, s.failed = ms.failed,
         s.queued_buffer_count = ms.queued_buffer_count, s.entry = ms.entry,
         NEW b \in Buf, ms.buf_refcnt[b] > 0, ms' \in BufDone(s, b)
  PROVE  /\ \A c \in Buf : c # b => /\ ms'.buf_refcnt[c] = ms.buf_refcnt[c]
                                    /\ c \in ms'.queued <=> c \in ms.queued
                                    /\ c \in ms'.failed <=> c \in ms.failed
         /\ ms'.buf_refcnt[b] = ms.buf_refcnt[b] - 1
         /\ IsQueued(b)' \in Nat /\ Refused(b)' \in Nat
         /\ IsQueued(b)' = 1 => ms.buf_refcnt[b] - 1 = 0
         /\ IsQueued(b)' = 1 \/ Refused(b)' = 1 \/ ms.buf_refcnt[b] - 1 > 0
         /\ ms'.queued_buffer_count = Cardinality(ms'.queued)
         /\ (ms.entry <=> ms.queued_buffer_count # 0) => (ms'.entry <=> ms'.queued_buffer_count # 0)
<1> USE MsFields, TypedNow DEF MsInv
<1>1. b \notin ms.queued
  <2>1. Owned(b)
    BY DEF OwnedInv
  <2> QED
    BY <2>1 DEF Owned, OwnedAs, IsQueued, Bit
<1>2. IsFiniteSet(ms.queued) /\ ms.queued_buffer_count = Cardinality(ms.queued)
  BY QueuedNow
<1>3. /\ \A c \in Buf : c # b => /\ ms'.buf_refcnt[c] = s.buf_refcnt[c]
                                 /\ c \in ms'.queued <=> c \in s.queued
                                 /\ c \in ms'.failed <=> c \in s.failed
      /\ ms'.buf_refcnt[b] = s.buf_refcnt[b] - 1
      /\ b \in ms'.queued \/ b \in ms'.failed \/ ms'.buf_refcnt[b] > 0
      /\ b \in ms'.queued => b \in s.queued \/ ms'.buf_refcnt[b] = 0
      /\ (s.entry <=> s.queued_buffer_count # 0) => (ms'.entry <=> ms'.queued_buffer_count # 0)
  BY DoneIs
<1>4. ms'.queued_buffer_count = Cardinality(ms'.queued)
  BY <1>1, <1>2, DoneIs
<1>5. /\ IsQueued(b)' = Bit(b \in ms'.queued) /\ Refused(b)' = Bit(b \in ms'.failed)
  BY DEF IsQueued, Refused
<1>6. /\ IsQueued(b)' \in Nat /\ Refused(b)' \in Nat
      /\ IsQueued(b)' = 1 <=> b \in ms'.queued
      /\ Refused(b)' = 1 <=> b \in ms'.failed
  BY <1>5 DEF Bit
<1> QED
  BY <1>1, <1>3, <1>4, <1>6

\* A preview frame that is skipped.
LEMMA SkipOwned ==
  ASSUME HasCb, MsInv, Counted, MsTyped', SkipFrame
  PROVE  /\ \A c \in Buf : Owned(c)'
         /\ ms'.queued_buffer_count = Cardinality(ms'.queued)
         /\ (ms.entry <=> ms.queued_buffer_count # 0) => (ms'.entry <=> ms'.queued_buffer_count # 0)
<1> USE MsFields, TypedNow DEF MsInv
<1>1. poll.pc = "app" /\ poll.buf \in Buf /\ NoBuf \notin Buf
  BY MmStreamAssumption DEF SkipFrame, CtlInv
<1> PICK b \in Buf : b = poll.buf
  BY <1>1
<1>2. PICK s : s = [ms EXCEPT !.previewSkipCnt = ms.previewSkipCnt - 1]
  OBVIOUS
<1>3. /\ s \in Stream /\ s.buf_refcnt = ms.buf_refcnt /\ s.queued = ms.queued /\ s.failed = ms.failed
      /\ s.queued_buffer_count = ms.queued_buffer_count /\ s.entry = ms.entry
  <2>1. ms.previewSkipCnt - 1 \in Nat
    BY DEF SkipFrame
  <2> QED
    BY <1>2, <2>1 DEF Stream
<1>4. PICK a : a = Async(poll, ms, ms')
  OBVIOUS
<1>5. ms' \in BufDone(s, b) /\ poll' = [a EXCEPT !.pc = "poll", !.buf = NoBuf]
      /\ app' = app /\ held' = held
  BY <1>2, <1>4 DEF SkipFrame
<1>6. poll'.pc = "poll" /\ poll'.buf = NoBuf
  <2>1. a \in Polls
    BY <1>4, AsyncTyped
  <2> QED
    BY <1>5, <2>1 DEF Polls
<1>7. AtPoll(b) = "app" /\ AtPoll(b)' = "poll"
  BY <1>1, <1>6 DEF AtPoll
<1>8. Owned(b) /\ ms.buf_refcnt[b] > 0
  <2>1. Owned(b)
    BY <1>1 DEF OwnedInv
  <2>2. OwnedAs(ms.buf_refcnt[b], IsQueued(b), Refused(b), "app",
                Has("bundle", b), Has("linked", b), Has("user", b), Returned("bundle", b),
                Returned("linked", b), Returned("user", b), InApp(b), AtApp(b))
    BY <1>7, <2>1 DEF Owned
  <2>3. ms.buf_refcnt[b] > 0
    BY <2>2, PlacesNat, OfShare
  <2> QED
    BY <2>1, <2>3
<1>9. /\ \A c \in Buf : c # b => /\ ms'.buf_refcnt[c] = ms.buf_refcnt[c]
                                 /\ c \in ms'.queued <=> c \in ms.queued
                                 /\ c \in ms'.failed <=> c \in ms.failed
      /\ ms'.buf_refcnt[b] = ms.buf_refcnt[b] - 1
      /\ IsQueued(b)' \in Nat /\ Refused(b)' \in Nat
      /\ IsQueued(b)' = 1 => ms.buf_refcnt[b] - 1 = 0
      /\ IsQueued(b)' = 1 \/ Refused(b)' = 1 \/ ms.buf_refcnt[b] - 1 > 0
      /\ ms'.queued_buffer_count = Cardinality(ms'.queued)
      /\ (ms.entry <=> ms.queued_buffer_count # 0) => (ms'.entry <=> ms'.queued_buffer_count # 0)
  BY <1>1, <1>3, <1>5, <1>8, GivenBack
<1>10. Owned(b)'
  <2>1. OwnedAs(ms.buf_refcnt[b], IsQueued(b), Refused(b), "app",
                Has("bundle", b), Has("linked", b), Has("user", b), Returned("bundle", b),
                Returned("linked", b), Returned("user", b), InApp(b), AtApp(b))
    BY <1>7, <1>8 DEF Owned
  <2>2. PICK k2 \in Nat, f2 \in Nat : k2 = IsQueued(b)' /\ f2 = Refused(b)'
    BY <1>9
  <2>3. Coming("app") = 1 /\ Coming("poll") = 0
    BY DEF Coming, Bit
  <2>4. /\ k2 = 1 => ms.buf_refcnt[b] - 1 = 0
        /\ k2 = 1 \/ f2 = 1 \/ ms.buf_refcnt[b] - 1 > 0
    BY <1>9, <2>2
  <2>5. OwnedAs(ms.buf_refcnt[b] - 1, k2, f2, "poll",
                Has("bundle", b), Has("linked", b), Has("user", b), Returned("bundle", b),
                Returned("linked", b), Returned("user", b), InApp(b), AtApp(b))
    BY <2>1, <2>4, PlacesNat, OfSkip
  <2> QED
    BY <1>1, <1>5, <1>7, <1>9, <2>2, <2>5, HeldSame, AppSame DEF Owned
<1>11. ASSUME NEW c \in Buf, c # b PROVE Owned(c)'
  <2>1. AtPoll(c)' = AtPoll(c)
    BY <1>1, <1>6, <1>11, PollSame
  <2>2. Owned(c)
    BY DEF OwnedInv
  <2> QED
    BY <1>5, <1>9, <1>11, <2>1, <2>2, AppSame, OwnedSame
<1> QED
  BY <1>9, <1>10, <1>11

\* The callback thread takes a frame from its queue.
LEMMA CallbackOwned ==
  ASSUME MsInv, Counted, MsTyped', AppCallback, NEW c \in Buf
  PROVE  Owned(c)'
<1> USE MsFields, TypedNow DEF MsInv
<1>1. app.queue # <<>> /\ app.buf = NoBuf /\ NoBuf \notin Buf /\ Head(app.queue) \in Buf
  BY MmStreamAssumption DEF AppCallback
<1> PICK b \in Buf : b = Head(app.queue)
  BY <1>1
<1>2. /\ ms'.queued = ms.queued /\ ms'.failed = ms.failed /\ poll' = poll
      /\ ms'.buf_refcnt = [ms.buf_refcnt EXCEPT ![b] = @ + 1]
      /\ held' = [held EXCEPT !["user"] = @ \cup {b}]
      /\ app'.queue = Tail(app.queue) /\ app'.buf = b
  BY DEF AppCallback
<1>3. /\ "user" \in Holder \cup {"return"}
      /\ \A h \in Holder : h # "return" /\ h \in Holder \cup {"return"}
      /\ held \in [Holder \cup {"return"} -> (SUBSET Buf) \cup SUBSET (Holder \X Buf)]
  BY DEF Holder, Helds
<1>4. /\ held'["return"] = held["return"]
      /\ \A h \in Holder : h # "user" => held'[h] = held[h]
      /\ held'["user"] = held["user"] \cup {b}
  BY <1>2, <1>3
<1>5. Owned(c)
  BY DEF OwnedInv
<1>6. AtPoll(c)' = AtPoll(c)
  BY <1>2, PollSame
<1>7. InApp(c)' = InApp(c) - (IF c = b THEN 1 ELSE 0)
  <2>1. Count(Tail(app.queue), {c}) = Count(app.queue, {c}) - (IF Head(app.queue) \in {c} THEN 1 ELSE 0)
    BY <1>1, CountTail
  <2>2. Head(app.queue) \in {c} <=> c = b
    OBVIOUS
  <2> QED
    BY <1>2, <2>1, <2>2 DEF InApp
<1>8. CASE c # b
  <2>1. InApp(c)' = InApp(c) /\ AtApp(c)' = AtApp(c)
    <3>1. InApp(c)' = InApp(c)
      BY <1>7, <1>8, PlacesNat
    <3> QED
      BY <1>1, <1>2, <1>8, <3>1 DEF AtApp
  <2>2. \A h \in Holder : /\ c \in held'[h] <=> c \in held[h]
                          /\ <<h, c>> \in held'["return"] <=> <<h, c>> \in held["return"]
    BY <1>4, <1>8
  <2>3. ms'.buf_refcnt[c] = ms.buf_refcnt[c]
    BY <1>2, <1>8
  <2> QED
    BY <1>2, <1>5, <1>6, <2>1, <2>2, <2>3, OwnedSame
<1>9. CASE c = b
  <2>1. InApp(c) > 0
    <3>1. Count(app.queue, {c}) \in Nat /\ Count(app.queue, {c}) # 0
      <4>1. 1 \in 1 .. Len(app.queue) /\ app.queue[1] \in {c}
        BY <1>1, <1>9
      <4> QED
        BY <4>1, CountType, SMTT(30)
    <3> QED
      BY <3>1 DEF InApp
  <2>2. OwnedAs(ms.buf_refcnt[c], IsQueued(c), Refused(c), AtPoll(c),
                Has("bundle", c), Has("linked", c), Has("user", c), Returned("bundle", c),
                Returned("linked", c), Returned("user", c), InApp(c), AtApp(c))
    BY <1>5 DEF Owned
  <2>3. OwnedAs(ms.buf_refcnt[c] + 1, IsQueued(c), Refused(c), AtPoll(c),
                Has("bundle", c), Has("linked", c), 1, Returned("bundle", c),
                Returned("linked", c), Returned("user", c), InApp(c) - 1, 1)
    BY <2>1, <2>2, PlacesNat, OfQueue
  <2>4. /\ ms'.buf_refcnt[c] = ms.buf_refcnt[c] + 1
        /\ IsQueued(c)' = IsQueued(c) /\ Refused(c)' = Refused(c)
        /\ InApp(c)' = InApp(c) - 1 /\ AtApp(c)' = 1 /\ Has("user", c)' = 1
    <3>1. ms'.buf_refcnt[c] = ms.buf_refcnt[c] + 1
      BY <1>2, <1>9
    <3>2. IsQueued(c)' = IsQueued(c) /\ Refused(c)' = Refused(c)
      BY <1>2 DEF IsQueued, Refused
    <3>3. InApp(c)' = InApp(c) - 1
      BY <1>7, <1>9
    <3>4. AtApp(c)' = 1 /\ Has("user", c)' = 1
      BY <1>2, <1>4, <1>9 DEF AtApp, Has, Bit
    <3> QED
      BY <3>1, <3>2, <3>3, <3>4
  <2>5. /\ Has("bundle", c)' = Has("bundle", c) /\ Has("linked", c)' = Has("linked", c)
        /\ Returned("bundle", c)' = Returned("bundle", c)
        /\ Returned("linked", c)' = Returned("linked", c)
        /\ Returned("user", c)' = Returned("user", c)
    BY <1>4 DEF Has, Returned, Holder
  <2> QED
    BY <1>6, <2>3, <2>4, <2>5 DEF Owned
<1> QED
  BY <1>8, <1>9

\* It is done with it.
LEMMA AppDoneOwned ==
  ASSUME MsInv, Counted, MsTyped', AppDone
  PROVE  /\ \A c \in Buf : Owned(c)'
         /\ ms'.queued_buffer_count = Cardinality(ms'.queued)
         /\ (ms.entry <=> ms.queued_buffer_count # 0) => (ms'.entry <=> ms'.queued_buffer_count # 0)
<1> USE MsFields, TypedNow DEF MsInv
<1>1. app.buf \in Buf /\ NoBuf \notin Buf
  BY MmStreamAssumption DEF AppDone
<1> PICK b \in Buf : b = app.buf
  BY <1>1
<1>2. /\ ms' \in BufDone(ms, b) /\ poll' = Async(poll, ms, ms') /\ held' = held
      /\ app'.queue = app.queue /\ app'.buf = NoBuf
  BY DEF AppDone
<1>3. \A c \in Buf : AtPoll(c)' = AtPoll(c)
  <2>1. poll'.pc = poll.pc /\ poll'.buf = poll.buf
    BY <1>2, AsyncTyped
  <2> QED
    BY <2>1, PollSame
<1>4. AtApp(b) = 1 /\ AtApp(b)' = 0
  BY <1>1, <1>2 DEF AtApp, Bit
<1>5. OwnedAs(ms.buf_refcnt[b], IsQueued(b), Refused(b), AtPoll(b),
              Has("bundle", b), Has("linked", b), Has("user", b), Returned("bundle", b),
              Returned("linked", b), Returned("user", b), InApp(b), AtApp(b))
  BY DEF OwnedInv, Owned
<1>6. ms.buf_refcnt[b] > 0
  <2>1. AtApp(b) > 0
    BY <1>4
  <2> QED
    BY <1>5, <2>1, PlacesNat, OfShare
<1>7. /\ \A c \in Buf : c # b => /\ ms'.buf_refcnt[c] = ms.buf_refcnt[c]
                                 /\ c \in ms'.queued <=> c \in ms.queued
                                 /\ c \in ms'.failed <=> c \in ms.failed
      /\ ms'.buf_refcnt[b] = ms.buf_refcnt[b] - 1
      /\ IsQueued(b)' \in Nat /\ Refused(b)' \in Nat
      /\ IsQueued(b)' = 1 => ms.buf_refcnt[b] - 1 = 0
      /\ IsQueued(b)' = 1 \/ Refused(b)' = 1 \/ ms.buf_refcnt[b] - 1 > 0
      /\ ms'.queued_buffer_count = Cardinality(ms'.queued)
      /\ (ms.entry <=> ms.queued_buffer_count # 0) => (ms'.entry <=> ms'.queued_buffer_count # 0)
  BY <1>2, <1>6, GivenBack
<1>8. Owned(b)'
  <2>1. PICK k2 \in Nat, f2 \in Nat : k2 = IsQueued(b)' /\ f2 = Refused(b)'
    BY <1>7
  <2>2. /\ k2 = 1 => ms.buf_refcnt[b] - 1 = 0
        /\ k2 = 1 \/ f2 = 1 \/ ms.buf_refcnt[b] - 1 > 0
    BY <1>7, <2>1
  <2>3. OwnedAs(ms.buf_refcnt[b] - 1, k2, f2, AtPoll(b),
                Has("bundle", b), Has("linked", b), Has("user", b), Returned("bundle", b),
                Returned("linked", b), Returned("user", b), InApp(b), 0)
    <3>1. OwnedAs(ms.buf_refcnt[b], IsQueued(b), Refused(b), AtPoll(b),
                  Has("bundle", b), Has("linked", b), Has("user", b), Returned("bundle", b),
                  Returned("linked", b), Returned("user", b), InApp(b), 1)
      BY <1>4, <1>5
    <3> QED
      BY <2>2, <3>1, PlacesNat, OfAppDone
  <2>4. InApp(b)' = InApp(b)
    BY <1>2 DEF InApp
  <2> QED
    BY <1>2, <1>3, <1>4, <1>7, <2>1, <2>3, <2>4, HeldSame DEF Owned
<1>9. ASSUME NEW c \in Buf, c # b PROVE Owned(c)'
  <2>1. InApp(c)' = InApp(c) /\ AtApp(c)' = AtApp(c)
    BY <1>1, <1>2, <1>9 DEF InApp, AtApp
  <2>2. Owned(c)
    BY DEF OwnedInv
  <2> QED
    BY <1>2, <1>3, <1>7, <1>9, <2>1, <2>2, OwnedSame
<1> QED
  BY <1>7, <1>8, <1>9

\* A holder has done with a frame and is about to return it.
LEMMA ReturnOwned ==
  ASSUME MsInv, Counted, MsTyped', NEW h \in Holder, NEW b \in Buf, Return(h, b), NEW c \in Buf
  PROVE  Owned(c)'
<1> USE MsFields, TypedNow DEF MsInv
<1>1. ms.state = "ACTIVE"
  BY DEF Return, Counted, CtlInv
<1>2. /\ ms' = ms /\ poll' = poll /\ app' = app /\ b \in held[h]
      /\ held' = [held EXCEPT ![h] = @ \ {b}, !["return"] = @ \cup {<<h, b>>}]
  BY <1>1 DEF Return
<1>3. /\ \A k \in Holder : k # "return" /\ k \in Holder \cup {"return"}
      /\ "return" \in Holder \cup {"return"}
      /\ held \in [Holder \cup {"return"} -> (SUBSET Buf) \cup SUBSET (Holder \X Buf)]
  BY DEF Holder, Helds
<1>4. /\ held'["return"] = held["return"] \cup {<<h, b>>}
      /\ \A k \in Holder : k # h => held'[k] = held[k]
      /\ held'[h] = held[h] \ {b}
  <2>1. h # "return" /\ h \in DOMAIN held /\ "return" \in DOMAIN held
    BY <1>3
  <2> QED
    BY <1>2, <1>3, <2>1
<1>5. OwnedAs(ms.buf_refcnt[c], IsQueued(c), Refused(c), AtPoll(c),
              Has("bundle", c), Has("linked", c), Has("user", c), Returned("bundle", c),
              Returned("linked", c), Returned("user", c), InApp(c), AtApp(c))
  BY DEF OwnedInv, Owned
<1>6. AtPoll(c)' = AtPoll(c) /\ InApp(c)' = InApp(c) /\ AtApp(c)' = AtApp(c)
  BY <1>2, PollSame, AppSame
<1>7. CASE c # b
  <2>1. \A k \in Holder : /\ c \in held'[k] <=> c \in held[k]
                          /\ <<k, c>> \in held'["return"] <=> <<k, c>> \in held["return"]
    BY <1>4, <1>7
  <2>2. Owned(c)
    BY DEF OwnedInv
  <2> QED
    BY <1>2, <1>6, <1>7, <2>1, <2>2, OwnedSame
<1>8. CASE c = b
  <2>1. Has(h, c) = 1 /\ Has(h, c)' = 0 /\ Returned(h, c)' = 1 /\ Returned(h, c) \in {0, 1}
    BY <1>2, <1>4, <1>8 DEF Has, Returned, Bit
  <2>2. ASSUME NEW k \in Holder, k # h
        PROVE  Has(k, c)' = Has(k, c) /\ Returned(k, c)' = Returned(k, c)
    <3>1. /\ c \in held'[k] <=> c \in held[k]
          /\ <<k, c>> \in held'["return"] <=> <<k, c>> \in held["return"]
      BY <1>4, <2>2
    <3> QED
      BY <3>1 DEF Has, Returned
  <2>3. IsQueued(c)' = IsQueued(c) /\ Refused(c)' = Refused(c) /\ ms'.buf_refcnt[c] = ms.buf_refcnt[c]
    BY <1>2 DEF IsQueued, Refused
  <2>4. h \in {"bundle", "linked", "user"} /\ Holder = {"bundle", "linked", "user"}
    BY DEF Holder
  <2>5. CASE h = "bundle"
    <3>1. Returned(h, c) = 0
      BY <1>5, <2>1, <2>5 DEF OwnedAs
    <3>2. OwnedAs(ms.buf_refcnt[c], IsQueued(c), Refused(c), AtPoll(c),
                  1, Has("linked", c), Has("user", c),
                  0, Returned("linked", c), Returned("user", c), InApp(c), AtApp(c))
      BY <1>5, <2>1, <2>5, <3>1
    <3>3. OwnedAs(ms.buf_refcnt[c], IsQueued(c), Refused(c), AtPoll(c),
                  0, Has("linked", c), Has("user", c),
                  1, Returned("linked", c), Returned("user", c), InApp(c), AtApp(c))
      BY <3>2, PlacesNat, OfReturn
    <3> QED
      BY <1>6, <2>1, <2>2, <2>3, <2>4, <2>5, <3>3 DEF Owned
  <2>6. CASE h = "linked"
    <3>1. Returned(h, c) = 0
      BY <1>5, <2>1, <2>6 DEF OwnedAs
    <3>2. OwnedAs(ms.buf_refcnt[c], IsQueued(c), Refused(c), AtPoll(c),
                  Has("bundle", c), 1, Has("user", c),
                  Returned("bundle", c), 0, Returned("user", c), InApp(c), AtApp(c))
      BY <1>5, <2>1, <2>6, <3>1
    <3>3. OwnedAs(ms.buf_refcnt[c], IsQueued(c), Refused(c), AtPoll(c),
                  Has("bundle", c), 0, Has("user", c),
                  Returned("bundle", c), 1, Returned("user", c), InApp(c), AtApp(c))
      BY <3>2, PlacesNat, OfReturn
    <3> QED
      BY <1>6, <2>1, <2>2, <2>3, <2>4, <2>6, <3>3 DEF Owned
  <2>7. CASE h = "user"
    <3>1. Returned(h, c) = 0
      BY <1>5, <2>1, <2>7 DEF OwnedAs
    <3>2. OwnedAs(ms.buf_refcnt[c], IsQueued(c), Refused(c), AtPoll(c),
                  Has("bundle", c), Has("linked", c), 1,
                  Returned("bundle", c), Returned("linked", c), 0, InApp(c), AtApp(c))
      BY <1>5, <2>1, <2>7, <3>1
    <3>3. OwnedAs(ms.buf_refcnt[c], IsQueued(c), Refused(c), AtPoll(c),
                  Has("bundle", c), Has("linked", c), 0,
                  Returned("bundle", c), Returned("linked", c), 1, InApp(c), AtApp(c))
      BY <3>2, PlacesNat, OfReturn
    <3> QED
      BY <1>6, <2>1, <2>2, <2>3, <2>4, <2>7, <3>3 DEF Owned
  <2> QED
    BY <2>4, <2>5, <2>6, <2>7
<1> QED
  BY <1>7, <1>8

\* It returns it.
LEMMA ReturnDoneOwned ==
  ASSUME MsInv, Counted, MsTyped', ReturnDone
  PROVE  /\ \A c \in Buf : Owned(c)'
         /\ ms'.queued_buffer_count = Cardinality(ms'.queued)
         /\ (ms.entry <=> ms.queued_buffer_count # 0) => (ms'.entry <=> ms'.queued_buffer_count # 0)
<1> USE MsFields, TypedNow DEF MsInv
<1>1. PICK r \in held["return"] :
         /\ ms' \in BufDone(ms, r[2]) /\ poll' = Async(poll, ms, ms') /\ app' = app
         /\ held' = [held EXCEPT !["return"] = @ \ {r}]
  BY DEF ReturnDone
<1> PICK h \in Holder, b \in Buf : r = <<h, b>>
  OBVIOUS
<1>2. ms' \in BufDone(ms, b)
  BY <1>1
<1>3. \A c \in Buf : AtPoll(c)' = AtPoll(c)
  <2>1. poll'.pc = poll.pc /\ poll'.buf = poll.buf
    BY <1>1, AsyncTyped
  <2> QED
    BY <2>1, PollSame
<1>4. held'["return"] = held["return"] \ {<<h, b>>} /\ \A k \in Holder : held'[k] = held[k]
  <2>1. /\ \A k \in Holder : k # "return" /\ k \in Holder \cup {"return"}
        /\ "return" \in Holder \cup {"return"}
        /\ held \in [Holder \cup {"return"} -> (SUBSET Buf) \cup SUBSET (Holder \X Buf)]
    BY DEF Holder, Helds
  <2> QED
    BY <1>1, <2>1
<1>5. OwnedAs(ms.buf_refcnt[b], IsQueued(b), Refused(b), AtPoll(b),
              Has("bundle", b), Has("linked", b), Has("user", b), Returned("bundle", b),
              Returned("linked", b), Returned("user", b), InApp(b), AtApp(b))
  BY DEF OwnedInv, Owned
<1>6. PICK rb \in Nat, rl \in Nat, ru \in Nat :
         /\ rb = Returned("bundle", b)' /\ rl = Returned("linked", b)' /\ ru = Returned("user", b)'
  BY DEF Returned, Bit
<1>7. /\ \A k \in Holder : k # h => (<<k, b>> \in held'["return"] <=> <<k, b>> \in held["return"])
      /\ <<h, b>> \in held["return"] /\ <<h, b>> \notin held'["return"]
  BY <1>4
<1>8. /\ rb <= Returned("bundle", b) /\ rl <= Returned("linked", b) /\ ru <= Returned("user", b)
      /\ rb + rl + ru = Returned("bundle", b) + Returned("linked", b) + Returned("user", b) - 1
  <2>1. h \in {"bundle", "linked", "user"} /\ Holder = {"bundle", "linked", "user"}
    BY DEF Holder
  <2>2. /\ rb = Bit(<<"bundle", b>> \in held'["return"])
        /\ rl = Bit(<<"linked", b>> \in held'["return"])
        /\ ru = Bit(<<"user", b>> \in held'["return"])
    BY <1>6 DEF Returned
  <2>3. CASE h = "bundle"
    BY <1>7, <2>1, <2>2, <2>3 DEF Returned, Bit
  <2>4. CASE h = "linked"
    BY <1>7, <2>1, <2>2, <2>4 DEF Returned, Bit
  <2>5. CASE h = "user"
    BY <1>7, <2>1, <2>2, <2>5 DEF Returned, Bit
  <2> QED
    BY <2>1, <2>3, <2>4, <2>5
<1>9. ms.buf_refcnt[b] > 0
  <2>1. Returned("bundle", b) > 0 \/ Returned("linked", b) > 0 \/ Returned("user", b) > 0
    <3>1. Returned(h, b) = 1 /\ h \in {"bundle", "linked", "user"}
      BY <1>7 DEF Returned, Bit, Holder
    <3> QED
      BY <3>1
  <2> QED
    BY <1>5, <2>1, PlacesNat, OfShare
<1>10. /\ \A c \in Buf : c # b => /\ ms'.buf_refcnt[c] = ms.buf_refcnt[c]
                                  /\ c \in ms'.queued <=> c \in ms.queued
                                  /\ c \in ms'.failed <=> c \in ms.failed
       /\ ms'.buf_refcnt[b] = ms.buf_refcnt[b] - 1
       /\ IsQueued(b)' \in Nat /\ Refused(b)' \in Nat
       /\ IsQueued(b)' = 1 => ms.buf_refcnt[b] - 1 = 0
       /\ IsQueued(b)' = 1 \/ Refused(b)' = 1 \/ ms.buf_refcnt[b] - 1 > 0
       /\ ms'.queued_buffer_count = Cardinality(ms'.queued)
       /\ (ms.entry <=> ms.queued_buffer_count # 0) => (ms'.entry <=> ms'.queued_buffer_count # 0)
  BY <1>2, <1>9, GivenBack
<1>11. Owned(b)'
  <2>1. PICK k2 \in Nat, f2 \in Nat : k2 = IsQueued(b)' /\ f2 = Refused(b)'
    BY <1>10
  <2>2. /\ k2 = 1 => ms.buf_refcnt[b] - 1 = 0
        /\ k2 = 1 \/ f2 = 1 \/ ms.buf_refcnt[b] - 1 > 0
    BY <1>10, <2>1
  <2>3. OwnedAs(ms.buf_refcnt[b] - 1, k2, f2, AtPoll(b),
                Has("bundle", b), Has("linked", b), Has("user", b), rb, rl, ru, InApp(b), AtApp(b))
    BY <1>5, <1>8, <2>2, PlacesNat, OfReturned
  <2>4. /\ Has("bundle", b)' = Has("bundle", b) /\ Has("linked", b)' = Has("linked", b)
        /\ Has("user", b)' = Has("user", b)
    BY <1>4 DEF Has, Holder
  <2> QED
    BY <1>1, <1>3, <1>6, <1>10, <2>1, <2>3, <2>4, AppSame DEF Owned
<1>12. ASSUME NEW c \in Buf, c # b PROVE Owned(c)'
  <2>1. \A k \in Holder : /\ c \in held'[k] <=> c \in held[k]
                          /\ <<k, c>> \in held'["return"] <=> <<k, c>> \in held["return"]
    BY <1>4, <1>12
  <2>2. Owned(c)
    BY DEF OwnedInv
  <2> QED
    BY <1>1, <1>3, <1>10, <1>12, <2>1, <2>2, AppSame, OwnedSame
<1> QED
  BY <1>10, <1>11, <1>12

\* Nothing happens to the buffers and their owners.
LEMMA OwnedStays ==
  ASSUME OwnedInv, Counted, ms'.buf_refcnt = ms.buf_refcnt, ms'.queued = ms.queued,
         ms'.failed = ms.failed, ms'.queued_buffer_count = ms.queued_buffer_count,
         (ms'.entry = ms.entry /\ ctl'.pc = ctl.pc) \/ ctl'.pc # "idle",
         held' = held, app'.queue = app.queue, app'.buf = app.buf,
         (poll'.buf = poll.buf /\ poll'.pc = poll.pc) \/ (poll.buf = NoBuf /\ poll'.buf = NoBuf)
  PROVE  OwnedInv'
<1>1. ASSUME NEW c \in Buf PROVE Owned(c)'
  <2>1. AtPoll(c)' = AtPoll(c)
    BY MmStreamAssumption DEF AtPoll
  <2>2. InApp(c)' = InApp(c) /\ AtApp(c)' = AtApp(c)
    BY DEF InApp, AtApp
  <2>3. Owned(c)
    BY DEF OwnedInv
  <2> QED
    BY <2>1, <2>2, <2>3, OwnedSame
<1>2. ms'.queued_buffer_count = Cardinality(ms'.queued)
  BY DEF OwnedInv
<1>3. ctl'.pc = "idle" => (ms'.entry <=> ms'.queued_buffer_count # 0)
  BY DEF OwnedInv
<1> QED
  BY <1>1, <1>2, <1>3 DEF OwnedInv

\* The poll thread and those who hold frames.
LEMMA DataOwned ==
  ASSUME HasCb, MsInv, MsTyped',
         PollThread \/ AppCallback \/ AppDone \/ ReturnDone
         \/ \E h \in Holder, b \in Buf : Return(h, b)
  PROVE  OwnedInv'
<1> USE DEF MsInv
<1>1. ms'.state = ms.state /\ ms'.on = ms.on /\ ctl'.pc = ctl.pc
  BY DataCtl
<1> SUFFICES ASSUME Counted PROVE OwnedInv'
  BY <1>1 DEF OwnedInv, Counted
<1>2. /\ ms.queued_buffer_count = Cardinality(ms.queued)
      /\ ctl.pc = "idle" => (ms.entry <=> ms.queued_buffer_count # 0)
  BY DEF OwnedInv
<1>3. ASSUME \A c \in Buf : Owned(c)',
             ms'.queued_buffer_count = Cardinality(ms'.queued),
             (ms.entry <=> ms.queued_buffer_count # 0) => (ms'.entry <=> ms'.queued_buffer_count # 0)
      PROVE  OwnedInv'
  BY <1>1, <1>2, <1>3 DEF OwnedInv
<1>4. ASSUME ms'.queued = ms.queued, ms'.queued_buffer_count = ms.queued_buffer_count,
             ms'.entry = ms.entry, \A c \in Buf : Owned(c)'
      PROVE  OwnedInv'
  BY <1>2, <1>3, <1>4
<1>5. CASE ProcPipe \/ PollReturns
  <2>1. ms' = ms /\ held' = held /\ app' = app /\ poll'.buf = poll.buf
    BY <1>5, MsFields DEF ProcPipe, PollReturns
  <2>2. poll'.pc = poll.pc \/ (poll.buf = NoBuf /\ poll'.buf = NoBuf)
    BY <1>5, <2>1 DEF ProcPipe, PollReturns, CtlInv
  <2> QED
    BY <1>1, <2>1, <2>2, OwnedStays
<1>6. CASE DataNotify
  <2>1. poll.buf = NoBuf /\ UNCHANGED <<app, held>>
    BY <1>6 DEF DataNotify, CtlInv
  <2>2. ASSUME NEW b \in ms.queued, Dequeue(b), ms.entry
        PROVE  OwnedInv'
    <3>1. /\ ms'.queued = ms.queued \ {b} /\ ms'.queued_buffer_count = ms.queued_buffer_count - 1
          /\ ms'.entry = (ms.entry /\ ms.queued_buffer_count - 1 # 0)
      BY <2>2, MsFields DEF Dequeue
    <3>2. Cardinality(ms.queued \ {b}) = Cardinality(ms.queued) - 1
      BY <2>2, QueuedNow, FS_RemoveElement
    <3>3. \A c \in Buf : Owned(c)'
      BY <2>1, <2>2, DequeueOwned
    <3> QED
      BY <1>2, <1>3, <2>2, <3>1, <3>2, <3>3
  <2>3. CASE poll' = [poll EXCEPT !.pc = "poll"] /\ UNCHANGED ms
    <3>1. poll'.buf = NoBuf
      BY <2>1, <2>3
    <3> QED
      BY <1>1, <2>1, <2>3, <3>1, OwnedStays
  <2> QED
    BY <1>6, <2>2, <2>3 DEF DataNotify
<1>7. CASE Mark
  <2>1. ms'.queued = ms.queued /\ ms'.queued_buffer_count = ms.queued_buffer_count /\ ms'.entry = ms.entry
    BY <1>7 DEF Mark
  <2> QED
    BY <1>4, <1>7, <2>1, MarkOwned
<1>8. CASE Link
  <2>1. ms'.queued = ms.queued /\ ms'.queued_buffer_count = ms.queued_buffer_count /\ ms'.entry = ms.entry
    BY <1>8, MsFields DEF Link
  <2> QED
    BY <1>4, <1>8, <2>1, LinkOwned
<1>9. CASE SkipFrame
  BY <1>3, <1>9, SkipOwned
<1>10. CASE EnqueueForApp
  <2>1. ms' = ms
    BY <1>10 DEF EnqueueForApp
  <2> QED
    BY <1>4, <1>10, <2>1, EnqueueOwned
<1>11. CASE AppCallback
  <2>1. ms'.queued = ms.queued /\ ms'.queued_buffer_count = ms.queued_buffer_count /\ ms'.entry = ms.entry
    BY <1>11 DEF AppCallback
  <2> QED
    BY <1>4, <1>11, <2>1, CallbackOwned
<1>12. CASE AppDone
  BY <1>3, <1>12, AppDoneOwned
<1>13. CASE ReturnDone
  BY <1>3, <1>13, ReturnDoneOwned
<1>14. ASSUME NEW h \in Holder, NEW b \in Buf, Return(h, b)
       PROVE  OwnedInv'
  <2>1. ms' = ms
    BY <1>14 DEF Return
  <2> QED
    BY <1>4, <1>14, <2>1, ReturnOwned
<1> QED
  BY <1>5, <1>6, <1>7, <1>8, <1>9, <1>10, <1>11, <1>12, <1>13, <1>14 DEF PollThread

\* The registration: the kernel has the buffers of InitReg, the HAL the others.
LEMMA RegisterOwned ==
  ASSUME MsInv, MsTyped', RegBuf
  PROVE  OwnedInv'
<1> USE MsFields, TypedNow DEF MsInv
<1>1. /\ ctl.pc = "idle" /\ ms.state = "BUFFED" /\ app' = app
      /\ \A h \in DOMAIN held : held[h] = {}
  BY DEF RegBuf
<1>2. PICK given \in SUBSET InitReg :
         \/ /\ given = InitReg /\ ctl' = ctl
            /\ ms' = [Register(given) EXCEPT !.state = "REG"]
            /\ held' = [held EXCEPT !["user"] = Buf \ InitReg]
         \/ /\ ms' = Register(given) /\ ctl' = [ctl EXCEPT !.pc = "unwind"] /\ held' = held
  BY RegBufIs
<1>3. PICK r : r = Register(given)
  OBVIOUS
<1>4. /\ r \in Stream /\ r.state = ms.state /\ r.on = ms.on /\ r.queued = given
      /\ IsFiniteSet(given) /\ r.queued_buffer_count = Cardinality(given)
      /\ r.queued_buffer_count \in Nat
      /\ r.entry = (ms.entry \/ r.queued_buffer_count > 0)
      /\ \A b \in Buf : r.buf_refcnt[b] = IF b \in given THEN 0
                                          ELSE IF b \notin InitReg THEN 1 ELSE ms.buf_refcnt[b]
  BY <1>3, Registered
<1>5. CASE ms' = Register(given) /\ ctl' = [ctl EXCEPT !.pc = "unwind"]
  <2>1. ctl'.pc = "unwind" /\ ~ms'.on
    BY <1>1, <1>3, <1>4, <1>5 DEF CtlInv
  <2> QED
    BY <2>1 DEF OwnedInv, Counted
<1>6. CASE given = InitReg /\ ms' = [Register(given) EXCEPT !.state = "REG"]
           /\ held' = [held EXCEPT !["user"] = Buf \ InitReg]
  <2>1. /\ ms'.queued = InitReg /\ ms'.queued_buffer_count = Cardinality(InitReg)
        /\ ms'.queued_buffer_count \in Nat
        /\ ms'.entry = (ms.entry \/ ms'.queued_buffer_count > 0)
        /\ ms'.buf_refcnt = r.buf_refcnt
    BY <1>3, <1>4, <1>6 DEF Stream
  <2>2. ms'.queued_buffer_count # 0
    BY <1>4, <1>6, <2>1, MmStreamAssumption, FS_EmptySet
  <2>3. ms'.entry
    <3>1. ms'.queued_buffer_count > 0
      BY <2>1, <2>2
    <3> QED
      BY <2>1, <3>1
  <2>4. ASSUME NEW c \in Buf PROVE Owned(c)'
    <3>1. AtPoll(c)' = "poll"
      <4>1. poll'.buf = NoBuf
        BY <1>1, RegBufIs DEF CtlInv
      <4> QED
        BY <4>1, MmStreamAssumption DEF AtPoll
    <3>2. InApp(c)' = 0 /\ AtApp(c)' = 0
      <4>1. app.queue = <<>> /\ app.buf = NoBuf
        BY <1>1 DEF CtlInv
      <4> QED
        BY <1>1, <4>1, CountEmpty, MmStreamAssumption DEF InApp, AtApp, Bit
    <3>3. /\ Has("bundle", c)' = 0 /\ Has("linked", c)' = 0
          /\ Returned("bundle", c)' = 0 /\ Returned("linked", c)' = 0 /\ Returned("user", c)' = 0
          /\ Has("user", c)' = Bit(c \notin InitReg)
      <4>1. /\ held'["user"] = Buf \ InitReg
            /\ held'["bundle"] = {} /\ held'["linked"] = {} /\ held'["return"] = {}
        BY <1>1, <1>6 DEF Holder, Helds
      <4> QED
        BY <4>1 DEF Has, Returned, Bit
    <3>4. /\ IsQueued(c)' = Bit(c \in InitReg) /\ Refused(c)' \in Nat
          /\ ms'.buf_refcnt[c] = IF c \in InitReg THEN 0 ELSE 1
      BY <1>4, <1>6, <2>1 DEF IsQueued, Refused, Bit
    <3>5. Coming("poll") = 0
      BY DEF Coming, Bit
    <3>6. CASE c \in InitReg
      <4>1. ms'.buf_refcnt[c] = 0 /\ IsQueued(c)' = 1 /\ Has("user", c)' = 0
        BY <3>3, <3>4, <3>6 DEF Bit
      <4> QED
        BY <3>1, <3>2, <3>3, <3>4, <3>5, <4>1 DEF Owned, OwnedAs
    <3>7. CASE c \notin InitReg
      <4>1. ms'.buf_refcnt[c] = 1 /\ IsQueued(c)' = 0 /\ Has("user", c)' = 1
        BY <3>3, <3>4, <3>7 DEF Bit
      <4> QED
        BY <3>1, <3>2, <3>3, <3>4, <3>5, <4>1 DEF Owned, OwnedAs
    <3> QED
      BY <3>6, <3>7
  <2> QED
    BY <2>1, <2>2, <2>3, <2>4 DEF OwnedInv
<1> QED
  BY <1>2, <1>5, <1>6

\* The control thread.
LEMMA ControlOwned ==
  ASSUME MsInv, MsTyped', CtlInv', Control
  PROVE  OwnedInv'
<1> USE DEF MsInv
<1>1. CASE MsInitStream \/ Acquire \/ SetFmt \/ Release \/ GetBuf \/ UnregBuf
  <2>1. /\ ms'.on = ms.on /\ ms.state # "ACTIVE"
        /\ ms'.state # "REG"
    BY <1>1, MsFields DEF MsInitStream, Acquire, SetFmt, Release, GetBuf, UnregBuf, Event
  <2>2. ~Counted'
    BY <2>1 DEF Counted, CtlInv
  <2> QED
    BY <2>2 DEF OwnedInv
<1>2. CASE PutBuf
  <2>1. ms'.on = ms.on /\ ms.state = "BUFFED" /\ ms'.state = "CFG"
    BY <1>2, MsFields DEF PutBuf
  <2>2. ~Counted'
    BY <2>1 DEF Counted, CtlInv
  <2> QED
    BY <2>2 DEF OwnedInv
<1>3. CASE RegBuf
  BY <1>3, RegisterOwned
<1>4. CASE Start
  <2>1. /\ ms'.buf_refcnt = ms.buf_refcnt /\ ms'.queued = ms.queued /\ ms'.failed = ms.failed
        /\ ms'.queued_buffer_count = ms.queued_buffer_count /\ ms'.entry = ms.entry
        /\ ctl' = ctl /\ held' = held /\ poll' = poll
        /\ app'.queue = app.queue /\ app'.buf = app.buf
    BY <1>4, MsFields DEF Start
  <2>2. Counted
    BY <1>4 DEF Start, Counted
  <2> QED
    BY <2>1, <2>2, OwnedStays
<1>5. CASE StartFails \/ Unstart \/ StreamOff \/ Join
  <2>1. ctl'.pc \in {"unstart", "join", "unwind"}
    BY <1>5, MsFields DEF StartFails, Unstart, StreamOff, Join
  <2>2. ~Counted'
    BY <2>1 DEF Counted, CtlInv
  <2> QED
    BY <2>2 DEF OwnedInv
<1>6. CASE Stop
  <2>1. /\ ms'.buf_refcnt = ms.buf_refcnt /\ ms'.queued = ms.queued /\ ms'.failed = ms.failed
        /\ ms'.queued_buffer_count = ms.queued_buffer_count
        /\ poll'.pc = poll.pc /\ poll'.buf = poll.buf
    <3>1. CASE DelPollFd
      BY <3>1, MsFields DEF DelPollFd, Send
    <3>2. CASE Send("COMMIT") /\ UNCHANGED ms
      BY <3>2, MsFields DEF Send
    <3> QED
      BY <1>6, <3>1, <3>2 DEF Stop
  <2>2. ctl'.pc = "off" /\ app' = app /\ held' = held
    BY <1>6 DEF Stop
  <2>3. Counted
    BY <1>6 DEF Stop, Counted, CtlInv
  <2> QED
    BY <2>1, <2>2, <2>3, OwnedStays
<1> QED
  BY <1>1, <1>2, <1>3, <1>4, <1>5, <1>6 DEF Control

-----------------------------------------------------------------------------
(* The theorems about a stream.                                             *)

LEMMA MsInvInit ==
  ASSUME MsInit
  PROVE  MsInv
<1>1. MsTyped
  <2>1. ms \in Stream
    BY DEF MsInit, Stream, StreamState
  <2>2. poll \in Polls /\ app \in Apps /\ ctl \in Ctls
    BY DEF MsInit, Polls, Apps, Ctls
  <2>3. held \in Helds /\ held["return"] \in SUBSET (Holder \X Buf)
        /\ \A h \in Holder : held[h] \in SUBSET Buf
    BY DEF MsInit, Helds
  <2> QED
    BY <2>1, <2>2, <2>3 DEF MsTyped, MsTypeOK, Polls, Apps, Ctls, Helds
<1>2. CtlInv /\ FdsInv /\ OwnedInv
  <2>1. /\ ms.state = "NOTUSED" /\ ms.on = FALSE /\ ms.entry = FALSE
        /\ poll.pc = "poll" /\ poll.buf = NoBuf /\ poll.fds = FALSE
        /\ app.active = FALSE /\ app.queue = <<>> /\ app.buf = NoBuf /\ ctl.pc = "idle"
    BY DEF MsInit
  <2> QED
    BY <2>1 DEF CtlInv, FdsInv, OwnedInv, Counted
<1> QED
  BY <1>1, <1>2 DEF MsInv

LEMMA MsInvStep ==
  ASSUME HasCb, MsInv, [MsNext]_msVars
  PROVE  MsInv'
<1>1. CASE UNCHANGED msVars
  <2> USE <1>1 DEF msVars, MsInv
  <2>1. MsTyped'
    BY TypedNow, TypedFrom
  <2>2. CtlInv' /\ FdsInv'
    BY DEF CtlInv, FdsInv
  <2>3. ASSUME Counted, NEW c \in Buf PROVE Owned(c)'
    <3>1. AtPoll(c)' = AtPoll(c)
      BY PollSame
    <3>2. Owned(c)
      BY <2>3 DEF OwnedInv
    <3> QED
      BY <3>1, <3>2, AppSame, OwnedSame
  <2>4. OwnedInv'
    <3>1. Counted' <=> Counted
      BY DEF Counted
    <3> QED
      BY <2>3, <3>1 DEF OwnedInv
  <2> QED
    BY <2>1, <2>2, <2>4
<1>2. CASE MsNext
  <2>1. MsTyped'
    BY <1>2, PollTyped, HolderTyped, ControlTyped DEF MsNext, MsInv
  <2>2. CtlInv'
    BY <1>2, DataCtl, ControlCtl DEF MsNext, MsInv
  <2>3. FdsInv'
    BY <1>2, FdsStep DEF MsInv
  <2>4. OwnedInv'
    BY <1>2, <2>1, <2>2, DataOwned, ControlOwned DEF MsNext
  <2> QED
    BY <2>1, <2>2, <2>3, <2>4 DEF MsInv
<1> QED
  BY <1>1, <1>2

LEMMA OwnedMeans ==
  ASSUME HasCb, MsInv
  PROVE  BuffersOwned
<1> USE MsFields DEF MsInv
<1>1. ASSUME ms.on, NEW b \in Buf
      PROVE  /\ ms.buf_refcnt[b] = Users(b) + Coming(AtPoll(b))
             /\ Coming(AtPoll(b)) = Bit(HasCb /\ poll.buf = b /\ poll.pc \in {"link", "app"})
             /\ b \in ms.queued => Users(b) = 0 /\ poll.buf # b
             /\ b \in ms.queued \/ b \in ms.failed \/ Users(b) > 0 \/ poll.buf = b
  <2>1. OwnedAs(ms.buf_refcnt[b], IsQueued(b), Refused(b), AtPoll(b),
                Has("bundle", b), Has("linked", b), Has("user", b), Returned("bundle", b),
                Returned("linked", b), Returned("user", b), InApp(b), AtApp(b))
    BY <1>1 DEF OwnedInv, Counted, Owned
  <2>2. PICK u \in Nat : u = Users(b) /\ u = Has("bundle", b) + Has("linked", b) + Has("user", b)
                    + Returned("bundle", b) + Returned("linked", b) + Returned("user", b)
                    + InApp(b) + AtApp(b)
    BY UsersOneByOne
  <2>3. PICK n \in Nat : n = Coming(AtPoll(b))
    BY DEF Coming, Bit
  <2>4. ms.buf_refcnt[b] = u + n
    <3>1. ms.buf_refcnt[b] = Has("bundle", b) + Has("linked", b) + Has("user", b)
                    + Returned("bundle", b) + Returned("linked", b) + Returned("user", b)
                    + InApp(b) + AtApp(b) + Coming(AtPoll(b))
      BY <2>1 DEF OwnedAs
    <3> QED
      BY <2>2, <2>3, <3>1
  <2>5. n = Bit(HasCb /\ poll.buf = b /\ poll.pc \in {"link", "app"})
    BY <2>3 DEF Coming, AtPoll, Bit
  <2>6. /\ IsQueued(b) = 1 <=> b \in ms.queued
        /\ Refused(b) = 1 <=> b \in ms.failed
    BY DEF IsQueued, Refused, Bit
  <2>7. b \in ms.queued => u = 0 /\ poll.buf # b
    <3>1. SUFFICES ASSUME b \in ms.queued PROVE u = 0 /\ poll.buf # b
      OBVIOUS
    <3>2. ms.buf_refcnt[b] = 0 /\ AtPoll(b) \notin {"mark", "link", "app"}
      BY <2>1, <2>6, <3>1 DEF OwnedAs
    <3>3. u = 0
      BY <2>4, <3>2
    <3>4. poll.buf # b
      BY <3>2, MmStreamAssumption DEF AtPoll, CtlInv
    <3> QED
      BY <3>3, <3>4
  <2>8. b \in ms.queued \/ b \in ms.failed \/ u > 0 \/ poll.buf = b
    <3>1. b \in ms.queued \/ b \in ms.failed \/ ms.buf_refcnt[b] > 0 \/ AtPoll(b) = "mark"
      BY <2>1, <2>6 DEF OwnedAs
    <3>2. AtPoll(b) = "mark" => poll.buf = b
      BY DEF AtPoll
    <3>3. n > 0 => poll.buf = b
      BY <2>5 DEF Bit
    <3>4. ms.buf_refcnt[b] > 0 => u > 0 \/ n > 0
      BY <2>4
    <3> QED
      BY <3>1, <3>2, <3>3, <3>4
  <2> QED
    BY <2>2, <2>3, <2>4, <2>5, <2>7, <2>8
<1>2. RefcntIsUsers
  BY <1>1 DEF RefcntIsUsers
<1>3. KernelOwnsAlone
  BY <1>1 DEF KernelOwnsAlone
<1>4. NoBufferLost
  BY <1>1 DEF NoBufferLost
<1>5. PolledIfQueued
  <2>1. SUFFICES ASSUME ms.on, ctl.pc = "idle", poll.pipe = <<>>
                 PROVE  poll.fds <=> ms.queued # {}
    BY DEF PolledIfQueued
  <2>2. poll.fds = ms.entry
    BY <2>1 DEF FdsInv, Rebuilds
  <2>3. ms.entry <=> ms.queued_buffer_count # 0
    BY <2>1 DEF OwnedInv, Counted
  <2>4. ms.queued # {} <=> ms.queued_buffer_count # 0
    BY <2>1, QueuedNow DEF Counted
  <2> QED
    BY <2>2, <2>3, <2>4
<1> QED
  BY <1>2, <1>3, <1>4, <1>5 DEF BuffersOwned

LEMMA MsInvariant ==
  ASSUME HasCb
  PROVE  MsSpec => []MsInv
<1>1. MsInit => MsInv
  BY MsInvInit
<1>2. MsInv /\ [MsNext]_msVars => MsInv'
  BY MsInvStep
<1> QED
  BY <1>1, <1>2, PTL DEF MsSpec

\* The fields of a stream and of its threads have their types: no count gets
\* below zero, above all queued_buffer_count, which mm_stream_read_msm_frame
\* lowers without a look at it.
THEOREM StreamTyped == HasCb => (MsSpec => []MsTypeOK)
<1>1. MsInv => MsTypeOK
  BY DEF MsInv, MsTyped
<1>2. ASSUME HasCb PROVE MsSpec => []MsTypeOK
  BY <1>1, <1>2, MsInvariant, PTL
<1> QED
  BY <1>2

\* While a stream is on, the count of a buffer is the number of those who have
\* it, whoever gets and returns it when; the kernel never writes to one that
\* somebody has; none is lost but those the kernel refuses; and the stream is
\* polled when the kernel has some of its buffers.
THEOREM BuffersAreOwned == HasCb => (MsSpec => []BuffersOwned)
<1>1. ASSUME HasCb PROVE MsInv => BuffersOwned
  BY <1>1, OwnedMeans
<1>2. ASSUME HasCb PROVE MsSpec => []BuffersOwned
  <2>1. MsInv => BuffersOwned
    BY <1>1, <1>2
  <2> QED
    BY <1>2, <2>1, MsInvariant, PTL
<1> QED
  BY <1>2

-----------------------------------------------------------------------------
(* The parts together.                                                     *)

\* A behaviour of the camera stack in one run is one of each of its parts,
\* so that the theorems about the parts hold of it.
LEMMA PartsOfCamera ==
    Spec => MsSpec /\ McSpec /\ CbSpec /\ DwSpec /\ PpSpec /\ MjSpec
<1>1. Init => MsInit /\ McInit /\ CbInit /\ DwInit /\ PpInit /\ MjInit
  BY DEF Init
<1>2. [Next]_partVars => [MsNext]_msVars
  BY DEF Next, partVars, InStream, InCamera, InNotifier, InDeferred, InPostProc, InJpeg
<1>3. [Next]_partVars => [McNext]_mcVars
  BY DEF Next, partVars, InStream, InCamera, InNotifier, InDeferred, InPostProc, InJpeg
<1>4. [Next]_partVars => [CbNext]_cbVars
  BY DEF Next, partVars, InStream, InCamera, InNotifier, InDeferred, InPostProc, InJpeg
<1>5. [Next]_partVars => [DwNext]_dwVars
  BY DEF Next, partVars, InStream, InCamera, InNotifier, InDeferred, InPostProc, InJpeg
<1>6. [Next]_partVars => [PpNext]_ppVars
  BY DEF Next, partVars, InStream, InCamera, InNotifier, InDeferred, InPostProc, InJpeg
<1>7. [Next]_partVars => [MjNext]_mjVars
  BY DEF Next, partVars, InStream, InCamera, InNotifier, InDeferred, InPostProc, InJpeg
<1> QED
  BY <1>1, <1>2, <1>3, <1>4, <1>5, <1>6, <1>7, PTL
     DEF Spec, MsSpec, McSpec, CbSpec, DwSpec, PpSpec, MjSpec

\* Every variable of the camera stack stays in its type, whichever part runs,
\* for streams with a callback and no burst (the two that JpegTyped and
\* StreamTyped ask for), as long as nothing goes astray in mm-jpeg-interface.
THEOREM CameraPartsTyped == HasCb /\ ~Burst => (Spec => [](astray \/ CameraTypeOK))
<1>1. MsTypeOK /\ McTypeOK /\ CbTypeOK /\ DwTypeOK /\ PpTypeOK /\ MjTypeOK => CameraTypeOK
  BY DEF CameraTypeOK
<1> QED
  BY <1>1, PartsOfCamera, StreamTyped, CameraTyped, NotifierTyped, DeferredTyped, PostProcTyped,
     JpegTyped, PTL
=============================================================================
