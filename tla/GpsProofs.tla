----------------------------- MODULE GpsProofs -----------------------------
(* Theorems about the parts of the GPS HAL, for every value of their         *)
(* constants.  The synchronous requests: IInv says what the receive thread   *)
(* knows while it walks the slots, and who holds a slot.  The message task:  *)
(* MtInv says who holds the delegate, where each message is, and that what   *)
(* was accepted is what was handled followed by what is queued.  The timers: *)
(* the stop of a client and the expiry of its timer race; LtInv follows a    *)
(* delegate through the messages, the heap and the task, and says that its   *)
(* removal is the last message about it.  The AGPS machine: AgInv relates    *)
(* what each connection was told to its messages and its subscription.       *)
(* PartsOfGps: the theorems about the parts hold of the joined model.        *)
EXTENDS MCGps, QueuesProofs

\* What the receive thread knows while it walks: it holds an indication, the
\* array is in use, and it has seen whether a slot below walk.i is in use.
WalkInv ==
    lock => /\ in_use
            /\ walk.msg \in Response
            /\ walk.in_use <=> \E j \in Slot : j < walk.i /\ slot_in_use[j]
            /\ walk.consumed => walk.in_use

\* A call in progress names the indication it asks for.
CallsNameInd == \A c \in Caller : pc[c] # "idle" => call[c].ind \in Ind

\* A slot that nobody holds is not waiting.
FreeSlotsIdle ==
    \A i \in Slot : ~slot_in_use[i] => ~slots[i].ind_is_waiting

IInv ==
    /\ TypeOK
    /\ WalkInv
    /\ CallsNameInd
    /\ SlotOwnership
    /\ InUseTracksSlots
    /\ PayloadOwned
    /\ FreeSlotsIdle
    /\ WaitingFlagExact
    /\ NoInternalFailure

-----------------------------------------------------------------------------
\* The state that loc_sync_req_init leaves satisfies the invariant.
LEMMA InitIInv == Init => IInv
<1> SUFFICES ASSUME Init PROVE IInv
  OBVIOUS
<1> USE SlotAssumption, NoneAssumption, BoundAssumption
<1>1. TypeOK
  <2>1. FreeSlot \in SlotType
    BY DEF FreeSlot, SlotType
  <2>2. IdleCall \in CallType
    BY DEF IdleCall, CallType
  <2>3. IdleWalk \in WalkType
    BY DEF IdleWalk, WalkFrom, WalkType
  <2> QED
    BY <2>1, <2>2, <2>3 DEF Init, TypeOK
<1>2. WalkInv /\ CallsNameInd /\ SlotOwnership /\ InUseTracksSlots
  BY DEF Init, WalkInv, CallsNameInd, SlotOwnership, InUseTracksSlots, Holding
<1>3. PayloadOwned /\ FreeSlotsIdle /\ WaitingFlagExact /\ NoInternalFailure
  BY DEF Init, PayloadOwned, FreeSlotsIdle, WaitingFlagExact,
         NoInternalFailure, FreeSlot, IdleCall, Holding
<1> QED
  BY <1>1, <1>2, <1>3 DEF IInv

\* Every action keeps the variables in their types.
LEMMA NextTypeOK == TypeOK /\ WalkInv /\ CallsNameInd /\ [Next]_vars => TypeOK'
<1> SUFFICES ASSUME TypeOK, WalkInv, CallsNameInd, [Next]_vars PROVE TypeOK'
  OBVIOUS
<1> USE DEF TypeOK, arrayVars
<1>1. ASSUME NEW c \in Caller, NEW ind \in Ind, NEW ptr \in BOOLEAN,
             Call(c, ind, ptr)
      PROVE TypeOK'
  <2>1. call[c].n + 1 \in 0 .. MaxCalls
    BY <1>1, BoundAssumption DEF Call, CallType
  <2>2. [IdleCall EXCEPT !.n = call[c].n + 1, !.ind = ind, !.ptr = ptr]
            \in CallType
    BY <2>1 DEF IdleCall, CallType
  <2> QED
    BY <1>1, <2>2 DEF Call
<1>2. ASSUME NEW c \in Caller, AllocSlot(c) PROVE TypeOK'
  <2>1. PICK i \in Slot : /\ slot_in_use' = [slot_in_use EXCEPT ![i] = TRUE]
                          /\ call' = [call EXCEPT ![c].select_id = i]
    BY <1>2 DEF AllocSlot
  <2>2. [call[c] EXCEPT !.select_id = i] \in CallType
    BY DEF CallType
  <2> QED
    BY <1>2, <2>1, <2>2 DEF AllocSlot
<1>3. ASSUME NEW c \in Caller, AllocFull(c) PROVE TypeOK'
  <2>1. [call[c] EXCEPT !.ret = "SUCCESS"] \in CallType
    BY DEF CallType
  <2> QED
    BY <1>3, <2>1 DEF AllocFull
<1>4. ASSUME NEW c \in Caller, SelectInd(c) PROVE TypeOK'
  <2>1. [FreeSlot EXCEPT !.recv_ind_id = call[c].ind,
                         !.payload = IF call[c].ptr THEN c ELSE None]
            \in SlotType
    BY DEF SlotType, CallType, FreeSlot
  <2> QED
    BY <1>4, <2>1 DEF SelectInd
<1>5. ASSUME NEW c \in Caller, SendReq(c) PROVE TypeOK'
  <2>1. [call[c] EXCEPT !.sent = TRUE] \in CallType
    BY DEF CallType
  <2>2. call[c].ind \in Ind
    BY <1>5 DEF SendReq, CallsNameInd
  <2>3. pending' \subseteq Response
    BY <1>5, <2>2 DEF SendReq, RequestSent, CallType, Response
  <2> QED
    BY <1>5, <2>1, <2>3 DEF SendReq
<1>6. ASSUME NEW c \in Caller, SendReqFails(c) PROVE TypeOK'
  <2>1. [call[c] EXCEPT !.ret = "FAILURE"] \in CallType
    BY DEF CallType
  <2>2. call[c].ind \in Ind
    BY <1>6 DEF SendReqFails, CallsNameInd
  <2>3. pending' \subseteq Response
    BY <1>6, <2>2 DEF SendReqFails, RequestSent, CallType, Response
  <2> QED
    BY <1>6, <2>1, <2>3 DEF SendReqFails
<1>7. ASSUME NEW c \in Caller, WaitForInd(c) PROVE TypeOK'
  <2>1. \A i \in Slot : [slots[i] EXCEPT !.ind_is_waiting = TRUE] \in SlotType
    BY DEF SlotType
  <2> QED
    BY <1>7, <2>1 DEF WaitForInd
<1>8. ASSUME NEW c \in Caller, WaitAtOnce(c) PROVE TypeOK'
  <2>1. \A r \in {"SUCCESS", "INTERNAL"} :
            [call[c] EXCEPT !.ret = r] \in CallType
    BY DEF CallType
  <2> QED
    BY <1>8, <2>1 DEF WaitAtOnce
<1>9. ASSUME NEW c \in Caller, TimeOut(c) PROVE TypeOK'
  BY <1>9 DEF TimeOut, Unsignalled
<1>10. ASSUME NEW c \in Caller, WaitReturns(c) PROVE TypeOK'
  <2>1. \A i \in Slot : DoneWaiting(slots[i]) \in SlotType
    BY DEF SlotType, DoneWaiting
  <2>2. [call[c] EXCEPT !.ret = StatusOfWait(c)] \in CallType
    BY DEF CallType, StatusOfWait
  <2> QED
    BY <1>10, <2>1, <2>2 DEF WaitReturns
<1>11. ASSUME NEW c \in Caller, LocFreeSlot(c) PROVE TypeOK'
  <2>1. FreeSlot \in SlotType
    BY DEF SlotType, FreeSlot
  <2> QED
    BY <1>11, <2>1 DEF LocFreeSlot, Cleared, OthersInUse
<1>12. ASSUME NEW c \in Caller, Return(c) PROVE TypeOK'
  <2>1. [IdleCall EXCEPT !.n = call[c].n] \in CallType
    BY DEF IdleCall, CallType
  <2> QED
    BY <1>12, <2>1 DEF Return
<1>13. ASSUME NEW m \in pending, ProcessInd(m) PROVE TypeOK'
  <2>1. m \in Response
    OBVIOUS
  <2>2. WalkFrom(m) \in WalkType
    BY <2>1, SlotAssumption DEF WalkFrom, WalkType
  <2> QED
    BY <1>13, <2>2 DEF ProcessInd
<1>14. ASSUME VisitSlot PROVE TypeOK'
  <2> HIDE DEF TypeOK
  <2> DEFINE i == walk.i
             copies == Matches(i, walk.msg) /\ slots[i].payload # None
             after(c) == [call[c] EXCEPT
                 !.buf = IF copies /\ slots[i].payload = c THEN walk.msg ELSE @,
                 !.matched = @ \/ (Matches(i, walk.msg) /\ InTime(c, i))]
             walked == [walk EXCEPT !.i = i + 1,
                                    !.in_use = walk.in_use \/ slot_in_use[i],
                                    !.consumed = copies]
  <2>1. /\ lock
        /\ i < NSlot
        /\ walk' = walked
        /\ call' = [c \in Caller |-> after(c)]
        /\ \/ pc' = [c \in Caller |-> IF c \in Sleeper(i) THEN "woken" ELSE pc[c]]
           \/ UNCHANGED pc
        /\ slots' = [slots EXCEPT ![i] = Remembered(@)] \/ UNCHANGED slots
        /\ UNCHANGED <<in_use, slot_in_use, lock, pending>>
    BY <1>14 DEF VisitSlot
  <2>2. walk.msg \in Response /\ walk.i \in 0 .. NSlot /\ walk \in WalkType
    BY <2>1 DEF TypeOK, WalkInv, WalkType
  <2>3. i \in Slot /\ i + 1 \in 0 .. NSlot
    <3>1. walk.i \in 0 .. NSlot /\ walk.i < NSlot /\ NSlot \in Nat
      BY <2>1, <2>2, SlotAssumption
    <3> QED
      BY <3>1 DEF Slot
  <2>4. walked \in WalkType
    <3>1. (walk.in_use \/ slot_in_use[i]) \in BOOLEAN /\ copies \in BOOLEAN
      OBVIOUS
    <3> HIDE DEF i, copies
    <3> QED
      BY <2>2, <2>3, <3>1 DEF WalkType
  <2>5. ASSUME NEW c \in Caller PROVE after(c) \in CallType
    <3> DEFINE m == Matches(i, walk.msg) /\ InTime(c, i)
               b == copies /\ slots[i].payload = c
    <3>1. m \in BOOLEAN /\ b \in BOOLEAN /\ call[c] \in CallType
      BY DEF TypeOK
    <3>2. after(c) = [call[c] EXCEPT !.buf = IF b THEN walk.msg ELSE @,
                                     !.matched = @ \/ m]
      OBVIOUS
    <3> HIDE DEF m, b, after
    <3> QED
      BY <2>2, <3>1, <3>2 DEF CallType
  <2>6. Remembered(slots[i]) \in SlotType
    BY <2>3, ZenonT(60) DEF Remembered, SlotType, TypeOK
  <2> HIDE DEF walked, after, i
  <2> QED
    BY <2>1, <2>3, <2>4, <2>5, <2>6 DEF TypeOK
<1>15. ASSUME EndWalk PROVE TypeOK'
  <2>1. IdleWalk \in WalkType
    BY SlotAssumption DEF IdleWalk, WalkFrom, WalkType
  <2>2. walk.in_use \in BOOLEAN
    BY DEF WalkType
  <2> QED
    BY <1>15, <2>1, <2>2 DEF EndWalk
<1>16. ASSUME UNCHANGED vars PROVE TypeOK'
  BY <1>16 DEF vars
<1> QED
  BY <1>1, <1>2, <1>3, <1>4, <1>5, <1>6, <1>7, <1>8, <1>9, <1>10, <1>11,
     <1>12, <1>13, <1>14, <1>15, <1>16 DEF Next, CallerStep

-----------------------------------------------------------------------------
\* The conjuncts of IInv that speak of callers and slots, without the types.
Owned == SlotOwnership /\ PayloadOwned /\ FreeSlotsIdle /\ WaitingFlagExact

\* Every step keeps slots owned by one caller each, payload pointers and
\* waiting flags in step with their owners, and no call fails internally.
LEMMA NextOwned == IInv /\ [Next]_vars => Owned' /\ NoInternalFailure'
<1> SUFFICES ASSUME IInv, [Next]_vars PROVE Owned' /\ NoInternalFailure'
  OBVIOUS
<1> USE DEF Holding, SlotOwnership, PayloadOwned, FreeSlotsIdle,
            WaitingFlagExact, NoInternalFailure
<1> TypeOK /\ Owned /\ NoInternalFailure
  BY DEF IInv, Owned
<1>1. ASSUME NEW c \in Caller, NEW ind \in Ind, NEW ptr \in BOOLEAN,
             Call(c, ind, ptr)
      PROVE Owned' /\ NoInternalFailure'
  BY <1>1 DEF Call, Owned, TypeOK, arrayVars, IdleCall
<1>2. ASSUME NEW c \in Caller, AllocSlot(c)
      PROVE Owned' /\ NoInternalFailure'
  <2>1. PICK i \in Slot :
          /\ ~slot_in_use[i]
          /\ slot_in_use' = [slot_in_use EXCEPT ![i] = TRUE]
          /\ call' = [call EXCEPT ![c].select_id = i]
    BY <1>2 DEF AllocSlot, FirstFree
  <2> QED
    BY <1>2, <2>1 DEF AllocSlot, Owned, TypeOK, CallType
<1>3. ASSUME NEW c \in Caller, AllocFull(c)
      PROVE Owned' /\ NoInternalFailure'
  BY <1>3 DEF AllocFull, Owned, TypeOK, CallType, arrayVars
<1>4. ASSUME NEW c \in Caller, SelectInd(c)
      PROVE Owned' /\ NoInternalFailure'
  <2> DEFINE i == call[c].select_id
  <2>1. /\ i \in Slot
        /\ pc' = [pc EXCEPT ![c] = "send"]
        /\ pc[c] = "select"
        /\ UNCHANGED <<slot_in_use, call>>
    BY <1>4 DEF SelectInd, Owned
  <2>2. /\ slots'[i].payload \in {c, None}
        /\ ~slots'[i].ind_is_waiting
        /\ \A j \in Slot \ {i} : slots'[j] = slots[j]
    BY <1>4, <2>1 DEF SelectInd, FreeSlot, TypeOK
  <2>3. SlotOwnership' /\ NoInternalFailure'
    BY <2>1 DEF Owned, TypeOK
  <2>4. PayloadOwned' /\ FreeSlotsIdle' /\ WaitingFlagExact'
    BY <2>1, <2>2, NoneAssumption DEF Owned, TypeOK
  <2> QED
    BY <2>3, <2>4 DEF Owned
<1>5. ASSUME NEW c \in Caller, SendReq(c)
      PROVE Owned' /\ NoInternalFailure'
  BY <1>5 DEF SendReq, Owned, TypeOK, CallType, arrayVars
<1>6. ASSUME NEW c \in Caller, SendReqFails(c)
      PROVE Owned' /\ NoInternalFailure'
  BY <1>6 DEF SendReqFails, Owned, TypeOK, CallType, arrayVars
<1>7. ASSUME NEW c \in Caller, WaitForInd(c)
      PROVE Owned' /\ NoInternalFailure'
  BY <1>7 DEF WaitForInd, Owned, TypeOK, SlotType
<1>8. ASSUME NEW c \in Caller, WaitAtOnce(c)
      PROVE Owned' /\ NoInternalFailure'
  BY <1>8 DEF WaitAtOnce, MayWait, Owned, TypeOK, CallType, arrayVars
<1>9. ASSUME NEW c \in Caller, TimeOut(c)
      PROVE Owned' /\ NoInternalFailure'
  BY <1>9 DEF TimeOut, Unsignalled, Owned, TypeOK, arrayVars
<1>10. ASSUME NEW c \in Caller, WaitReturns(c)
       PROVE Owned' /\ NoInternalFailure'
  BY <1>10 DEF WaitReturns, DoneWaiting, StatusOfWait, Owned, TypeOK,
               CallType, SlotType
<1>11. ASSUME NEW c \in Caller, LocFreeSlot(c)
       PROVE Owned' /\ NoInternalFailure'
  BY <1>11, NoneAssumption DEF LocFreeSlot, Cleared, FreeSlot, Owned, TypeOK
<1>12. ASSUME NEW c \in Caller, Return(c)
       PROVE Owned' /\ NoInternalFailure'
  BY <1>12 DEF Return, IdleCall, Owned, TypeOK, arrayVars
<1>13. ASSUME NEW m \in pending, ProcessInd(m)
       PROVE Owned' /\ NoInternalFailure'
  BY <1>13 DEF ProcessInd, Owned, arrayVars
<1>14. ASSUME VisitSlot
       PROVE Owned' /\ NoInternalFailure'
  <2>1. /\ \A c \in Caller : \/ pc'[c] = pc[c]
                             \/ pc[c] = "blocked" /\ pc'[c] = "woken"
        /\ UNCHANGED slot_in_use
    BY <1>14 DEF VisitSlot, Sleeper, TypeOK
  <2>2. \A c \in Caller : /\ call'[c].select_id = call[c].select_id
                          /\ call'[c].ret = call[c].ret
    BY <1>14, ZenonT(60) DEF VisitSlot, TypeOK, CallType
  <2>3. \A j \in Slot : /\ slots'[j].payload = slots[j].payload
                        /\ slots'[j].ind_is_waiting = slots[j].ind_is_waiting
    <3>1. \/ slots' = slots
          \/ slots' = [slots EXCEPT ![walk.i] = Remembered(@)]
      BY <1>14 DEF VisitSlot
    <3>2. \A j \in Slot :
              /\ Remembered(slots[j]).payload = slots[j].payload
              /\ Remembered(slots[j]).ind_is_waiting = slots[j].ind_is_waiting
      BY DEF Remembered, TypeOK, SlotType
    <3> QED
      BY <3>1, <3>2 DEF TypeOK
  <2>4. \A c \in Caller : Holding(c)' <=> Holding(c)
    BY <2>1
  <2>5. SlotOwnership' /\ NoInternalFailure'
    BY <2>1, <2>2, <2>4 DEF Owned
  <2>6. PayloadOwned' /\ FreeSlotsIdle' /\ WaitingFlagExact'
    BY <2>1, <2>2, <2>3, <2>4 DEF Owned
  <2> QED
    BY <2>5, <2>6 DEF Owned
<1>15. ASSUME EndWalk
       PROVE Owned' /\ NoInternalFailure'
  BY <1>15 DEF EndWalk, Owned
<1>16. ASSUME UNCHANGED vars
       PROVE Owned' /\ NoInternalFailure'
  BY <1>16 DEF vars, Owned, arrayVars
<1> QED
  BY <1>1, <1>2, <1>3, <1>4, <1>5, <1>6, <1>7, <1>8, <1>9, <1>10, <1>11,
     <1>12, <1>13, <1>14, <1>15, <1>16 DEF Next, CallerStep

-----------------------------------------------------------------------------
\* The walk of the receive thread and the in_use flag: slot_in_use changes only
\* while the walk is not under way, and what the walk has seen stays true.
LEMMA NextWalk ==
    IInv /\ [Next]_vars => WalkInv' /\ CallsNameInd' /\ InUseTracksSlots'
<1> SUFFICES ASSUME IInv, [Next]_vars
             PROVE WalkInv' /\ CallsNameInd' /\ InUseTracksSlots'
  OBVIOUS
<1> USE DEF WalkInv, InUseTracksSlots
<1> TypeOK /\ WalkInv /\ CallsNameInd /\ InUseTracksSlots
  BY DEF IInv
<1>1. CallsNameInd'
  <2>1. ASSUME NEW c \in Caller, NEW ind \in Ind, NEW ptr \in BOOLEAN,
               Call(c, ind, ptr)
        PROVE CallsNameInd'
    BY <2>1 DEF Call, IdleCall, CallsNameInd, TypeOK
  <2>2. ASSUME NEW c \in Caller, CallerStep(c)
        PROVE CallsNameInd'
    <3>1. ASSUME NEW d \in Caller, pc'[d] # "idle"
          PROVE pc[d] # "idle" /\ call'[d].ind = call[d].ind
      BY <2>2, <3>1 DEF CallerStep, Unsignalled, AllocSlot, AllocFull,
         SelectInd, SendReq, SendReqFails, WaitForInd, WaitAtOnce, TimeOut,
         WaitReturns, LocFreeSlot, Return, IdleCall, TypeOK, CallType
    <3> QED
      BY <3>1 DEF CallsNameInd
  <2>3. ASSUME NEW m \in pending, ProcessInd(m) PROVE CallsNameInd'
    BY <2>3 DEF ProcessInd, CallsNameInd
  <2>4. ASSUME VisitSlot PROVE CallsNameInd'
    <3>1. \A c \in Caller : pc'[c] # "idle" => pc[c] # "idle"
      BY <2>4 DEF VisitSlot, Sleeper, TypeOK
    <3>2. \A c \in Caller : call'[c].ind = call[c].ind
      BY <2>4 DEF VisitSlot, TypeOK, CallType
    <3> QED
      BY <3>1, <3>2 DEF CallsNameInd
  <2>5. ASSUME EndWalk \/ UNCHANGED vars PROVE CallsNameInd'
    BY <2>5 DEF EndWalk, vars, CallsNameInd
  <2> QED
    BY <2>1, <2>2, <2>3, <2>4, <2>5 DEF Next
<1>2. WalkInv' /\ InUseTracksSlots'
  <2>1. CASE UNCHANGED <<in_use, slot_in_use, lock, walk>>
    BY <2>1
  <2>2. ASSUME NEW c \in Caller, AllocSlot(c)
        PROVE WalkInv' /\ InUseTracksSlots'
    BY <2>2 DEF AllocSlot, TypeOK
  <2>3. ASSUME NEW c \in Caller, LocFreeSlot(c)
        PROVE WalkInv' /\ InUseTracksSlots'
    <3>1. call[c].select_id \in Slot
      BY <2>3 DEF LocFreeSlot, IInv, SlotOwnership, Holding
    <3> QED
      BY <2>3, <3>1 DEF LocFreeSlot, OthersInUse, TypeOK
  <2>4. ASSUME NEW m \in pending, ProcessInd(m)
        PROVE WalkInv' /\ InUseTracksSlots'
    <3>1. m \in Response
      BY DEF TypeOK
    <3> QED
      BY <2>4, <3>1 DEF ProcessInd, WalkFrom, Slot, arrayVars
  <2>5. ASSUME VisitSlot PROVE WalkInv' /\ InUseTracksSlots'
    <3>1. /\ walk.i \in Slot
          /\ walk'.i = walk.i + 1
          /\ walk'.in_use = (walk.in_use \/ slot_in_use[walk.i])
          /\ walk'.msg = walk.msg
          /\ walk'.consumed => slot_in_use[walk.i]
          /\ lock
          /\ UNCHANGED <<in_use, slot_in_use, lock>>
      <4>1. /\ lock /\ walk.i < NSlot
            /\ walk' = [walk EXCEPT !.i = walk.i + 1,
                                    !.in_use = walk.in_use \/ slot_in_use[walk.i],
                                    !.consumed = /\ Matches(walk.i, walk.msg)
                                                 /\ slots[walk.i].payload # None]
            /\ UNCHANGED <<in_use, slot_in_use, lock>>
        BY <2>5 DEF VisitSlot
      <4>2. walk.i \in Slot
        <5>1. walk.i \in 0 .. NSlot /\ NSlot \in Nat
          BY SlotAssumption DEF TypeOK, WalkType
        <5> QED
          BY <4>1, <5>1 DEF Slot
      <4>3. /\ walk'.i = walk.i + 1
            /\ walk'.in_use = (walk.in_use \/ slot_in_use[walk.i])
            /\ walk'.msg = walk.msg
            /\ walk'.consumed = /\ Matches(walk.i, walk.msg)
                                /\ slots[walk.i].payload # None
        BY <4>1 DEF TypeOK, WalkType
      <4> QED
        BY <4>1, <4>2, <4>3 DEF Matches
    <3> QED
      BY <3>1 DEF Slot, TypeOK
  <2>6. ASSUME EndWalk PROVE WalkInv' /\ InUseTracksSlots'
    <3>1. (in_use' <=> walk.in_use) /\ ~lock' /\ UNCHANGED slot_in_use
      BY <2>6 DEF EndWalk
    <3>2. walk.in_use <=> \E j \in Slot : slot_in_use[j]
      BY <2>6 DEF EndWalk, Slot, TypeOK, WalkType
    <3> QED
      BY <3>1, <3>2
  <2> QED
    BY <2>1, <2>2, <2>3, <2>4, <2>5, <2>6 DEF Next, CallerStep, Call,
       AllocFull, SelectInd, SendReq, SendReqFails, WaitForInd, WaitAtOnce,
       TimeOut, Unsignalled, WaitReturns, Return, arrayVars, vars
<1> QED
  BY <1>1, <1>2
-----------------------------------------------------------------------------
\* Type correctness, the ownership of slots, the exactness of the in_use flag,
\* of the payload pointers and of the waiting flags, and the absence of
\* internal failures, for every number of slots and callers.
THEOREM Invariance == Spec => []IInv
<1>1. IInv /\ [Next]_vars => IInv'
  BY NextTypeOK, NextOwned, NextWalk DEF IInv, Owned
<1> QED
  BY InitIInv, <1>1, PTL DEF Spec

\* Every variable stays in its type.
THEOREM TypeCorrect == Spec => []TypeOK
<1>1. IInv => TypeOK
  BY DEF IInv
<1> QED
  BY <1>1, Invariance, PTL

\* A slot is in use exactly while one caller holds it.
THEOREM SlotsAreOwned == Spec => []SlotOwnership
<1>1. IInv => SlotOwnership
  BY DEF IInv
<1> QED
  BY <1>1, Invariance, PTL

\* The flag by which indications are dropped unread is exact.
THEOREM InUseIsExact == Spec => []InUseTracksSlots
<1>1. IInv => InUseTracksSlots
  BY DEF IInv
<1> QED
  BY <1>1, Invariance, PTL

\* Nothing is copied into the buffer of a call that has returned.
THEOREM PayloadIsOwned == Spec => []PayloadOwned
<1>1. IInv => PayloadOwned
  BY DEF IInv
<1> QED
  BY <1>1, Invariance, PTL

\* -EBUSY and -EINVAL cannot happen.
THEOREM NeverInternal == Spec => []NoInternalFailure
<1>1. IInv => NoInternalFailure
  BY DEF IInv
<1> QED
  BY <1>1, Invariance, PTL
-----------------------------------------------------------------------------
(* The answers: what becomes of an indication between the slot and the     *)
(* result of the call, on top of IInv.                                     *)

\* A slot names the indication and the buffer of its caller, once selected.
SlotNames(c) ==
    LET s == slots[call[c].select_id] IN
    /\ pc[c] \in {"send", "wait", "blocked", "woken", "timedout", "free"} =>
           /\ s.recv_ind_id = call[c].ind
           /\ s.payload = (IF call[c].ptr THEN c ELSE None)
    /\ pc[c] = "select" => s.payload = None

\* What came before the wait is remembered in the slot.
EarlyKept(c) ==
    pc[c] \in {"send", "wait"} =>
        (slots[call[c].select_id].ind_has_arrived <=> call[c].matched)

\* A match is known to be one to the end of the call.
MatchKept(c) ==
    /\ pc[c] \in {"idle", "alloc", "select", "blocked", "timedout"} => ~call[c].matched
    /\ pc[c] \in {"alloc", "select", "send"} => ~call[c].sent
    /\ pc[c] \in {"free", "returned"} /\ call[c].matched /\ call[c].sent =>
           call[c].ret = "SUCCESS"
    /\ call[c].buf # None => call[c].buf.ind = call[c].ind

AnswerInv == \A c \in Caller : SlotNames(c) /\ EarlyKept(c) /\ MatchKept(c)

\* Without spurious wakeups a success has a match, which filled the buffer.
SuccessInv ==
    \A c \in Caller :
        /\ pc[c] \in {"idle", "alloc"} => call[c].select_id = None
        /\ pc[c] \notin {"free", "returned"} => call[c].ret = "NONE"
        /\ pc[c] = "woken" => call[c].matched
        /\ call[c].ret = "SUCCESS" /\ call[c].select_id # None => call[c].matched
        /\ call[c].matched /\ call[c].ptr => call[c].buf # None

\* A step of one caller leaves the others, and their slots, alone.
LEMMA CallerFrame ==
  ASSUME IInv, NEW c \in Caller,
         CallerStep(c) \/ \E ind \in Ind, ptr \in BOOLEAN : Call(c, ind, ptr)
  PROVE  /\ \A d \in Caller \ {c} : pc'[d] = pc[d] /\ call'[d] = call[d]
         /\ \A j \in Slot :
                slots'[j] = slots[j] \/ (Holding(c) /\ call[c].select_id = j)
<1> TypeOK
  BY DEF IInv
<1>1. \A d \in Caller \ {c} : pc'[d] = pc[d] /\ call'[d] = call[d]
  BY DEF CallerStep, Call, AllocSlot, AllocFull, SelectInd, SendReq, SendReqFails,
         WaitForInd, WaitAtOnce, TimeOut, WaitReturns, LocFreeSlot, Return, TypeOK
<1>2. ASSUME ~Holding(c) PROVE slots' = slots
  BY <1>2 DEF CallerStep, Call, AllocSlot, AllocFull, SelectInd, SendReq, SendReqFails,
         WaitForInd, WaitAtOnce, TimeOut, WaitReturns, LocFreeSlot, Return, Holding, arrayVars
<1>3. \A j \in Slot : j # call[c].select_id => slots'[j] = slots[j]
  BY DEF CallerStep, Call, AllocSlot, AllocFull, SelectInd, SendReq, SendReqFails,
         WaitForInd, WaitAtOnce, TimeOut, WaitReturns, LocFreeSlot, Return, TypeOK, arrayVars
<1> QED
  BY <1>1, <1>2, <1>3

\* So what the others know of their indications stays true.
LEMMA OthersKeep ==
  ASSUME IInv, AnswerInv, NEW c \in Caller, NEW d \in Caller \ {c},
         CallerStep(c) \/ \E ind \in Ind, ptr \in BOOLEAN : Call(c, ind, ptr)
  PROVE  SlotNames(d)' /\ EarlyKept(d)' /\ MatchKept(d)'
<1>1. pc'[d] = pc[d] /\ call'[d] = call[d]
  BY CallerFrame
<1>2. Holding(d) => slots'[call[d].select_id] = slots[call[d].select_id]
  BY CallerFrame DEF IInv, SlotOwnership
<1>3. SlotNames(d) /\ EarlyKept(d) /\ MatchKept(d)
  BY DEF AnswerInv
<1>4. SlotNames(d)'
  BY <1>1, <1>2, <1>3 DEF SlotNames, Holding
<1>5. EarlyKept(d)'
  BY <1>1, <1>2, <1>3 DEF EarlyKept, Holding
<1>6. MatchKept(d)'
  BY <1>1, <1>3 DEF MatchKept
<1> QED
  BY <1>4, <1>5, <1>6

\* Before the first call nothing is matched.
LEMMA InitAnswer == Init => AnswerInv
BY DEF Init, AnswerInv, SlotNames, EarlyKept, MatchKept, IdleCall

\* A step of a caller keeps what it knows of its own indication.
LEMMA CallerAnswer ==
  ASSUME IInv, AnswerInv, NEW c \in Caller,
         CallerStep(c) \/ \E ind \in Ind, ptr \in BOOLEAN : Call(c, ind, ptr)
  PROVE  SlotNames(c)' /\ EarlyKept(c)' /\ MatchKept(c)'
<1> USE DEF SlotNames, EarlyKept, MatchKept
<1>0. /\ TypeOK /\ SlotOwnership /\ PayloadOwned /\ NoInternalFailure
      /\ call[c] \in CallType /\ SlotNames(c) /\ EarlyKept(c) /\ MatchKept(c)
      /\ Holding(c) => call[c].select_id \in Slot /\ slot_in_use[call[c].select_id]
  BY DEF IInv, TypeOK, AnswerInv, SlotOwnership
<1>1. ASSUME NEW ind \in Ind, NEW ptr \in BOOLEAN, Call(c, ind, ptr)
      PROVE SlotNames(c)' /\ EarlyKept(c)' /\ MatchKept(c)'
  BY <1>0, <1>1 DEF Call, IdleCall, TypeOK
<1>2. ASSUME AllocSlot(c)
      PROVE SlotNames(c)' /\ EarlyKept(c)' /\ MatchKept(c)'
  <2>1. PICK i \in Slot : ~slot_in_use[i] /\ call' = [call EXCEPT ![c].select_id = i]
    BY <1>2 DEF AllocSlot, FirstFree
  <2>2. slots[i].payload = None
    <3>1. slots[i] \in SlotType
      BY <1>0 DEF TypeOK
    <3>2. \A d \in Caller : slots[i].payload # d
      BY <1>0, <2>1 DEF PayloadOwned, SlotOwnership
    <3> QED
      BY <3>1, <3>2 DEF SlotType
  <2> QED
    BY <1>0, <1>2, <2>1, <2>2 DEF AllocSlot, TypeOK, CallType
<1>3. ASSUME AllocFull(c)
      PROVE SlotNames(c)' /\ EarlyKept(c)' /\ MatchKept(c)'
  BY <1>0, <1>3 DEF AllocFull, TypeOK, CallType
<1>4. ASSUME SelectInd(c)
      PROVE SlotNames(c)' /\ EarlyKept(c)' /\ MatchKept(c)'
  <2>1. /\ pc[c] = "select" /\ pc'[c] = "send" /\ call' = call
        /\ slots'[call[c].select_id] =
              [FreeSlot EXCEPT !.recv_ind_id = call[c].ind,
                               !.payload = IF call[c].ptr THEN c ELSE None]
    BY <1>0, <1>4 DEF SelectInd, TypeOK, Holding
  <2> QED
    BY <1>0, <2>1 DEF FreeSlot
<1>5. ASSUME SendReq(c)
      PROVE SlotNames(c)' /\ EarlyKept(c)' /\ MatchKept(c)'
  BY <1>0, <1>5 DEF SendReq, TypeOK, CallType, arrayVars
<1>6. ASSUME SendReqFails(c)
      PROVE SlotNames(c)' /\ EarlyKept(c)' /\ MatchKept(c)'
  BY <1>0, <1>6 DEF SendReqFails, TypeOK, CallType, arrayVars
<1>7. ASSUME WaitForInd(c)
      PROVE SlotNames(c)' /\ EarlyKept(c)' /\ MatchKept(c)'
  BY <1>0, <1>7 DEF WaitForInd, MayWait, TypeOK, SlotType, Holding
<1>8. ASSUME WaitAtOnce(c)
      PROVE SlotNames(c)' /\ EarlyKept(c)' /\ MatchKept(c)'
  BY <1>0, <1>8 DEF WaitAtOnce, TypeOK, CallType, arrayVars, Holding
<1>9. ASSUME TimeOut(c)
      PROVE SlotNames(c)' /\ EarlyKept(c)' /\ MatchKept(c)'
  BY <1>0, <1>9 DEF TimeOut, Unsignalled, TypeOK, arrayVars
<1>10. ASSUME WaitReturns(c)
       PROVE SlotNames(c)' /\ EarlyKept(c)' /\ MatchKept(c)'
  BY <1>0, <1>10 DEF WaitReturns, DoneWaiting, StatusOfWait, TypeOK, CallType, SlotType, Holding
<1>11. ASSUME LocFreeSlot(c)
       PROVE SlotNames(c)' /\ EarlyKept(c)' /\ MatchKept(c)'
  BY <1>0, <1>11 DEF LocFreeSlot, TypeOK
<1>12. ASSUME Return(c)
       PROVE SlotNames(c)' /\ EarlyKept(c)' /\ MatchKept(c)'
  BY <1>0, <1>12 DEF Return, IdleCall, TypeOK
<1> QED
  BY <1>1, <1>2, <1>3, <1>4, <1>5, <1>6, <1>7, <1>8, <1>9, <1>10, <1>11, <1>12
     DEF CallerStep

\* The visit of a slot: who is matched has its indication remembered, or is
\* woken; who gets a copy asked for it.
LEMMA VisitAnswer == IInv /\ AnswerInv /\ VisitSlot => AnswerInv'
<1> SUFFICES ASSUME IInv, AnswerInv, VisitSlot, NEW c \in Caller
             PROVE  SlotNames(c)' /\ EarlyKept(c)' /\ MatchKept(c)'
  BY DEF AnswerInv
<1> DEFINE i == walk.i
           m == walk.msg
           match == Matches(i, m)
           copies == match /\ slots[i].payload # None
<1>0. /\ TypeOK /\ SlotOwnership /\ PayloadOwned /\ WaitingFlagExact
      /\ call[c] \in CallType /\ SlotNames(c) /\ EarlyKept(c) /\ MatchKept(c)
      /\ Holding(c) => call[c].select_id \in Slot /\ slot_in_use[call[c].select_id]
  BY DEF IInv, TypeOK, AnswerInv, SlotOwnership
<1>1. lock /\ i < NSlot /\ i \in Slot /\ m \in Response
  <2>1. lock /\ i < NSlot
    BY DEF VisitSlot
  <2>2. walk.i \in 0 .. NSlot /\ NSlot \in Nat
    BY <1>0, SlotAssumption DEF TypeOK, WalkType
  <2> QED
    BY <2>1, <2>2 DEF IInv, WalkInv, Slot
<1>2. call'[c] = [call[c] EXCEPT !.buf = IF copies /\ slots[i].payload = c THEN m ELSE @,
                                 !.matched = @ \/ (match /\ InTime(c, i))]
  BY DEF VisitSlot
<1>3. /\ call'[c].ind = call[c].ind /\ call'[c].ptr = call[c].ptr
      /\ call'[c].select_id = call[c].select_id /\ call'[c].sent = call[c].sent
      /\ call'[c].ret = call[c].ret
      /\ call'[c].buf = IF copies /\ slots[i].payload = c THEN m ELSE call[c].buf
      /\ call'[c].matched <=> call[c].matched \/ (match /\ InTime(c, i))
  <2> DEFINE b == copies /\ slots[i].payload = c
             t == match /\ InTime(c, i)
  <2>1. call'[c] = [call[c] EXCEPT !.buf = IF b THEN m ELSE @, !.matched = @ \/ t]
    BY <1>2
  <2> HIDE DEF b, t, m
  <2>2. /\ call'[c].ind = call[c].ind /\ call'[c].ptr = call[c].ptr
        /\ call'[c].select_id = call[c].select_id /\ call'[c].sent = call[c].sent
        /\ call'[c].ret = call[c].ret
        /\ call'[c].buf = (IF b THEN m ELSE call[c].buf)
        /\ call'[c].matched = (call[c].matched \/ t)
    BY <1>0, <2>1 DEF CallType
  <2> QED
    BY <2>2 DEF b, t
<1>4. \/ /\ match /\ slots[i].ind_is_waiting /\ slots' = slots
         /\ pc'[c] = IF c \in Sleeper(i) THEN "woken" ELSE pc[c]
      \/ /\ match /\ ~slots[i].ind_is_waiting
         /\ slots' = [slots EXCEPT ![i] = Remembered(@)] /\ pc' = pc
      \/ ~match /\ slots' = slots /\ pc' = pc
  BY DEF VisitSlot
<1>5. \A j \in Slot : /\ slots'[j].recv_ind_id = slots[j].recv_ind_id
                      /\ slots'[j].payload = slots[j].payload
                      /\ slots'[j].ind_has_arrived
                           <=> \/ slots[j].ind_has_arrived
                               \/ j = i /\ match /\ ~slots[i].ind_is_waiting
  BY <1>0, <1>1, <1>4 DEF Remembered, TypeOK, SlotType
<1>6. pc'[c] = pc[c] \/ (pc[c] = "blocked" /\ pc'[c] = "woken")
  BY <1>4 DEF Sleeper
<1>7. match => slots[i].recv_ind_id = m.ind /\ ~slots[i].ind_has_arrived
  BY DEF Matches
<1> HIDE DEF i, m, match, copies
<1>8. SlotNames(c)'
  BY <1>0, <1>3, <1>5, <1>6 DEF SlotNames, Holding
<1>9. EarlyKept(c)'
  <2>1. ASSUME pc'[c] \in {"send", "wait"}
        PROVE  /\ pc[c] \in {"send", "wait"} /\ Holding(c)
               /\ ~slots[call[c].select_id].ind_is_waiting
               /\ InTime(c, i) <=> call[c].select_id = i
    BY <1>0, <1>6, <2>1 DEF Holding, WaitingFlagExact, InTime
  <2> QED
    BY <1>0, <1>3, <1>5, <2>1 DEF EarlyKept
<1>10. MatchKept(c)'
  <2>1. call'[c].buf # None => call'[c].buf.ind = call[c].ind
    <3>1. ASSUME copies, slots[i].payload = c PROVE m.ind = call[c].ind
      <4>1. Holding(c) /\ call[c].select_id = i
        BY <1>0, <1>1, <3>1 DEF PayloadOwned
      <4>2. pc[c] # "select"
        BY <1>0, <3>1, <4>1 DEF SlotNames, copies
      <4> QED
        BY <1>0, <1>7, <3>1, <4>1, <4>2 DEF SlotNames, Holding, copies
    <3> QED
      BY <1>0, <1>3, <3>1 DEF MatchKept
  <2>2. pc'[c] \in {"idle", "alloc", "select", "blocked", "timedout"} => ~call'[c].matched
    <3>1. ASSUME pc'[c] \in {"idle", "alloc", "select", "blocked", "timedout"},
                 match, InTime(c, i)
          PROVE  FALSE
      <4>1. pc[c] = "blocked" /\ pc'[c] = "blocked" /\ call[c].select_id = i
        BY <1>6, <3>1 DEF InTime
      <4>2. slots[i].ind_is_waiting /\ c \in Sleeper(i)
        BY <1>0, <4>1 DEF WaitingFlagExact, Holding, Sleeper
      <4> QED
        BY <1>4, <3>1, <4>1, <4>2
    <3> QED
      BY <1>0, <1>3, <1>6, <3>1 DEF MatchKept
  <2>3. pc'[c] \in {"free", "returned"} => ~InTime(c, i)
    BY <1>6 DEF InTime
  <2> QED
    BY <1>0, <1>3, <1>6, <2>1, <2>2, <2>3 DEF MatchKept
<1> QED
  BY <1>8, <1>9, <1>10

\* Every step keeps what is known of the indications.
LEMMA NextAnswer == IInv /\ AnswerInv /\ [Next]_vars => AnswerInv'
<1> SUFFICES ASSUME IInv, AnswerInv, [Next]_vars PROVE AnswerInv'
  OBVIOUS
<1>1. ASSUME NEW c \in Caller,
             CallerStep(c) \/ \E ind \in Ind, ptr \in BOOLEAN : Call(c, ind, ptr)
      PROVE  AnswerInv'
  BY <1>1, CallerAnswer, OthersKeep DEF AnswerInv
<1>2. ASSUME UNCHANGED <<slots, pc, call>> PROVE AnswerInv'
  BY <1>2 DEF AnswerInv, SlotNames, EarlyKept, MatchKept
<1>3. ASSUME NEW m \in pending, ProcessInd(m) PROVE AnswerInv'
  BY <1>2, <1>3 DEF ProcessInd, arrayVars
<1>4. EndWalk \/ UNCHANGED vars => AnswerInv'
  BY <1>2 DEF EndWalk, vars, arrayVars
<1> QED
  BY <1>1, <1>3, <1>4, VisitAnswer DEF Next

\* An indication that comes for a call reaches that call, for every number of
\* slots and callers, with and without spurious wakeups.
THEOREM IndicationsAreKept == Spec => []IndicationsKept
<1>1. IInv /\ AnswerInv => IndicationsKept
  <2>1. ASSUME IInv, AnswerInv PROVE NoLostIndication /\ CopiedIndIsWanted
    BY <2>1 DEF AnswerInv, MatchKept, NoLostIndication, CopiedIndIsWanted
  <2> QED
    BY <2>1 DEF IInv, IndicationsKept
<1>2. Spec => []AnswerInv
  BY InitAnswer, NextAnswer, Invariance, PTL DEF Spec
<1> QED
  BY <1>1, <1>2, Invariance, PTL

-----------------------------------------------------------------------------
(* Without spurious wakeups only an indication makes a call succeed.       *)

LEMMA InitSuccess == Init => SuccessInv
BY DEF Init, SuccessInv, IdleCall

\* A step of a caller: its wait returns 0 for a signal or an early indication.
LEMMA CallerSuccess ==
  ASSUME ~Spurious, IInv, AnswerInv, SuccessInv, NEW c \in Caller,
         CallerStep(c) \/ \E ind \in Ind, ptr \in BOOLEAN : Call(c, ind, ptr)
  PROVE  SuccessInv'
<1> DEFINE Ok(d) ==
      /\ pc[d] \in {"idle", "alloc"} => call[d].select_id = None
      /\ pc[d] \notin {"free", "returned"} => call[d].ret = "NONE"
      /\ pc[d] = "woken" => call[d].matched
      /\ call[d].ret = "SUCCESS" /\ call[d].select_id # None => call[d].matched
      /\ call[d].matched /\ call[d].ptr => call[d].buf # None
<1>1. ASSUME NEW d \in Caller \ {c} PROVE Ok(d)'
  BY CallerFrame DEF SuccessInv
<1>2. /\ TypeOK /\ call[c] \in CallType /\ Ok(c) /\ EarlyKept(c) /\ MatchKept(c)
      /\ Holding(c) => slot_in_use[call[c].select_id]
  BY DEF IInv, TypeOK, AnswerInv, SuccessInv, SlotOwnership
<1>3. Ok(c)'
  <2>1. ASSUME NEW ind \in Ind, NEW ptr \in BOOLEAN, Call(c, ind, ptr) PROVE Ok(c)'
    BY <1>2, <2>1 DEF Call, IdleCall, TypeOK
  <2>2. ASSUME AllocSlot(c) \/ AllocFull(c) PROVE Ok(c)'
    BY <1>2, <2>2 DEF AllocSlot, AllocFull, TypeOK, CallType, MatchKept
  <2>3. ASSUME SelectInd(c) \/ WaitForInd(c) \/ LocFreeSlot(c) PROVE Ok(c)'
    BY <1>2, <2>3 DEF SelectInd, WaitForInd, LocFreeSlot, TypeOK
  <2>4. ASSUME SendReq(c) \/ SendReqFails(c) PROVE Ok(c)'
    BY <1>2, <2>4 DEF SendReq, SendReqFails, TypeOK, CallType
  <2>5. ASSUME WaitAtOnce(c) PROVE Ok(c)'
    BY <1>2, <2>5 DEF WaitAtOnce, TypeOK, CallType, EarlyKept, Holding
  <2>6. ASSUME TimeOut(c) PROVE Ok(c)'
    BY <1>2, <2>6 DEF TimeOut, Unsignalled, TypeOK
  <2>7. ASSUME WaitReturns(c) PROVE Ok(c)'
    BY <1>2, <2>7 DEF WaitReturns, StatusOfWait, TypeOK, CallType
  <2>8. ASSUME Return(c) PROVE Ok(c)'
    BY <1>2, <2>8 DEF Return, IdleCall, TypeOK
  <2> QED
    BY <2>1, <2>2, <2>3, <2>4, <2>5, <2>6, <2>7, <2>8 DEF CallerStep
<1> QED
  BY <1>1, <1>3 DEF SuccessInv

\* A visit wakes whom it matches, and copies for who has a buffer.
LEMMA VisitSuccess == IInv /\ AnswerInv /\ SuccessInv /\ VisitSlot => SuccessInv'
<1> SUFFICES ASSUME IInv, AnswerInv, SuccessInv, VisitSlot, NEW c \in Caller
             PROVE  /\ pc'[c] \in {"idle", "alloc"} => call'[c].select_id = None
                    /\ pc'[c] \notin {"free", "returned"} => call'[c].ret = "NONE"
                    /\ pc'[c] = "woken" => call'[c].matched
                    /\ call'[c].ret = "SUCCESS" /\ call'[c].select_id # None => call'[c].matched
                    /\ call'[c].matched /\ call'[c].ptr => call'[c].buf # None
  BY DEF SuccessInv
<1> DEFINE i == walk.i
           match == Matches(i, walk.msg)
           b == match /\ slots[i].payload # None /\ slots[i].payload = c
           t == match /\ InTime(c, i)
<1>1. /\ call[c] \in CallType /\ SlotNames(c) /\ walk.msg \in Response
      /\ pc[c] \in {"idle", "alloc"} => call[c].select_id = None
      /\ pc[c] \notin {"free", "returned"} => call[c].ret = "NONE"
      /\ pc[c] = "woken" => call[c].matched
      /\ call[c].ret = "SUCCESS" /\ call[c].select_id # None => call[c].matched
      /\ call[c].matched /\ call[c].ptr => call[c].buf # None
  BY DEF IInv, TypeOK, WalkInv, AnswerInv, SuccessInv, VisitSlot
<1>2. call'[c] = [call[c] EXCEPT !.buf = IF b THEN walk.msg ELSE @, !.matched = @ \/ t]
  BY DEF VisitSlot
<1>3. pc'[c] = pc[c] \/ (t /\ pc[c] = "blocked" /\ pc'[c] = "woken")
  BY DEF VisitSlot, Sleeper, InTime
<1>4. t /\ call[c].ptr => b
  BY <1>1, NoneAssumption DEF SlotNames, InTime
<1> HIDE DEF b, t
<1>5. /\ call'[c].ptr = call[c].ptr /\ call'[c].select_id = call[c].select_id
      /\ call'[c].ret = call[c].ret
      /\ call'[c].buf = (IF b THEN walk.msg ELSE call[c].buf)
      /\ call'[c].matched = (call[c].matched \/ t)
  BY <1>1, <1>2 DEF CallType
<1> QED
  BY <1>1, <1>3, <1>4, <1>5, ResponseAssumption

\* A success means that the indication came during the call, and a buffer that
\* was passed is filled.
THEOREM SuccessIsAnswered ==
  ASSUME ~Spurious
  PROVE  Spec => []SuccessMeansAnswered
<1>1. IInv /\ AnswerInv /\ SuccessInv /\ [Next]_vars => SuccessInv'
  <2> SUFFICES ASSUME IInv, AnswerInv, SuccessInv, [Next]_vars PROVE SuccessInv'
    OBVIOUS
  <2>1. ASSUME UNCHANGED <<pc, call>> PROVE SuccessInv'
    BY <2>1 DEF SuccessInv
  <2>2. ASSUME NEW m \in pending, ProcessInd(m) PROVE SuccessInv'
    BY <2>1, <2>2 DEF ProcessInd
  <2>3. EndWalk \/ UNCHANGED vars => SuccessInv'
    BY <2>1 DEF EndWalk, vars
  <2> QED
    BY <2>2, <2>3, CallerSuccess, VisitSuccess DEF Next
<1>2. SuccessInv => SuccessMeansAnswered
  BY DEF SuccessInv, SuccessMeansAnswered
<1>3. Spec => []AnswerInv
  BY InitAnswer, NextAnswer, Invariance, PTL DEF Spec
<1>4. Spec => []SuccessInv
  BY <1>1, <1>3, InitSuccess, Invariance, PTL DEF Spec
<1> QED
  BY <1>2, <1>4, PTL

-----------------------------------------------------------------------------
\* The delegate has a reference for each of the two that hold it.
Holders == (IF owner = "gone" THEN 0 ELSE 1) + (IF loop.pc = "ended" THEN 0 ELSE 1)

DelegateInv ==
    /\ delegate.refs = Holders
    /\ delegate.deleted = IF Holders = 0 THEN 1 ELSE 0

\* The thread leaves its loop, and the queue is deleted, after the owner has
\* unblocked the queue.
EndingInv ==
    /\ msgq.unblocked <=> owner # "sends"
    /\ ~delegate.running \/ loop.pc = "exit" => msgq.unblocked
    /\ ~msgq.alive => loop.pc \in {"destroy", "ended"}
    /\ ~msgq.alive => msgq.unblocked /\ msgq.list = <<>>

\* A message is in the queue once, in the thread's hand, or done with.
PlaceInv ==
    /\ loop.pc = "proc" <=> loop.msg # NoMsg
    /\ loop.msg # NoMsg => fate[loop.msg].at = "handled"
    /\ \A i \in 1 .. Len(msgq.list) : fate[msgq.list[i]].at = "queued"
    /\ \A i, j \in 1 .. Len(msgq.list) : msgq.list[i] = msgq.list[j] => i = j
    /\ \A m \in LocMsg :
        /\ fate[m].at = "queued" /\ msgq.alive => \E i \in 1 .. Len(msgq.list) : msgq.list[i] = m
        /\ fate[m].freed = 1 <=> \/ fate[m].at = "handled" /\ loop.msg # m
                                 \/ fate[m].at = "queued" /\ ~msgq.alive

\* While the queue lives, the messages accepted are those handled, then those
\* queued; afterwards nothing is accepted or handled.
OrderInv ==
    /\ Len(log.handled) <= Len(log.accepted)
    /\ \A i \in 1 .. Len(log.handled) : log.handled[i] = log.accepted[i]
    /\ msgq.alive =>
        /\ Len(log.accepted) = Len(log.handled) + Len(msgq.list)
        /\ \A i \in 1 .. Len(msgq.list) : msgq.list[i] = log.accepted[Len(log.handled) + i]

\* A thread that did not enter its loop, because it has not started or was
\* stopped before it did, has handled nothing.
FreshInv ==
    loop.pc = "start" \/ (loop.pc \in {"destroy", "ended"} /\ msgq.alive) =>
        \A m \in LocMsg : fate[m].at # "handled"

MtInv == MtTypeOK /\ DelegateInv /\ EndingInv /\ PlaceInv /\ OrderInv /\ FreshInv

-----------------------------------------------------------------------------
\* A new task satisfies the invariant.
LEMMA InitMtInv == MtInit => MtInv
<1> SUFFICES ASSUME MtInit PROVE MtInv
  OBVIOUS
<1> USE DEF MtInit
<1> PICK j \in BOOLEAN :
        delegate = [running |-> TRUE, joinable |-> j, refs |-> 2, deleted |-> 0]
  OBVIOUS
<1>1. MtTypeOK
  <2>1. delegate \in [running : BOOLEAN, joinable : BOOLEAN, refs : 0 .. 2, deleted : 0 .. 1]
    <3>1. 2 \in 0 .. 2 /\ 0 \in 0 .. 1
      OBVIOUS
    <3> QED
      BY <3>1
  <2>2. <<>> \in Seq(LocMsg)
    OBVIOUS
  <2>3. fate \in [LocMsg -> [at : {"new", "queued", "handled", "refused"}, freed : 0 .. 1]]
    OBVIOUS
  <2> QED
    BY <2>1, <2>2, <2>3 DEF MtTypeOK
<1>2. DelegateInv /\ EndingInv
  BY DEF DelegateInv, EndingInv, Holders
<1>3. PlaceInv /\ OrderInv /\ FreshInv
  BY DEF PlaceInv, OrderInv, FreshInv
<1> QED
  BY <1>1, <1>2, <1>3 DEF MtInv

\* The types, one variable at a time.
LEMMA MtTypes ==
  ASSUME MtTypeOK
  PROVE  /\ msgq \in [list : Seq(LocMsg), unblocked : BOOLEAN, alive : BOOLEAN]
         /\ loop \in [pc : {"start", "check", "enter", "rcv", "sleep", "proc", "exit", "destroy", "ended"},
                      msg : LocMsg \cup {NoMsg}]
         /\ delegate \in [running : BOOLEAN, joinable : BOOLEAN, refs : 0 .. 2, deleted : 0 .. 1]
         /\ owner \in {"sends", "unblocked", "stop", "join", "destroy", "gone", "lost"}
         /\ fate \in [LocMsg -> [at : {"new", "queued", "handled", "refused"}, freed : 0 .. 1]]
         /\ log \in [accepted : Seq(LocMsg), handled : Seq(LocMsg)]
BY DEF MtTypeOK

\* A message sent while the queue is open goes to its end.
LEMMA SndKeepsInv ==
  ASSUME MtInv, NEW m \in LocMsg, MsgSnd(m), UNCHANGED <<delegate, owner>>,
         owner = "sends" \/ loop.pc = "proc"
  PROVE  MtInv'
<1> USE MtTypes DEF MtInv
<1>1. CASE msgq.unblocked
  <2>1. /\ fate' = [fate EXCEPT ![m].at = "refused"] /\ fate[m].at = "new"
        /\ UNCHANGED <<msgq, log, loop, delegate, owner>>
    BY <1>1 DEF MsgSnd
  <2>2. MtTypeOK'
    BY <2>1 DEF MtTypeOK
  <2>3. DelegateInv' /\ EndingInv' /\ OrderInv'
    BY <2>1 DEF DelegateInv, EndingInv, OrderInv, Holders
  <2>4. /\ \A n \in LocMsg : n # m => fate'[n] = fate[n]
        /\ fate'[m].at = "refused" /\ fate'[m].freed = fate[m].freed
    BY <2>1
  <2>5. PlaceInv' /\ FreshInv'
    BY <2>1, <2>4 DEF PlaceInv, FreshInv
  <2> QED
    BY <2>2, <2>3, <2>5
<1>2. CASE ~msgq.unblocked
  <2>1. /\ fate' = [fate EXCEPT ![m].at = "queued"] /\ fate[m].at = "new"
        /\ msgq' = [msgq EXCEPT !.list = Append(@, m)]
        /\ log' = [log EXCEPT !.accepted = Append(@, m)]
        /\ loop' = Woken /\ UNCHANGED <<delegate, owner>>
    BY <1>2 DEF MsgSnd
  <2>2. loop'.msg = loop.msg /\ loop'.pc = (IF loop.pc = "sleep" THEN "rcv" ELSE loop.pc)
    BY <2>1 DEF Woken
  <2>3. /\ msgq'.list = Append(msgq.list, m) /\ msgq'.alive = msgq.alive
        /\ msgq'.unblocked = msgq.unblocked /\ msgq.alive
        /\ log'.handled = log.handled /\ log'.accepted = Append(log.accepted, m)
    BY <1>2, <2>1 DEF EndingInv
  <2>4. /\ Len(msgq'.list) = Len(msgq.list) + 1 /\ msgq'.list[Len(msgq.list) + 1] = m
        /\ \A i \in 1 .. Len(msgq.list) : msgq'.list[i] = msgq.list[i]
        /\ Len(log'.accepted) = Len(log.accepted) + 1 /\ log'.accepted[Len(log.accepted) + 1] = m
        /\ \A i \in 1 .. Len(log.accepted) : log'.accepted[i] = log.accepted[i]
        /\ Len(msgq.list) \in Nat /\ Len(log.accepted) \in Nat /\ Len(log.handled) \in Nat
    BY <2>3
  <2>5. MtTypeOK'
    <3>1. loop' \in [pc : {"start", "check", "enter", "rcv", "sleep", "proc", "exit", "destroy", "ended"},
                     msg : LocMsg \cup {NoMsg}]
      BY <2>1 DEF Woken
    <3>2. Append(msgq.list, m) \in Seq(LocMsg) /\ Append(log.accepted, m) \in Seq(LocMsg)
      OBVIOUS
    <3> QED
      BY <2>1, <3>1, <3>2 DEF MtTypeOK
  <2>6. DelegateInv' /\ EndingInv'
    BY <1>2, <2>1, <2>2, <2>3 DEF DelegateInv, EndingInv, Holders
  <2>7. /\ \A n \in LocMsg : n # m => fate'[n] = fate[n]
        /\ fate'[m].at = "queued" /\ fate'[m].freed = fate[m].freed
    BY <2>1
  <2>8. \A i \in 1 .. Len(msgq.list) : msgq.list[i] \in LocMsg /\ msgq.list[i] # m
    BY <2>1 DEF PlaceInv
  <2>9. PlaceInv'
    <3>1. loop'.pc = "proc" <=> loop'.msg # NoMsg
      BY <2>2 DEF PlaceInv
    <3>2. loop'.msg # NoMsg => fate'[loop'.msg].at = "handled"
      BY <2>1, <2>2, <2>7 DEF PlaceInv
    <3>3. \A i \in 1 .. Len(msgq'.list) : fate'[msgq'.list[i]].at = "queued"
      BY <2>4, <2>7, <2>8 DEF PlaceInv
    <3>4. \A i, j \in 1 .. Len(msgq'.list) : msgq'.list[i] = msgq'.list[j] => i = j
      <4> SUFFICES ASSUME NEW i \in 1 .. Len(msgq'.list), NEW j \in 1 .. Len(msgq'.list),
                          msgq'.list[i] = msgq'.list[j]
                   PROVE  i = j
        OBVIOUS
      <4>1. CASE i \in 1 .. Len(msgq.list) /\ j \in 1 .. Len(msgq.list)
        BY <2>4, <4>1 DEF PlaceInv
      <4>2. CASE i \in 1 .. Len(msgq.list) /\ j = Len(msgq.list) + 1
        BY <2>4, <2>8, <4>2
      <4>3. CASE j \in 1 .. Len(msgq.list) /\ i = Len(msgq.list) + 1
        BY <2>4, <2>8, <4>3
      <4>4. CASE i = Len(msgq.list) + 1 /\ j = Len(msgq.list) + 1
        BY <4>4
      <4> QED
        BY <2>4, <4>1, <4>2, <4>3, <4>4
    <3>5. ASSUME NEW n \in LocMsg, fate'[n].at = "queued"
          PROVE \E i \in 1 .. Len(msgq'.list) : msgq'.list[i] = n
      BY <2>3, <2>4, <2>7, <3>5 DEF PlaceInv
    <3>6. \A n \in LocMsg : fate'[n].freed = 1 <=>
              \/ fate'[n].at = "handled" /\ loop'.msg # n
              \/ fate'[n].at = "queued" /\ ~msgq'.alive
      BY <2>1, <2>2, <2>3, <2>7 DEF PlaceInv
    <3> QED
      BY <3>1, <3>2, <3>3, <3>4, <3>5, <3>6 DEF PlaceInv
  <2>10. OrderInv'
    <3>1. /\ Len(log.handled) <= Len(log.accepted)
          /\ Len(log.accepted) = Len(log.handled) + Len(msgq.list)
      BY <2>3 DEF OrderInv
    <3>2. Len(log'.handled) <= Len(log'.accepted)
      BY <2>3, <2>4, <3>1
    <3>3. \A i \in 1 .. Len(log'.handled) : log'.handled[i] = log'.accepted[i]
      <4>1. \A i \in 1 .. Len(log.handled) :
                i \in 1 .. Len(log.accepted) /\ log.handled[i] = log.accepted[i]
        BY <2>4, <3>1 DEF OrderInv
      <4> QED
        BY <2>3, <2>4, <4>1
    <3>4. Len(log'.accepted) = Len(log'.handled) + Len(msgq'.list)
      BY <2>3, <2>4, <3>1
    <3>5. ASSUME NEW i \in 1 .. Len(msgq'.list)
          PROVE  msgq'.list[i] = log'.accepted[Len(log'.handled) + i]
      <4>1. CASE i \in 1 .. Len(msgq.list)
        <5>1. Len(log.handled) + i \in 1 .. Len(log.accepted)
          BY <2>4, <3>1, <4>1
        <5>2. msgq.list[i] = log.accepted[Len(log.handled) + i]
          BY <2>3, <4>1 DEF OrderInv
        <5> QED
          BY <2>3, <2>4, <4>1, <5>1, <5>2
      <4>2. CASE i = Len(msgq.list) + 1
        BY <2>3, <2>4, <3>1, <4>2
      <4> QED
        BY <2>4, <4>1, <4>2
    <3> QED
      BY <3>2, <3>3, <3>4, <3>5 DEF OrderInv
  <2>11. FreshInv'
    BY <2>2, <2>3, <2>7 DEF FreshInv
  <2> QED
    BY <2>5, <2>6, <2>9, <2>10, <2>11
<1> QED
  BY <1>1, <1>2

\* The thread takes the oldest message.
LEMMA RcvKeepsInv ==
  ASSUME MtInv, MsgRcv PROVE MtInv'
<1> USE MtTypes DEF MtInv
<1>1. CASE msgq.list = <<>>
  <2>1. /\ loop' = [loop EXCEPT !.pc = IF msgq.unblocked THEN "exit" ELSE "sleep"]
        /\ loop.pc = "rcv" /\ UNCHANGED <<msgq, fate, log, delegate, owner>>
    BY <1>1 DEF MsgRcv
  <2>2. loop'.msg = loop.msg /\ loop'.pc = (IF msgq.unblocked THEN "exit" ELSE "sleep")
    BY <2>1
  <2>3. MtTypeOK'
    BY <2>1 DEF MtTypeOK
  <2>4. DelegateInv' /\ EndingInv'
    BY <2>1, <2>2 DEF DelegateInv, EndingInv, Holders
  <2>5. PlaceInv' /\ OrderInv' /\ FreshInv'
    BY <2>1, <2>2 DEF PlaceInv, OrderInv, FreshInv
  <2> QED
    BY <2>3, <2>4, <2>5
<1>2. CASE msgq.list # <<>>
  <2> DEFINE m == Head(msgq.list)
  <2>1. /\ loop' = [pc |-> "proc", msg |-> m] /\ loop.pc = "rcv"
        /\ msgq' = [msgq EXCEPT !.list = Tail(@)]
        /\ fate' = [fate EXCEPT ![m].at = "handled"]
        /\ log' = [log EXCEPT !.handled = Append(@, m)]
        /\ UNCHANGED <<delegate, owner>>
    BY <1>2 DEF MsgRcv
  <2>2. /\ m \in LocMsg /\ m = msgq.list[1] /\ Len(msgq.list) >= 1
        /\ Tail(msgq.list) \in Seq(LocMsg) /\ Append(log.handled, m) \in Seq(LocMsg)
        /\ Len(msgq.list) \in Nat /\ Len(log.accepted) \in Nat /\ Len(log.handled) \in Nat
    BY <1>2
  <2>3. /\ msgq'.list = Tail(msgq.list) /\ msgq'.alive = msgq.alive
        /\ msgq'.unblocked = msgq.unblocked /\ msgq.alive
        /\ log'.handled = Append(log.handled, m) /\ log'.accepted = log.accepted
        /\ loop'.pc = "proc" /\ loop'.msg = m
    BY <2>1 DEF EndingInv
  <2>4. /\ Len(msgq'.list) = Len(msgq.list) - 1
        /\ \A i \in 1 .. Len(msgq'.list) : msgq'.list[i] = msgq.list[i + 1]
        /\ Len(log'.handled) = Len(log.handled) + 1 /\ log'.handled[Len(log.handled) + 1] = m
        /\ \A i \in 1 .. Len(log.handled) : log'.handled[i] = log.handled[i]
    BY <1>2, <2>2, <2>3
  <2>5. MtTypeOK'
    BY <2>1, <2>2, ZenonT(60) DEF MtTypeOK
  <2>6. DelegateInv' /\ EndingInv'
    BY <1>2, <2>1, <2>3 DEF DelegateInv, EndingInv, Holders
  <2>7. /\ \A n \in LocMsg : n # m => fate'[n] = fate[n]
        /\ fate'[m].at = "handled" /\ fate'[m].freed = fate[m].freed
    BY <2>1, <2>2
  <2>8. fate[m].at = "queued" /\ loop.msg = NoMsg
    <3>1. 1 \in 1 .. Len(msgq.list)
      BY <2>2
    <3>2. fate[msgq.list[1]].at = "queued"
      BY <3>1 DEF PlaceInv
    <3> QED
      BY <2>1, <2>2, <3>2 DEF PlaceInv
  <2>9. PlaceInv'
    <3>1. /\ loop'.pc = "proc" <=> loop'.msg # NoMsg
          /\ loop'.msg # NoMsg => fate'[loop'.msg].at = "handled"
      BY <2>2, <2>3, <2>7, MsgTaskAssumption
    <3>2. \A i \in 1 .. Len(msgq'.list) : msgq.list[i + 1] \in LocMsg /\ msgq.list[i + 1] # m
      BY <2>2, <2>4 DEF PlaceInv
    <3>3. \A i \in 1 .. Len(msgq'.list) : fate'[msgq'.list[i]].at = "queued"
      <4>1. \A i \in 1 .. Len(msgq'.list) : fate[msgq.list[i + 1]].at = "queued"
        BY <2>2, <2>4 DEF PlaceInv
      <4>2. \A i \in 1 .. Len(msgq'.list) : fate'[msgq.list[i + 1]] = fate[msgq.list[i + 1]]
        BY <2>7, <3>2
      <4> QED
        BY <2>4, <4>1, <4>2
    <3>4. \A i, j \in 1 .. Len(msgq'.list) : msgq'.list[i] = msgq'.list[j] => i = j
      BY <2>2, <2>4 DEF PlaceInv
    <3>5. ASSUME NEW n \in LocMsg, fate'[n].at = "queued"
          PROVE \E i \in 1 .. Len(msgq'.list) : msgq'.list[i] = n
      <4>1. PICK j \in 1 .. Len(msgq.list) : msgq.list[j] = n
        BY <2>3, <2>7, <3>5 DEF PlaceInv
      <4>2. j # 1
        BY <2>2, <2>7, <3>5, <4>1
      <4>3. j - 1 \in 1 .. Len(msgq'.list) /\ msgq'.list[j - 1] = n
        BY <2>2, <2>4, <4>1, <4>2, SMTT(30)
      <4> QED
        BY <4>3
    <3>6. \A n \in LocMsg : fate'[n].freed = 1 <=>
              \/ fate'[n].at = "handled" /\ loop'.msg # n
              \/ fate'[n].at = "queued" /\ ~msgq'.alive
      BY <2>3, <2>7, <2>8, MsgTaskAssumption DEF PlaceInv
    <3> QED
      BY <3>1, <3>3, <3>4, <3>5, <3>6 DEF PlaceInv
  <2>10. OrderInv'
    <3>1. /\ Len(log.accepted) = Len(log.handled) + Len(msgq.list)
          /\ \A i \in 1 .. Len(msgq.list) : msgq.list[i] = log.accepted[Len(log.handled) + i]
          /\ \A i \in 1 .. Len(log.handled) : log.handled[i] = log.accepted[i]
      BY <2>3 DEF OrderInv
    <3>2. Len(log'.accepted) = Len(log'.handled) + Len(msgq'.list)
      BY <2>2, <2>3, <2>4, <3>1
    <3>3. ASSUME NEW i \in 1 .. Len(msgq'.list)
          PROVE msgq'.list[i] = log'.accepted[Len(log'.handled) + i]
      <4>1. i + 1 \in 1 .. Len(msgq.list) /\ i \in Nat
        BY <2>2, <2>4
      <4>2. msgq.list[i + 1] = log.accepted[Len(log.handled) + (i + 1)]
        BY <3>1, <4>1
      <4>3. Len(log.handled) + (i + 1) = Len(log'.handled) + i
        BY <2>2, <2>4, <4>1
      <4> QED
        BY <2>3, <2>4, <4>2, <4>3
    <3>4. ASSUME NEW i \in 1 .. Len(log'.handled) PROVE log'.handled[i] = log'.accepted[i]
      <4>1. CASE i \in 1 .. Len(log.handled)
        BY <2>3, <2>4, <3>1, <4>1
      <4>2. CASE i = Len(log.handled) + 1
        <5>1. 1 \in 1 .. Len(msgq.list)
          BY <2>2
        <5>2. msgq.list[1] = log.accepted[Len(log.handled) + 1]
          BY <3>1, <5>1
        <5> QED
          BY <2>2, <2>3, <2>4, <4>2, <5>2
      <4> QED
        BY <2>2, <2>4, <4>1, <4>2
    <3>5. Len(log'.handled) <= Len(log'.accepted)
      BY <2>2, <2>4, <3>2
    <3> QED
      BY <3>2, <3>3, <3>4, <3>5 DEF OrderInv
  <2>11. FreshInv'
    BY <2>3 DEF FreshInv
  <2> QED
    BY <2>5, <2>6, <2>9, <2>10, <2>11
<1> QED
  BY <1>1, <1>2

\* The other steps of the thread, and those of the owner.
LEMMA NextMtInv == MtInv /\ [MtNext]_mtVars => MtInv'
<1> SUFFICES ASSUME MtInv, [MtNext]_mtVars PROVE MtInv'
  OBVIOUS
<1> USE MtTypes DEF MtInv
<1>1. ASSUME OwnerSends \/ HandlerSends PROVE MtInv'
  BY <1>1, SndKeepsInv DEF OwnerSends, HandlerSends
<1>2. ASSUME MsgRcv PROVE MtInv'
  BY <1>2, RcvKeepsInv
<1>3. ASSUME StartThread \/ CheckRunning \/ EnterRcv PROVE MtInv'
  <2>1. /\ UNCHANGED <<msgq, delegate, owner, fate, log>>
        /\ loop.pc \in {"start", "check", "enter"} /\ loop'.msg = loop.msg
        /\ loop'.pc \in {"check", "enter", "rcv", "exit", "destroy"}
        /\ loop'.pc = "exit" => ~delegate.running \/ msgq.unblocked
        /\ loop'.pc = "destroy" => loop.pc = "start"
    BY <1>3 DEF StartThread, CheckRunning, EnterRcv
  <2>2. MtTypeOK'
    BY <1>3 DEF StartThread, CheckRunning, EnterRcv, MtTypeOK
  <2>3. DelegateInv' /\ EndingInv'
    BY <2>1 DEF DelegateInv, EndingInv, Holders
  <2>4. PlaceInv' /\ OrderInv' /\ FreshInv'
    BY <2>1 DEF PlaceInv, OrderInv, FreshInv
  <2> QED
    BY <2>2, <2>3, <2>4
<1>4. ASSUME ProcEnds PROVE MtInv'
  <2> DEFINE m == loop.msg
  <2>1. /\ loop.pc = "proc" /\ m \in LocMsg /\ fate[m].at = "handled" /\ fate[m].freed = 0
        /\ loop' = [pc |-> "check", msg |-> NoMsg] /\ UNCHANGED <<msgq, delegate, owner, log>>
        /\ fate' = [fate EXCEPT ![m].freed = @ + 1]
    BY <1>4 DEF ProcEnds, PlaceInv
  <2>2. /\ \A n \in LocMsg : n # m => fate'[n] = fate[n]
        /\ fate'[m].at = "handled" /\ fate'[m].freed = 1
    BY <2>1
  <2>3. MtTypeOK'
    BY <2>1 DEF MtTypeOK
  <2>4. DelegateInv' /\ EndingInv' /\ OrderInv'
    BY <2>1 DEF DelegateInv, EndingInv, OrderInv, Holders
  <2>5. PlaceInv' /\ FreshInv'
    BY <2>1, <2>2, MsgTaskAssumption DEF PlaceInv, FreshInv, EndingInv
  <2> QED
    BY <2>3, <2>4, <2>5
<1>5. ASSUME DeleteRunnable PROVE MtInv'
  <2>1. /\ delegate' = [delegate EXCEPT !.running = FALSE] /\ loop.pc = "exit"
        /\ msgq' = [msgq EXCEPT !.list = <<>>, !.alive = FALSE]
        /\ loop' = [loop EXCEPT !.pc = "destroy"] /\ UNCHANGED <<owner, log>>
        /\ msgq.alive /\ msgq.unblocked /\ loop.msg = NoMsg
    BY <1>5 DEF DeleteRunnable, EndingInv, PlaceInv
  <2>2. \A n \in LocMsg :
            fate'[n] = IF \E i \in DOMAIN msgq.list : msgq.list[i] = n
                       THEN [fate[n] EXCEPT !.freed = @ + 1] ELSE fate[n]
    BY <1>5 DEF DeleteRunnable
  <2>3. \A n \in LocMsg : (\E i \in DOMAIN msgq.list : msgq.list[i] = n) <=> fate[n].at = "queued"
    <3>1. msgq.list \in Seq(LocMsg) /\ DOMAIN msgq.list = 1 .. Len(msgq.list)
      OBVIOUS
    <3>2. /\ \A i \in 1 .. Len(msgq.list) : fate[msgq.list[i]].at = "queued"
          /\ \A n \in LocMsg : fate[n].at = "queued" => \E i \in 1 .. Len(msgq.list) : msgq.list[i] = n
      BY <2>1 DEF PlaceInv
    <3> QED
      BY <3>1, <3>2
  <2>4. \A n \in LocMsg :
            /\ fate'[n].at = fate[n].at
            /\ fate'[n].freed = IF fate[n].at = "queued" THEN 1 ELSE fate[n].freed
    <3> SUFFICES ASSUME NEW n \in LocMsg
                 PROVE  /\ fate'[n].at = fate[n].at
                        /\ fate'[n].freed = IF fate[n].at = "queued" THEN 1 ELSE fate[n].freed
      OBVIOUS
    <3>1. fate[n] \in [at : {"new", "queued", "handled", "refused"}, freed : 0 .. 1]
      OBVIOUS
    <3>2. fate[n].at = "queued" => fate[n].freed = 0
      BY <2>1, <3>1 DEF PlaceInv
    <3>3. fate'[n] = IF fate[n].at = "queued" THEN [fate[n] EXCEPT !.freed = @ + 1] ELSE fate[n]
      BY <2>2, <2>3
    <3> QED
      BY <3>1, <3>2, <3>3
  <2>5. MtTypeOK'
    <3>1. fate' \in [LocMsg -> [at : {"new", "queued", "handled", "refused"}, freed : 0 .. 1]]
      <4> SUFFICES ASSUME NEW n \in LocMsg
                   PROVE  fate'[n] \in [at : {"new", "queued", "handled", "refused"}, freed : 0 .. 1]
        BY <1>5 DEF DeleteRunnable
      <4>1. fate[n] \in [at : {"new", "queued", "handled", "refused"}, freed : 0 .. 1]
        OBVIOUS
      <4>2. fate[n].at = "queued" => fate[n].freed = 0
        BY <2>1, <4>1 DEF PlaceInv
      <4>3. fate'[n] = IF fate[n].at = "queued" THEN [fate[n] EXCEPT !.freed = @ + 1] ELSE fate[n]
        BY <2>2, <2>3
      <4> QED
        BY <4>1, <4>2, <4>3
    <3>2. <<>> \in Seq(LocMsg)
      OBVIOUS
    <3> QED
      BY <2>1, <3>1, <3>2 DEF MtTypeOK
  <2>6. DelegateInv' /\ EndingInv' /\ OrderInv'
    BY <2>1 DEF DelegateInv, EndingInv, OrderInv, Holders
  <2>7. PlaceInv' /\ FreshInv'
    BY <2>1, <2>4 DEF PlaceInv, FreshInv
  <2> QED
    BY <2>5, <2>6, <2>7
<1>6. ASSUME ThreadLetsGo \/ OwnerLetsGo PROVE MtInv'
  <2>1. /\ LetGo /\ UNCHANGED <<msgq, fate, log>>
        /\ \/ loop.pc = "destroy" /\ loop' = [loop EXCEPT !.pc = "ended"] /\ owner' = owner
           \/ owner = "destroy" /\ owner' = "gone" /\ loop' = loop
    BY <1>6 DEF ThreadLetsGo, OwnerLetsGo
  <2>2. /\ delegate'.refs = delegate.refs - 1 /\ delegate'.running = delegate.running
        /\ delegate'.deleted = IF delegate.refs = 1 THEN 1 ELSE 0
        /\ delegate' \in [running : BOOLEAN, joinable : BOOLEAN, refs : 0 .. 2, deleted : 0 .. 1]
    <3>1. delegate.refs \in 1 .. 2 /\ delegate.deleted = 0
      BY <2>1 DEF DelegateInv, Holders
    <3>2. delegate' = [delegate EXCEPT !.refs = delegate.refs - 1,
                           !.deleted = IF delegate.refs = 1 THEN 0 + 1 ELSE 0]
      BY <2>1, <3>1 DEF LetGo
    <3>3. /\ delegate'.refs = delegate.refs - 1 /\ delegate'.running = delegate.running
          /\ delegate'.deleted = IF delegate.refs = 1 THEN 1 ELSE 0
      BY <3>2
    <3>4. delegate.refs - 1 \in 0 .. 2 /\ (IF delegate.refs = 1 THEN 0 + 1 ELSE 0) \in 0 .. 1
      BY <3>1
    <3> QED
      BY <3>2, <3>3, <3>4
  <2>3. MtTypeOK'
    BY <2>1, <2>2 DEF MtTypeOK
  <2>4. DelegateInv'
    BY <2>1, <2>2 DEF DelegateInv, Holders
  <2>5. EndingInv' /\ PlaceInv' /\ OrderInv' /\ FreshInv'
    BY <2>1, <2>2 DEF EndingInv, PlaceInv, OrderInv, FreshInv
  <2> QED
    BY <2>3, <2>4, <2>5
<1>7. ASSUME Unblock PROVE MtInv'
  <2>1. /\ msgq' = [msgq EXCEPT !.unblocked = TRUE] /\ UNCHANGED <<delegate, fate, log>>
        /\ owner = "sends" /\ owner' = "unblocked" /\ loop' = Woken
    BY <1>7 DEF Unblock
  <2>2. /\ loop'.msg = loop.msg /\ loop'.pc = (IF loop.pc = "sleep" THEN "rcv" ELSE loop.pc)
        /\ loop' \in [pc : {"start", "check", "enter", "rcv", "sleep", "proc", "exit", "destroy", "ended"},
                      msg : LocMsg \cup {NoMsg}]
    BY <2>1 DEF Woken
  <2>3. MtTypeOK'
    BY <2>1, <2>2 DEF MtTypeOK
  <2>4. DelegateInv' /\ EndingInv'
    BY <2>1, <2>2 DEF DelegateInv, EndingInv, Holders
  <2>5. PlaceInv' /\ OrderInv' /\ FreshInv'
    BY <2>1, <2>2 DEF PlaceInv, OrderInv, FreshInv
  <2> QED
    BY <2>3, <2>4, <2>5
<1>8. ASSUME TakeThread \/ StopRunning \/ JoinThread PROVE MtInv'
  <2>1. /\ UNCHANGED <<msgq, loop, fate, log>>
        /\ owner \in {"unblocked", "stop", "join"}
        /\ owner' \in {"stop", "join", "destroy", "lost"}
        /\ delegate' \in {delegate, [delegate EXCEPT !.running = FALSE, !.joinable = FALSE]}
    BY <1>8 DEF TakeThread, Bye, StopRunning, JoinThread
  <2>2. MtTypeOK'
    BY <2>1 DEF MtTypeOK
  <2>3. DelegateInv' /\ EndingInv'
    BY <2>1 DEF DelegateInv, EndingInv, Holders
  <2>4. PlaceInv' /\ OrderInv' /\ FreshInv'
    BY <2>1 DEF PlaceInv, OrderInv, FreshInv
  <2> QED
    BY <2>2, <2>3, <2>4
<1>9. ASSUME UNCHANGED mtVars PROVE MtInv'
  BY <1>9 DEF mtVars, MtTypeOK, DelegateInv, EndingInv, PlaceInv, OrderInv, FreshInv, Holders
<1> QED
  BY <1>1, <1>2, <1>3, <1>4, <1>5, <1>6, <1>7, <1>8, <1>9 DEF MtNext, ThreadMain, Destroyer

\* MtInv says what the properties say.
LEMMA MtInvImplies == MtInv => MessagesKept /\ DelegateOutlivesUsers
<1> SUFFICES ASSUME MtInv PROVE MessagesKept /\ DelegateOutlivesUsers
  OBVIOUS
<1> USE MtTypes DEF MtInv
<1>1. HandledInOrder
  <2>1. /\ log.handled \in Seq(LocMsg) /\ log.accepted \in Seq(LocMsg)
        /\ Len(log.handled) \in Nat /\ Len(log.handled) <= Len(log.accepted)
    BY DEF OrderInv
  <2>2. SubSeq(log.accepted, 1, Len(log.handled))
            = [i \in 1 .. Len(log.handled) |-> log.accepted[i]]
    BY <2>1
  <2>3. log.handled = [i \in 1 .. Len(log.handled) |-> log.handled[i]]
    BY <2>1
  <2> QED
    BY <2>2, <2>3 DEF OrderInv, HandledInOrder
<1>2. MessageFreedOnce
  <2>1. \A m \in LocMsg : fate[m].freed \in 0 .. 1
    OBVIOUS
  <2>2. ASSUME NEW m \in LocMsg, loop.pc = "ended"
        PROVE  IF msgq.alive THEN fate[m].at # "handled"
                             ELSE fate[m].freed = 1 <=> fate[m].at \in {"queued", "handled"}
    <3>1. loop.msg = NoMsg /\ m # NoMsg
      BY <2>2, MsgTaskAssumption DEF PlaceInv
    <3>2. CASE msgq.alive
      BY <2>2, <3>2 DEF FreshInv
    <3>3. CASE ~msgq.alive
      BY <3>1, <3>3 DEF PlaceInv
    <3> QED
      BY <3>2, <3>3
  <2>3. ASSUME NEW m \in LocMsg
        PROVE  /\ fate[m].at = "queued" /\ msgq.alive => fate[m].freed = 0
               /\ loop.msg = m => fate[m].freed = 0
    BY <2>1, <2>3, MsgTaskAssumption DEF PlaceInv
  <2> QED
    BY <2>2, <2>3 DEF MessageFreedOnce
<1>3. DelegateOutlivesUsers
  BY DEF DelegateOutlivesUsers, DelegateInv, EndingInv, Holders
<1> QED
  BY <1>1, <1>2, <1>3 DEF MessagesKept

\* What msg_q_snd accepts is handled in order or left in the queue.  It is freed
\* once when the thread deletes the task, and none is handled or freed when the
\* thread was stopped before it started (msg_q_rcv, threadMain, msg_q_destroy).
THEOREM MessagesAreKept == MtSpec => []MessagesKept
<1>1. MtInv => MessagesKept
  BY MtInvImplies
<1> QED
  BY <1>1, InitMtInv, NextMtInv, PTL DEF MtSpec

\* The delegate outlives the thread and its owner and is freed once, and the task
\* outlives the loop of its thread, though not what the owner does in it
\* (LocThreadDelegate::destroy by the thread and by its owner, threadMain).
THEOREM DelegateIsSafe == MtSpec => []DelegateOutlivesUsers
<1>1. MtInv => DelegateOutlivesUsers
  BY MtInvImplies
<1> QED
  BY <1>1, InitMtInv, NextMtInv, PTL DEF MtSpec

-----------------------------------------------------------------------------
Kinds == {"push", "remove", "expire"}
Delegates == [time : Nat, mClient : Client \cup {NoClient},
              state : {"new", "started", "deleted"}, ends : 0 .. 1]

Typed ==
    /\ now \in Nat /\ made \in 0 .. MaxTimers
    /\ client \in [Client -> Timer \cup {NoTimer}]
    /\ timer \in [Timer -> Delegates]
    /\ heap.in \in SUBSET Timer
    /\ msgs \in Seq([kind : Kinds, timer : Timer \cup {NoTimer}])
    /\ task.timer \in Timer \cup {NoTimer}

\* A client's timer has not ended, and no other client has it.
ClientInv ==
    /\ \A c \in Client : client[c] # NoTimer =>
           client[c] <= made /\ timer[client[c]].ends = 0
    /\ \A c, b \in Client : client[c] = client[b] /\ client[c] # NoTimer => c = b

\* A timer that was ended is deleted, or will be by a message.
EndInv ==
    \A d \in Timer :
        /\ timer[d].state = "new" <=> d > made
        /\ timer[d].state = "new" => timer[d].ends = 0
        /\ timer[d].state = "deleted" => timer[d].ends = 1
        /\ timer[d].ends = 1 /\ timer[d].state = "started" =>
               \E i \in 1 .. Len(msgs) : msgs[i].timer = d /\ msgs[i].kind = "remove"

\* Messages are about started timers, a removal about one that was ended.
AboutInv ==
    \A i \in 1 .. Len(msgs) :
        /\ msgs[i].kind = "expire" <=> msgs[i].timer = NoTimer
        /\ msgs[i].timer # NoTimer => timer[msgs[i].timer].state = "started"
        /\ msgs[i].kind = "remove" => timer[msgs[i].timer].ends = 1

\* Two messages about a timer are its push, then its removal.
MsgOrder ==
    \A i, j \in 1 .. Len(msgs) :
        i < j /\ msgs[i].timer = msgs[j].timer /\ msgs[i].timer # NoTimer =>
            msgs[i].kind = "push" /\ msgs[j].kind = "remove"

\* What the heap and the task refer to is not deleted.
HeapInv ==
    /\ \A d \in heap.in : timer[d].state = "started"
    /\ heap.top = NoTimer \/ heap.top \in heap.in

TaskInv ==
    /\ task.pc # "popped" => task.timer = NoTimer
    /\ task.timer # NoTimer => timer[task.timer].state = "started"

LtInv == Typed /\ ClientInv /\ EndInv /\ AboutInv /\ MsgOrder /\ HeapInv /\ TaskInv

-----------------------------------------------------------------------------
\* Without timers the invariant holds.
LEMMA InitLtInv == LtInit => LtInv
<1> SUFFICES ASSUME LtInit PROVE LtInv
  OBVIOUS
<1> USE LocTimerAssumption DEF LtInit
<1>1. Typed
  <2>1. <<>> \in Seq([kind : Kinds, timer : Timer \cup {NoTimer}])
    OBVIOUS
  <2> QED
    BY <2>1 DEF Typed, Delegates
<1>2. ClientInv /\ EndInv
  BY DEF ClientInv, EndInv, Timer
<1>3. AboutInv /\ MsgOrder /\ HeapInv /\ TaskInv
  BY DEF AboutInv, MsgOrder, HeapInv, TaskInv
<1> QED
  BY <1>1, <1>2, <1>3 DEF LtInv

\* Messages are of a kind, and about a timer or none.
LEMMA MsgTypes ==
  ASSUME Typed
  PROVE  \A i \in 1 .. Len(msgs) :
             msgs[i].kind \in Kinds /\ msgs[i].timer \in Timer \cup {NoTimer}
<1> DEFINE M == [kind : Kinds, timer : Timer \cup {NoTimer}]
<1>1. \A m \in M : m.kind \in Kinds /\ m.timer \in Timer \cup {NoTimer}
  OBVIOUS
<1>2. msgs \in Seq(M)
  BY DEF Typed
<1> HIDE DEF M
<1>3. \A i \in 1 .. Len(msgs) : msgs[i] \in M
  BY <1>2
<1> QED
  BY <1>1, <1>3

\* A message that is sent comes last.
LEMMA Sending ==
  ASSUME Typed, NEW k \in Kinds, NEW d \in Timer \cup {NoTimer}, msgs' = Append(msgs, Msg(k, d))
  PROVE  /\ Len(msgs) \in Nat /\ Len(msgs') = Len(msgs) + 1
         /\ msgs' \in Seq([kind : Kinds, timer : Timer \cup {NoTimer}])
         /\ msgs'[Len(msgs) + 1].kind = k /\ msgs'[Len(msgs) + 1].timer = d
         /\ \A i \in 1 .. Len(msgs) : msgs'[i] = msgs[i]
         /\ \A i \in 1 .. Len(msgs') : i \in 1 .. Len(msgs) \/ i = Len(msgs) + 1
<1>1. Msg(k, d) \in [kind : Kinds, timer : Timer \cup {NoTimer}]
  BY DEF Msg
<1>2. msgs \in Seq([kind : Kinds, timer : Timer \cup {NoTimer}])
  BY DEF Typed
<1>3. Msg(k, d).kind = k /\ Msg(k, d).timer = d
  BY DEF Msg
<1> QED
  BY <1>1, <1>2, <1>3

\* A message that is taken was the first.
LEMMA Taking ==
  ASSUME Typed, NEW k, TimerTake(k), msgs' = Tail(msgs)
  PROVE  /\ Len(msgs) \in Nat \ {0} /\ Len(msgs') = Len(msgs) - 1
         /\ msgs' \in Seq([kind : Kinds, timer : Timer \cup {NoTimer}])
         /\ Head(msgs) = msgs[1] /\ msgs[1].kind = k /\ msgs[1].timer \in Timer \cup {NoTimer}
         /\ 1 \in 1 .. Len(msgs) /\ task.pc = "wait"
         /\ \A i \in 1 .. Len(msgs') : i + 1 \in 1 .. Len(msgs) /\ msgs'[i] = msgs[i + 1]
<1> DEFINE M == [kind : Kinds, timer : Timer \cup {NoTimer}]
<1>1. msgs \in Seq(M) /\ msgs # <<>>
  BY DEF Typed, TimerTake
<1>2. Head(msgs).kind = k /\ task.pc = "wait"
  BY DEF TimerTake
<1> HIDE DEF M
<1>3. /\ Len(msgs) \in Nat \ {0} /\ Len(msgs') = Len(msgs) - 1 /\ msgs' \in Seq(M)
      /\ Head(msgs) = msgs[1]
      /\ \A i \in 1 .. Len(msgs') : i + 1 \in 1 .. Len(msgs) /\ msgs'[i] = msgs[i + 1]
  BY <1>1
<1>4. 1 \in 1 .. Len(msgs)
  BY <1>3
<1>5. msgs[1].timer \in Timer \cup {NoTimer}
  BY <1>4, MsgTypes
<1> QED
  BY <1>2, <1>3, <1>4, <1>5 DEF M

\* Where nothing but the last message is new, the others keep what they say.
LEMMA SentKeeps ==
  ASSUME LtInv, NEW k \in Kinds, NEW d \in Timer \cup {NoTimer},
         msgs' = Append(msgs, Msg(k, d)),
         \A i \in 1 .. Len(msgs) : msgs[i].timer # NoTimer =>
             /\ timer'[msgs[i].timer].state = timer[msgs[i].timer].state
             /\ msgs[i].kind = "remove" =>
                    timer'[msgs[i].timer].ends = timer[msgs[i].timer].ends,
         k = "expire" <=> d = NoTimer,
         d # NoTimer => timer'[d].state = "started",
         k = "remove" => timer'[d].ends = 1,
         \A i \in 1 .. Len(msgs) : msgs[i].timer = d /\ d # NoTimer =>
             msgs[i].kind = "push" /\ k = "remove"
  PROVE  AboutInv' /\ MsgOrder'
<1>ty. Typed
  BY DEF LtInv
<1>1. /\ Len(msgs) \in Nat /\ Len(msgs') = Len(msgs) + 1
      /\ msgs'[Len(msgs) + 1].kind = k /\ msgs'[Len(msgs) + 1].timer = d
      /\ \A i \in 1 .. Len(msgs) : msgs'[i] = msgs[i]
      /\ \A i \in 1 .. Len(msgs') : i \in 1 .. Len(msgs) \/ i = Len(msgs) + 1
  BY <1>ty, Sending
<1>2. AboutInv'
  <2> SUFFICES ASSUME NEW i \in 1 .. Len(msgs')
               PROVE  /\ msgs'[i].kind = "expire" <=> msgs'[i].timer = NoTimer
                      /\ msgs'[i].timer # NoTimer => timer'[msgs'[i].timer].state = "started"
                      /\ msgs'[i].kind = "remove" => timer'[msgs'[i].timer].ends = 1
    BY DEF AboutInv
  <2>1. CASE i \in 1 .. Len(msgs)
    <3>1. /\ msgs[i].kind = "expire" <=> msgs[i].timer = NoTimer
          /\ msgs[i].timer # NoTimer => timer[msgs[i].timer].state = "started"
          /\ msgs[i].kind = "remove" => timer[msgs[i].timer].ends = 1
      BY <2>1 DEF LtInv, AboutInv
    <3> QED
      BY <1>1, <2>1, <3>1
  <2>2. CASE i = Len(msgs) + 1
    BY <1>1, <2>2
  <2> QED
    BY <1>1, <2>1, <2>2
<1>3. MsgOrder'
  <2> SUFFICES ASSUME NEW i \in 1 .. Len(msgs'), NEW j \in 1 .. Len(msgs'), i < j,
                      msgs'[i].timer = msgs'[j].timer, msgs'[i].timer # NoTimer
               PROVE  msgs'[i].kind = "push" /\ msgs'[j].kind = "remove"
    BY DEF MsgOrder
  <2>1. i \in 1 .. Len(msgs)
    BY <1>1
  <2>2. CASE j \in 1 .. Len(msgs)
    BY <1>1, <2>1, <2>2 DEF LtInv, MsgOrder
  <2>3. CASE j = Len(msgs) + 1
    BY <1>1, <2>1, <2>3
  <2> QED
    BY <1>1, <2>2, <2>3
<1> QED
  BY <1>2, <1>3

\* The messages that are left after the first keep what they say.
LEMMA TakenKeeps ==
  ASSUME LtInv, NEW k, TimerTake(k), msgs' = Tail(msgs),
         \A i \in 2 .. Len(msgs) : msgs[i].timer # NoTimer =>
             timer'[msgs[i].timer] = timer[msgs[i].timer]
  PROVE  /\ AboutInv' /\ MsgOrder'
         /\ \A d \in Timer : (\E i \in 1 .. Len(msgs) : msgs[i].timer = d /\ msgs[i].kind = "remove") =>
                \/ msgs[1].timer = d /\ k = "remove"
                \/ \E i \in 1 .. Len(msgs') : msgs'[i].timer = d /\ msgs'[i].kind = "remove"
<1>ty. Typed
  BY DEF LtInv
<1>1. /\ Len(msgs) \in Nat \ {0} /\ Len(msgs') = Len(msgs) - 1 /\ msgs[1].kind = k
      /\ \A i \in 1 .. Len(msgs') : i + 1 \in 1 .. Len(msgs) /\ msgs'[i] = msgs[i + 1]
  BY <1>ty, Taking
<1>2. AboutInv'
  <2> SUFFICES ASSUME NEW i \in 1 .. Len(msgs')
               PROVE  /\ msgs'[i].kind = "expire" <=> msgs'[i].timer = NoTimer
                      /\ msgs'[i].timer # NoTimer => timer'[msgs'[i].timer].state = "started"
                      /\ msgs'[i].kind = "remove" => timer'[msgs'[i].timer].ends = 1
    BY DEF AboutInv
  <2>1. i + 1 \in 2 .. Len(msgs) /\ i + 1 \in 1 .. Len(msgs) /\ msgs'[i] = msgs[i + 1]
    BY <1>1
  <2>2. /\ msgs[i + 1].kind = "expire" <=> msgs[i + 1].timer = NoTimer
        /\ msgs[i + 1].timer # NoTimer => timer[msgs[i + 1].timer].state = "started"
        /\ msgs[i + 1].kind = "remove" => timer[msgs[i + 1].timer].ends = 1
    BY <2>1 DEF LtInv, AboutInv
  <2>3. msgs[i + 1].kind = "remove" => msgs[i + 1].timer # NoTimer
    BY <2>2
  <2> QED
    BY <2>1, <2>2, <2>3
<1>3. MsgOrder'
  <2> SUFFICES ASSUME NEW i \in 1 .. Len(msgs'), NEW j \in 1 .. Len(msgs'), i < j,
                      msgs'[i].timer = msgs'[j].timer, msgs'[i].timer # NoTimer
               PROVE  msgs'[i].kind = "push" /\ msgs'[j].kind = "remove"
    BY DEF MsgOrder
  <2>1. /\ i + 1 \in 1 .. Len(msgs) /\ j + 1 \in 1 .. Len(msgs) /\ i + 1 < j + 1
        /\ msgs'[i] = msgs[i + 1] /\ msgs'[j] = msgs[j + 1]
    BY <1>1
  <2> QED
    BY <2>1 DEF LtInv, MsgOrder
<1>4. ASSUME NEW d \in Timer, NEW i \in 1 .. Len(msgs), msgs[i].timer = d, msgs[i].kind = "remove"
      PROVE  \/ msgs[1].timer = d /\ k = "remove"
             \/ \E n \in 1 .. Len(msgs') : msgs'[n].timer = d /\ msgs'[n].kind = "remove"
  <2>1. CASE i = 1
    BY <1>1, <1>4, <2>1
  <2>2. CASE i # 1
    <3>1. i - 1 \in 1 .. Len(msgs') /\ (i - 1) + 1 = i
      BY <1>1, <2>2
    <3>2. msgs'[i - 1] = msgs[i]
      BY <1>1, <3>1
    <3> QED
      BY <1>4, <3>1, <3>2
  <2> QED
    BY <2>1, <2>2
<1> QED
  BY <1>2, <1>3, <1>4

-----------------------------------------------------------------------------
\* A timer is started with a new delegate.
LEMMA StartKeeps == ASSUME LtInv, NEW c \in Client, TimerStart(c) PROVE LtInv'
<1> DEFINE d == made + 1
<1>1. PICK t \in now + 1 .. MaxTime :
        /\ made' = d /\ client' = [client EXCEPT ![c] = d]
        /\ timer' = [timer EXCEPT ![d] = [time |-> t, mClient |-> c, state |-> "started", ends |-> 0]]
        /\ msgs' = Append(msgs, Msg("push", d))
  BY DEF TimerStart
<1>2. client[c] = NoTimer /\ made < MaxTimers /\ UNCHANGED <<now, heap, fd, task, pollTask>>
  BY DEF TimerStart
<1>ty. Typed /\ ClientInv /\ EndInv /\ AboutInv /\ HeapInv /\ TaskInv
  BY DEF LtInv
<1>3. d \in Timer /\ d # NoTimer /\ d \in 0 .. MaxTimers /\ timer[d].state = "new"
      /\ made \in Nat /\ t \in Nat
  BY <1>2, <1>ty, LocTimerAssumption DEF Typed, Timer, NoTimer, EndInv
<1>4. /\ \A e \in Timer : e # d => timer'[e] = timer[e]
      /\ timer'[d] = [time |-> t, mClient |-> c, state |-> "started", ends |-> 0]
  BY <1>1, <1>3, <1>ty DEF Typed
<1>5. /\ client'[c] = d /\ \A b \in Client : b # c => client'[b] = client[b]
      /\ \A b \in Client : client[b] # d
  BY <1>1, <1>3, <1>ty DEF Typed, ClientInv
<1>6. Typed'
  <2>1. timer'[d] \in Delegates
    BY <1>3, <1>4 DEF Delegates
  <2>2. timer' \in [Timer -> Delegates]
    BY <1>1, <1>4, <1>ty, <2>1 DEF Typed
  <2>3. msgs' \in Seq([kind : Kinds, timer : Timer \cup {NoTimer}])
    BY <1>1, <1>3, <1>ty, Sending DEF Kinds
  <2> QED
    BY <1>1, <1>2, <1>3, <1>ty, <2>2, <2>3 DEF Typed
<1>7. ClientInv'
  <2>1. \A b \in Client : client'[b] # NoTimer => client'[b] <= made' /\ timer'[client'[b]].ends = 0
    <3> SUFFICES ASSUME NEW b \in Client, client'[b] # NoTimer
                 PROVE  client'[b] <= made' /\ timer'[client'[b]].ends = 0
      OBVIOUS
    <3>1. CASE b = c
      BY <1>1, <1>3, <1>4, <1>5, <3>1
    <3>2. CASE b # c
      <4>1. /\ client'[b] = client[b] /\ client[b] \in Timer /\ client[b] <= made
            /\ timer[client[b]].ends = 0 /\ client[b] # d
        BY <1>5, <1>ty, <3>2 DEF Typed, ClientInv
      <4> QED
        BY <1>1, <1>3, <1>4, <4>1 DEF Timer
    <3> QED
      BY <3>1, <3>2
  <2>2. \A b, e \in Client : client'[b] = client'[e] /\ client'[b] # NoTimer => b = e
    BY <1>5, <1>ty DEF ClientInv
  <2> QED
    BY <2>1, <2>2 DEF ClientInv
<1>8. \A i \in 1 .. Len(msgs) : msgs[i].timer # NoTimer => msgs[i].timer # d /\ msgs[i].timer \in Timer
  BY <1>3, <1>ty, MsgTypes DEF AboutInv
<1>9. AboutInv' /\ MsgOrder'
  BY <1>1, <1>3, <1>4, <1>8, SentKeeps DEF Kinds
<1>10. EndInv'
  <2> SUFFICES ASSUME NEW e \in Timer
               PROVE  /\ timer'[e].state = "new" <=> e > made'
                      /\ timer'[e].state = "new" => timer'[e].ends = 0
                      /\ timer'[e].state = "deleted" => timer'[e].ends = 1
                      /\ timer'[e].ends = 1 /\ timer'[e].state = "started" =>
                           \E i \in 1 .. Len(msgs') : msgs'[i].timer = e /\ msgs'[i].kind = "remove"
    BY DEF EndInv
  <2>1. CASE e = d
    BY <1>1, <1>3, <1>4, <2>1
  <2>2. CASE e # d
    <3>1. timer'[e] = timer[e] /\ (e > made' <=> e > made)
      BY <1>1, <1>3, <1>4, <2>2 DEF Timer
    <3>2. \A i \in 1 .. Len(msgs) : i \in 1 .. Len(msgs') /\ msgs'[i] = msgs[i]
      BY <1>1, <1>3, <1>ty, Sending DEF Kinds
    <3> QED
      BY <1>ty, <3>1, <3>2 DEF EndInv
  <2> QED
    BY <2>1, <2>2
<1>11. HeapInv' /\ TaskInv'
  <2>1. \A e \in heap.in : e \in Timer /\ e # d
    BY <1>3, <1>ty DEF HeapInv, Typed
  <2>2. task.timer # NoTimer => task.timer \in Timer /\ task.timer # d
    BY <1>3, <1>ty DEF TaskInv, Typed
  <2> QED
    BY <1>2, <1>4, <1>ty, <2>1, <2>2 DEF HeapInv, TaskInv
<1> QED
  BY <1>6, <1>7, <1>9, <1>10, <1>11 DEF LtInv

\* A timer is ended by its client, or by the callback of an expiry.
LEMMA StoppedKeeps ==
  ASSUME LtInv, NEW c \in Client, client[c] # NoTimer, Stopped(c),
         UNCHANGED <<now, made, heap>>,
         task' = task \/ (task'.timer = NoTimer /\ task'.pc # "popped")
  PROVE  LtInv'
<1> DEFINE d == client[c]
<1>1. /\ timer' = [timer EXCEPT ![d].mClient = NoClient, ![d].ends = @ + 1]
      /\ client' = [client EXCEPT ![c] = NoTimer] /\ msgs' = Append(msgs, Msg("remove", d))
  BY DEF Stopped
<1>ty. Typed /\ ClientInv /\ EndInv /\ AboutInv /\ HeapInv /\ TaskInv
  BY DEF LtInv
<1>2. d \in Timer /\ d # NoTimer /\ d <= made /\ timer[d].ends = 0 /\ made \in Nat
  BY <1>ty DEF Typed, ClientInv
<1>3. timer[d].state = "started" /\ timer[d] \in Delegates
  <2>1. timer[d] \in Delegates
    BY <1>2, <1>ty DEF Typed
  <2>2. ~(d > made)
    BY <1>2 DEF Timer
  <2> QED
    BY <1>2, <1>ty, <2>1, <2>2 DEF EndInv, Delegates
<1>4. /\ \A e \in Timer : e # d => timer'[e] = timer[e]
      /\ timer'[d].state = "started" /\ timer'[d].ends = 1 /\ timer'[d] \in Delegates
  <2>1. timer' = [timer EXCEPT ![d] = [timer[d] EXCEPT !.mClient = NoClient, !.ends = @ + 1]]
    BY <1>1, <1>2, <1>3, <1>ty DEF Typed, Delegates
  <2>2. timer'[d] = [timer[d] EXCEPT !.mClient = NoClient, !.ends = @ + 1]
    BY <1>2, <1>ty, <2>1 DEF Typed
  <2>3. 0 + 1 \in 0 .. 1
    OBVIOUS
  <2>4. timer'[d].state = "started" /\ timer'[d].ends = 1 /\ timer'[d] \in Delegates
    <3>1. timer'[d] = [timer[d] EXCEPT !.mClient = NoClient, !.ends = 1]
      BY <1>2, <1>3, <2>2 DEF Delegates
    <3>2. 1 \in 0 .. 1
      OBVIOUS
    <3> QED
      BY <1>3, <3>1, <3>2 DEF Delegates
  <2> QED
    BY <1>2, <1>ty, <2>1, <2>4 DEF Typed
<1>5. client'[c] = NoTimer /\ \A b \in Client : b # c => client'[b] = client[b] /\ client[b] # d
  BY <1>1, <1>2, <1>ty DEF Typed, ClientInv
<1>6. Typed'
  <2>1. timer' \in [Timer -> Delegates]
    BY <1>1, <1>4, <1>ty DEF Typed
  <2>2. msgs' \in Seq([kind : Kinds, timer : Timer \cup {NoTimer}])
    BY <1>1, <1>2, <1>ty, Sending DEF Kinds
  <2> QED
    BY <1>1, <1>ty, <2>1, <2>2 DEF Typed
<1>7. ClientInv'
  <2>1. \A b \in Client : client'[b] # NoTimer =>
            b # c /\ client'[b] = client[b] /\ client[b] \in Timer /\ client[b] # d
    BY <1>5, <1>ty DEF Typed
  <2> QED
    BY <1>4, <1>ty, <2>1 DEF ClientInv
<1>8. \A i \in 1 .. Len(msgs) : msgs[i].timer = d => msgs[i].kind = "push"
  <2> SUFFICES ASSUME NEW i \in 1 .. Len(msgs), msgs[i].timer = d PROVE msgs[i].kind = "push"
    OBVIOUS
  <2>1. msgs[i].kind \in Kinds
    BY <1>ty, MsgTypes
  <2> QED
    BY <1>2, <1>ty, <2>1 DEF AboutInv, Kinds
<1>9. AboutInv' /\ MsgOrder'
  <2>1. \A i \in 1 .. Len(msgs) : msgs[i].timer # NoTimer =>
            /\ timer'[msgs[i].timer].state = timer[msgs[i].timer].state
            /\ msgs[i].kind = "remove" => timer'[msgs[i].timer].ends = timer[msgs[i].timer].ends
    <3> SUFFICES ASSUME NEW i \in 1 .. Len(msgs), msgs[i].timer # NoTimer
                 PROVE  /\ timer'[msgs[i].timer].state = timer[msgs[i].timer].state
                        /\ msgs[i].kind = "remove" =>
                               timer'[msgs[i].timer].ends = timer[msgs[i].timer].ends
      OBVIOUS
    <3>1. msgs[i].timer \in Timer
      BY <1>ty, MsgTypes
    <3> QED
      BY <1>3, <1>4, <1>8, <3>1
  <2>2. "remove" \in Kinds /\ d \in Timer \cup {NoTimer}
    BY <1>2 DEF Kinds
  <2> QED
    BY <1>1, <1>2, <1>4, <1>8, <2>1, <2>2, SentKeeps
<1>10. EndInv'
  <2>0. /\ \A i \in 1 .. Len(msgs) : i \in 1 .. Len(msgs') /\ msgs'[i] = msgs[i]
        /\ Len(msgs) + 1 \in 1 .. Len(msgs')
        /\ msgs'[Len(msgs) + 1].timer = d /\ msgs'[Len(msgs) + 1].kind = "remove"
    BY <1>1, <1>2, <1>ty, Sending DEF Kinds
  <2> SUFFICES ASSUME NEW e \in Timer
               PROVE  /\ timer'[e].state = "new" <=> e > made'
                      /\ timer'[e].state = "new" => timer'[e].ends = 0
                      /\ timer'[e].state = "deleted" => timer'[e].ends = 1
                      /\ timer'[e].ends = 1 /\ timer'[e].state = "started" =>
                           \E i \in 1 .. Len(msgs') : msgs'[i].timer = e /\ msgs'[i].kind = "remove"
    BY DEF EndInv
  <2>1. CASE e = d
    BY <1>2, <1>3, <1>4, <1>ty, <2>0, <2>1 DEF EndInv
  <2>2. CASE e # d
    BY <1>4, <1>ty, <2>0, <2>2 DEF EndInv
  <2> QED
    BY <2>1, <2>2
<1>11. \A e \in Timer : timer'[e].state = timer[e].state
  BY <1>3, <1>4
<1>12. HeapInv' /\ TaskInv'
  BY <1>11, <1>ty DEF HeapInv, TaskInv, Typed
<1> QED
  BY <1>6, <1>7, <1>9, <1>10, <1>12 DEF LtInv

\* What leaves the heap, and what is its top then.
LEMMA HeapLeft ==
  ASSUME LtInv, NEW d, heap' \in HeapWithout(d)
  PROVE  heap'.in = heap.in \ {d} /\ (heap'.top = NoTimer \/ heap'.top \in heap'.in)
<1>1. PICK t \in IF heap.top = d THEN Tops(heap.in \ {d}) ELSE {heap.top} :
          heap' = [in |-> heap.in \ {d}, top |-> t]
  BY DEF HeapWithout
<1>2. heap'.in = heap.in \ {d} /\ heap'.top = t
  BY <1>1
<1>3. CASE heap.top = d
  BY <1>2, <1>3 DEF Tops
<1>4. CASE heap.top # d
  BY <1>2, <1>4 DEF LtInv, HeapInv
<1> QED
  BY <1>3, <1>4

\* The removal deletes the delegate: it was the last message about it.
LEMMA RemoveKeeps == ASSUME LtInv, MsgTimerRemove PROVE LtInv'
<1> DEFINE d == Head(msgs).timer
<1>1. /\ TimerTake("remove") /\ msgs' = Tail(msgs) /\ heap' \in HeapWithout(d)
      /\ timer' = [timer EXCEPT ![d].state = "deleted"]
      /\ task'.pc # "popped" /\ task'.timer = task.timer /\ UNCHANGED <<now, client, made>>
  <2>1. task' = [task EXCEPT !.pc = IF heap.top = d /\ heap'.top # NoTimer THEN "addPoll" ELSE "wait"]
    BY DEF MsgTimerRemove
  <2>2. task'.timer = task.timer /\ task'.pc # "popped"
    BY <2>1 DEF MsgTimerRemove
  <2> QED
    BY <2>2 DEF MsgTimerRemove
<1>ty. Typed /\ ClientInv /\ EndInv /\ AboutInv /\ MsgOrder /\ HeapInv /\ TaskInv
  BY DEF LtInv
<1>2. /\ Len(msgs) \in Nat \ {0} /\ d = msgs[1].timer /\ msgs[1].kind = "remove"
      /\ 1 \in 1 .. Len(msgs) /\ task.pc = "wait" /\ d \in Timer \cup {NoTimer}
      /\ msgs' \in Seq([kind : Kinds, timer : Timer \cup {NoTimer}])
  BY <1>1, <1>ty, Taking
<1>3. d \in Timer /\ d # NoTimer /\ timer[d].state = "started" /\ timer[d].ends = 1 /\ task.timer = NoTimer
  BY <1>2, <1>ty DEF AboutInv, TaskInv
<1>4. /\ \A e \in Timer : e # d => timer'[e] = timer[e]
      /\ timer'[d].state = "deleted" /\ timer'[d].ends = 1 /\ timer'[d] \in Delegates
  <2>1. timer[d] \in Delegates
    BY <1>3, <1>ty DEF Typed
  <2>2. timer'[d] = [timer[d] EXCEPT !.state = "deleted"]
    BY <1>1, <1>3, <1>ty DEF Typed
  <2> QED
    BY <1>1, <1>3, <1>ty, <2>1, <2>2 DEF Typed, Delegates
<1>5. \A i \in 2 .. Len(msgs) : msgs[i].timer # d
  <2> SUFFICES ASSUME NEW i \in 2 .. Len(msgs), msgs[i].timer = d PROVE FALSE
    OBVIOUS
  <2>1. i \in 1 .. Len(msgs) /\ 1 < i
    BY <1>2
  <2> QED
    BY <1>2, <1>3, <1>ty, <2>1 DEF MsgOrder
<1>6. /\ AboutInv' /\ MsgOrder'
      /\ \A e \in Timer : (\E i \in 1 .. Len(msgs) : msgs[i].timer = e /\ msgs[i].kind = "remove") =>
             e = d \/ \E i \in 1 .. Len(msgs') : msgs'[i].timer = e /\ msgs'[i].kind = "remove"
  <2>1. \A i \in 2 .. Len(msgs) : msgs[i].timer # NoTimer => timer'[msgs[i].timer] = timer[msgs[i].timer]
    <3>1. \A i \in 2 .. Len(msgs) : msgs[i].timer \in Timer \cup {NoTimer}
      BY <1>2, <1>ty, MsgTypes
    <3> QED
      BY <1>4, <1>5, <3>1
  <2> QED
    BY <1>1, <1>2, <2>1, TakenKeeps
<1>7. heap'.in = heap.in \ {d} /\ (heap'.top = NoTimer \/ heap'.top \in heap'.in)
  BY <1>1, HeapLeft
<1>8. Typed'
  <2>1. timer' \in [Timer -> Delegates]
    BY <1>1, <1>4, <1>ty DEF Typed
  <2> QED
    BY <1>1, <1>2, <1>7, <1>ty, <2>1 DEF Typed
<1>9. ClientInv'
  <2>1. \A b \in Client : client[b] # NoTimer => client[b] \in Timer /\ client[b] # d
    BY <1>3, <1>ty DEF Typed, ClientInv
  <2> QED
    BY <1>1, <1>4, <1>ty, <2>1 DEF ClientInv
<1>10. EndInv'
  <2> SUFFICES ASSUME NEW e \in Timer
               PROVE  /\ timer'[e].state = "new" <=> e > made'
                      /\ timer'[e].state = "new" => timer'[e].ends = 0
                      /\ timer'[e].state = "deleted" => timer'[e].ends = 1
                      /\ timer'[e].ends = 1 /\ timer'[e].state = "started" =>
                           \E i \in 1 .. Len(msgs') : msgs'[i].timer = e /\ msgs'[i].kind = "remove"
    BY DEF EndInv
  <2>1. CASE e = d
    BY <1>1, <1>3, <1>4, <1>ty, <2>1 DEF EndInv
  <2>2. CASE e # d
    BY <1>1, <1>4, <1>6, <1>ty, <2>2 DEF EndInv
  <2> QED
    BY <2>1, <2>2
<1>11. HeapInv'
  BY <1>4, <1>7, <1>ty DEF HeapInv, Typed
<1>12. TaskInv'
  BY <1>1, <1>3 DEF TaskInv
<1> QED
  BY <1>6, <1>8, <1>9, <1>10, <1>11, <1>12 DEF LtInv

\* A step that takes a message which is not a removal, and changes the heap
\* within the timers started.
LEMMA TakeKeeps ==
  ASSUME LtInv, NEW k, TimerTake(k), k # "remove", msgs' = Tail(msgs),
         UNCHANGED <<now, client, timer, made>>,
         heap'.in \in SUBSET Timer, HeapInv', TaskInv', task'.timer \in Timer \cup {NoTimer}
  PROVE  LtInv'
<1>ty. Typed /\ ClientInv /\ EndInv
  BY DEF LtInv
<1>1. msgs' \in Seq([kind : Kinds, timer : Timer \cup {NoTimer}])
  BY <1>ty, Taking
<1>2. Typed' /\ ClientInv'
  BY <1>ty, <1>1 DEF Typed, ClientInv
<1>3. /\ AboutInv' /\ MsgOrder'
      /\ \A d \in Timer : (\E i \in 1 .. Len(msgs) : msgs[i].timer = d /\ msgs[i].kind = "remove") =>
             \E i \in 1 .. Len(msgs') : msgs'[i].timer = d /\ msgs'[i].kind = "remove"
  BY TakenKeeps
<1>4. EndInv'
  BY <1>ty, <1>3 DEF EndInv
<1> QED
  BY <1>2, <1>3, <1>4 DEF LtInv

\* A step that takes no message and changes only heap and task.
LEMMA InnerKeeps ==
  ASSUME LtInv, UNCHANGED <<client, timer, made, msgs>>, now' \in Nat,
         heap'.in \in SUBSET Timer, HeapInv', TaskInv', task'.timer \in Timer \cup {NoTimer}
  PROVE  LtInv'
BY DEF LtInv, Typed, ClientInv, EndInv, AboutInv, MsgOrder

\* The top of the heap is taken.
LEMMA PopKeeps ==
  ASSUME LtInv, heap.top # NoTimer, NEW at, PopTop(at), timer' = timer
  PROVE  /\ heap'.in \in SUBSET Timer /\ HeapInv' /\ TaskInv'
         /\ task'.timer \in Timer \cup {NoTimer}
<1>1. heap' \in HeapWithout(heap.top)
      /\ task' = [pc |-> "popped", timer |-> heap.top,
                  client |-> timer[heap.top].mClient, at |-> at]
  BY DEF PopTop
<1>2. heap'.in = heap.in \ {heap.top} /\ (heap'.top = NoTimer \/ heap'.top \in heap'.in)
  BY <1>1, HeapLeft
<1>3. task'.pc = "popped" /\ task'.timer = heap.top
  BY <1>1
<1>4. heap.top \in heap.in /\ heap.in \in SUBSET Timer
  BY DEF LtInv, HeapInv, Typed
<1> QED
  BY <1>2, <1>3, <1>4 DEF LtInv, HeapInv, TaskInv

\* LtInv is kept by every step.
LEMMA NextLtInv == LtInv /\ [LtNext]_ltVars => LtInv'
<1> SUFFICES ASSUME LtInv, [LtNext]_ltVars PROVE LtInv'
  OBVIOUS
<1>ty. Typed /\ ClientInv /\ EndInv /\ AboutInv /\ MsgOrder /\ HeapInv /\ TaskInv
  BY DEF LtInv
<1>t. task.timer \in Timer \cup {NoTimer} /\ heap.in \in SUBSET Timer /\ now \in Nat
  BY <1>ty DEF Typed
<1>1. ASSUME NEW c \in Client, TimerStart(c) PROVE LtInv'
  BY <1>1, StartKeeps
<1>2. ASSUME NEW c \in Client, TimerStop(c) PROVE LtInv'
  BY <1>2, StoppedKeeps DEF TimerStop
<1>3. ASSUME MsgTimerPush PROVE LtInv'
  <2> DEFINE d == Head(msgs).timer
  <2>1. /\ TimerTake("push") /\ msgs' = Tail(msgs)
        /\ UNCHANGED <<now, client, timer, made>>
        /\ heap'.in = heap.in \cup {d} /\ heap'.top \in {d, heap.top}
        /\ \E p \in {"addPoll", "wait"} : task' = [task EXCEPT !.pc = p]
    BY <1>3 DEF MsgTimerPush
  <2>2. task'.timer = task.timer /\ task'.pc # "popped" /\ task.pc = "wait"
    BY <1>3, <2>1 DEF MsgTimerPush, TimerTake
  <2>3. d = msgs[1].timer /\ msgs[1].kind = "push" /\ 1 \in 1 .. Len(msgs) /\ d \in Timer \cup {NoTimer}
    BY <1>ty, <2>1, Taking
  <2>4. d \in Timer /\ timer[d].state = "started"
    BY <1>ty, <2>3 DEF AboutInv
  <2>5. HeapInv' /\ TaskInv'
    BY <1>ty, <2>1, <2>2, <2>4 DEF HeapInv, TaskInv
  <2> QED
    BY <1>t, <2>1, <2>2, <2>4, <2>5, TakeKeeps
<1>4. ASSUME MsgTimerRemove PROVE LtInv'
  BY <1>4, RemoveKeeps
<1>5. ASSUME MsgTimerExpire PROVE LtInv'
  <2>1. TimerTake("expire") /\ msgs' = Tail(msgs) /\ UNCHANGED <<now, client, timer, made>>
    BY <1>5 DEF MsgTimerExpire
  <2>2. CASE heap.top = NoTimer /\ UNCHANGED <<heap, task>>
    <3>1. HeapInv' /\ TaskInv'
      BY <1>ty, <2>1, <2>2 DEF HeapInv, TaskInv
    <3> QED
      BY <1>t, <2>1, <2>2, <3>1, TakeKeeps
  <2>3. CASE heap.top # NoTimer /\ PopTop(now)
    BY <2>1, <2>3, PopKeeps, TakeKeeps
  <2> QED
    BY <1>5, <2>2, <2>3 DEF MsgTimerExpire
<1>6. ASSUME TimeOutCallback PROVE LtInv'
  <2>1. /\ task'.timer = NoTimer /\ task'.pc # "popped" /\ UNCHANGED <<now, made, heap>>
    BY <1>6 DEF TimeOutCallback
  <2>2. CASE \E c \in Client : client[c] # NoTimer /\ Stopped(c)
    BY <2>1, <2>2, StoppedKeeps
  <2>3. CASE UNCHANGED <<client, timer, msgs>>
    <3>1. HeapInv' /\ TaskInv'
      BY <1>ty, <2>1, <2>3 DEF HeapInv, TaskInv
    <3> QED
      BY <1>t, <2>1, <2>3, <3>1, InnerKeeps
  <2> QED
    BY <1>6, <2>2, <2>3 DEF TimeOutCallback
<1>7. ASSUME PopIfOutRanks PROVE LtInv'
  <2>1. UNCHANGED <<now, client, timer, made, msgs>> /\ task.pc = "next"
    BY <1>7 DEF PopIfOutRanks
  <2>2. CASE heap.top # NoTimer /\ PopTop(task.at)
    BY <1>t, <2>1, <2>2, PopKeeps, InnerKeeps
  <2>3. CASE /\ task' = [task EXCEPT !.pc = IF heap.top = NoTimer THEN "wait" ELSE "addPoll",
                                     !.at = 0]
             /\ UNCHANGED heap
    <3>1. task'.timer = task.timer /\ task.timer = NoTimer
      BY <1>ty, <2>1, <2>3 DEF TaskInv
    <3>2. HeapInv' /\ TaskInv'
      BY <1>ty, <2>1, <2>3, <3>1 DEF HeapInv, TaskInv
    <3> QED
      BY <1>t, <2>1, <2>3, <3>1, <3>2, InnerKeeps
  <2> QED
    BY <1>7, <2>2, <2>3 DEF PopIfOutRanks
<1>8. ASSUME AddPoll \/ SetTime PROVE LtInv'
  <2>1. /\ UNCHANGED <<now, client, timer, made, heap, msgs>> /\ task.pc \in {"addPoll", "setTime"}
        /\ \E p \in {"setTime", "wait"} : task' = [task EXCEPT !.pc = p]
    BY <1>8 DEF AddPoll, SetTime
  <2>2. task'.timer = task.timer /\ task.timer = NoTimer
    BY <1>ty, <2>1 DEF TaskInv
  <2>3. HeapInv' /\ TaskInv'
    BY <1>ty, <2>1, <2>2 DEF HeapInv, TaskInv
  <2> QED
    BY <1>t, <2>1, <2>2, <2>3, InnerKeeps
<1>9. ASSUME EpollWait \/ DisarmFd \/ RemovePoll PROVE LtInv'
  <2>1. UNCHANGED <<now, client, timer, made, heap, msgs, task>>
    BY <1>9 DEF EpollWait, DisarmFd, RemovePoll
  <2> QED
    BY <2>1 DEF LtInv, Typed, ClientInv, EndInv, AboutInv, MsgOrder, HeapInv, TaskInv
<1>10. ASSUME SendExpire PROVE LtInv'
  <2>1. /\ UNCHANGED <<now, client, timer, made, heap, task>>
        /\ msgs' = Append(msgs, Msg("expire", NoTimer))
    BY <1>10 DEF SendExpire
  <2>2. "expire" \in Kinds
    BY DEF Kinds
  <2>3. AboutInv' /\ MsgOrder'
    BY <2>1, <2>2, SentKeeps
  <2>4. /\ msgs' \in Seq([kind : Kinds, timer : Timer \cup {NoTimer}])
        /\ \A i \in 1 .. Len(msgs) : i \in 1 .. Len(msgs') /\ msgs'[i] = msgs[i]
    <3>1. NoTimer \in Timer \cup {NoTimer}
      OBVIOUS
    <3>2. /\ Len(msgs) \in Nat /\ Len(msgs') = Len(msgs) + 1
          /\ msgs' \in Seq([kind : Kinds, timer : Timer \cup {NoTimer}])
          /\ \A i \in 1 .. Len(msgs) : msgs'[i] = msgs[i]
      BY <1>ty, <2>1, <2>2, <3>1, Sending
    <3> QED
      BY <3>2
  <2>5. Typed' /\ ClientInv' /\ HeapInv' /\ TaskInv'
    BY <1>ty, <2>1, <2>4 DEF Typed, ClientInv, HeapInv, TaskInv
  <2>6. EndInv'
    BY <1>ty, <2>1, <2>4 DEF EndInv
  <2> QED
    BY <2>3, <2>5, <2>6 DEF LtInv
<1>11. ASSUME Tick PROVE LtInv'
  <2>1. UNCHANGED <<client, timer, made, heap, msgs, task>> /\ now' \in Nat
    BY <1>11, <1>t DEF Tick
  <2> QED
    BY <2>1 DEF LtInv, Typed, ClientInv, EndInv, AboutInv, MsgOrder, HeapInv, TaskInv
<1>12. ASSUME UNCHANGED ltVars PROVE LtInv'
  BY <1>12 DEF ltVars, LtInv, Typed, ClientInv, EndInv, AboutInv, MsgOrder, HeapInv, TaskInv
<1> QED
  BY <1>1, <1>2, <1>3, <1>4, <1>5, <1>6, <1>7, <1>8, <1>9, <1>10, <1>11, <1>12
     DEF LtNext, TimerTask, PollThread

\* LtInv says that a timer ends once and is deleted unused.
LEMMA LtInvImplies == LtInv => TimerEndsOnce
<1> SUFFICES ASSUME LtInv PROVE EndedOnce /\ DeletedUnused
  BY DEF TimerEndsOnce
<1>ty. Typed /\ ClientInv /\ EndInv /\ AboutInv /\ MsgOrder /\ HeapInv /\ TaskInv
  BY DEF LtInv
<1>dom. DOMAIN msgs = 1 .. Len(msgs)
  BY <1>ty DEF Typed
<1>1. ASSUME NEW d \in Timer
      PROVE  /\ timer[d].ends <= 1
             /\ timer[d].ends = 1 /\ timer[d].state = "started" =>
                  Cardinality({i \in MsgsFor(d) : msgs[i].kind = "remove"}) = 1
  <2>1. timer[d].ends <= 1
    BY <1>ty DEF Typed, Delegates
  <2>2. ASSUME timer[d].ends = 1, timer[d].state = "started"
        PROVE  Cardinality({i \in MsgsFor(d) : msgs[i].kind = "remove"}) = 1
    <3>1. PICK k \in 1 .. Len(msgs) : msgs[k].timer = d /\ msgs[k].kind = "remove"
      BY <1>ty, <2>2 DEF EndInv
    <3>2. d # NoTimer
      BY DEF Timer, NoTimer
    <3>3. \A i \in 1 .. Len(msgs) : msgs[i].timer = d /\ msgs[i].kind = "remove" => i = k
      <4> SUFFICES ASSUME NEW i \in 1 .. Len(msgs), msgs[i].timer = d, msgs[i].kind = "remove", i # k
                   PROVE  FALSE
        OBVIOUS
      <4>1. i < k \/ k < i
        OBVIOUS
      <4> QED
        BY <1>ty, <3>1, <3>2, <4>1 DEF MsgOrder
    <3>4. {i \in MsgsFor(d) : msgs[i].kind = "remove"} = {k}
      BY <1>dom, <3>1, <3>3 DEF MsgsFor
    <3> QED
      BY <3>4, FS_Singleton
  <2> QED
    BY <2>1, <2>2
<1>2. ASSUME NEW d \in Timer, timer[d].state = "deleted"
      PROVE  /\ d \notin heap.in /\ MsgsFor(d) = {} /\ task.timer # d
             /\ \A c \in Client : client[c] # d
  <2>1. d # NoTimer /\ timer[d].ends = 1
    BY <1>2, <1>ty DEF Timer, NoTimer, EndInv
  <2>2. MsgsFor(d) = {}
    BY <1>2, <1>dom, <1>ty, <2>1 DEF MsgsFor, AboutInv
  <2> QED
    BY <1>2, <1>ty, <2>1, <2>2 DEF HeapInv, TaskInv, ClientInv
<1> QED
  BY <1>1, <1>2 DEF EndedOnce, DeletedUnused

\* A timer is ended once, by LocTimer::stop or by its expiry, and its delegate
\* is deleted when no message, neither the heap nor a client refers to it.
THEOREM TimersEndOnce == LtSpec => []TimerEndsOnce
<1>1. LtInv => TimerEndsOnce
  BY LtInvImplies
<1> QED
  BY <1>1, InitLtInv, NextLtInv, PTL DEF LtSpec

-----------------------------------------------------------------------------
(* The arming of the timerfd.                                                *)

\* A heap with timers has a top, for which alone the timerfd is armed, and
\* which stays polled from AddPoll to SetTime unless an expiry is coming.
Arming ==
    /\ heap.top = NoTimer => heap.in = {}
    /\ task.pc \in {"addPoll", "setTime"} => heap.top # NoTimer
    /\ task.pc = "setTime" /\ ~ExpireComing => fd.polled

ArmInv == LtTypeOK /\ Arming /\ ArmedForTop

\* Without timers nothing is armed.
LEMMA InitArmInv == LtInit => ArmInv
<1> SUFFICES ASSUME LtInit PROVE ArmInv
  OBVIOUS
<1> USE LocTimerAssumption DEF LtInit
<1>1. msgs \in Seq([kind : {"push", "remove", "expire"}, timer : Timer \cup {NoTimer}])
  OBVIOUS
<1>2. LtTypeOK
  BY <1>1 DEF LtTypeOK, Never
<1>3. Arming /\ ArmedForTop
  BY DEF Arming, ArmedForTop
<1> QED
  BY <1>2, <1>3 DEF ArmInv

\* Taking another message than an expiry leaves the expiry to come.
LEMMA TakenComing ==
  ASSUME Typed, NEW k, k # "expire", TimerTake(k), msgs' = Tail(msgs), UNCHANGED pollTask
  PROVE  ExpireComing => ExpireComing'
<1>1. /\ Len(msgs) \in Nat \ {0} /\ Len(msgs') = Len(msgs) - 1 /\ msgs[1].kind = k
      /\ DOMAIN msgs = 1 .. Len(msgs) /\ DOMAIN msgs' = 1 .. Len(msgs')
      /\ \A i \in 1 .. Len(msgs') : msgs'[i] = msgs[i + 1]
  BY Taking DEF Typed
<1>2. ASSUME NEW i \in DOMAIN msgs, msgs[i].kind = "expire"
      PROVE  \E j \in DOMAIN msgs' : msgs'[j].kind = "expire"
  <2>1. i - 1 \in 1 .. Len(msgs') /\ (i - 1) + 1 = i
    BY <1>1, <1>2
  <2> QED
    BY <1>1, <1>2, <2>1
<1> QED
  BY <1>2 DEF ExpireComing

\* A message more leaves the expiry to come, and an expiry comes with it.
LEMMA SentComing ==
  ASSUME Typed, NEW k \in Kinds, NEW d \in Timer \cup {NoTimer}, msgs' = Append(msgs, Msg(k, d))
  PROVE  /\ (\E i \in DOMAIN msgs : msgs[i].kind = "expire") => \E i \in DOMAIN msgs' : msgs'[i].kind = "expire"
         /\ k = "expire" => \E i \in DOMAIN msgs' : msgs'[i].kind = "expire"
<1>1. /\ Len(msgs) \in Nat /\ Len(msgs') = Len(msgs) + 1 /\ msgs'[Len(msgs) + 1].kind = k
      /\ \A i \in 1 .. Len(msgs) : msgs'[i] = msgs[i]
      /\ DOMAIN msgs = 1 .. Len(msgs) /\ DOMAIN msgs' = 1 .. Len(msgs')
  BY Sending DEF Typed
<1>2. Len(msgs) + 1 \in DOMAIN msgs' /\ \A i \in DOMAIN msgs : i \in DOMAIN msgs'
  BY <1>1
<1> QED
  BY <1>1, <1>2

\* What leaves the heap leaves it with a top, the same one if it was another.
LEMMA HeapTopLeft ==
  ASSUME NEW d, heap' \in HeapWithout(d), HeapInv, LtTypeOK
  PROVE  /\ heap' \in [in : SUBSET Timer, top : Timer \cup {NoTimer}]
         /\ heap'.top = NoTimer => heap'.in = {} \/ heap.top = NoTimer
         /\ heap.top # d => heap'.top = heap.top
         /\ heap'.in = heap.in \ {d}
<1>1. PICK t \in IF heap.top = d THEN Tops(heap.in \ {d}) ELSE {heap.top} :
        heap' = [in |-> heap.in \ {d}, top |-> t]
  BY DEF HeapWithout
<1>2. /\ heap'.in = heap.in \ {d} /\ heap'.top = t
      /\ heap.in \in SUBSET Timer /\ heap.top \in Timer \cup {NoTimer}
      /\ NoTimer \notin Timer
  BY <1>1 DEF LtTypeOK, Timer, NoTimer
<1>3. CASE heap.top = d
  <2>1. CASE heap.in \ {d} = {}
    BY <1>1, <1>2, <1>3, <2>1 DEF Tops
  <2>2. CASE heap.in \ {d} # {}
    <3>1. t \in heap.in \ {d}
      BY <1>1, <1>3, <2>2 DEF Tops
    <3> QED
      BY <1>1, <1>2, <1>3, <3>1
  <2> QED
    BY <2>1, <2>2
<1>4. CASE heap.top # d
  BY <1>1, <1>2, <1>4
<1> QED
  BY <1>3, <1>4

\* A step that leaves the heap, the task and the poll thread alone, and the
\* timers that are in the heap, keeps the timerfd armed.
LEMMA ArmedStays ==
  ASSUME LtInv, ArmInv, UNCHANGED <<heap, fd, task>>, ExpireComing => ExpireComing',
         \A d \in heap.in : timer'[d].time = timer[d].time
  PROVE  Arming' /\ ArmedForTop'
<1>1. heap.in # {} => heap.top \in heap.in
  BY DEF LtInv, HeapInv, ArmInv, Arming
<1> QED
  BY <1>1 DEF ArmInv, Arming, ArmedForTop

\* Ending a timer leaves the times of all.
LEMMA StoppedArm ==
  ASSUME LtInv, ArmInv, NEW c \in Client, client[c] # NoTimer, Stopped(c)
  PROVE  /\ \A d \in Timer : timer'[d].time = timer[d].time
         /\ timer' \in [Timer -> [time : 0 .. MaxTime, mClient : Client \cup {NoClient},
                                  state : {"new", "started", "deleted"}, ends : 0 .. 1]]
         /\ client' \in [Client -> Timer \cup {NoTimer}]
         /\ (\E i \in DOMAIN msgs : msgs[i].kind = "expire") => \E i \in DOMAIN msgs' : msgs'[i].kind = "expire"
<1> DEFINE d == client[c]
           R == [time : 0 .. MaxTime, mClient : Client \cup {NoClient},
                 state : {"new", "started", "deleted"}, ends : 0 .. 1]
<1>1. /\ timer' = [timer EXCEPT ![d].mClient = NoClient, ![d].ends = @ + 1]
      /\ client' = [client EXCEPT ![c] = NoTimer] /\ msgs' = Append(msgs, Msg("remove", d))
  BY DEF Stopped
<1>2. timer \in [Timer -> R] /\ client \in [Client -> Timer \cup {NoTimer}]
  BY DEF ArmInv, LtTypeOK
<1>3. d \in Timer /\ timer[d].ends = 0
  BY <1>2 DEF LtInv, ClientInv
<1>4. timer[d] \in R
  BY <1>2, <1>3
<1>5. timer' = [timer EXCEPT ![d] = [timer[d] EXCEPT !.mClient = NoClient, !.ends = timer[d].ends + 1]]
  BY <1>1, <1>2, <1>3
<1>6. /\ [timer[d] EXCEPT !.mClient = NoClient, !.ends = timer[d].ends + 1] \in R
      /\ [timer[d] EXCEPT !.mClient = NoClient, !.ends = timer[d].ends + 1].time = timer[d].time
  <2> DEFINE q == [timer[d] EXCEPT !.mClient = NoClient]
  <2>1. q \in R /\ q.time = timer[d].time
    BY <1>4
  <2>2. [q EXCEPT !.ends = 1] \in R /\ [q EXCEPT !.ends = 1].time = q.time
    <3>1. 1 \in 0 .. 1
      OBVIOUS
    <3> HIDE DEF q
    <3> QED
      BY <2>1, <3>1
  <2>3. [timer[d] EXCEPT !.mClient = NoClient, !.ends = timer[d].ends + 1] = [q EXCEPT !.ends = 1]
    BY <1>3, <1>4
  <2> QED
    BY <2>1, <2>2, <2>3
<1> HIDE DEF R
<1>7. timer' \in [Timer -> R] /\ \A e \in Timer : timer'[e].time = timer[e].time
  BY <1>2, <1>3, <1>5, <1>6
<1>8. "remove" \in Kinds /\ Typed
  BY DEF Kinds, LtInv
<1>9. (\E i \in DOMAIN msgs : msgs[i].kind = "expire") => \E i \in DOMAIN msgs' : msgs'[i].kind = "expire"
  BY <1>1, <1>3, <1>8, SentComing
<1>10. client' \in [Client -> Timer \cup {NoTimer}]
  BY <1>1, <1>2
<1> QED
  BY <1>7, <1>9, <1>10 DEF R

\* ArmInv is kept by every step.
LEMMA NextArmInv == LtInv /\ LtInv' /\ ArmInv /\ [LtNext]_ltVars => ArmInv'
<1> SUFFICES ASSUME LtInv, LtInv', ArmInv, [LtNext]_ltVars PROVE ArmInv'
  OBVIOUS
<1> DEFINE M == [kind : {"push", "remove", "expire"}, timer : Timer \cup {NoTimer}]
           R == [time : 0 .. MaxTime, mClient : Client \cup {NoClient},
                 state : {"new", "started", "deleted"}, ends : 0 .. 1]
           T == [pc : {"wait", "addPoll", "setTime", "popped", "next"},
                 timer : Timer \cup {NoTimer}, client : Client \cup {NoClient},
                 at : 0 .. MaxTime]
           H == [in : SUBSET Timer, top : Timer \cup {NoTimer}]
<1>ty. /\ Typed /\ HeapInv /\ LtTypeOK /\ Arming /\ ArmedForTop
       /\ now \in 0 .. MaxTime /\ made \in 0 .. MaxTimers
       /\ client \in [Client -> Timer \cup {NoTimer}] /\ timer \in [Timer -> R]
       /\ heap \in H /\ fd \in [at : 0 .. Never, polled : BOOLEAN]
       /\ msgs \in Seq(M) /\ task \in T /\ pollTask \in {"wait", "disarm", "removePoll", "send"}
  BY DEF LtInv, ArmInv, LtTypeOK
<1>ty2. msgs' \in Seq(M) /\ made' \in 0 .. MaxTimers
  BY DEF LtInv, Typed, Kinds
<1>n. NoTimer \notin Timer
  BY DEF Timer, NoTimer
<1>type. ASSUME now' \in 0 .. MaxTime, client' \in [Client -> Timer \cup {NoTimer}],
                timer' \in [Timer -> R], heap' \in H, fd' \in [at : 0 .. Never, polled : BOOLEAN],
                task' \in T, pollTask' \in {"wait", "disarm", "removePoll", "send"}
         PROVE  LtTypeOK'
  BY <1>type, <1>ty2 DEF LtTypeOK
<1>same. ASSUME UNCHANGED <<pollTask, msgs>> PROVE ExpireComing' <=> ExpireComing
  BY <1>same DEF ExpireComing
<1>1. ASSUME NEW c \in Client, TimerStart(c) PROVE ArmInv'
  <2> DEFINE d == made + 1
  <2>1. PICK t \in now + 1 .. MaxTime :
          /\ made' = d /\ client' = [client EXCEPT ![c] = d]
          /\ timer' = [timer EXCEPT ![d] = [time |-> t, mClient |-> c, state |-> "started", ends |-> 0]]
          /\ msgs' = Append(msgs, Msg("push", d)) /\ made < MaxTimers
          /\ UNCHANGED <<now, heap, fd, task, pollTask>>
    BY <1>1 DEF TimerStart
  <2>2. d \in Timer /\ t \in 0 .. MaxTime
    BY <1>ty, <2>1, LocTimerAssumption DEF Timer
  <2>3. [time |-> t, mClient |-> c, state |-> "started", ends |-> 0] \in R
    BY <2>2
  <2>4. timer' \in [Timer -> R] /\ \A e \in Timer : e # d => timer'[e] = timer[e]
    <3> HIDE DEF R
    <3> QED
      BY <1>ty, <2>1, <2>2, <2>3
  <2>5. d \notin heap.in
    BY <1>ty, <2>2 DEF LtInv, EndInv, HeapInv
  <2>6. ExpireComing => ExpireComing'
    BY <1>ty, <2>1, <2>2, SentComing DEF Kinds, ExpireComing
  <2>7. LtTypeOK'
    BY <1>ty, <1>type, <2>1, <2>2, <2>4
  <2>8. Arming' /\ ArmedForTop'
    BY <1>ty, <2>1, <2>4, <2>5, <2>6, ArmedStays
  <2> QED
    BY <2>7, <2>8 DEF ArmInv
<1>2. ASSUME NEW c \in Client, TimerStop(c) PROVE ArmInv'
  <2>1. client[c] # NoTimer /\ Stopped(c) /\ UNCHANGED <<now, made, heap, fd, task, pollTask>>
    BY <1>2 DEF TimerStop
  <2>2. /\ \A e \in Timer : timer'[e].time = timer[e].time
        /\ timer' \in [Timer -> R] /\ client' \in [Client -> Timer \cup {NoTimer}]
        /\ (\E i \in DOMAIN msgs : msgs[i].kind = "expire") => \E i \in DOMAIN msgs' : msgs'[i].kind = "expire"
    BY <2>1, StoppedArm
  <2>3. ExpireComing => ExpireComing'
    BY <2>1, <2>2 DEF ExpireComing
  <2>4. LtTypeOK'
    BY <1>ty, <1>type, <2>1, <2>2
  <2>5. Arming' /\ ArmedForTop'
    BY <1>ty, <2>1, <2>2, <2>3, ArmedStays
  <2> QED
    BY <2>4, <2>5 DEF ArmInv
<1>3. ASSUME MsgTimerPush PROVE ArmInv'
  <2> DEFINE d == Head(msgs).timer
             top == IF heap.top = NoTimer \/ OutRanks(d, heap.top) THEN d ELSE heap.top
  <2>1. /\ TimerTake("push") /\ msgs' = Tail(msgs)
        /\ UNCHANGED <<now, client, timer, made, fd, pollTask>>
        /\ heap' = [in |-> heap.in \cup {d}, top |-> top]
        /\ task' = [task EXCEPT !.pc = IF top # heap.top THEN "addPoll" ELSE "wait"]
    BY <1>3 DEF MsgTimerPush
  <2>2. d \in Timer
    <3>1. d = msgs[1].timer /\ msgs[1].kind = "push" /\ 1 \in 1 .. Len(msgs) /\ d \in Timer \cup {NoTimer}
      BY <1>ty, <2>1, Taking
    <3> QED
      BY <3>1 DEF LtInv, AboutInv
  <2>3. /\ heap' \in H /\ heap'.top # NoTimer /\ heap'.top = top /\ task' \in T
        /\ task'.pc = IF top # heap.top THEN "addPoll" ELSE "wait"
        /\ top = heap.top => heap.in # {}
    BY <1>ty, <1>n, <2>1, <2>2 DEF HeapInv
  <2>4. LtTypeOK'
    BY <1>ty, <1>type, <2>1, <2>3
  <2>5. ExpireComing => ExpireComing'
    BY <1>ty, <2>1, TakenComing
  <2>6. task.pc = "wait"
    BY <2>1 DEF TimerTake
  <2>7. Arming' /\ ArmedForTop'
    BY <1>ty, <2>1, <2>3, <2>5, <2>6 DEF Arming, ArmedForTop
  <2> QED
    BY <2>4, <2>7 DEF ArmInv
<1>4. ASSUME MsgTimerRemove PROVE ArmInv'
  <2> DEFINE d == Head(msgs).timer
  <2>1. /\ TimerTake("remove") /\ msgs' = Tail(msgs) /\ heap' \in HeapWithout(d)
        /\ UNCHANGED <<now, client, made, fd, pollTask>>
        /\ timer' = [timer EXCEPT ![d].state = "deleted"]
        /\ task' = [task EXCEPT !.pc = IF heap.top = d /\ heap'.top # NoTimer THEN "addPoll" ELSE "wait"]
    BY <1>4 DEF MsgTimerRemove
  <2>2. d \in Timer
    <3>1. d = msgs[1].timer /\ msgs[1].kind = "remove" /\ 1 \in 1 .. Len(msgs) /\ d \in Timer \cup {NoTimer}
      BY <1>ty, <2>1, Taking
    <3> QED
      BY <3>1 DEF LtInv, AboutInv
  <2>3. timer' \in [Timer -> R] /\ \A e \in Timer : timer'[e].time = timer[e].time
    <3>1. timer[d] \in R
      BY <1>ty, <2>2
    <3>2. [timer[d] EXCEPT !.state = "deleted"] \in R
          /\ [timer[d] EXCEPT !.state = "deleted"].time = timer[d].time
      BY <3>1
    <3>3. timer' = [timer EXCEPT ![d] = [timer[d] EXCEPT !.state = "deleted"]]
      BY <1>ty, <2>1, <2>2
    <3> HIDE DEF R
    <3> QED
      BY <1>ty, <2>2, <3>2, <3>3
  <2>4. /\ heap' \in H /\ heap'.in = heap.in \ {d}
        /\ heap'.top = NoTimer => heap'.in = {} \/ heap.top = NoTimer
        /\ heap.top # d => heap'.top = heap.top
    BY <1>ty, <2>1, HeapTopLeft
  <2>5. /\ task' \in T
        /\ task'.pc = IF heap.top = d /\ heap'.top # NoTimer THEN "addPoll" ELSE "wait"
    BY <1>ty, <2>1
  <2>6. LtTypeOK'
    BY <1>ty, <1>type, <2>1, <2>3, <2>4, <2>5
  <2>7. (ExpireComing => ExpireComing') /\ task.pc = "wait"
    BY <1>ty, <2>1, TakenComing DEF TimerTake
  <2>8. heap'.top = NoTimer => heap'.in = {}
    BY <1>ty, <2>4 DEF Arming
  <2>9. Arming' /\ ArmedForTop'
    <3>1. heap.top # d /\ heap.in \ {d} # {} => heap.top \in Timer
      BY <1>ty, <1>n, <2>2 DEF Arming
    <3>2. Arming'
      BY <1>n, <2>2, <2>4, <2>5, <2>8, <1>ty DEF Arming
    <3>3. ArmedForTop'
      BY <1>ty, <2>1, <2>3, <2>4, <2>5, <2>7, <2>8, <3>1 DEF ArmedForTop
    <3> QED
      BY <3>2, <3>3
  <2> QED
    BY <2>6, <2>9 DEF ArmInv
<1>pop. ASSUME heap.top # NoTimer, NEW at \in 0 .. MaxTime, PopTop(at),
               UNCHANGED <<now, client, timer, made, fd, pollTask>>
        PROVE  ArmInv'
  <2>1. /\ heap' \in HeapWithout(heap.top)
        /\ task' = [pc |-> "popped", timer |-> heap.top,
                    client |-> timer[heap.top].mClient, at |-> at]
    BY <1>pop DEF PopTop
  <2>2. /\ heap' \in H /\ heap'.in = heap.in \ {heap.top}
        /\ heap'.top = NoTimer => heap'.in = {}
    BY <1>ty, <1>pop, <2>1, HeapTopLeft
  <2>3. timer[heap.top] \in R /\ heap.top \in Timer
    BY <1>ty, <1>pop
  <2>4. timer[heap.top].mClient \in Client \cup {NoClient}
    BY <2>3
  <2>5. task' \in T /\ task'.pc = "popped"
    BY <2>1, <2>3, <2>4
  <2>6. LtTypeOK'
    BY <1>ty, <1>type, <1>pop, <2>2, <2>5
  <2>7. Arming' /\ ArmedForTop'
    BY <2>2, <2>5 DEF Arming, ArmedForTop
  <2> QED
    BY <2>6, <2>7 DEF ArmInv
<1>5. ASSUME MsgTimerExpire PROVE ArmInv'
  <2>1. TimerTake("expire") /\ UNCHANGED <<now, client, timer, made, fd, pollTask>>
    BY <1>5 DEF MsgTimerExpire
  <2>2. CASE heap.top = NoTimer /\ UNCHANGED <<heap, task>>
    <3>1. task.pc = "wait" /\ heap.in = {}
      BY <1>ty, <2>1, <2>2 DEF TimerTake, Arming
    <3>2. LtTypeOK'
      BY <1>ty, <1>type, <2>1, <2>2
    <3> QED
      BY <2>2, <3>1, <3>2 DEF ArmInv, Arming, ArmedForTop
  <2>3. CASE heap.top # NoTimer /\ PopTop(now)
    BY <1>ty, <1>pop, <2>1, <2>3
  <2> QED
    BY <1>5, <2>2, <2>3 DEF MsgTimerExpire
<1>6. ASSUME TimeOutCallback PROVE ArmInv'
  <2>1. /\ task' = [task EXCEPT !.pc = "next", !.timer = NoTimer, !.client = NoClient]
        /\ UNCHANGED <<now, made, heap, fd, pollTask>>
    BY <1>6 DEF TimeOutCallback
  <2>2. timer' \in [Timer -> R] /\ client' \in [Client -> Timer \cup {NoTimer}]
    <3>1. CASE \E c \in Client : client[c] # NoTimer /\ Stopped(c)
      BY <3>1, StoppedArm
    <3>2. CASE UNCHANGED <<client, timer, msgs>>
      BY <1>ty, <3>2
    <3> QED
      BY <1>6, <3>1, <3>2 DEF TimeOutCallback
  <2>3. task' \in T /\ task'.pc = "next"
    BY <1>ty, <2>1
  <2>4. LtTypeOK'
    BY <1>ty, <1>type, <2>1, <2>2, <2>3
  <2>5. Arming' /\ ArmedForTop'
    BY <1>ty, <2>1, <2>3 DEF Arming, ArmedForTop
  <2> QED
    BY <2>4, <2>5 DEF ArmInv
<1>7. ASSUME PopIfOutRanks PROVE ArmInv'
  <2>1. UNCHANGED <<now, client, timer, made, fd, msgs, pollTask>>
    BY <1>7 DEF PopIfOutRanks
  <2>2. CASE heap.top # NoTimer /\ PopTop(task.at)
    <3>1. task.at \in 0 .. MaxTime
      BY <1>ty
    <3> QED
      BY <1>pop, <2>1, <2>2, <3>1
  <2>3. CASE /\ task' = [task EXCEPT !.pc = IF heap.top = NoTimer THEN "wait" ELSE "addPoll",
                                     !.at = 0]
             /\ UNCHANGED heap
    <3>1. task' \in T /\ task'.pc = IF heap.top = NoTimer THEN "wait" ELSE "addPoll"
      <4>1. 0 \in 0 .. MaxTime
        BY LocTimerAssumption
      <4> QED
        BY <1>ty, <2>3, <4>1
    <3>2. LtTypeOK'
      BY <1>ty, <1>type, <2>1, <2>3, <3>1
    <3>3. Arming' /\ ArmedForTop'
      BY <1>ty, <2>3, <3>1 DEF Arming, ArmedForTop
    <3> QED
      BY <3>2, <3>3 DEF ArmInv
  <2> QED
    BY <1>7, <2>2, <2>3 DEF PopIfOutRanks
<1>8. ASSUME AddPoll PROVE ArmInv'
  <2>1. /\ task.pc = "addPoll" /\ UNCHANGED <<now, client, timer, made, heap, msgs, pollTask>>
        /\ fd' = [fd EXCEPT !.polled = TRUE] /\ task' = [task EXCEPT !.pc = "setTime"]
    BY <1>8 DEF AddPoll
  <2>2. fd' \in [at : 0 .. Never, polled : BOOLEAN] /\ fd'.polled /\ task' \in T /\ task'.pc = "setTime"
    BY <1>ty, <2>1
  <2>3. LtTypeOK'
    BY <1>ty, <1>type, <2>1, <2>2
  <2>4. Arming' /\ ArmedForTop'
    BY <1>ty, <2>1, <2>2 DEF Arming, ArmedForTop
  <2> QED
    BY <2>3, <2>4 DEF ArmInv
<1>9. ASSUME SetTime PROVE ArmInv'
  <2>1. /\ task.pc = "setTime" /\ UNCHANGED <<now, client, timer, made, heap, msgs, pollTask>>
        /\ fd' = [fd EXCEPT !.at = timer[heap.top].time] /\ task' = [task EXCEPT !.pc = "wait"]
    BY <1>9 DEF SetTime
  <2>2. heap.top \in Timer
    BY <1>ty, <2>1 DEF Arming
  <2>3. timer[heap.top] \in R
    BY <1>ty, <2>2
  <2>4. timer[heap.top].time \in 0 .. Never
    <3>1. timer[heap.top].time \in 0 .. MaxTime
      BY <2>3
    <3> QED
      BY <3>1, LocTimerAssumption DEF Never
  <2>5. /\ fd' \in [at : 0 .. Never, polled : BOOLEAN]
        /\ fd'.at = timer[heap.top].time /\ fd'.polled = fd.polled
        /\ task' \in T /\ task'.pc = "wait"
    BY <1>ty, <2>1, <2>4
  <2>6. LtTypeOK'
    BY <1>ty, <1>type, <2>1, <2>5
  <2>7. Arming' /\ ArmedForTop'
    BY <1>ty, <1>same, <2>1, <2>5 DEF Arming, ArmedForTop
  <2> QED
    BY <2>6, <2>7 DEF ArmInv
<1>10. ASSUME EpollWait \/ DisarmFd \/ RemovePoll PROVE ArmInv'
  <2>1. /\ UNCHANGED <<now, client, timer, made, heap, msgs, task>>
        /\ pollTask' \in {"disarm", "removePoll", "send"}
    BY <1>10 DEF EpollWait, DisarmFd, RemovePoll
  <2>2. fd' \in [at : 0 .. Never, polled : BOOLEAN]
    <3>1. Never \in 0 .. Never
      BY LocTimerAssumption DEF Never
    <3> QED
      BY <1>10, <1>ty, <3>1 DEF EpollWait, DisarmFd, RemovePoll
  <2>3. ExpireComing'
    BY <2>1 DEF ExpireComing
  <2>4. LtTypeOK'
    BY <1>ty, <1>type, <2>1, <2>2
  <2>5. Arming' /\ ArmedForTop'
    BY <1>ty, <2>1, <2>3 DEF Arming, ArmedForTop
  <2> QED
    BY <2>4, <2>5 DEF ArmInv
<1>11. ASSUME SendExpire PROVE ArmInv'
  <2>1. /\ UNCHANGED <<now, client, timer, made, heap, fd, task>> /\ pollTask' = "wait"
        /\ msgs' = Append(msgs, Msg("expire", NoTimer))
    BY <1>11 DEF SendExpire
  <2>2. ExpireComing'
    BY <1>ty, <2>1, SentComing DEF Kinds, ExpireComing
  <2>3. LtTypeOK'
    BY <1>ty, <1>type, <2>1
  <2>4. Arming' /\ ArmedForTop'
    BY <1>ty, <2>1, <2>2 DEF Arming, ArmedForTop
  <2> QED
    BY <2>3, <2>4 DEF ArmInv
<1>12. ASSUME Tick \/ UNCHANGED ltVars PROVE ArmInv'
  <2>1. UNCHANGED <<client, timer, made, heap, fd, msgs, task, pollTask>> /\ now' \in 0 .. MaxTime
    BY <1>12, <1>ty, LocTimerAssumption DEF Tick, ltVars
  <2>2. LtTypeOK'
    BY <1>ty, <1>type, <2>1
  <2>3. Arming' /\ ArmedForTop'
    BY <1>ty, <1>same, <2>1, ArmedStays
  <2> QED
    BY <2>2, <2>3 DEF ArmInv
<1> QED
  BY <1>1, <1>2, <1>3, <1>4, <1>5, <1>6, <1>7, <1>8, <1>9, <1>10, <1>11, <1>12
     DEF LtNext, TimerTask, PollThread

\* LtInv and ArmInv hold of every behaviour.
LEMMA TimersInv == LtSpec => [](LtInv /\ ArmInv)
<1>1. LtInit => LtInv /\ ArmInv
  BY InitLtInv, InitArmInv
<1>2. LtInv /\ ArmInv /\ [LtNext]_ltVars => (LtInv /\ ArmInv)'
  BY NextLtInv, NextArmInv
<1> QED
  BY <1>1, <1>2, PTL DEF LtSpec

\* The clock, the delegates, the messages, the heap and the threads have the
\* types of LtTypeOK; no delegate is ended twice, no time is out of the clock.
THEOREM TimersTyped == LtSpec => []LtTypeOK
<1>1. LtInv /\ ArmInv => LtTypeOK
  BY DEF ArmInv
<1> QED
  BY <1>1, TimersInv, PTL

\* While timers wait, and the task has nothing at hand, the timerfd is polled
\* and armed for the top of the heap or an expiry is coming, whatever the poll
\* thread disarms and removes meanwhile.
THEOREM TimersAreArmed == LtSpec => []ArmedForTop
<1>1. LtInv /\ ArmInv => ArmedForTop
  BY DEF ArmInv
<1> QED
  BY <1>1, TimersInv, PTL

-----------------------------------------------------------------------------
(* The AGPS state machine.                                                  *)


\* A connection subscribes once.
Subs == [conn : Conn, inactive : BOOLEAN]
Distinct(subs) == \A i, j \in DOMAIN subs : subs[i].conn = subs[j].conn => i = j
IsActive(subs, c) == \E i \in DOMAIN subs : subs[i].conn = c /\ ~subs[i].inactive

Waiting(event, c) == \E i \in DOMAIN queue : queue[i] = Message(event, c)
Counting == {"asked", "open", "closing"}

\* What a connection has been told fits its messages and its subscription.
ConnInv(c) ==
    /\ Waiting("SUBSCRIBE", c) =>
          modem[c] \in {"asked", "closing", "lost"} /\ ~HasSub(agps.subs, c)
    /\ Waiting("UNSUBSCRIBE", c) => modem[c] \in {"closing", "done", "lost"}
    /\ HasSub(agps.subs, c) => modem[c] # "new"
    /\ IsActive(agps.subs, c) => modem[c] \in {"asked", "open", "closing", "lost"}
    /\ modem[c] = "open" => agps.state = "Acquired" /\ IsActive(agps.subs, c)
    /\ modem[c] # "unasked"

\* Messages of a connection come once and in their order; who counts on the
\* network when the engine is up has asked for it since.
QueueInv ==
    /\ \A i, j \in DOMAIN queue : queue[i].conn \in Conn /\ queue[i] = queue[j] => i = j
    /\ \A i, j \in DOMAIN queue : \A c \in Conn :
          queue[i] = Message("SUBSCRIBE", c) /\ queue[j] = Message("UNSUBSCRIBE", c) => i < j
    /\ \A i \in DOMAIN queue : queue[i].event = "ENGINE_UP" =>
          \A c \in Conn : modem[c] \in Counting =>
              \E j \in DOMAIN queue : i < j /\ queue[j] = Message("SUBSCRIBE", c)

\* The machine whose subscribers ask once and are not tried again.
NotDs ==
    /\ Distinct(agps.subs) /\ agps.timers = 0 /\ ReleasedIsEmpty
    /\ QueueInv /\ \A c \in Conn : ConnInv(c)

AgTyped ==
    /\ AgTypeOK /\ agps.timers <= faults.busy
    /\ \A i \in DOMAIN queue : queue[i].event \in {"SUBSCRIBE", "UNSUBSCRIBE"} <=> queue[i].conn # NoConn

AgInv == AgTyped /\ (agps.kind # "ds" => NotDs)

-----------------------------------------------------------------------------
\* What is left of the subscribers, as nodes.
LEMMA SubsLeft ==
  ASSUME NEW subs \in Seq(Subs), NEW K \in SUBSET (1 .. Len(subs))
  PROVE  /\ Kept(subs, K) \in Seq(Subs) /\ Len(Kept(subs, K)) = Cardinality(K)
         /\ IsFiniteSet(K) /\ Cardinality(K) <= Len(subs)
         /\ \E f \in [1 .. Len(Kept(subs, K)) -> K] :
               /\ \A i \in 1 .. Len(Kept(subs, K)) : Kept(subs, K)[i] = subs[f[i]]
               /\ \A i, j \in 1 .. Len(Kept(subs, K)) : i < j => f[i] < f[j]
               /\ \A k \in K : \E i \in 1 .. Len(Kept(subs, K)) : f[i] = k
BY KeptNodes

\* What is left of the subscribers: these and no others, still once.
LEMMA SubsKept ==
  ASSUME NEW subs \in Seq(Subs), NEW K \in SUBSET (1 .. Len(subs))
  PROVE  /\ Kept(subs, K) \in Seq(Subs)
         /\ \A i \in DOMAIN Kept(subs, K) : \E k \in K : Kept(subs, K)[i] = subs[k]
         /\ \A k \in K : \E i \in DOMAIN Kept(subs, K) : Kept(subs, K)[i] = subs[k]
         /\ Kept(subs, K) = <<>> <=> K = {}
         /\ Distinct(subs) => Distinct(Kept(subs, K))
<1>2. /\ Kept(subs, K) \in Seq(Subs) /\ Len(Kept(subs, K)) = Cardinality(K)
      /\ IsFiniteSet(K) /\ Cardinality(K) <= Len(subs)
      /\ \E f \in [1 .. Len(Kept(subs, K)) -> K] :
            /\ \A i \in 1 .. Len(Kept(subs, K)) : Kept(subs, K)[i] = subs[f[i]]
            /\ \A i, j \in 1 .. Len(Kept(subs, K)) : i < j => f[i] < f[j]
            /\ \A k \in K : \E i \in 1 .. Len(Kept(subs, K)) : f[i] = k
  BY SubsLeft
<1> DEFINE r == Kept(subs, K)
<1>3. r \in Seq(Subs) /\ DOMAIN r = 1 .. Len(r) /\ Len(r) = Cardinality(K) /\ Len(r) \in Nat
  <2> HIDE DEF r
  <2>1. r \in Seq(Subs) /\ Len(r) = Cardinality(K)
    BY <1>2 DEF r
  <2> QED
    BY <2>1
<1>4. PICK f \in [1 .. Len(r) -> K] :
            /\ \A i \in 1 .. Len(r) : r[i] = subs[f[i]]
            /\ \A i, j \in 1 .. Len(r) : i < j => f[i] < f[j]
            /\ \A k \in K : \E i \in 1 .. Len(r) : f[i] = k
  BY <1>2
<1>5. r = <<>> <=> K = {}
  <2>1. K = {} <=> Cardinality(K) = 0
    BY <1>2, FS_EmptySet
  <2> HIDE DEF r
  <2>2. r = <<>> <=> Len(r) = 0
    BY <1>3, EmptySeq
  <2> QED
    BY <1>3, <2>1, <2>2
<1>6. Distinct(subs) => Distinct(r)
  <2> HIDE DEF r
  <2> SUFFICES ASSUME Distinct(subs), NEW i \in 1 .. Len(r), NEW j \in 1 .. Len(r),
                      r[i].conn = r[j].conn
               PROVE  i = j
    BY <1>3 DEF Distinct
  <2>1. f[i] = f[j] /\ f[i] \in 1 .. Len(subs) /\ f[j] \in 1 .. Len(subs)
    <3>1. /\ f[i] \in DOMAIN subs /\ f[j] \in DOMAIN subs
          /\ subs[f[i]].conn = subs[f[j]].conn
      <4>1. f[i] \in K /\ f[j] \in K /\ r[i] = subs[f[i]] /\ r[j] = subs[f[j]]
        BY <1>4
      <4> QED
        BY <4>1, DOMAIN subs = 1 .. Len(subs)
    <3> QED
      BY <3>1, DOMAIN subs = 1 .. Len(subs) DEF Distinct
  <2>2. ~(i < j) /\ ~(j < i)
    BY <1>4, <2>1
  <2> QED
    BY <2>2, <1>3
<1>7. /\ \A i \in DOMAIN r : \E k \in K : r[i] = subs[k]
      /\ \A k \in K : \E i \in DOMAIN r : r[i] = subs[k]
  <2> HIDE DEF r
  <2>1. \A i \in DOMAIN r : f[i] \in K /\ r[i] = subs[f[i]]
    BY <1>3, <1>4
  <2>2. ASSUME NEW k \in K PROVE \E i \in DOMAIN r : r[i] = subs[k]
    <3>1. PICK i \in 1 .. Len(r) : f[i] = k
      BY <1>4
    <3> QED
      BY <1>3, <2>1, <3>1
  <2> QED
    BY <2>1, <2>2
<1> QED
  BY <1>3, <1>5, <1>6, <1>7

\* The active subscribers, the others, and all but one.
LEMMA SubsSplit ==
  ASSUME NEW subs \in Seq(Subs)
  PROVE  /\ Active(subs) \in Seq(Subs) /\ Inactive(subs) \in Seq(Subs)
         /\ \A c \in Conn : /\ HasSub(Active(subs), c) <=> IsActive(subs, c)
                            /\ IsActive(Active(subs), c) <=> IsActive(subs, c)
                            /\ HasSub(Inactive(subs), c) => HasSub(subs, c)
         /\ Active(subs) = <<>> <=> \A c \in Conn : ~IsActive(subs, c)
         /\ Distinct(subs) =>
               /\ Distinct(Active(subs))
               /\ \A c \in Conn : HasSub(Inactive(subs), c) => ~IsActive(subs, c)
<1> DEFINE K == {i \in DOMAIN subs : ~subs[i].inactive}
           L == {i \in DOMAIN subs : subs[i].inactive}
           a == Active(subs)
           b == Inactive(subs)
<1>1. \A i \in DOMAIN subs : subs[i] \in Subs
  OBVIOUS
<1>2. /\ a \in Seq(Subs)
      /\ \A i \in DOMAIN a : \E k \in K : a[i] = subs[k]
      /\ \A k \in K : \E i \in DOMAIN a : a[i] = subs[k]
      /\ a = <<>> <=> K = {}
      /\ Distinct(subs) => Distinct(a)
  BY SubsKept, DOMAIN subs = 1 .. Len(subs) DEF Active
<1>3. /\ b \in Seq(Subs)
      /\ \A i \in DOMAIN b : \E k \in L : b[i] = subs[k]
  BY SubsKept, DOMAIN subs = 1 .. Len(subs) DEF Inactive
<1>4. /\ \A i \in K : i \in DOMAIN subs /\ ~subs[i].inactive /\ subs[i].conn \in Conn
      /\ \A i \in DOMAIN subs : ~subs[i].inactive => i \in K
      /\ \A i \in L : i \in DOMAIN subs /\ subs[i].inactive
  BY <1>1 DEF Subs
<1> HIDE DEF a, b, K, L
<1>5. ASSUME NEW c \in Conn
      PROVE  /\ HasSub(a, c) <=> IsActive(subs, c)
             /\ IsActive(a, c) <=> IsActive(subs, c)
             /\ HasSub(b, c) => HasSub(subs, c)
             /\ Distinct(subs) => (HasSub(b, c) => ~IsActive(subs, c))
  <2>1. HasSub(a, c) => IsActive(subs, c)
    BY <1>2, <1>4 DEF HasSub, IsActive
  <2>2. IsActive(subs, c) => IsActive(a, c)
    BY <1>2, <1>4, SMTT(30) DEF IsActive
  <2>3. IsActive(a, c) => HasSub(a, c)
    BY DEF HasSub, IsActive
  <2>4. HasSub(b, c) => \E k \in L : subs[k].conn = c
    BY <1>3 DEF HasSub
  <2>5. HasSub(b, c) => HasSub(subs, c)
    BY <2>4, <1>4 DEF HasSub
  <2>6. Distinct(subs) => (HasSub(b, c) => ~IsActive(subs, c))
    BY <2>4, <1>4 DEF Distinct, IsActive
  <2> QED
    BY <2>1, <2>2, <2>3, <2>5, <2>6
<1>6. K = {} <=> \A c \in Conn : ~IsActive(subs, c)
  BY <1>4 DEF IsActive
<1> QED
  BY <1>2, <1>3, <1>5, <1>6 DEF a, b

\* A subscriber comes, and goes in the two ways.
LEMMA SubsChange ==
  ASSUME NEW subs \in Seq(Subs), NEW c \in Conn
  PROVE  /\ <<Subscriber(c)>> \in Seq(Subs) /\ AddSubscriber(subs, c) \in Seq(Subs)
         /\ \A d \in Conn :
               /\ HasSub(<<Subscriber(c)>>, d) <=> d = c
               /\ HasSub(AddSubscriber(subs, c), d) <=> HasSub(subs, d) \/ d = c
               /\ IsActive(AddSubscriber(subs, c), d) =>
                     IsActive(subs, d) \/ d = c
               /\ IsActive(subs, d) => IsActive(AddSubscriber(subs, c), d)
         /\ ~HasSub(subs, c) => IsActive(AddSubscriber(subs, c), c)
         /\ Distinct(subs) => Distinct(AddSubscriber(subs, c))
<1> DEFINE s == Subscriber(c)
           r == <<s>> \o subs
<1>1. s \in Subs /\ s.conn = c /\ ~s.inactive
  BY DEF Subs, Subscriber
<1> HIDE DEF s
<1>2. <<s>> \in Seq(Subs) /\ DOMAIN <<s>> = {1} /\ <<s>>[1] = s
  BY <1>1
<1>3. /\ r \in Seq(Subs) /\ DOMAIN r = 1 .. Len(subs) + 1 /\ DOMAIN subs = 1 .. Len(subs)
      /\ r[1] = s /\ \A i \in 1 .. Len(subs) : r[i + 1] = subs[i]
  BY <1>1
<1>4. AddSubscriber(subs, c) = IF HasSub(subs, c) THEN subs ELSE r
  BY DEF AddSubscriber, s
<1> HIDE DEF r
<1>5. /\ \A i \in DOMAIN r : i = 1 \/ (i - 1 \in DOMAIN subs /\ r[i] = subs[i - 1])
      /\ \A i \in DOMAIN subs : i + 1 \in DOMAIN r
      /\ 1 \in DOMAIN r
  <2>1. \A i \in DOMAIN r : i = 1 \/ (i - 1 \in 1 .. Len(subs) /\ i - 1 + 1 = i)
    BY <1>3
  <2> QED
    BY <1>3, <2>1
<1>6. ASSUME NEW d \in Conn
      PROVE  /\ HasSub(<<s>>, d) <=> d = c
             /\ HasSub(r, d) <=> HasSub(subs, d) \/ d = c
             /\ IsActive(r, d) => IsActive(subs, d) \/ d = c
             /\ IsActive(subs, d) => IsActive(r, d)
             /\ IsActive(r, c)
  <2>1. HasSub(<<s>>, d) <=> d = c
    BY <1>1, <1>2 DEF HasSub
  <2>2. HasSub(r, d) => HasSub(subs, d) \/ d = c
    BY <1>1, <1>3, <1>5 DEF HasSub
  <2>3. HasSub(subs, d) \/ d = c => HasSub(r, d)
    BY <1>1, <1>3, <1>5 DEF HasSub
  <2>4. IsActive(r, d) => IsActive(subs, d) \/ d = c
    BY <1>1, <1>3, <1>5 DEF IsActive
  <2>5. IsActive(subs, d) => IsActive(r, d)
    BY <1>3, <1>5 DEF IsActive
  <2>6. IsActive(r, c)
    BY <1>1, <1>3, <1>5 DEF IsActive
  <2> QED
    BY <2>1, <2>2, <2>3, <2>4, <2>5, <2>6
<1>7. ASSUME Distinct(subs), ~HasSub(subs, c) PROVE Distinct(r)
  <2> SUFFICES ASSUME NEW i \in DOMAIN r, NEW j \in DOMAIN r, r[i].conn = r[j].conn
               PROVE  i = j
    BY DEF Distinct
  <2>1. \A k \in DOMAIN subs : subs[k].conn # c
    BY <1>7 DEF HasSub
  <2>2. i = 1 <=> j = 1
    BY <1>1, <1>3, <1>5, <2>1
  <2>3. i # 1 => i - 1 = j - 1
    BY <1>5, <1>7, <2>2 DEF Distinct
  <2> QED
    BY <1>3, <2>2, <2>3
<1> QED
  BY <1>2, <1>3, <1>4, <1>6, <1>7 DEF s

LEMMA SubsLeave ==
  ASSUME NEW subs \in Seq(Subs), NEW c \in Conn,
         NEW r, r = SetInactive(subs, c) \/ r = WithoutSub(subs, c)
  PROVE  /\ r \in Seq(Subs)
         /\ \A d \in Conn : /\ HasSub(r, d) => HasSub(subs, d)
                            /\ IsActive(r, d) <=> IsActive(subs, d) /\ d # c
         /\ r = WithoutSub(subs, c) => ~HasSub(r, c)
         /\ Distinct(subs) => Distinct(r)
<1>0. \A i \in DOMAIN subs : subs[i] \in Subs /\ subs[i].conn \in Conn /\ subs[i].inactive \in BOOLEAN
  <2>1. \A i \in DOMAIN subs : subs[i] \in Subs
    OBVIOUS
  <2> QED
    BY <2>1 DEF Subs
<1>1. CASE r = SetInactive(subs, c)
  <2>1. r \in Seq(Subs) /\ DOMAIN r = DOMAIN subs
    <3>1. r = [i \in 1 .. Len(subs) |->
                 IF subs[i].conn = c THEN [subs[i] EXCEPT !.inactive = TRUE] ELSE subs[i]]
      BY <1>1 DEF SetInactive
    <3>2. \A s \in Subs : [s EXCEPT !.inactive = TRUE] \in Subs
      BY DEF Subs
    <3>3. \A i \in 1 .. Len(subs) :
             (IF subs[i].conn = c THEN [subs[i] EXCEPT !.inactive = TRUE] ELSE subs[i]) \in Subs
      BY <1>0, <3>2
    <3> QED
      BY <3>1, <3>3, 1 .. Len(subs) = DOMAIN subs
  <2>2. \A i \in DOMAIN subs :
           /\ r[i].conn = subs[i].conn
           /\ r[i].inactive <=> subs[i].inactive \/ subs[i].conn = c
    BY <1>0, <1>1 DEF SetInactive, Subs
  <2>3. ASSUME NEW d \in Conn
        PROVE  (HasSub(r, d) <=> HasSub(subs, d)) /\ (IsActive(r, d) <=> IsActive(subs, d) /\ d # c)
    BY <2>1, <2>2 DEF HasSub, IsActive
  <2>4. Distinct(subs) => Distinct(r)
    BY <2>1, <2>2 DEF Distinct
  <2>5. r = WithoutSub(subs, c) => ~HasSub(r, c)
    <3> DEFINE K == {i \in DOMAIN subs : subs[i].conn # c}
    <3>1. \A i \in DOMAIN Kept(subs, K) : \E k \in K : Kept(subs, K)[i] = subs[k]
      BY SubsKept, DOMAIN subs = 1 .. Len(subs)
    <3> QED
      BY <3>1 DEF WithoutSub, HasSub
  <2> QED
    BY <2>1, <2>3, <2>4, <2>5
<1>2. CASE r = WithoutSub(subs, c)
  <2> DEFINE K == {i \in DOMAIN subs : subs[i].conn # c}
  <2>0. r = Kept(subs, K) /\ K \in SUBSET (1 .. Len(subs))
    BY <1>2, DOMAIN subs = 1 .. Len(subs) DEF WithoutSub
  <2>1. /\ r \in Seq(Subs)
        /\ \A i \in DOMAIN r : \E k \in K : r[i] = subs[k]
        /\ \A k \in K : \E i \in DOMAIN r : r[i] = subs[k]
        /\ Distinct(subs) => Distinct(r)
    <3> HIDE DEF K
    <3>1. /\ Kept(subs, K) \in Seq(Subs)
          /\ \A i \in DOMAIN Kept(subs, K) : \E k \in K : Kept(subs, K)[i] = subs[k]
          /\ \A k \in K : \E i \in DOMAIN Kept(subs, K) : Kept(subs, K)[i] = subs[k]
          /\ Distinct(subs) => Distinct(Kept(subs, K))
      BY <2>0, SubsKept
    <3> QED
      BY <2>0, <3>1
  <2>2. \A k \in DOMAIN subs : k \in K <=> subs[k].conn # c
    OBVIOUS
  <2>3. K \subseteq DOMAIN subs
    OBVIOUS
  <2> HIDE DEF K
  <2>4. ASSUME NEW d \in Conn
        PROVE  /\ HasSub(r, d) => HasSub(subs, d) /\ d # c
               /\ IsActive(r, d) <=> IsActive(subs, d) /\ d # c
    <3>1. HasSub(r, d) => HasSub(subs, d) /\ d # c
      BY <2>1, <2>2, <2>3 DEF HasSub
    <3>2. IsActive(r, d) => IsActive(subs, d) /\ d # c
      BY <2>1, <2>2, <2>3 DEF IsActive
    <3>3. IsActive(subs, d) /\ d # c => IsActive(r, d)
      BY <2>1, <2>2, <2>3 DEF IsActive
    <3> QED
      BY <3>1, <3>2, <3>3
  <2> QED
    BY <2>1, <2>4
<1> QED
  BY <1>1, <1>2

\* A message is handled: it was the first of its connection.
LEMMA MsgTaken ==
  ASSUME AgTyped, QueueInv, queue # <<>>, queue' = Tail(queue)
  PROVE  /\ Head(queue) \in [event : Events, conn : Conn \cup {NoConn}]
         /\ Head(queue).event \in {"SUBSCRIBE", "UNSUBSCRIBE"} => Head(queue).conn \in Conn
         /\ Tail(queue) \in Seq([event : Events, conn : Conn \cup {NoConn}])
         /\ \A i \in DOMAIN queue' :
               queue'[i].event \in {"SUBSCRIBE", "UNSUBSCRIBE"} <=> queue'[i].conn # NoConn
         /\ \A c \in Conn : \A e \in {"SUBSCRIBE", "UNSUBSCRIBE"} :
               /\ Waiting(e, c)' => Waiting(e, c)
               /\ Head(queue) = Message(e, c) => Waiting(e, c) /\ ~Waiting(e, c)'
         /\ \A c \in Conn :
               Head(queue) = Message("UNSUBSCRIBE", c) => ~Waiting("SUBSCRIBE", c)
         /\ Head(queue).event = "ENGINE_UP" =>
               \A c \in Conn : modem[c] \in Counting => Waiting("SUBSCRIBE", c)
         /\ \A i \in DOMAIN queue : queue[i].event = "ENGINE_UP" /\ i # 1 =>
               \A c \in Conn : modem[c] \in Counting => Head(queue) # Message("SUBSCRIBE", c)
         /\ (\A c \in Conn : modem'[c] \in Counting => modem[c] \in Counting) => QueueInv'
<1> DEFINE M == [event : Events, conn : Conn \cup {NoConn}]
           n == Len(queue)
<1>1. /\ queue \in Seq(M) /\ n \in Nat /\ n >= 1 /\ DOMAIN queue = 1 .. n
      /\ Head(queue) = queue[1] /\ \A i \in 1 .. n : queue[i] \in M
      /\ Tail(queue) \in Seq(M) /\ DOMAIN queue' = 1 .. n - 1
      /\ \A i \in 1 .. n - 1 : queue'[i] = queue[i + 1]
  <2>1. queue \in Seq(M)
    BY DEF AgTyped, AgTypeOK
  <2> HIDE DEF M
  <2>2. n # 0
    BY <2>1, EmptySeq
  <2> QED
    BY <2>1, <2>2
<1>2. \A i \in DOMAIN queue' : i + 1 \in DOMAIN queue /\ queue'[i] = queue[i + 1] /\ 1 < i + 1
  <2> HIDE DEF M, n
  <2> QED
    BY <1>1
<1>3. \A j \in DOMAIN queue : 1 < j => j - 1 \in DOMAIN queue' /\ queue'[j - 1] = queue[j]
  <2> HIDE DEF M
  <2>1. \A j \in 1 .. n : 1 < j => j - 1 \in 1 .. n - 1 /\ j - 1 + 1 = j
    BY <1>1
  <2> HIDE DEF n
  <2> QED
    BY <1>1, <2>1
<1>4. 1 \in DOMAIN queue /\ DOMAIN queue \subseteq Nat /\ DOMAIN queue' \subseteq Nat
  <2> HIDE DEF M
  <2> QED
    BY <1>1
<1>5. /\ Head(queue) = queue[1] /\ Head(queue) \in M
      /\ Head(queue).event \in {"SUBSCRIBE", "UNSUBSCRIBE"} => Head(queue).conn \in Conn
  BY <1>1, <1>4 DEF AgTyped
<1>6. \A i \in DOMAIN queue' :
               queue'[i].event \in {"SUBSCRIBE", "UNSUBSCRIBE"} <=> queue'[i].conn # NoConn
  BY <1>2 DEF AgTyped
<1> HIDE DEF M, n
<1>7. ASSUME NEW c \in Conn, NEW e \in {"SUBSCRIBE", "UNSUBSCRIBE"}
      PROVE  /\ Waiting(e, c)' => Waiting(e, c)
             /\ Head(queue) = Message(e, c) => Waiting(e, c) /\ ~Waiting(e, c)'
  <2>1. Waiting(e, c)' => \E j \in DOMAIN queue : 1 < j /\ queue[j] = Message(e, c)
    BY <1>2 DEF Waiting
  <2>2. Message(e, c).conn \in Conn
    BY DEF Message
  <2>3. Head(queue) = Message(e, c) => ~Waiting(e, c)'
    <3> SUFFICES ASSUME queue[1] = Message(e, c), Waiting(e, c)' PROVE FALSE
      BY <1>5
    <3>1. PICK j \in DOMAIN queue : 1 < j /\ queue[j] = Message(e, c)
      BY <2>1
    <3>2. j = 1
      BY <2>2, <3>1, <1>4 DEF QueueInv
    <3> QED
      BY <3>1, <3>2
  <2> QED
    BY <2>1, <2>3, <1>4, <1>5 DEF Waiting
<1>8. ASSUME NEW c \in Conn, Head(queue) = Message("UNSUBSCRIBE", c), Waiting("SUBSCRIBE", c)
      PROVE  FALSE
  <2>1. PICK i \in DOMAIN queue : queue[i] = Message("SUBSCRIBE", c)
    BY <1>8 DEF Waiting
  <2>2. i < 1 /\ i \in 1 .. n
    BY <1>8, <2>1, <1>1, <1>4, <1>5 DEF QueueInv
  <2> QED
    BY <2>2
<1>9. Head(queue).event = "ENGINE_UP" =>
               \A c \in Conn : modem[c] \in Counting => Waiting("SUBSCRIBE", c)
  BY <1>4, <1>5 DEF QueueInv, Waiting
<1>10. ASSUME NEW i \in DOMAIN queue, queue[i].event = "ENGINE_UP", i # 1,
              NEW c \in Conn, modem[c] \in Counting, Head(queue) = Message("SUBSCRIBE", c)
       PROVE  FALSE
  <2>1. PICK j \in DOMAIN queue : i < j /\ queue[j] = Message("SUBSCRIBE", c)
    BY <1>10 DEF QueueInv
  <2>2. Message("SUBSCRIBE", c).conn \in Conn
    BY DEF Message
  <2>3. j = 1 /\ i \in 1 .. n
    BY <1>10, <2>1, <2>2, <1>1, <1>4, <1>5 DEF QueueInv
  <2> QED
    BY <2>1, <2>3, <1>10
<1>11. ASSUME \A c \in Conn : modem'[c] \in Counting => modem[c] \in Counting PROVE QueueInv'
  <2>1. ASSUME NEW i \in DOMAIN queue', NEW j \in DOMAIN queue',
               queue'[i].conn \in Conn, queue'[i] = queue'[j]
        PROVE  i = j
    <3>1. i + 1 = j + 1 /\ i \in Nat /\ j \in Nat
      BY <2>1, <1>2, <1>4 DEF QueueInv
    <3> QED
      BY <3>1
  <2>2. ASSUME NEW i \in DOMAIN queue', NEW j \in DOMAIN queue', NEW c \in Conn,
               queue'[i] = Message("SUBSCRIBE", c), queue'[j] = Message("UNSUBSCRIBE", c)
        PROVE  i < j
    <3>1. i + 1 < j + 1 /\ i \in Nat /\ j \in Nat
      BY <2>2, <1>2, <1>4 DEF QueueInv
    <3> QED
      BY <3>1
  <2>3. ASSUME NEW i \in DOMAIN queue', queue'[i].event = "ENGINE_UP", NEW c \in Conn,
               modem'[c] \in Counting
        PROVE  \E j \in DOMAIN queue' : i < j /\ queue'[j] = Message("SUBSCRIBE", c)
    <3>1. i + 1 \in DOMAIN queue /\ queue[i + 1].event = "ENGINE_UP" /\ i \in Nat
      BY <2>3, <1>2, <1>4
    <3>2. PICK j \in DOMAIN queue : i + 1 < j /\ queue[j] = Message("SUBSCRIBE", c)
      BY <3>1, <2>3, <1>11 DEF QueueInv
    <3>3. j \in Nat /\ 1 < j /\ i < j - 1
      BY <3>1, <3>2, <1>4
    <3> QED
      BY <3>2, <3>3, <1>3
  <2>4. QueueInv' <=>
          /\ \A i, j \in DOMAIN queue' : queue'[i].conn \in Conn /\ queue'[i] = queue'[j] => i = j
          /\ \A i, j \in DOMAIN queue' : \A c \in Conn :
                queue'[i] = Message("SUBSCRIBE", c) /\ queue'[j] = Message("UNSUBSCRIBE", c) => i < j
          /\ \A i \in DOMAIN queue' : queue'[i].event = "ENGINE_UP" =>
                \A c \in Conn : modem'[c] \in Counting =>
                    \E j \in DOMAIN queue' : i < j /\ queue'[j] = Message("SUBSCRIBE", c)
    BY DEF QueueInv
  <2> QED
    BY <2>1, <2>2, <2>3, <2>4
<1>12. Tail(queue) \in Seq([event : Events, conn : Conn \cup {NoConn}])
  BY <1>1 DEF M
<1>13. Head(queue) \in [event : Events, conn : Conn \cup {NoConn}]
  BY <1>5 DEF M
<1> QED
  BY <1>5, <1>6, <1>7, <1>8, <1>9, <1>10, <1>11, <1>12, <1>13

\* A message is sent.
LEMMA MsgSent ==
  ASSUME AgTyped, NEW e \in Events, NEW x \in Conn \cup {NoConn},
         queue' = Append(queue, Message(e, x)), e \in {"SUBSCRIBE", "UNSUBSCRIBE"} <=> x # NoConn
  PROVE  /\ queue' \in Seq([event : Events, conn : Conn \cup {NoConn}])
         /\ \A i \in DOMAIN queue' :
               queue'[i].event \in {"SUBSCRIBE", "UNSUBSCRIBE"} <=> queue'[i].conn # NoConn
         /\ \A c \in Conn : \A d \in {"SUBSCRIBE", "UNSUBSCRIBE"} :
               Waiting(d, c)' => Waiting(d, c) \/ (d = e /\ c = x)
         /\ Message(e, x).event = e /\ Message(e, x).conn = x
         /\ \E n \in Nat :
              /\ \A i \in DOMAIN queue' : \/ i \in DOMAIN queue /\ queue'[i] = queue[i]
                                          \/ i = n + 1 /\ queue'[i] = Message(e, x)
              /\ \A i \in DOMAIN queue : i \in DOMAIN queue' /\ queue'[i] = queue[i] /\ i < n + 1
              /\ n + 1 \in DOMAIN queue'
<1> DEFINE M == [event : Events, conn : Conn \cup {NoConn}]
           n == Len(queue)
           m == Message(e, x)
<1>1. m \in M /\ m.event = e /\ m.conn = x
  BY DEF Message
<1>2. /\ queue \in Seq(M) /\ n \in Nat /\ DOMAIN queue = 1 .. n /\ \A i \in 1 .. n : queue[i] \in M
      /\ queue' \in Seq(M) /\ DOMAIN queue' = 1 .. n + 1 /\ queue'[n + 1] = m
      /\ \A i \in 1 .. n : queue'[i] = queue[i]
  <2>1. queue \in Seq(M)
    BY DEF AgTyped, AgTypeOK
  <2> HIDE DEF M, m
  <2> QED
    BY <1>1, <2>1 DEF m
<1> HIDE DEF M, m, n
<1>3. /\ \A i \in DOMAIN queue' : (i \in DOMAIN queue /\ queue'[i] = queue[i]) \/ (i = n + 1 /\ queue'[i] = m)
      /\ \A i \in DOMAIN queue : i \in DOMAIN queue' /\ queue'[i] = queue[i] /\ i < n + 1
      /\ n + 1 \in DOMAIN queue'
  BY <1>2
<1>4. \A i \in DOMAIN queue' :
               queue'[i].event \in {"SUBSCRIBE", "UNSUBSCRIBE"} <=> queue'[i].conn # NoConn
  BY <1>1, <1>3 DEF AgTyped
<1>5. ASSUME NEW c \in Conn, NEW d \in {"SUBSCRIBE", "UNSUBSCRIBE"}, Waiting(d, c)'
      PROVE  Waiting(d, c) \/ (d = e /\ c = x)
  <2>1. Message(d, c).event = d /\ Message(d, c).conn = c
    BY DEF Message
  <2> QED
    BY <1>1, <1>3, <1>5, <2>1 DEF Waiting
<1>6. n \in Nat
  BY <1>2
<1> QED
  BY <1>1, <1>2, <1>3, <1>4, <1>5, <1>6 DEF M, m

\* A message that is sent follows those of its connection.
LEMMA MsgSentKeeps ==
  ASSUME AgTyped, NEW e \in Events, NEW x \in Conn \cup {NoConn},
         queue' = Append(queue, Message(e, x)), e \in {"SUBSCRIBE", "UNSUBSCRIBE"} <=> x # NoConn,
         QueueInv,
         x \in Conn => ~Waiting(e, x),
         e = "SUBSCRIBE" => ~Waiting("UNSUBSCRIBE", x),
         e = "ENGINE_UP" => \A c \in Conn : modem'[c] \notin Counting,
         \A c \in Conn : modem'[c] \in Counting =>
               modem[c] \in Counting \/ (e = "SUBSCRIBE" /\ x = c)
  PROVE  QueueInv'
<1>a. PICK m : m = Message(e, x)
  OBVIOUS
<1>b. m.event = e /\ m.conn = x
  BY <1>a, MsgSent
<1>c. PICK n \in Nat :
         /\ \A i \in DOMAIN queue' : \/ i \in DOMAIN queue /\ queue'[i] = queue[i]
                                     \/ i = n + 1 /\ queue'[i] = m
         /\ \A i \in DOMAIN queue : i \in DOMAIN queue' /\ queue'[i] = queue[i] /\ i < n + 1
         /\ n + 1 \in DOMAIN queue'
  BY <1>a, MsgSent
<1>d. /\ x \in Conn => ~Waiting(e, x)
      /\ e = "SUBSCRIBE" => ~Waiting("UNSUBSCRIBE", x)
      /\ e = "ENGINE_UP" => \A c \in Conn : modem'[c] \notin Counting
      /\ \A c \in Conn : modem'[c] \in Counting =>
            modem[c] \in Counting \/ (e = "SUBSCRIBE" /\ x = c)
      /\ QueueInv
  OBVIOUS
<1>0. \A d, c : Message(d, c).event = d /\ Message(d, c).conn = c
  BY DEF Message
<1>1. ASSUME NEW i \in DOMAIN queue', NEW j \in DOMAIN queue',
             queue'[i].conn \in Conn, queue'[i] = queue'[j]
      PROVE  i = j
  <2>1. \A k \in DOMAIN queue : queue[k] = m => x \notin Conn
    BY <1>a, <1>d DEF Waiting
  <2> QED
    BY <1>1, <1>b, <1>c, <1>d, <2>1 DEF QueueInv
<1>2. ASSUME NEW i \in DOMAIN queue', NEW j \in DOMAIN queue', NEW c \in Conn,
             queue'[i] = Message("SUBSCRIBE", c), queue'[j] = Message("UNSUBSCRIBE", c)
      PROVE  i < j
  <2>1. i \in DOMAIN queue
    <3> SUFFICES ASSUME i = n + 1, queue'[i] = m PROVE FALSE
      BY <1>c
    <3>1. e = "SUBSCRIBE" /\ x = c
      BY <1>0, <1>2, <1>b
    <3>2. j \in DOMAIN queue /\ queue[j] = Message("UNSUBSCRIBE", x)
      BY <3>1, <1>0, <1>2, <1>b, <1>c
    <3> QED
      BY <3>1, <3>2, <1>d DEF Waiting
  <2>2. CASE j \in DOMAIN queue
    BY <2>1, <2>2, <1>2, <1>c, <1>d DEF QueueInv
  <2>3. CASE j = n + 1
    BY <2>1, <2>3, <1>c
  <2> QED
    BY <2>2, <2>3, <1>c
<1>3. ASSUME NEW i \in DOMAIN queue', queue'[i].event = "ENGINE_UP", NEW c \in Conn,
             modem'[c] \in Counting
      PROVE  \E j \in DOMAIN queue' : i < j /\ queue'[j] = Message("SUBSCRIBE", c)
  <2>1. i \in DOMAIN queue /\ queue[i].event = "ENGINE_UP"
    BY <1>3, <1>b, <1>c, <1>d
  <2>2. CASE modem[c] \in Counting
    <3>1. PICK j \in DOMAIN queue : i < j /\ queue[j] = Message("SUBSCRIBE", c)
      BY <2>1, <2>2, <1>d DEF QueueInv
    <3> QED
      BY <3>1, <1>c
  <2>3. CASE e = "SUBSCRIBE" /\ x = c
    BY <1>a, <2>1, <2>3, <1>c
  <2> QED
    BY <1>3, <2>2, <2>3, <1>d
<1>4. QueueInv' <=>
        /\ \A i, j \in DOMAIN queue' : queue'[i].conn \in Conn /\ queue'[i] = queue'[j] => i = j
        /\ \A i, j \in DOMAIN queue' : \A c \in Conn :
              queue'[i] = Message("SUBSCRIBE", c) /\ queue'[j] = Message("UNSUBSCRIBE", c) => i < j
        /\ \A i \in DOMAIN queue' : queue'[i].event = "ENGINE_UP" =>
              \A c \in Conn : modem'[c] \in Counting =>
                  \E j \in DOMAIN queue' : i < j /\ queue'[j] = Message("SUBSCRIBE", c)
  BY DEF QueueInv
<1> QED
  BY <1>1, <1>2, <1>3, <1>4

-----------------------------------------------------------------------------
(* What connections are told.                                              *)

Told == {"new", "asked", "open", "closing", "done", "lost", "unasked"}
Net == [reqs : Seq({"REQUEST", "RELEASE"}), up : BOOLEAN]

\* Only those on the list are told, and who was lost learns nothing.
LEMMA ToldBy ==
  ASSUME AgTyped, NEW told \in [Conn -> Told], NEW subs,
         NEW st \in {"GRANTED", "DENIED", "RELEASED", "UNSUBSCRIBE"}, NEW t, t = TellFrom(told, subs, st)
  PROVE  /\ t \in [Conn -> Told]
         /\ \A c \in Conn :
               /\ ~HasSub(subs, c) \/ told[c] = "lost" => t[c] = told[c]
               /\ st = "GRANTED" /\ told[c] # "done" =>
                     t[c] = told[c] \/ (told[c] = "asked" /\ t[c] = "open")
               /\ st = "DENIED" /\ agps.kind # "ds" => t[c] \in {told[c], "done"} /\
                     (HasSub(subs, c) => t[c] # "asked")
               /\ st = "RELEASED" /\ agps.kind # "ds" /\ HasSub(subs, c) =>
                     t[c] \in {"done", "lost"}
               /\ st = "UNSUBSCRIBE" => t[c] \in {told[c], "done"}
               /\ st = "UNSUBSCRIBE" /\ HasSub(subs, c) /\ agps.kind # "wifi" =>
                     t[c] \in {"done", "lost"}
<1>1. /\ t = [c \in Conn |-> IF HasSub(subs, c) THEN Learns(told[c], st) ELSE told[c]]
      /\ agps.kind \in {"atl", "wifi", "ds"}
  BY AgpsAssumption DEF TellFrom, AgTyped, AgTypeOK
<1>2. ASSUME NEW m \in Told
      PROVE  /\ Learns(m, st) \in Told
             /\ m = "lost" => Learns(m, st) = m
             /\ st = "GRANTED" /\ m # "done" =>
                   Learns(m, st) = m \/ (m = "asked" /\ Learns(m, st) = "open")
             /\ st = "DENIED" /\ agps.kind # "ds" =>
                   Learns(m, st) \in {m, "done"} /\ Learns(m, st) # "asked"
             /\ st = "RELEASED" /\ agps.kind # "ds" => Learns(m, st) \in {"done", "lost"}
             /\ st = "UNSUBSCRIBE" => Learns(m, st) \in {m, "done"}
             /\ st = "UNSUBSCRIBE" /\ agps.kind # "wifi" => Learns(m, st) \in {"done", "lost"}
  <2> USE DEF Told
  <2>1. CASE m = "lost"
    BY <2>1 DEF Learns
  <2>2. CASE m # "lost" /\ st = "GRANTED"
    BY <2>2 DEF Learns
  <2>3. CASE m # "lost" /\ st = "DENIED"
    <3>1. CASE agps.kind = "atl"
      BY <2>3, <3>1 DEF Learns
    <3>2. CASE agps.kind = "wifi"
      BY <2>3, <3>2 DEF Learns
    <3>3. CASE agps.kind = "ds"
      BY <2>3, <3>3 DEF Learns
    <3> QED
      BY <1>1, <3>1, <3>2, <3>3
  <2>4. CASE m # "lost" /\ st = "RELEASED"
    BY <2>4, <1>1 DEF Learns
  <2>5. CASE m # "lost" /\ st = "UNSUBSCRIBE"
    BY <2>5, <1>1 DEF Learns
  <2> QED
    BY <2>1, <2>2, <2>3, <2>4, <2>5
<1> QED
  BY <1>1, <1>2

\* A request is the last of the network's.
LEMMA Asked ==
  ASSUME NEW n \in Net, NEW a \in {"REQUEST", "RELEASE"}
  PROVE  Asking(n, a) \in Net
BY DEF Asking, Net

\* What comes of a request for the network.
LEMMA RsrcRequested ==
  ASSUME AgTyped, NEW subs \in Seq(Subs), NEW n \in Net, NEW told \in [Conn -> Told],
         NEW r \in SendRsrcRequest(subs, n, told)
  PROVE  /\ r.net \in Net /\ r.modem \in [Conn -> Told] /\ r.busy \in 0 .. MaxBusy
         /\ r.retries \in 0 .. MaxRetries /\ r.timers \in 0 .. MaxBusy /\ r.timers <= r.busy
         /\ agps.kind # "ds" => r.ok /\ r.modem = told /\ r.timers = agps.timers
<1>1. /\ agps.retries \in 0 .. MaxRetries /\ agps.timers \in 0 .. MaxBusy
      /\ faults.busy \in 0 .. MaxBusy /\ agps.timers <= faults.busy
      /\ MaxBusy \in Nat /\ MaxRetries \in Nat
  BY AgpsAssumption DEF AgTyped, AgTypeOK
<1>2. Asking(n, "REQUEST") \in Net
  BY Asked
<1> DEFINE a == [ok |-> TRUE, net |-> Asking(n, "REQUEST"), modem |-> told, busy |-> faults.busy,
                 retries |-> agps.retries, timers |-> agps.timers]
           b == [ok |-> FALSE, net |-> n, modem |-> told, busy |-> faults.busy + 1,
                 retries |-> agps.retries + 1, timers |-> agps.timers + 1]
           t == TellFrom(told, SubSeq(Active(subs), 1, 1), "DENIED")
           d == [ok |-> FALSE, net |-> n, busy |-> faults.busy, retries |-> 0,
                 modem |-> t, timers |-> agps.timers]
<1>3. \/ r = a
      \/ r = b /\ agps.kind = "ds" /\ faults.busy < MaxBusy /\ agps.retries < MaxRetries
      \/ r = d /\ agps.kind = "ds"
  BY DEF SendRsrcRequest
<1>4. CASE r = a
  BY <1>1, <1>2, <1>4
<1>5. CASE r = b /\ agps.kind = "ds" /\ faults.busy < MaxBusy /\ agps.retries < MaxRetries
  <2>1. /\ faults.busy + 1 \in 0 .. MaxBusy /\ agps.retries + 1 \in 0 .. MaxRetries
        /\ agps.timers + 1 \in 0 .. MaxBusy /\ agps.timers + 1 <= faults.busy + 1
    BY <1>1, <1>5
  <2> QED
    BY <1>5, <2>1
<1>6. CASE r = d /\ agps.kind = "ds"
  <2>1. t \in [Conn -> Told]
    BY ToldBy
  <2>2. 0 \in 0 .. MaxRetries
    BY <1>1
  <2> QED
    BY <1>1, <1>6, <2>1, <2>2
<1> QED
  BY <1>3, <1>4, <1>5, <1>6

-----------------------------------------------------------------------------
(* Types.                                                                  *)

AgState == {"Released", "Pending", "Acquired", "Releasing"}

\* The parts of the type.
LEMMA AgParts ==
  /\ AgTyped <=>
      /\ agps \in [kind : AgpsKinds, single : BOOLEAN, state : AgState,
                   subs : Seq(Subs), retries : 0 .. MaxRetries, timers : 0 .. MaxBusy]
      /\ net \in Net
      /\ queue \in Seq([event : Events, conn : Conn \cup {NoConn}])
      /\ modem \in [Conn -> Told]
      /\ faults \in [lost : 0 .. MaxLosses, busy : 0 .. MaxBusy]
      /\ agps.timers <= faults.busy
      /\ \A i \in DOMAIN queue :
            queue[i].event \in {"SUBSCRIBE", "UNSUBSCRIBE"} <=> queue[i].conn # NoConn
BY DEF AgTyped, AgTypeOK, AgState, Subs, Net, Told

\* The message that is handled leaves a queue of messages.
LEMMA QueueTyped ==
  ASSUME AgTyped, queue # <<>>
  PROVE  /\ Head(queue) \in [event : Events, conn : Conn \cup {NoConn}]
         /\ Head(queue).event \in {"SUBSCRIBE", "UNSUBSCRIBE"} => Head(queue).conn \in Conn
         /\ Tail(queue) \in Seq([event : Events, conn : Conn \cup {NoConn}])
         /\ \A i \in DOMAIN Tail(queue) :
              Tail(queue)[i].event \in {"SUBSCRIBE", "UNSUBSCRIBE"} <=> Tail(queue)[i].conn # NoConn
<1> DEFINE M == [event : Events, conn : Conn \cup {NoConn}]
           t == Tail(queue)
<1>1. queue \in Seq(M)
  BY DEF AgTyped, AgTypeOK
<1>2. /\ Head(queue) \in M /\ t \in Seq(M) /\ 1 \in DOMAIN queue /\ Head(queue) = queue[1]
      /\ \A i \in DOMAIN t : i + 1 \in DOMAIN queue /\ t[i] = queue[i + 1]
  <2> HIDE DEF M
  <2>1. Len(queue) \in Nat /\ Len(queue) # 0
    BY <1>1, EmptySeq
  <2> QED
    BY <1>1, <2>1
<1> HIDE DEF t
<1>3. Head(queue).event \in {"SUBSCRIBE", "UNSUBSCRIBE"} => Head(queue).conn \in Conn
  BY <1>2 DEF AgTyped
<1>4. \A i \in DOMAIN t : t[i].event \in {"SUBSCRIBE", "UNSUBSCRIBE"} <=> t[i].conn # NoConn
  BY <1>2 DEF AgTyped
<1> QED
  BY <1>2, <1>3, <1>4 DEF t

\* What a handler leaves is typed if its parts are.
LEMMA HandledTyped ==
  ASSUME AgTyped, queue # <<>>, queue' = Tail(queue),
         agps' \in [kind : AgpsKinds, single : BOOLEAN, state : AgState,
                    subs : Seq(Subs), retries : 0 .. MaxRetries, timers : 0 .. MaxBusy],
         net' \in Net, modem' \in [Conn -> Told],
         faults' \in [lost : 0 .. MaxLosses, busy : 0 .. MaxBusy], agps'.timers <= faults'.busy
  PROVE  AgTyped'
BY QueueTyped DEF AgTyped, AgTypeOK, AgState, Subs, Net, Told

\* What the other threads leave is typed.
LEMMA SentTyped ==
  ASSUME AgTyped, NEW e \in Events, NEW x \in Conn \cup {NoConn},
         queue' = Append(queue, Message(e, x)), e \in {"SUBSCRIBE", "UNSUBSCRIBE"} <=> x # NoConn,
         UNCHANGED agps, net' \in Net, modem' \in [Conn -> Told],
         faults' \in [lost : 0 .. MaxLosses, busy : 0 .. MaxBusy], faults'.busy = faults.busy
  PROVE  AgTyped'
BY MsgSent DEF AgTyped, AgTypeOK, AgState, Subs, Net, Told

\* Every step keeps the types.
LEMMA AgTypedStep == AgTyped /\ [AgNext]_agVars => AgTyped'
<1> SUFFICES ASSUME AgTyped, [AgNext]_agVars PROVE AgTyped'
  OBVIOUS
<1>p. /\ agps \in [kind : AgpsKinds, single : BOOLEAN, state : AgState,
                   subs : Seq(Subs), retries : 0 .. MaxRetries, timers : 0 .. MaxBusy]
      /\ net \in Net /\ modem \in [Conn -> Told]
      /\ faults \in [lost : 0 .. MaxLosses, busy : 0 .. MaxBusy] /\ agps.timers <= faults.busy
  BY AgParts
<1>k. 0 \in 0 .. MaxRetries /\ NoConn \notin Conn
  BY AgpsAssumption
<1>s. /\ agps.subs \in Seq(Subs) /\ Active(agps.subs) \in Seq(Subs)
      /\ <<>> \in Seq(Subs)
      /\ agps = [kind |-> agps.kind, single |-> agps.single, state |-> agps.state,
                 subs |-> agps.subs, retries |-> agps.retries, timers |-> agps.timers]
  BY <1>p, SubsSplit
<1>t. \A subs : \A st \in {"GRANTED", "DENIED", "RELEASED", "UNSUBSCRIBE"} :
         Tell(subs, st) \in [Conn -> Told]
  BY <1>p, ToldBy DEF Tell
<1>c. \A subs, st : CloseCalls(subs, st) \in Net
  BY <1>p DEF CloseCalls, Net
<1>n. \A a \in {"REQUEST", "RELEASE"} : Asking(net, a) \in Net
  BY <1>p, Asked
<1>h. queue # <<>> =>
        /\ Head(queue) \in [event : Events, conn : Conn \cup {NoConn}]
        /\ Head(queue).event \in {"SUBSCRIBE", "UNSUBSCRIBE"} => Head(queue).conn \in Conn
  BY QueueTyped
<1>1. ASSUME SubscribeRefused PROVE AgTyped'
  BY <1>1, <1>p, <1>t, HandledTyped DEF SubscribeRefused, AgTake
<1>2. ASSUME SubscribeReleased PROVE AgTyped'
  <2> DEFINE subs == AddSubscriber(agps.subs, Head(queue).conn)
  <2>1. queue # <<>> /\ queue' = Tail(queue) /\ Head(queue).conn \in Conn
    BY <1>2, <1>h DEF SubscribeReleased, AgTake
  <2>2. subs \in Seq(Subs)
    BY <1>s, <2>1, SubsChange
  <2>3. PICK r \in SendRsrcRequest(subs, net, modem) :
            /\ agps' = [agps EXCEPT !.subs = subs, !.retries = r.retries, !.timers = r.timers,
                           !.state = IF r.ok THEN "Pending" ELSE "Released"]
            /\ net' = r.net /\ modem' = r.modem
            /\ faults' = [faults EXCEPT !.busy = r.busy]
    BY <1>2 DEF SubscribeReleased
  <2> HIDE DEF subs
  <2>4. /\ r.net \in Net /\ r.modem \in [Conn -> Told] /\ r.busy \in 0 .. MaxBusy
        /\ r.retries \in 0 .. MaxRetries /\ r.timers \in 0 .. MaxBusy /\ r.timers <= r.busy
    BY <1>p, <2>2, RsrcRequested
  <2>5. /\ agps' \in [kind : AgpsKinds, single : BOOLEAN, state : AgState,
                      subs : Seq(Subs), retries : 0 .. MaxRetries, timers : 0 .. MaxBusy]
        /\ agps'.timers = r.timers
    BY <1>p, <2>2, <2>3, <2>4 DEF AgState
  <2>6. faults' \in [lost : 0 .. MaxLosses, busy : 0 .. MaxBusy] /\ faults'.busy = r.busy
    BY <1>p, <2>3, <2>4
  <2> QED
    BY <2>1, <2>3, <2>4, <2>5, <2>6, HandledTyped
<1>3. ASSUME SubscribeWaits PROVE AgTyped'
  <2>1. queue # <<>> /\ queue' = Tail(queue) /\ Head(queue).conn \in Conn
    BY <1>3, <1>h DEF SubscribeWaits, AgTake
  <2>2. AddSubscriber(agps.subs, Head(queue).conn) \in Seq(Subs)
    BY <1>s, <2>1, SubsChange
  <2>3. /\ agps' = [agps EXCEPT !.subs = AddSubscriber(agps.subs, Head(queue).conn)]
        /\ UNCHANGED <<net, modem, faults>>
    BY <1>3 DEF SubscribeWaits
  <2>4. /\ agps' \in [kind : AgpsKinds, single : BOOLEAN, state : AgState,
                      subs : Seq(Subs), retries : 0 .. MaxRetries, timers : 0 .. MaxBusy]
        /\ agps'.timers = agps.timers
    BY <1>p, <2>2, <2>3
  <2> QED
    BY <1>p, <2>1, <2>3, <2>4, HandledTyped
<1>4. ASSUME SubscribeAcquired PROVE AgTyped'
  <2>1. queue # <<>> /\ queue' = Tail(queue) /\ Head(queue).conn \in Conn
    BY <1>4, <1>h DEF SubscribeAcquired, AgTake
  <2>2. AddSubscriber(agps.subs, Head(queue).conn) \in Seq(Subs)
    BY <1>s, <2>1, SubsChange
  <2>3. /\ agps' = [agps EXCEPT !.subs = AddSubscriber(agps.subs, Head(queue).conn)]
        /\ modem' = Tell(<<Subscriber(Head(queue).conn)>>, "GRANTED")
        /\ UNCHANGED <<net, faults>>
    BY <1>4 DEF SubscribeAcquired
  <2>4. /\ agps' \in [kind : AgpsKinds, single : BOOLEAN, state : AgState,
                      subs : Seq(Subs), retries : 0 .. MaxRetries, timers : 0 .. MaxBusy]
        /\ agps'.timers = agps.timers
    BY <1>p, <2>2, <2>3
  <2> QED
    BY <1>p, <1>t, <2>1, <2>3, <2>4, HandledTyped
<1>5. ASSUME UnsubscribeUnknown PROVE AgTyped'
  <2>1. queue # <<>> /\ queue' = Tail(queue) /\ UNCHANGED <<agps, net, faults>>
    BY <1>5 DEF UnsubscribeUnknown, AgTake
  <2>2. modem' \in [Conn -> Told]
    BY <1>5, <1>p DEF UnsubscribeUnknown, Told
  <2> QED
    BY <1>p, <2>1, <2>2, HandledTyped
<1>6. ASSUME UnsubscribeReleased PROVE AgTyped'
  BY <1>6, <1>p, <1>t, HandledTyped DEF UnsubscribeReleased, AgTake
<1>7. ASSUME Unsubscribe \/ UnsubscribeReleasing PROVE AgTyped'
  <2> DEFINE subs == Leave(Head(queue).conn)
  <2>1. queue # <<>> /\ queue' = Tail(queue) /\ Head(queue).conn \in Conn /\ faults' = faults
    BY <1>7, <1>h DEF Unsubscribe, UnsubscribeReleasing, AgTake
  <2>2. subs \in Seq(Subs)
    BY <1>s, <2>1, SubsLeave DEF Leave
  <2>3. modem' \in [Conn -> Told]
    BY <1>7, <1>p, <1>t DEF Unsubscribe, UnsubscribeReleasing, LeaveTold
  <2>4. \E st \in AgState : agps' = [agps EXCEPT !.subs = subs, !.state = st]
    <3>1. agps.state \in AgState
      BY <1>p
    <3>2. CASE Unsubscribe
      BY <3>1, <3>2 DEF Unsubscribe, AgState
    <3>3. CASE UnsubscribeReleasing
      BY <3>1, <3>3 DEF UnsubscribeReleasing, AgState
    <3> QED
      BY <1>7, <3>2, <3>3
  <2>5. net' \in Net
    BY <1>7, <1>p, <1>n DEF Unsubscribe, UnsubscribeReleasing
  <2> HIDE DEF subs
  <2>6. /\ agps' \in [kind : AgpsKinds, single : BOOLEAN, state : AgState,
                      subs : Seq(Subs), retries : 0 .. MaxRetries, timers : 0 .. MaxBusy]
        /\ agps'.timers = agps.timers
    BY <1>p, <2>2, <2>4
  <2> QED
    BY <1>p, <2>1, <2>3, <2>5, <2>6, HandledTyped
<1>8. ASSUME Granted PROVE AgTyped'
  <2>1. queue # <<>> /\ queue' = Tail(queue) /\ UNCHANGED <<net, faults>>
    BY <1>8 DEF Granted, AgTake
  <2>2. modem' \in [Conn -> Told]
    BY <1>8, <1>p, <1>t DEF Granted
  <2>3. /\ agps' \in [kind : AgpsKinds, single : BOOLEAN, state : AgState,
                      subs : Seq(Subs), retries : 0 .. MaxRetries, timers : 0 .. MaxBusy]
        /\ agps'.timers = agps.timers
    BY <1>8, <1>p DEF Granted, AgState
  <2> QED
    BY <1>p, <2>1, <2>2, <2>3, HandledTyped
<1>9. ASSUME queue # <<>>, queue' = Tail(queue), NEW st \in {"DENIED", "RELEASED"}, AllGo(st)
      PROVE  AgTyped'
  <2>1. /\ agps' \in [kind : AgpsKinds, single : BOOLEAN, state : AgState,
                      subs : Seq(Subs), retries : 0 .. MaxRetries, timers : 0 .. MaxBusy]
        /\ agps'.timers = agps.timers
    <3>1. PICK k \in 0 .. MaxRetries :
             agps' = [agps EXCEPT !.state = "Released", !.subs = <<>>, !.retries = k]
      BY <1>9, <1>p, <1>k DEF AllGo
    <3> QED
      BY <3>1, <1>p, <1>s DEF AgState
  <2> QED
    BY <1>9, <1>p, <1>t, <1>c, <2>1, HandledTyped DEF AllGo
<1>10. ASSUME queue # <<>>, queue' = Tail(queue), ReleasingEnds,
              Head(queue).event \in {"DENIED", "RELEASED"}
       PROVE  AgTyped'
  <2> DEFINE active == Active(agps.subs)
             told == Tell(Inactive(agps.subs), Head(queue).event)
             closed == CloseCalls(Inactive(agps.subs), Head(queue).event)
  <2>1. told \in [Conn -> Told] /\ closed \in Net /\ active \in Seq(Subs)
    BY <1>10, <1>t, <1>c, <1>s
  <2>2. CASE active = <<>>
    <3>1. /\ agps' = [agps EXCEPT !.subs = <<>>, !.state = "Released"]
          /\ modem' = told /\ net' = closed /\ faults' = faults
      BY <1>10, <2>2 DEF ReleasingEnds
    <3> HIDE DEF active, told, closed
    <3>2. /\ agps' \in [kind : AgpsKinds, single : BOOLEAN, state : AgState,
                        subs : Seq(Subs), retries : 0 .. MaxRetries, timers : 0 .. MaxBusy]
          /\ agps'.timers = agps.timers
      BY <1>p, <1>s, <3>1 DEF AgState
    <3> QED
      BY <1>10, <1>p, <2>1, <3>1, <3>2, HandledTyped
  <2>3. CASE active # <<>>
    <3>1. PICK r \in SendRsrcRequest(active, closed, told) :
             /\ agps' = [agps EXCEPT !.subs = active, !.state = "Pending",
                            !.retries = r.retries, !.timers = r.timers]
             /\ net' = r.net /\ modem' = r.modem
             /\ faults' = [faults EXCEPT !.busy = r.busy]
      BY <1>10, <2>3 DEF ReleasingEnds
    <3> HIDE DEF active, told, closed
    <3>2. /\ r.net \in Net /\ r.modem \in [Conn -> Told] /\ r.busy \in 0 .. MaxBusy
          /\ r.retries \in 0 .. MaxRetries /\ r.timers \in 0 .. MaxBusy /\ r.timers <= r.busy
      BY <2>1, RsrcRequested
    <3>3. /\ agps' \in [kind : AgpsKinds, single : BOOLEAN, state : AgState,
                        subs : Seq(Subs), retries : 0 .. MaxRetries, timers : 0 .. MaxBusy]
          /\ agps'.timers = r.timers
      BY <1>p, <2>1, <3>1, <3>2 DEF AgState
    <3>4. faults' \in [lost : 0 .. MaxLosses, busy : 0 .. MaxBusy] /\ faults'.busy = r.busy
      BY <1>p, <3>1, <3>2
    <3> QED
      BY <1>10, <3>1, <3>2, <3>3, <3>4, HandledTyped
  <2> QED
    BY <2>2, <2>3
<1>11. ASSUME Denied \/ Released PROVE AgTyped'
  <2>1. /\ queue # <<>> /\ queue' = Tail(queue) /\ Head(queue).event \in {"DENIED", "RELEASED"}
        /\ AllGo("DENIED") \/ AllGo("RELEASED") \/ ReleasingEnds \/ Ignored
    BY <1>11 DEF Denied, Released, AgTake
  <2>2. CASE Ignored
    BY <1>p, <2>1, <2>2, HandledTyped DEF Ignored
  <2> QED
    BY <2>1, <2>2, <1>9, <1>10
<1>12. ASSUME EngineUp PROVE AgTyped'
  <2>1. queue # <<>> /\ queue' = Tail(queue) /\ UNCHANGED <<net, modem, faults>>
    BY <1>12 DEF EngineUp, AgTake
  <2>2. /\ agps' \in [kind : AgpsKinds, single : BOOLEAN, state : AgState,
                      subs : Seq(Subs), retries : 0 .. MaxRetries, timers : 0 .. MaxBusy]
        /\ agps'.timers = agps.timers
    BY <1>12, <1>p, <1>s DEF EngineUp
  <2> QED
    BY <1>p, <2>1, <2>2, HandledTyped
<1>13. ASSUME NEW c \in Conn, ModemAsks(c) \/ ModemReleases(c) PROVE AgTyped'
  <2>1. modem' \in [Conn -> Told] /\ UNCHANGED <<agps, net, faults>>
    BY <1>13, <1>p DEF ModemAsks, ModemReleases, Told
  <2>2. PICK e \in {"SUBSCRIBE", "UNSUBSCRIBE"} : queue' = Append(queue, Message(e, c))
    BY <1>13 DEF ModemAsks, ModemReleases
  <2>3. e \in Events /\ c # NoConn
    BY <1>k DEF Events
  <2> QED
    BY <1>p, <2>1, <2>2, <2>3, SentTyped
<1>14. ASSUME EngineRestarts PROVE AgTyped'
  <2>1. modem' \in [Conn -> Told] /\ UNCHANGED <<agps, net>>
    BY <1>14, <1>p DEF EngineRestarts, Told
  <2>2. faults' \in [lost : 0 .. MaxLosses, busy : 0 .. MaxBusy] /\ faults'.busy = faults.busy
    <3>1. faults.lost + 1 \in 0 .. MaxLosses
      BY <1>14, <1>p, AgpsAssumption DEF EngineRestarts
    <3> QED
      BY <3>1, <1>14, <1>p DEF EngineRestarts
  <2> QED
    BY <1>14, <1>p, <2>1, <2>2, SentTyped DEF EngineRestarts, Events
<1>15. ASSUME NetAnswers PROVE AgTyped'
  <2>1. PICK up \in BOOLEAN :
           /\ net' = [reqs |-> Tail(net.reqs), up |-> up]
           /\ queue' = Append(queue, Message(
                IF up THEN "GRANTED"
                ELSE IF Head(net.reqs) = "RELEASE" \/ agps.kind = "ds" THEN "RELEASED"
                ELSE "DENIED", NoConn))
    BY <1>15 DEF NetAnswers
  <2>2. net' \in Net /\ UNCHANGED <<agps, modem, faults>>
    BY <1>15, <1>p, <2>1 DEF NetAnswers, Net
  <2>3. PICK e \in {"GRANTED", "RELEASED", "DENIED"} : queue' = Append(queue, Message(e, NoConn))
    BY <2>1
  <2>4. e \in Events /\ e \notin {"SUBSCRIBE", "UNSUBSCRIBE"}
    BY DEF Events
  <2> QED
    BY <1>p, <2>2, <2>3, <2>4, SentTyped
<1>16. ASSUME NetLost PROVE AgTyped'
  <2>1. net' \in Net /\ UNCHANGED <<agps, modem>>
    BY <1>16, <1>p DEF NetLost, Net
  <2>2. faults' \in [lost : 0 .. MaxLosses, busy : 0 .. MaxBusy] /\ faults'.busy = faults.busy
    <3>1. faults.lost + 1 \in 0 .. MaxLosses
      BY <1>16, <1>p, AgpsAssumption DEF NetLost
    <3> QED
      BY <3>1, <1>16, <1>p DEF NetLost
  <2> QED
    BY <1>16, <1>p, <2>1, <2>2, SentTyped DEF NetLost, Events
<1>17. ASSUME RetryCallback PROVE AgTyped'
  <2>1. /\ agps.timers > 0 /\ agps' = [agps EXCEPT !.timers = agps.timers - 1]
        /\ UNCHANGED <<net, modem, faults>>
    BY <1>17 DEF RetryCallback
  <2>2. agps.timers - 1 \in 0 .. MaxBusy /\ agps.timers - 1 <= faults.busy
    BY <1>p, <2>1, AgpsAssumption
  <2>3. /\ agps' \in [kind : AgpsKinds, single : BOOLEAN, state : AgState,
                      subs : Seq(Subs), retries : 0 .. MaxRetries, timers : 0 .. MaxBusy]
        /\ agps'.timers <= faults'.busy
    BY <1>p, <2>1, <2>2
  <2>4. /\ queue' \in Seq([event : Events, conn : Conn \cup {NoConn}])
        /\ \A i \in DOMAIN queue' :
             queue'[i].event \in {"SUBSCRIBE", "UNSUBSCRIBE"} <=> queue'[i].conn # NoConn
    <3>1. CASE Active(agps.subs) = <<>>
      BY <1>17, <3>1, AgParts DEF RetryCallback
    <3>2. CASE Active(agps.subs) # <<>>
      <4>1. Head(Active(agps.subs)) \in Subs
        BY <1>s, <3>2
      <4>2. PICK c \in Conn : queue' = Append(queue, Message("SUBSCRIBE", c))
        BY <1>17, <3>2, <4>1 DEF RetryCallback, Subs
      <4>3. c # NoConn /\ "SUBSCRIBE" \in Events
        BY <1>k DEF Events
      <4> QED
        BY <4>2, <4>3, MsgSent
    <3> QED
      BY <3>1, <3>2
  <2> QED
    BY <1>p, <2>1, <2>3, <2>4 DEF AgTyped, AgTypeOK, AgState, Subs, Net, Told
<1>18. ASSUME UNCHANGED agVars PROVE AgTyped'
  BY <1>18 DEF agVars, AgTyped, AgTypeOK
<1> QED
  BY <1>1, <1>2, <1>3, <1>4, <1>5, <1>6, <1>7, <1>8, <1>11, <1>12, <1>13, <1>14, <1>15,
     <1>16, <1>17, <1>18 DEF AgNext, AgpsHandler

-----------------------------------------------------------------------------
(* Subscribers that ask once.                                              *)

\* The parts of NotDs after a step.
LEMMA NotDsKept ==
  ASSUME QueueInv', Distinct(agps'.subs), agps'.timers = 0,
         agps'.state = "Released" => agps'.subs = <<>>,
         \A c \in Conn :
            /\ Waiting("SUBSCRIBE", c)' =>
                  modem'[c] \in {"asked", "closing", "lost"} /\ ~HasSub(agps'.subs, c)
            /\ Waiting("UNSUBSCRIBE", c)' => modem'[c] \in {"closing", "done", "lost"}
            /\ HasSub(agps'.subs, c) => modem'[c] # "new"
            /\ IsActive(agps'.subs, c) => modem'[c] \in {"asked", "open", "closing", "lost"}
            /\ modem'[c] = "open" => agps'.state = "Acquired" /\ IsActive(agps'.subs, c)
            /\ modem'[c] # "unasked"
  PROVE  NotDs'
BY DEF NotDs, Distinct, ReleasedIsEmpty, ConnInv, HasSub, IsActive

\* What is known of the connection whose message is handled.
LEMMA HeadOf ==
  ASSUME AgTyped, NotDs, queue # <<>>, queue' = Tail(queue),
         NEW h, h = Head(queue).conn, Head(queue).event \in {"SUBSCRIBE", "UNSUBSCRIBE"}
  PROVE  /\ h \in Conn
         /\ Head(queue).event = "SUBSCRIBE" =>
              /\ ~Waiting("SUBSCRIBE", h)' /\ modem[h] \in {"asked", "closing", "lost"}
              /\ ~HasSub(agps.subs, h) /\ ~IsActive(agps.subs, h)
         /\ Head(queue).event = "UNSUBSCRIBE" =>
              /\ ~Waiting("SUBSCRIBE", h)' /\ ~Waiting("UNSUBSCRIBE", h)'
              /\ modem[h] \in {"closing", "done", "lost"}
<1>1. PICK m : m = Head(queue)
  OBVIOUS
<1>2. /\ m \in [event : Events, conn : Conn \cup {NoConn}] /\ h \in Conn /\ h = m.conn
      /\ m.event \in {"SUBSCRIBE", "UNSUBSCRIBE"}
  BY <1>1, QueueTyped
<1>3. m = Message(m.event, h)
  BY <1>2 DEF Message
<1>4. /\ \A c \in Conn : \A d \in {"SUBSCRIBE", "UNSUBSCRIBE"} :
               /\ Waiting(d, c)' => Waiting(d, c)
               /\ m = Message(d, c) => Waiting(d, c) /\ ~Waiting(d, c)'
      /\ \A c \in Conn : m = Message("UNSUBSCRIBE", c) => ~Waiting("SUBSCRIBE", c)
  BY <1>1, MsgTaken DEF NotDs
<1>5. /\ m.event = "SUBSCRIBE" => Waiting("SUBSCRIBE", h) /\ ~Waiting("SUBSCRIBE", h)'
      /\ m.event = "UNSUBSCRIBE" => /\ Waiting("UNSUBSCRIBE", h) /\ ~Waiting("UNSUBSCRIBE", h)'
                                   /\ ~Waiting("SUBSCRIBE", h)'
  BY <1>2, <1>3, <1>4
<1>7. ConnInv(h)
  BY <1>2 DEF NotDs
<1>8. IsActive(agps.subs, h) => HasSub(agps.subs, h)
  BY DEF IsActive, HasSub
<1>9. /\ m.event = "SUBSCRIBE" =>
              /\ modem[h] \in {"asked", "closing", "lost"}
              /\ ~HasSub(agps.subs, h) /\ ~IsActive(agps.subs, h)
      /\ m.event = "UNSUBSCRIBE" => modem[h] \in {"closing", "done", "lost"}
  BY <1>5, <1>7, <1>8 DEF ConnInv
<1> QED
  BY <1>1, <1>2, <1>5, <1>9

\* Steps that change nobody's mind keep it.
LEMMA NotDsStep ==
  ASSUME AgTyped, NotDs, agps.kind # "ds", [AgNext]_agVars
  PROVE  NotDs'
<1>p. /\ agps \in [kind : AgpsKinds, single : BOOLEAN, state : AgState,
                   subs : Seq(Subs), retries : 0 .. MaxRetries, timers : 0 .. MaxBusy]
      /\ net \in Net /\ modem \in [Conn -> Told]
  BY AgParts
<1>n. /\ Distinct(agps.subs) /\ agps.timers = 0 /\ QueueInv
      /\ agps.state = "Released" => agps.subs = <<>>
      /\ \A c \in Conn :
            /\ Waiting("SUBSCRIBE", c) =>
                  modem[c] \in {"asked", "closing", "lost"} /\ ~HasSub(agps.subs, c)
            /\ Waiting("UNSUBSCRIBE", c) => modem[c] \in {"closing", "done", "lost"}
            /\ HasSub(agps.subs, c) => modem[c] # "new"
            /\ IsActive(agps.subs, c) => modem[c] \in {"asked", "open", "closing", "lost"}
            /\ modem[c] = "open" => agps.state = "Acquired" /\ IsActive(agps.subs, c)
            /\ modem[c] # "unasked"
  BY DEF NotDs, ConnInv, ReleasedIsEmpty
<1>w. queue # <<>> /\ queue' = Tail(queue) =>
        /\ \A c \in Conn : \A e \in {"SUBSCRIBE", "UNSUBSCRIBE"} : Waiting(e, c)' => Waiting(e, c)
        /\ (\A c \in Conn : modem'[c] \in Counting => modem[c] \in Counting) => QueueInv'
  BY <1>n, MsgTaken
<1>e. \A c : ~HasSub(<<>>, c) /\ ~IsActive(<<>>, c) /\ Distinct(<<>>)
  BY DEF HasSub, IsActive, Distinct
<1>1. ASSUME SubscribeRefused PROVE NotDs'
  <2>1. queue # <<>> /\ queue' = Tail(queue) /\ Head(queue).event = "SUBSCRIBE" /\ agps' = agps
    BY <1>1 DEF SubscribeRefused, AgTake
  <2>2. PICK h : h = Head(queue).conn
    OBVIOUS
  <2>3. /\ h \in Conn /\ ~Waiting("SUBSCRIBE", h)' /\ modem[h] \in {"asked", "closing", "lost"}
        /\ ~HasSub(agps.subs, h) /\ ~IsActive(agps.subs, h)
    BY <2>1, <2>2, HeadOf
  <2>4. modem' = TellFrom(modem, <<Subscriber(h)>>, "DENIED")
    BY <1>1, <2>2 DEF SubscribeRefused, Tell
  <2>5. \A d \in Conn : HasSub(<<Subscriber(h)>>, d) <=> d = h
    BY <1>p, <2>3, SubsChange
  <2>6. \A c \in Conn : /\ c # h => modem'[c] = modem[c]
                        /\ modem'[c] \in {modem[c], "done"}
    BY <1>p, <2>4, <2>5, ToldBy
  <2>7. QueueInv'
    BY <1>w, <2>1, <2>6 DEF Counting
  <2>8. ASSUME NEW c \in Conn
        PROVE  /\ Waiting("SUBSCRIBE", c)' =>
                     modem'[c] \in {"asked", "closing", "lost"} /\ ~HasSub(agps'.subs, c)
               /\ Waiting("UNSUBSCRIBE", c)' => modem'[c] \in {"closing", "done", "lost"}
               /\ HasSub(agps'.subs, c) => modem'[c] # "new"
               /\ IsActive(agps'.subs, c) => modem'[c] \in {"asked", "open", "closing", "lost"}
               /\ modem'[c] = "open" => agps'.state = "Acquired" /\ IsActive(agps'.subs, c)
               /\ modem'[c] # "unasked"
    BY <1>n, <1>w, <2>1, <2>3, <2>6
  <2> QED
    BY <1>n, <2>1, <2>7, <2>8, NotDsKept
<1>2. ASSUME queue # <<>>, queue' = Tail(queue), Head(queue).event = "SUBSCRIBE",
             agps'.subs = AddSubscriber(agps.subs, Head(queue).conn), agps'.timers = agps.timers,
             \/ /\ modem' = modem /\ agps.state # "Acquired" /\ agps'.state # "Released"
             \/ /\ modem' = Tell(<<Subscriber(Head(queue).conn)>>, "GRANTED")
                /\ agps.state = "Acquired" /\ agps'.state = "Acquired"
      PROVE  NotDs'
  <2>2. PICK h : h = Head(queue).conn
    OBVIOUS
  <2>3. /\ h \in Conn /\ ~Waiting("SUBSCRIBE", h)' /\ modem[h] \in {"asked", "closing", "lost"}
        /\ ~HasSub(agps.subs, h) /\ ~IsActive(agps.subs, h)
    BY <1>2, <2>2, HeadOf
  <2>5. /\ \A d \in Conn : /\ HasSub(<<Subscriber(h)>>, d) <=> d = h
                           /\ HasSub(agps'.subs, d) <=> HasSub(agps.subs, d) \/ d = h
                           /\ IsActive(agps'.subs, d) => IsActive(agps.subs, d) \/ d = h
                           /\ IsActive(agps.subs, d) => IsActive(agps'.subs, d)
        /\ IsActive(agps'.subs, h) /\ Distinct(agps'.subs)
    BY <1>2, <1>p, <1>n, <2>2, <2>3, SubsChange
  <2>6. /\ \A c \in Conn : c # h => modem'[c] = modem[c]
        /\ modem'[h] \in {"asked", "open", "closing", "lost"}
        /\ modem'[h] = "open" => agps'.state = "Acquired"
        /\ modem'[h] = modem[h] \/ modem[h] = "asked"
    <3>1. CASE modem' = modem
      BY <2>3, <3>1
    <3>2. CASE modem' = Tell(<<Subscriber(h)>>, "GRANTED") /\ agps'.state = "Acquired"
      <4>1. modem' = TellFrom(modem, <<Subscriber(h)>>, "GRANTED")
        BY <3>2 DEF Tell
      <4> QED
        BY <1>p, <2>3, <2>5, <3>2, <4>1, ToldBy
    <3> QED
      BY <1>2, <2>2, <3>1, <3>2
  <2>7. QueueInv'
    <3>1. \A c \in Conn : modem'[c] \in Counting => modem[c] \in Counting
      BY <2>6 DEF Counting
    <3> QED
      BY <1>2, <1>w, <3>1
  <2>8. ASSUME NEW c \in Conn
        PROVE  /\ Waiting("SUBSCRIBE", c)' =>
                     modem'[c] \in {"asked", "closing", "lost"} /\ ~HasSub(agps'.subs, c)
               /\ Waiting("UNSUBSCRIBE", c)' => modem'[c] \in {"closing", "done", "lost"}
               /\ HasSub(agps'.subs, c) => modem'[c] # "new"
               /\ IsActive(agps'.subs, c) => modem'[c] \in {"asked", "open", "closing", "lost"}
               /\ modem'[c] = "open" => agps'.state = "Acquired" /\ IsActive(agps'.subs, c)
               /\ modem'[c] # "unasked"
    <3>1. CASE c = h
      <4>1. Waiting("UNSUBSCRIBE", h)' => modem[h] \in {"closing", "lost"}
        BY <1>n, <1>w, <1>2, <2>3
      <4>2. modem[h] \in {"closing", "lost"} => modem'[h] = modem[h]
        <5>1. CASE modem' = modem
          BY <5>1
        <5>2. CASE modem' = Tell(<<Subscriber(h)>>, "GRANTED")
          <6>1. modem' = TellFrom(modem, <<Subscriber(h)>>, "GRANTED")
            BY <5>2 DEF Tell
          <6> QED
            BY <1>p, <2>3, <6>1, ToldBy
        <5> QED
          BY <1>2, <2>2, <5>1, <5>2
      <4> QED
        BY <2>3, <2>5, <2>6, <3>1, <4>1, <4>2
    <3>2. CASE c # h
      <4>1. modem'[c] = modem[c] /\ (modem[c] = "open" => agps'.state = "Acquired")
        BY <1>2, <1>n, <2>6, <3>2
      <4> QED
        BY <1>2, <1>n, <1>w, <2>5, <3>2, <4>1
    <3> QED
      BY <3>1, <3>2
  <2>9. agps'.state # "Released" /\ agps'.timers = 0
    BY <1>2, <1>n
  <2> QED
    BY <2>5, <2>7, <2>8, <2>9, NotDsKept
<1>3. ASSUME SubscribeReleased PROVE NotDs'
  <2> DEFINE subs == AddSubscriber(agps.subs, Head(queue).conn)
  <2>1. queue # <<>> /\ queue' = Tail(queue) /\ Head(queue).event = "SUBSCRIBE"
        /\ agps.state = "Released"
    BY <1>3 DEF SubscribeReleased, AgTake
  <2>2. subs \in Seq(Subs)
    BY <1>p, <2>1, QueueTyped, SubsChange
  <2>3. PICK r \in SendRsrcRequest(subs, net, modem) :
            /\ agps' = [agps EXCEPT !.subs = subs, !.retries = r.retries, !.timers = r.timers,
                           !.state = IF r.ok THEN "Pending" ELSE "Released"]
            /\ modem' = r.modem
    BY <1>3 DEF SubscribeReleased
  <2>4. r.ok /\ r.modem = modem /\ r.timers = agps.timers
    <3> HIDE DEF subs
    <3> QED
      BY <1>p, <2>2, RsrcRequested
  <2>5. /\ agps'.subs = subs /\ agps'.timers = agps.timers /\ agps'.state = "Pending"
        /\ modem' = modem
    <3> HIDE DEF subs
    <3> QED
      BY <1>p, <2>3, <2>4
  <2> QED
    BY <1>2, <2>1, <2>5
<1>4. ASSUME SubscribeWaits PROVE NotDs'
  <2>1. /\ queue # <<>> /\ queue' = Tail(queue) /\ Head(queue).event = "SUBSCRIBE"
        /\ agps.state \in {"Pending", "Releasing"} /\ modem' = modem
        /\ agps' = [agps EXCEPT !.subs = AddSubscriber(agps.subs, Head(queue).conn)]
    BY <1>4 DEF SubscribeWaits, AgTake
  <2>2. /\ agps'.subs = AddSubscriber(agps.subs, Head(queue).conn)
        /\ agps'.timers = agps.timers /\ agps'.state = agps.state
    BY <1>p, <2>1
  <2> QED
    BY <1>2, <2>1, <2>2
<1>5. ASSUME SubscribeAcquired PROVE NotDs'
  <2>1. /\ queue # <<>> /\ queue' = Tail(queue) /\ Head(queue).event = "SUBSCRIBE"
        /\ agps.state = "Acquired"
        /\ modem' = Tell(<<Subscriber(Head(queue).conn)>>, "GRANTED")
        /\ agps' = [agps EXCEPT !.subs = AddSubscriber(agps.subs, Head(queue).conn)]
    BY <1>5 DEF SubscribeAcquired, AgTake
  <2>2. /\ agps'.subs = AddSubscriber(agps.subs, Head(queue).conn)
        /\ agps'.timers = agps.timers /\ agps'.state = agps.state
    BY <1>p, <2>1
  <2> QED
    BY <1>2, <2>1, <2>2
<1>6. ASSUME UnsubscribeUnknown PROVE NotDs'
  <2>1. /\ queue # <<>> /\ queue' = Tail(queue) /\ Head(queue).event = "UNSUBSCRIBE"
        /\ agps' = agps
    BY <1>6 DEF UnsubscribeUnknown, AgTake
  <2>2. PICK h : h = Head(queue).conn
    OBVIOUS
  <2>3. h \in Conn /\ ~HasSub(agps.subs, h) /\ ~Waiting("SUBSCRIBE", h)'
    BY <1>6, <2>1, <2>2, HeadOf DEF UnsubscribeUnknown
  <2>4. \A c \in Conn : modem'[c] \in {modem[c], "done"} /\ (c # h => modem'[c] = modem[c])
    BY <1>6, <1>p, <2>2, <2>3 DEF UnsubscribeUnknown
  <2>5. ~IsActive(agps.subs, h)
    BY <2>3 DEF IsActive, HasSub
  <2>7. QueueInv'
    BY <1>w, <2>1, <2>4 DEF Counting
  <2>8. ASSUME NEW c \in Conn
        PROVE  /\ Waiting("SUBSCRIBE", c)' =>
                     modem'[c] \in {"asked", "closing", "lost"} /\ ~HasSub(agps'.subs, c)
               /\ Waiting("UNSUBSCRIBE", c)' => modem'[c] \in {"closing", "done", "lost"}
               /\ HasSub(agps'.subs, c) => modem'[c] # "new"
               /\ IsActive(agps'.subs, c) => modem'[c] \in {"asked", "open", "closing", "lost"}
               /\ modem'[c] = "open" => agps'.state = "Acquired" /\ IsActive(agps'.subs, c)
               /\ modem'[c] # "unasked"
    BY <1>n, <1>w, <2>1, <2>3, <2>4, <2>5
  <2> QED
    BY <1>n, <2>1, <2>7, <2>8, NotDsKept
<1>7. ASSUME UnsubscribeReleased PROVE NotDs'
  BY <1>7, <1>n, <1>e DEF UnsubscribeReleased
<1>8. ASSUME Unsubscribe \/ UnsubscribeReleasing PROVE NotDs'
  <2>1. /\ queue # <<>> /\ queue' = Tail(queue) /\ Head(queue).event = "UNSUBSCRIBE"
    BY <1>8 DEF Unsubscribe, UnsubscribeReleasing, AgTake
  <2>2. PICK h : h = Head(queue).conn
    OBVIOUS
  <2>3. /\ h \in Conn /\ ~Waiting("SUBSCRIBE", h)' /\ modem[h] \in {"closing", "done", "lost"}
    BY <2>1, <2>2, HeadOf
  <2>4. PICK s : s = Leave(h)
    OBVIOUS
  <2>5. /\ s \in Seq(Subs)
        /\ \A d \in Conn : /\ HasSub(s, d) => HasSub(agps.subs, d)
                           /\ IsActive(s, d) <=> IsActive(agps.subs, d) /\ d # h
        /\ Distinct(s)
        /\ Active(s) = <<>> <=> \A d \in Conn : ~IsActive(s, d)
    <3>1. s = SetInactive(agps.subs, h) \/ s = WithoutSub(agps.subs, h)
      BY <2>4 DEF Leave
    <3>2. /\ s \in Seq(Subs)
          /\ \A d \in Conn : /\ HasSub(s, d) => HasSub(agps.subs, d)
                             /\ IsActive(s, d) <=> IsActive(agps.subs, d) /\ d # h
          /\ Distinct(s)
      BY <3>1, <1>p, <1>n, <2>3, SubsLeave
    <3> QED
      BY <3>2, SubsSplit
  <2>6. /\ agps'.subs = s /\ agps'.timers = 0
        /\ agps'.state = "Released" => s = <<>>
        /\ agps.state = "Acquired" /\ Active(s) # <<>> => agps'.state = "Acquired"
    <3>1. CASE Unsubscribe
      <4>1. agps' = [agps EXCEPT !.subs = s,
                       !.state = IF s = <<>> THEN "Released"
                                 ELSE IF Active(s) = <<>> THEN "Releasing" ELSE agps.state]
        BY <3>1, <2>2, <2>4 DEF Unsubscribe
      <4>2. agps.state \in {"Pending", "Acquired"}
        BY <3>1 DEF Unsubscribe
      <4>3. s = <<>> => Active(s) = <<>>
        BY <1>e, <2>5
      <4> QED
        BY <1>p, <1>n, <4>1, <4>2, <4>3
    <3>2. CASE UnsubscribeReleasing
      <4>1. agps' = [agps EXCEPT !.subs = s,
                       !.state = IF s = <<>> THEN "Released" ELSE agps.state]
        BY <3>2, <2>2, <2>4 DEF UnsubscribeReleasing
      <4>2. agps.state = "Releasing"
        BY <3>2 DEF UnsubscribeReleasing
      <4> QED
        BY <1>p, <1>n, <4>1, <4>2
    <3> QED
      BY <1>8, <3>1, <3>2
  <2>7. \A c \in Conn : modem'[c] \in {modem[c], "done"} /\ (c # h => modem'[c] = modem[c])
    <3>1. modem' = LeaveTold(h)
      BY <1>8, <2>2 DEF Unsubscribe, UnsubscribeReleasing
    <3>2. CASE agps.kind = "wifi"
      BY <3>1, <3>2 DEF LeaveTold
    <3>3. CASE agps.kind # "wifi"
      <4>1. modem' = TellFrom(modem, <<Subscriber(h)>>, "UNSUBSCRIBE")
        BY <3>1, <3>3 DEF LeaveTold, Tell
      <4>2. \A d \in Conn : HasSub(<<Subscriber(h)>>, d) <=> d = h
        BY <1>p, <2>3, SubsChange
      <4> QED
        BY <1>p, <4>1, <4>2, ToldBy
    <3> QED
      BY <3>2, <3>3
  <2>9. QueueInv'
    BY <1>w, <2>1, <2>7 DEF Counting
  <2>8. ASSUME NEW c \in Conn
        PROVE  /\ Waiting("SUBSCRIBE", c)' =>
                     modem'[c] \in {"asked", "closing", "lost"} /\ ~HasSub(agps'.subs, c)
               /\ Waiting("UNSUBSCRIBE", c)' => modem'[c] \in {"closing", "done", "lost"}
               /\ HasSub(agps'.subs, c) => modem'[c] # "new"
               /\ IsActive(agps'.subs, c) => modem'[c] \in {"asked", "open", "closing", "lost"}
               /\ modem'[c] = "open" => agps'.state = "Acquired" /\ IsActive(agps'.subs, c)
               /\ modem'[c] # "unasked"
    <3>1. CASE c = h
      BY <1>n, <1>w, <2>1, <2>3, <2>5, <2>6, <2>7, <3>1
    <3>2. CASE c # h
      <4>1. modem'[c] = modem[c]
        BY <2>7, <3>2
      <4>2. modem[c] = "open" => agps'.state = "Acquired" /\ IsActive(s, c)
        BY <1>n, <2>5, <2>6, <3>2
      <4> QED
        BY <1>n, <1>w, <2>1, <2>5, <2>6, <3>2, <4>1, <4>2
    <3> QED
      BY <3>1, <3>2
  <2> QED
    BY <2>5, <2>6, <2>8, <2>9, NotDsKept
<1>9. ASSUME Granted PROVE NotDs'
  <2>1. queue # <<>> /\ queue' = Tail(queue)
    BY <1>9 DEF Granted, AgTake
  <2>2. CASE agps.state # "Pending"
    <3>1. agps' = agps /\ modem' = modem
      BY <1>9, <2>2 DEF Granted
    <3>2. QueueInv'
      BY <1>w, <2>1, <3>1
    <3> QED
      BY <1>n, <1>w, <2>1, <3>1, <3>2, NotDsKept
  <2>3. CASE agps.state = "Pending"
    <3>1. /\ agps' = [agps EXCEPT !.state = "Acquired"]
          /\ modem' = TellFrom(modem, Active(agps.subs), "GRANTED")
      BY <1>9, <2>3 DEF Granted, Tell
    <3>2. agps'.subs = agps.subs /\ agps'.timers = 0 /\ agps'.state = "Acquired"
      BY <1>p, <1>n, <3>1
    <3>3. \A c \in Conn : HasSub(Active(agps.subs), c) <=> IsActive(agps.subs, c)
      BY <1>p, SubsSplit
    <3>4. \A c \in Conn :
             /\ ~IsActive(agps.subs, c) => modem'[c] = modem[c]
             /\ IsActive(agps.subs, c) =>
                   modem'[c] = modem[c] \/ (modem[c] = "asked" /\ modem'[c] = "open")
      <4>1. \A c \in Conn : IsActive(agps.subs, c) => modem[c] # "done"
        BY <1>n
      <4> QED
        BY <1>p, <3>1, <3>3, <4>1, ToldBy
    <3>5. QueueInv'
      BY <1>w, <2>1, <3>4 DEF Counting
    <3>6. \A c \in Conn : IsActive(agps.subs, c) => HasSub(agps.subs, c)
      BY DEF IsActive, HasSub
    <3>7. ASSUME NEW c \in Conn
          PROVE  /\ Waiting("SUBSCRIBE", c)' =>
                     modem'[c] \in {"asked", "closing", "lost"} /\ ~HasSub(agps'.subs, c)
                 /\ Waiting("UNSUBSCRIBE", c)' => modem'[c] \in {"closing", "done", "lost"}
                 /\ HasSub(agps'.subs, c) => modem'[c] # "new"
                 /\ IsActive(agps'.subs, c) => modem'[c] \in {"asked", "open", "closing", "lost"}
                 /\ modem'[c] = "open" => agps'.state = "Acquired" /\ IsActive(agps'.subs, c)
                 /\ modem'[c] # "unasked"
      <4>1. CASE modem'[c] = modem[c]
        BY <1>n, <1>w, <2>1, <2>3, <3>2, <4>1
      <4>2. CASE modem[c] = "asked" /\ modem'[c] = "open" /\ IsActive(agps.subs, c)
        BY <1>n, <1>w, <2>1, <3>2, <3>6, <4>2
      <4> QED
        BY <3>4, <4>1, <4>2
    <3> QED
      BY <1>n, <3>2, <3>5, <3>7, NotDsKept
  <2> QED
    BY <2>2, <2>3
<1>10. ASSUME queue # <<>>, queue' = Tail(queue), NEW st \in {"DENIED", "RELEASED"}, AllGo(st),
              st = "DENIED" => agps.state = "Pending"
       PROVE  NotDs'
  <2>1. /\ agps'.state = "Released" /\ agps'.subs = <<>> /\ agps'.timers = 0
    BY <1>10, <1>p, <1>n DEF AllGo
  <2>2. modem' = TellFrom(modem, agps.subs, st)
    BY <1>10 DEF AllGo, Tell
  <2>3. \A c \in Conn :
           /\ ~HasSub(agps.subs, c) => modem'[c] = modem[c]
           /\ modem'[c] \in {modem[c], "done", "lost"}
           /\ modem'[c] = "lost" => modem[c] = "lost" \/ HasSub(agps.subs, c)
           /\ modem'[c] = "new" => modem[c] = "new"
           /\ st = "RELEASED" /\ HasSub(agps.subs, c) => modem'[c] \in {"done", "lost"}
    BY <1>p, <2>2, ToldBy
  <2>4. QueueInv'
    BY <1>10, <1>w, <2>3 DEF Counting
  <2>8. ASSUME NEW c \in Conn
        PROVE  /\ Waiting("SUBSCRIBE", c)' =>
                     modem'[c] \in {"asked", "closing", "lost"} /\ ~HasSub(agps'.subs, c)
               /\ Waiting("UNSUBSCRIBE", c)' => modem'[c] \in {"closing", "done", "lost"}
               /\ HasSub(agps'.subs, c) => modem'[c] # "new"
               /\ IsActive(agps'.subs, c) => modem'[c] \in {"asked", "open", "closing", "lost"}
               /\ modem'[c] = "open" => agps'.state = "Acquired" /\ IsActive(agps'.subs, c)
               /\ modem'[c] # "unasked"
    <3>1. modem'[c] # "open"
      <4>1. CASE st = "DENIED"
        BY <1>10, <1>n, <2>3, <4>1
      <4>2. CASE st = "RELEASED"
        <5>1. modem[c] = "open" => HasSub(agps.subs, c)
          BY <1>n DEF IsActive, HasSub
        <5> QED
          BY <2>3, <4>2, <5>1
      <4> QED
        BY <4>1, <4>2
    <3> QED
      BY <1>10, <1>n, <1>w, <1>e, <2>1, <2>3, <3>1
  <2> QED
    BY <1>e, <2>1, <2>4, <2>8, NotDsKept
<1>11. ASSUME queue # <<>>, queue' = Tail(queue), ReleasingEnds, agps.state = "Releasing",
              Head(queue).event \in {"DENIED", "RELEASED"}
       PROVE  NotDs'
  <2>1. PICK s, told, st : /\ s = Active(agps.subs) /\ st = Head(queue).event
                           /\ told = TellFrom(modem, Inactive(agps.subs), st)
    OBVIOUS
  <2>2. /\ s \in Seq(Subs) /\ Distinct(s)
        /\ \A c \in Conn : /\ HasSub(s, c) <=> IsActive(agps.subs, c)
                           /\ IsActive(s, c) <=> IsActive(agps.subs, c)
                           /\ HasSub(Inactive(agps.subs), c) =>
                                HasSub(agps.subs, c) /\ ~IsActive(agps.subs, c)
    BY <1>p, <1>n, <2>1, SubsSplit
  <2>3. /\ modem' = told /\ agps'.subs = s /\ agps'.timers = 0
        /\ agps'.state = "Released" => s = <<>>
    <3>1. told \in [Conn -> Told]
      BY <1>11, <1>p, <2>1, ToldBy
    <3>2. PICK closed : closed = CloseCalls(Inactive(agps.subs), st)
      OBVIOUS
    <3>3. closed \in Net
      BY <1>p, <3>2 DEF CloseCalls, Net
    <3>4. told = Tell(Inactive(agps.subs), st)
      BY <2>1 DEF Tell
    <3>5. CASE s = <<>>
      <4>1. agps' = [agps EXCEPT !.subs = <<>>, !.state = "Released"] /\ modem' = told
        BY <1>11, <2>1, <3>4, <3>5 DEF ReleasingEnds
      <4> QED
        BY <1>p, <1>n, <3>5, <4>1
    <3>6. CASE s # <<>>
      <4>1. PICK r \in SendRsrcRequest(s, closed, told) :
               /\ agps' = [agps EXCEPT !.subs = s, !.state = "Pending",
                              !.retries = r.retries, !.timers = r.timers]
               /\ modem' = r.modem
        BY <1>11, <2>1, <3>2, <3>4, <3>6 DEF ReleasingEnds
      <4>2. r.modem = told /\ r.timers = agps.timers
        BY <2>2, <3>1, <3>3, RsrcRequested
      <4> QED
        BY <1>p, <1>n, <4>1, <4>2
    <3> QED
      BY <3>5, <3>6
  <2>4. \A c \in Conn :
           /\ ~HasSub(Inactive(agps.subs), c) => modem'[c] = modem[c]
           /\ modem'[c] \in {modem[c], "done", "lost"}
           /\ modem'[c] = "lost" => modem[c] = "lost" \/ HasSub(Inactive(agps.subs), c)
    BY <1>11, <1>p, <2>1, <2>3, ToldBy
  <2>5. QueueInv'
    BY <1>11, <1>w, <2>4 DEF Counting
  <2>6. \A c \in Conn : modem[c] # "open" /\ (IsActive(agps.subs, c) => HasSub(agps.subs, c))
    BY <1>11, <1>n DEF IsActive, HasSub
  <2>8. ASSUME NEW c \in Conn
        PROVE  /\ Waiting("SUBSCRIBE", c)' =>
                     modem'[c] \in {"asked", "closing", "lost"} /\ ~HasSub(agps'.subs, c)
               /\ Waiting("UNSUBSCRIBE", c)' => modem'[c] \in {"closing", "done", "lost"}
               /\ HasSub(agps'.subs, c) => modem'[c] # "new"
               /\ IsActive(agps'.subs, c) => modem'[c] \in {"asked", "open", "closing", "lost"}
               /\ modem'[c] = "open" => agps'.state = "Acquired" /\ IsActive(agps'.subs, c)
               /\ modem'[c] # "unasked"
    <3>1. CASE HasSub(Inactive(agps.subs), c)
      BY <1>11, <1>n, <1>w, <2>2, <2>3, <2>4, <2>6, <3>1
    <3>2. CASE ~HasSub(Inactive(agps.subs), c)
      BY <1>11, <1>n, <1>w, <2>2, <2>3, <2>4, <2>6, <3>2
    <3> QED
      BY <3>1, <3>2
  <2> QED
    BY <2>2, <2>3, <2>5, <2>8, NotDsKept
<1>12. ASSUME Denied \/ Released PROVE NotDs'
  <2>1. /\ queue # <<>> /\ queue' = Tail(queue) /\ Head(queue).event \in {"DENIED", "RELEASED"}
        /\ \/ AllGo("DENIED") /\ agps.state = "Pending"
           \/ AllGo("RELEASED")
           \/ ReleasingEnds /\ agps.state = "Releasing"
           \/ Ignored
    BY <1>12 DEF Denied, Released, AgTake
  <2>2. CASE Ignored
    <3>1. agps' = agps /\ modem' = modem
      BY <2>2 DEF Ignored
    <3>2. QueueInv'
      BY <1>w, <2>1, <3>1
    <3> QED
      BY <1>n, <1>w, <2>1, <3>1, <3>2, NotDsKept
  <2> QED
    BY <2>1, <2>2, <1>10, <1>11
<1>13. ASSUME EngineUp PROVE NotDs'
  <2>1. /\ queue # <<>> /\ queue' = Tail(queue) /\ Head(queue).event = "ENGINE_UP"
        /\ modem' = modem /\ agps' = [agps EXCEPT !.subs = <<>>]
    BY <1>13 DEF EngineUp, AgTake
  <2>2. agps'.subs = <<>> /\ agps'.timers = 0
    BY <1>p, <1>n, <2>1
  <2>3. QueueInv'
    BY <1>w, <2>1
  <2>4. \A c \in Conn : modem[c] # "open"
    <3>1. \A c \in Conn : modem[c] \in Counting => Waiting("SUBSCRIBE", c)
      BY <1>n, <2>1, MsgTaken
    <3> QED
      BY <1>n, <3>1 DEF Counting
  <2>8. ASSUME NEW c \in Conn
        PROVE  /\ Waiting("SUBSCRIBE", c)' =>
                     modem'[c] \in {"asked", "closing", "lost"} /\ ~HasSub(agps'.subs, c)
               /\ Waiting("UNSUBSCRIBE", c)' => modem'[c] \in {"closing", "done", "lost"}
               /\ HasSub(agps'.subs, c) => modem'[c] # "new"
               /\ IsActive(agps'.subs, c) => modem'[c] \in {"asked", "open", "closing", "lost"}
               /\ modem'[c] = "open" => agps'.state = "Acquired" /\ IsActive(agps'.subs, c)
               /\ modem'[c] # "unasked"
    BY <1>e, <1>n, <1>w, <2>1, <2>2, <2>4
  <2> QED
    BY <1>e, <2>2, <2>3, <2>8, NotDsKept
<1>14. ASSUME NEW c \in Conn, ModemAsks(c) PROVE NotDs'
  <2>1. /\ modem[c] = "new" /\ modem' = [modem EXCEPT ![c] = "asked"]
        /\ queue' = Append(queue, Message("SUBSCRIBE", c)) /\ agps' = agps
    BY <1>14 DEF ModemAsks
  <2>2. /\ \A d \in Conn : d # c => modem'[d] = modem[d]
        /\ modem'[c] = "asked"
    BY <1>p, <2>1
  <2>3. ~Waiting("SUBSCRIBE", c) /\ ~Waiting("UNSUBSCRIBE", c) /\ ~HasSub(agps.subs, c)
        /\ ~IsActive(agps.subs, c)
    BY <1>n, <2>1 DEF IsActive, HasSub
  <2>4. c # NoConn /\ "SUBSCRIBE" \in Events
    BY AgpsAssumption DEF Events
  <2>5. /\ \A b \in Conn : \A d \in {"SUBSCRIBE", "UNSUBSCRIBE"} :
               Waiting(d, b)' => Waiting(d, b) \/ (d = "SUBSCRIBE" /\ b = c)
    BY <2>1, <2>4, MsgSent
  <2>6. QueueInv'
    <3>1. \A b \in Conn : modem'[b] \in Counting =>
             modem[b] \in Counting \/ ("SUBSCRIBE" = "SUBSCRIBE" /\ c = b)
      BY <2>2
    <3> QED
      BY <1>n, <2>1, <2>3, <2>4, <3>1, MsgSentKeeps
  <2>8. ASSUME NEW b \in Conn
        PROVE  /\ Waiting("SUBSCRIBE", b)' =>
                     modem'[b] \in {"asked", "closing", "lost"} /\ ~HasSub(agps'.subs, b)
               /\ Waiting("UNSUBSCRIBE", b)' => modem'[b] \in {"closing", "done", "lost"}
               /\ HasSub(agps'.subs, b) => modem'[b] # "new"
               /\ IsActive(agps'.subs, b) => modem'[b] \in {"asked", "open", "closing", "lost"}
               /\ modem'[b] = "open" => agps'.state = "Acquired" /\ IsActive(agps'.subs, b)
               /\ modem'[b] # "unasked"
    BY <1>n, <2>1, <2>2, <2>3, <2>5
  <2> QED
    BY <1>n, <2>1, <2>6, <2>8, NotDsKept
<1>15. ASSUME NEW c \in Conn, ModemReleases(c) PROVE NotDs'
  <2>1. /\ modem[c] \in {"asked", "open"} /\ modem' = [modem EXCEPT ![c] = "closing"]
        /\ queue' = Append(queue, Message("UNSUBSCRIBE", c)) /\ agps' = agps
    BY <1>15 DEF ModemReleases
  <2>2. /\ \A d \in Conn : d # c => modem'[d] = modem[d]
        /\ modem'[c] = "closing"
    BY <1>p, <2>1
  <2>3. ~Waiting("UNSUBSCRIBE", c)
    BY <1>n, <2>1
  <2>4. c # NoConn /\ "UNSUBSCRIBE" \in Events
    BY AgpsAssumption DEF Events
  <2>5. /\ \A b \in Conn : \A d \in {"SUBSCRIBE", "UNSUBSCRIBE"} :
               Waiting(d, b)' => Waiting(d, b) \/ (d = "UNSUBSCRIBE" /\ b = c)
    BY <2>1, <2>4, MsgSent
  <2>6. QueueInv'
    <3>1. \A b \in Conn : modem'[b] \in Counting => modem[b] \in Counting
      BY <2>1, <2>2 DEF Counting
    <3> QED
      BY <1>n, <2>1, <2>3, <2>4, <3>1, MsgSentKeeps
  <2>8. ASSUME NEW b \in Conn
        PROVE  /\ Waiting("SUBSCRIBE", b)' =>
                     modem'[b] \in {"asked", "closing", "lost"} /\ ~HasSub(agps'.subs, b)
               /\ Waiting("UNSUBSCRIBE", b)' => modem'[b] \in {"closing", "done", "lost"}
               /\ HasSub(agps'.subs, b) => modem'[b] # "new"
               /\ IsActive(agps'.subs, b) => modem'[b] \in {"asked", "open", "closing", "lost"}
               /\ modem'[b] = "open" => agps'.state = "Acquired" /\ IsActive(agps'.subs, b)
               /\ modem'[b] # "unasked"
    BY <1>n, <2>1, <2>2, <2>5
  <2> QED
    BY <1>n, <2>1, <2>6, <2>8, NotDsKept
<1>16. ASSUME EngineRestarts \/ NetAnswers \/ NetLost PROVE NotDs'
  <2>1. PICK e \in {"ENGINE_UP", "GRANTED", "RELEASED", "DENIED"} :
           /\ queue' = Append(queue, Message(e, NoConn)) /\ agps' = agps
           /\ \/ modem' = [c \in Conn |-> IF modem[c] \in {"new", "done"} THEN modem[c] ELSE "lost"]
              \/ modem' = modem /\ e # "ENGINE_UP"
    <3>1. CASE EngineRestarts
      BY <3>1 DEF EngineRestarts
    <3>2. CASE NetAnswers
      <4>1. PICK up \in BOOLEAN :
              queue' = Append(queue, Message(
                IF up THEN "GRANTED"
                ELSE IF Head(net.reqs) = "RELEASE" \/ agps.kind = "ds" THEN "RELEASED"
                ELSE "DENIED", NoConn))
        BY <3>2 DEF NetAnswers
      <4>2. PICK e \in {"GRANTED", "RELEASED", "DENIED"} :
               queue' = Append(queue, Message(e, NoConn))
        BY <4>1
      <4> QED
        BY <3>2, <4>2 DEF NetAnswers
    <3>3. CASE NetLost
      BY <3>3 DEF NetLost
    <3> QED
      BY <1>16, <3>1, <3>2, <3>3
  <2>2. /\ \A c \in Conn : modem'[c] = modem[c] \/ (modem[c] \notin {"new", "done"} /\ modem'[c] = "lost")
        /\ e = "ENGINE_UP" => \A c \in Conn : modem'[c] \notin Counting
    BY <1>p, <2>1 DEF Counting
  <2>3. e \in Events /\ e \notin {"SUBSCRIBE", "UNSUBSCRIBE"} /\ NoConn \notin Conn
    BY AgpsAssumption DEF Events
  <2>4. /\ \A b \in Conn : \A d \in {"SUBSCRIBE", "UNSUBSCRIBE"} :
               Waiting(d, b)' => Waiting(d, b) \/ (d = e /\ b = NoConn)
    BY <2>1, <2>3, MsgSent
  <2>5. QueueInv'
    <3>1. \A b \in Conn : modem'[b] \in Counting => modem[b] \in Counting
      BY <2>2 DEF Counting
    <3> QED
      BY <1>n, <2>1, <2>2, <2>3, <3>1, MsgSentKeeps
  <2>8. ASSUME NEW c \in Conn
        PROVE  /\ Waiting("SUBSCRIBE", c)' =>
                     modem'[c] \in {"asked", "closing", "lost"} /\ ~HasSub(agps'.subs, c)
               /\ Waiting("UNSUBSCRIBE", c)' => modem'[c] \in {"closing", "done", "lost"}
               /\ HasSub(agps'.subs, c) => modem'[c] # "new"
               /\ IsActive(agps'.subs, c) => modem'[c] \in {"asked", "open", "closing", "lost"}
               /\ modem'[c] = "open" => agps'.state = "Acquired" /\ IsActive(agps'.subs, c)
               /\ modem'[c] # "unasked"
    BY <1>n, <2>1, <2>2, <2>3, <2>4
  <2> QED
    BY <1>n, <2>1, <2>5, <2>8, NotDsKept
<1>17. ASSUME RetryCallback PROVE NotDs'
  BY <1>17, <1>n DEF RetryCallback
<1>18. ASSUME UNCHANGED agVars PROVE NotDs'
  BY <1>18 DEF agVars, NotDs, Distinct, ReleasedIsEmpty, QueueInv, ConnInv, Waiting, HasSub, IsActive
<1> QED
  BY <1>1, <1>3, <1>4, <1>5, <1>6, <1>7, <1>8, <1>9, <1>12, <1>13, <1>14, <1>15,
     <1>16, <1>17, <1>18 DEF AgNext, AgpsHandler

\* Nobody has asked yet.
LEMMA AgInitInv == AgInit => AgInv
<1> SUFFICES ASSUME AgInit PROVE AgInv
  OBVIOUS
<1>1. /\ agps \in [kind : AgpsKinds, single : BOOLEAN, state : {"Released"},
                   subs : {<<>>}, retries : {0}, timers : {0}]
      /\ net = [reqs |-> <<>>, up |-> FALSE] /\ queue = <<>>
      /\ modem = [c \in Conn |-> "new"] /\ faults = [lost |-> 0, busy |-> 0]
  BY DEF AgInit
<1>2. /\ agps \in [kind : AgpsKinds, single : BOOLEAN, state : AgState,
                   subs : Seq(Subs), retries : 0 .. MaxRetries, timers : 0 .. MaxBusy]
      /\ agps.subs = <<>> /\ agps.timers = 0
  <2>1. <<>> \in Seq(Subs) /\ 0 \in 0 .. MaxRetries /\ 0 \in 0 .. MaxBusy
    BY AgpsAssumption
  <2> QED
    BY <1>1, <2>1 DEF AgState
<1>3. AgTyped
  <2>1. /\ net \in Net /\ modem \in [Conn -> Told] /\ queue \in Seq([event : Events, conn : Conn \cup {NoConn}])
        /\ faults \in [lost : 0 .. MaxLosses, busy : 0 .. MaxBusy] /\ agps.timers <= faults.busy
        /\ DOMAIN queue = {}
    BY <1>1, <1>2, AgpsAssumption DEF Net, Told
  <2> QED
    BY <1>2, <2>1, AgParts
<1>4. NotDs
  <2>1. DOMAIN queue = {} /\ DOMAIN agps.subs = {}
    BY <1>1, <1>2
  <2>2. QueueInv
    BY <2>1 DEF QueueInv
  <2>3. \A c \in Conn : ConnInv(c)
    BY <1>1, <2>1 DEF ConnInv, Waiting, HasSub, IsActive
  <2> QED
    BY <1>2, <2>1, <2>2, <2>3 DEF NotDs, Distinct, ReleasedIsEmpty
<1> QED
  BY <1>3, <1>4 DEF AgInv

\* A machine stays of its kind.
LEMMA KindStays == AgTyped /\ [AgNext]_agVars => agps'.kind = agps.kind
<1> SUFFICES ASSUME AgTyped, [AgNext]_agVars PROVE agps'.kind = agps.kind
  OBVIOUS
<1>p. agps \in [kind : AgpsKinds, single : BOOLEAN, state : AgState,
                subs : Seq(Subs), retries : 0 .. MaxRetries, timers : 0 .. MaxBusy]
  BY AgParts
<1>1. CASE SubscribeRefused \/ UnsubscribeUnknown \/ UnsubscribeReleased \/ Ignored
           \/ EngineRestarts \/ NetAnswers \/ NetLost \/ UNCHANGED agVars
           \/ \E c \in Conn : ModemAsks(c) \/ ModemReleases(c)
  BY <1>1 DEF SubscribeRefused, UnsubscribeUnknown, UnsubscribeReleased, Ignored,
              EngineRestarts, NetAnswers, NetLost, ModemAsks, ModemReleases, agVars
<1>2. CASE SubscribeReleased
  BY <1>2, <1>p DEF SubscribeReleased
<1>3. CASE SubscribeWaits \/ SubscribeAcquired
  BY <1>3, <1>p DEF SubscribeWaits, SubscribeAcquired
<1>4. CASE Unsubscribe
  BY <1>4, <1>p DEF Unsubscribe
<1>5. CASE UnsubscribeReleasing
  BY <1>5, <1>p DEF UnsubscribeReleasing
<1>6. CASE Granted
  BY <1>6, <1>p DEF Granted
<1>7. CASE EngineUp \/ RetryCallback
  BY <1>7, <1>p DEF EngineUp, RetryCallback
<1>8. CASE AllGo("DENIED") \/ AllGo("RELEASED")
  BY <1>8, <1>p DEF AllGo
<1>9. CASE ReleasingEnds
  BY <1>9, <1>p DEF ReleasingEnds
<1>10. Denied \/ Released => AllGo("DENIED") \/ AllGo("RELEASED") \/ ReleasingEnds \/ Ignored
  BY DEF Denied, Released
<1> QED
  BY <1>1, <1>2, <1>3, <1>4, <1>5, <1>6, <1>7, <1>8, <1>9, <1>10 DEF AgNext, AgpsHandler

LEMMA AgInvStep == AgInv /\ [AgNext]_agVars => AgInv'
BY AgTypedStep, KindStays, NotDsStep DEF AgInv

\* The invariant holds of every behaviour of the machine.
LEMMA AgSafe == AgSpec => []AgInv
<1> QED
  BY AgInitInv, AgInvStep, PTL DEF AgSpec

\* The machine, the network, the messages and the connections are always of
\* their types, whatever the network answers: a call that is busy is tried
\* again MAX_START_DATA_CALL_RETRIES times at most.
THEOREM AgpsTyped == AgSpec => []AgTypeOK
<1>1. AgInv => AgTypeOK
  BY DEF AgInv, AgTyped
<1> QED
  BY <1>1, AgSafe, PTL

\* A machine that is not of the emergency data call has no subscribers in
\* AgpsReleasedState, however late the answers and the engine's restarts come.
THEOREM ReleasedHasNone == AgSpec => []ReleasedIsEmpty
<1>1. AgInv => ReleasedIsEmpty
  BY DEF AgInv, NotDs, ReleasedIsEmpty
<1> QED
  BY <1>1, AgSafe, PTL

\* A connection that was told that it has the network is an active subscriber
\* of a machine in AgpsAcquiredState until it leaves or is told of the loss,
\* and one that has left is not told again that it has it.
THEOREM GrantsHold == AgSpec => []GrantsAreHeld
<1>1. AgInv => GrantsAreHeld
  <2> SUFFICES ASSUME AgInv, agps.kind # "ds", NEW c \in Conn
               PROVE  /\ modem[c] = "open" =>
                            agps.state = "Acquired" /\ HasSub(Active(agps.subs), c)
                      /\ modem[c] # "unasked"
    BY DEF GrantsAreHeld, OpenIsAcquired, NotGrantedWhenDone
  <2>1. AgTyped /\ ConnInv(c)
    BY DEF AgInv, NotDs
  <2>2. HasSub(Active(agps.subs), c) <=> IsActive(agps.subs, c)
    BY <2>1, AgParts, SubsSplit
  <2> QED
    BY <2>1, <2>2 DEF ConnInv
<1> QED
  BY <1>1, AgSafe, PTL

-----------------------------------------------------------------------------
(* The parts together.                                                     *)

\* A behaviour of the location code in one run is one of each of its parts,
\* so that the theorems above hold of it.
LEMMA PartsOfGps == GpsSpec => Spec /\ LtSpec /\ MtSpec /\ AgSpec
<1>1. GpsInit => Init /\ LtInit /\ MtInit /\ AgInit
  BY DEF GpsInit
<1>2. [GpsNext]_gpsVars => [Next]_vars
  BY DEF GpsNext, gpsVars, InSyncReq, InTimer, InTask, InAgps
<1>3. [GpsNext]_gpsVars => [LtNext]_ltVars
  BY DEF GpsNext, gpsVars, InSyncReq, InTimer, InTask, InAgps
<1>4. [GpsNext]_gpsVars => [MtNext]_mtVars
  BY DEF GpsNext, gpsVars, InSyncReq, InTimer, InTask, InAgps
<1>5. [GpsNext]_gpsVars => [AgNext]_agVars
  BY DEF GpsNext, gpsVars, InSyncReq, InTimer, InTask, InAgps
<1> QED
  BY <1>1, <1>2, <1>3, <1>4, <1>5, PTL DEF GpsSpec, Spec, LtSpec, MtSpec, AgSpec

LEMMA MessagesTyped == MtSpec => []MtTypeOK
<1>1. MtInv => MtTypeOK
  BY DEF MtInv
<1> QED
  BY <1>1, InitMtInv, NextMtInv, PTL DEF MtSpec

\* Every variable of the location code stays in its type, whichever part runs.
THEOREM GpsTyped == GpsSpec => []GpsTypeOK
<1>1. TypeOK /\ LtTypeOK /\ MtTypeOK /\ AgTypeOK => GpsTypeOK
  BY DEF GpsTypeOK
<1> QED
  BY <1>1, PartsOfGps, TypeCorrect, TimersTyped, MessagesTyped, AgpsTyped, PTL
=============================================================================
