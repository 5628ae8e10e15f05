----------------------------- MODULE LocSyncReq -----------------------------
(***************************************************************************)
(* The synchronous request layer of the location API                       *)
(* (gps/loc_api/loc_api_v02/loc_api_sync_req.c).                           *)
(*                                                                         *)
(* A thread that calls loc_sync_send_req allocates one of a few slots,     *)
(* names in it the indication it waits for, sends the request and blocks   *)
(* on the slot's condition variable until loc_sync_process_ind, run by the *)
(* client's receive thread, finds the slot, copies the payload into the    *)
(* caller's buffer and wakes it, or until the wait times out.              *)
(*                                                                         *)
(* loc_sync_call_mutex is the variable lock: callers hold it inside one    *)
(* action only, the receive thread holds it while it walks the slots.      *)
(* sync_req_lock of a slot is held inside single actions only, and a       *)
(* blocked caller gives it up, so it needs no variable.                    *)
(***************************************************************************)
EXTENDS Naturals, FiniteSets

CONSTANTS
    Caller,       \* threads that call loc_sync_send_req
    NSlot,        \* LOC_SYNC_REQ_BUFFER_SIZE
    Ind,          \* a <<client handle, indication id>> pair, as one value
    None,         \* NULL, an invalid handle, no slot
    MaxCalls,     \* bound on the calls of one thread
    Spurious      \* whether pthread_cond_timedwait may wake without a signal

ASSUME SlotAssumption == NSlot \in Nat \ {0}
ASSUME NoneAssumption == None \notin Caller \cup Ind \cup Nat
ASSUME BoundAssumption == MaxCalls \in Nat /\ Spurious \in BOOLEAN

VARIABLES
    in_use,       \* loc_sync_array.in_use
    slot_in_use,  \* loc_sync_array.slot_in_use
    slots,        \* the fields of each slot
    lock,         \* TRUE while the receive thread holds loc_sync_call_mutex
    walk,         \* the locals of loc_sync_process_ind
    pc,           \* where each caller is in loc_sync_send_req
    call,         \* the arguments and locals of each caller's current call
    pending       \* responses the location service has yet to deliver

arrayVars == <<in_use, slot_in_use, slots>>
vars == <<arrayVars, lock, walk, pc, call, pending>>

Slot == 0 .. NSlot - 1

FreeSlot == [recv_ind_id |-> None, payload |-> None,
             ind_is_waiting |-> FALSE, ind_has_arrived |-> FALSE]

\* A response names the call it answers, which the code cannot see: the
\* thread and the number of its call.
Response == [ind : Ind, caller : Caller, n : 0 .. MaxCalls]
ASSUME ResponseAssumption == None \notin Response

IdleCall == [n |-> 0, ind |-> None, ptr |-> FALSE, select_id |-> None,
             sent |-> FALSE, matched |-> FALSE, buf |-> None, ret |-> "NONE"]

WalkFrom(m) == [msg |-> m, i |-> 0, in_use |-> FALSE, consumed |-> FALSE]

IdleWalk == WalkFrom(None)

Init ==
    /\ in_use = FALSE
    /\ slot_in_use = [i \in Slot |-> FALSE]
    /\ slots = [i \in Slot |-> FreeSlot]
    /\ lock = FALSE
    /\ walk = IdleWalk
    /\ pc = [c \in Caller |-> "idle"]
    /\ call = [c \in Caller |-> IdleCall]
    /\ pending = {}

-----------------------------------------------------------------------------
(* The caller: loc_sync_send_req and the functions it calls.               *)

\* The thread calls loc_sync_send_req; ptr says whether it passed a buffer.
Call(c, ind, ptr) ==
    /\ pc[c] = "idle"
    /\ call[c].n < MaxCalls
    /\ call' = [call EXCEPT ![c] = [IdleCall EXCEPT !.n = call[c].n + 1,
                                                    !.ind = ind, !.ptr = ptr]]
    /\ pc' = [pc EXCEPT ![c] = "alloc"]
    /\ UNCHANGED <<arrayVars, lock, walk, pending>>

\* loc_alloc_slot takes the first free slot.
FirstFreeUnchecked(i) == i = 0        \* mutant: does not look at slot_in_use

FirstFree(i) == ~slot_in_use[i] /\ \A j \in 0 .. i - 1 : slot_in_use[j]

AllocSlot(c) ==
    /\ pc[c] = "alloc"
    /\ ~lock
    /\ \E i \in Slot :
        /\ FirstFree(i)
        /\ slot_in_use' = [slot_in_use EXCEPT ![i] = TRUE]
        /\ call' = [call EXCEPT ![c].select_id = i]
    /\ in_use' = TRUE
    /\ pc' = [pc EXCEPT ![c] = "select"]
    /\ UNCHANGED <<slots, lock, walk, pending>>

\* Every slot is taken: loc_sync_select_ind returns -ENOMEM, nothing is sent
\* and loc_sync_send_req returns the status it was initialised with.
AllocFull(c) ==
    /\ pc[c] = "alloc"
    /\ ~lock
    /\ \A i \in Slot : slot_in_use[i]
    /\ call' = [call EXCEPT ![c].ret = "SUCCESS"]
    /\ pc' = [pc EXCEPT ![c] = "returned"]
    /\ UNCHANGED <<arrayVars, lock, walk, pending>>

\* The rest of loc_sync_select_ind, under the slot's lock.
SelectInd(c) ==
    /\ pc[c] = "select"
    /\ slots' = [slots EXCEPT ![call[c].select_id] =
                    [FreeSlot EXCEPT
                        !.recv_ind_id = call[c].ind,
                        !.payload = IF call[c].ptr THEN c ELSE None]]
    /\ pc' = [pc EXCEPT ![c] = "send"]
    /\ UNCHANGED <<in_use, slot_in_use, lock, walk, call, pending>>

\* locClientSendReq: the service will answer, or the answer is lost.
RequestSent(c) ==
    \/ pending' = pending \cup {[ind |-> call[c].ind, caller |-> c, n |-> call[c].n]}
    \/ UNCHANGED pending

SendReq(c) ==
    /\ pc[c] = "send"
    /\ RequestSent(c)
    /\ call' = [call EXCEPT ![c].sent = TRUE]
    /\ pc' = [pc EXCEPT ![c] = "wait"]
    /\ UNCHANGED <<arrayVars, lock, walk>>

\* A request that was not acknowledged in time may be answered, too.
SendReqFails(c) ==
    /\ pc[c] = "send"
    /\ RequestSent(c)
    /\ call' = [call EXCEPT ![c].ret = "FAILURE"]
    /\ pc' = [pc EXCEPT ![c] = "free"]
    /\ UNCHANGED <<arrayVars, lock, walk>>

\* loc_sync_wait_for_ind may wait on a slot that is in use (read without a
\* lock), has no indication yet and no other waiter.
MayWait(i) ==
    /\ slot_in_use[i]
    /\ ~slots[i].ind_has_arrived
    /\ ~slots[i].ind_is_waiting

WaitForInd(c) ==
    LET i == call[c].select_id IN
    /\ pc[c] = "wait"
    /\ MayWait(i)
    /\ slots' = [slots EXCEPT ![i].ind_is_waiting = TRUE]
    /\ pc' = [pc EXCEPT ![c] = "blocked"]
    /\ UNCHANGED <<in_use, slot_in_use, lock, walk, call, pending>>

\* Otherwise it returns at once: -EINVAL leaves the slot alone, an indication
\* that came first is a success, -EBUSY is an internal failure.
WaitAtOnce(c) ==
    LET i == call[c].select_id IN
    /\ pc[c] = "wait"
    /\ ~MayWait(i)
    /\ call' = [call EXCEPT ![c].ret =
                    IF slot_in_use[i] /\ slots[i].ind_has_arrived
                    THEN "SUCCESS" ELSE "INTERNAL"]
    /\ pc' = [pc EXCEPT ![c] = IF slot_in_use[i] THEN "free" ELSE "returned"]
    /\ UNCHANGED <<arrayVars, lock, walk, pending>>

\* How the wait ends without a signal.  Once the clock passes expire_time a
\* signal no longer reaches the thread, though ind_is_waiting still says that
\* it waits; a spurious wakeup looks like a signal.
Unsignalled == {"timedout"} \cup {w \in {"woken"} : Spurious}

TimeOut(c) ==
    /\ pc[c] = "blocked"
    /\ \E how \in Unsignalled : pc' = [pc EXCEPT ![c] = how]
    /\ UNCHANGED <<arrayVars, lock, walk, call, pending>>

StatusAlwaysSuccess(c) == "SUCCESS"   \* mutant: ignores ETIMEDOUT

\* What loc_sync_send_req makes of the result of the wait.
StatusOfWait(c) == IF pc[c] = "woken" THEN "SUCCESS" ELSE "TIMEOUT"

KeepsWaiting(s) == s                  \* mutant: ind_is_waiting stays set

DoneWaiting(s) == [s EXCEPT !.ind_is_waiting = FALSE]

\* pthread_cond_timedwait has the slot's lock again and returns.
WaitReturns(c) ==
    /\ pc[c] \in {"woken", "timedout"}
    /\ slots' = [slots EXCEPT ![call[c].select_id] = DoneWaiting(@)]
    /\ call' = [call EXCEPT ![c].ret = StatusOfWait(c)]
    /\ pc' = [pc EXCEPT ![c] = "free"]
    /\ UNCHANGED <<in_use, slot_in_use, lock, walk, pending>>

KeepsPayload(i) ==                    \* mutant: recv_ind_payload_ptr stays
    [FreeSlot EXCEPT !.payload = slots[i].payload]

Cleared(i) == FreeSlot

ForgetsOthers(i) == FALSE             \* mutant: clears in_use unasked

OthersInUse(i) == \E j \in Slot \ {i} : slot_in_use[j]

\* loc_free_slot.
LocFreeSlot(c) ==
    LET i == call[c].select_id IN
    /\ pc[c] = "free"
    /\ ~lock
    /\ slot_in_use' = [slot_in_use EXCEPT ![i] = FALSE]
    /\ slots' = [slots EXCEPT ![i] = Cleared(i)]
    /\ in_use' = (in_use /\ OthersInUse(i))
    /\ pc' = [pc EXCEPT ![c] = "returned"]
    /\ UNCHANGED <<lock, walk, call, pending>>

\* loc_sync_send_req returns to its caller.
Return(c) ==
    /\ pc[c] = "returned"
    /\ pc' = [pc EXCEPT ![c] = "idle"]
    /\ call' = [call EXCEPT ![c] = [IdleCall EXCEPT !.n = call[c].n]]
    /\ UNCHANGED <<arrayVars, lock, walk, pending>>

-----------------------------------------------------------------------------
(* The client's receive thread: loc_sync_process_ind.                      *)

\* An indication arrives; nobody uses the array, or the walk begins.
ProcessInd(m) ==
    /\ m \in pending
    /\ ~lock
    /\ pending' = pending \ {m}
    /\ \/ /\ ~in_use
          /\ UNCHANGED <<lock, walk>>
       \/ /\ in_use
          /\ lock' = TRUE
          /\ walk' = WalkFrom(m)
    /\ UNCHANGED <<arrayVars, pc, call>>

MatchesAnyInd(i, m) ==                \* mutant: does not compare the id
    /\ slot_in_use[i]
    /\ slots[i].recv_ind_id # None
    /\ ~slots[i].ind_has_arrived

Matches(i, m) ==
    /\ slot_in_use[i]
    /\ slots[i].recv_ind_id = m.ind
    /\ ~slots[i].ind_has_arrived

\* The slot's caller, when it is blocked on the slot's condition variable.
Sleeper(i) == {c \in Caller : pc[c] = "blocked" /\ call[c].select_id = i}

\* The caller that holds the slot has neither timed out nor failed to send.
InTime(c, i) ==
    /\ pc[c] \in {"send", "wait", "blocked", "woken"}
    /\ call[c].select_id = i

Forgotten(s) == s                     \* mutant: an early indication is lost

Remembered(s) == [s EXCEPT !.ind_has_arrived = TRUE]

\* The body of the loop: one slot, under its lock.  The receive thread hands
\* over what it has decoded, of an id it knows the size of: only whether the
\* slot has a buffer decides that the indication is copied.
VisitSlot ==
    LET i == walk.i
        m == walk.msg
        s == slots[i]
        match == Matches(i, m)
        copies == match /\ s.payload # None
    IN
    /\ lock
    /\ i < NSlot
    /\ ~walk.consumed
    /\ walk' = [walk EXCEPT !.i = i + 1,
                            !.in_use = walk.in_use \/ slot_in_use[i],
                            !.consumed = copies]
    /\ call' = [c \in Caller |->
                  [call[c] EXCEPT
                     !.buf = IF copies /\ s.payload = c THEN m ELSE @,
                     !.matched = @ \/ (match /\ InTime(c, i))]]
    /\ \/ /\ match /\ s.ind_is_waiting
          /\ pc' = [c \in Caller |->
                      IF c \in Sleeper(i) THEN "woken" ELSE pc[c]]
          /\ UNCHANGED slots
       \/ /\ match /\ ~s.ind_is_waiting
          /\ slots' = [slots EXCEPT ![i] = Remembered(@)]
          /\ UNCHANGED pc
       \/ /\ ~match
          /\ UNCHANGED <<slots, pc>>
    /\ UNCHANGED <<in_use, slot_in_use, lock, pending>>

EndWalkLocked ==                      \* mutant: never unlocks
    /\ lock
    /\ walk.i = NSlot \/ walk.consumed
    /\ in_use' = (in_use /\ walk.in_use)
    /\ UNCHANGED <<slot_in_use, slots, lock, walk, pc, call, pending>>

\* After the loop.
EndWalk ==
    /\ lock
    /\ walk.i = NSlot \/ walk.consumed
    /\ in_use' = (in_use /\ walk.in_use)
    /\ lock' = FALSE
    /\ walk' = IdleWalk
    /\ UNCHANGED <<slot_in_use, slots, pc, call, pending>>

-----------------------------------------------------------------------------
CallerStep(c) ==
    \/ AllocSlot(c) \/ AllocFull(c) \/ SelectInd(c)
    \/ SendReq(c) \/ SendReqFails(c) \/ WaitForInd(c) \/ WaitAtOnce(c)
    \/ TimeOut(c) \/ WaitReturns(c) \/ LocFreeSlot(c) \/ Return(c)

Next ==
    \/ \E c \in Caller, ind \in Ind, ptr \in BOOLEAN : Call(c, ind, ptr)
    \/ \E c \in Caller : CallerStep(c)
    \/ \E m \in pending : ProcessInd(m)
    \/ VisitSlot
    \/ EndWalk

Spec == Init /\ [][Next]_vars

\* Threads are scheduled, a wait times out, and a mutex that is released over
\* and over is granted in the end.
Fairness ==
    /\ \A c \in Caller : SF_vars(CallerStep(c))
    /\ WF_vars(VisitSlot \/ EndWalk)

FairSpec == Spec /\ Fairness

-----------------------------------------------------------------------------
SlotType == [recv_ind_id : Ind \cup {None}, payload : Caller \cup {None},
             ind_is_waiting : BOOLEAN, ind_has_arrived : BOOLEAN]

CallType == [n : 0 .. MaxCalls, ind : Ind \cup {None}, ptr : BOOLEAN,
             select_id : Slot \cup {None}, sent : BOOLEAN, matched : BOOLEAN,
             buf : Response \cup {None},
             ret : {"NONE", "SUCCESS", "FAILURE", "TIMEOUT", "INTERNAL"}]

WalkType == [msg : Response \cup {None}, i : 0 .. NSlot,
             in_use : BOOLEAN, consumed : BOOLEAN]

TypeOK ==
    /\ in_use \in BOOLEAN
    /\ slot_in_use \in [Slot -> BOOLEAN]
    /\ slots \in [Slot -> SlotType]
    /\ lock \in BOOLEAN
    /\ walk \in WalkType
    /\ pc \in [Caller -> {"idle", "alloc", "select", "send", "wait", "blocked",
                          "woken", "timedout", "free", "returned"}]
    /\ call \in [Caller -> CallType]
    /\ pending \subseteq Response

\* A caller is between loc_alloc_slot and loc_free_slot.
Holding(c) == pc[c] \in {"select", "send", "wait", "blocked", "woken",
                         "timedout", "free"}

\* A slot is in use exactly while one caller holds it, and never two: no call
\* can wait on, or free, the slot of another.
SlotOwnership ==
    /\ \A c \in Caller : Holding(c) => /\ call[c].select_id \in Slot
                                       /\ slot_in_use[call[c].select_id]
    /\ \A i \in Slot : slot_in_use[i] =>
            \E c \in Caller : Holding(c) /\ call[c].select_id = i
    /\ \A c, d \in Caller :
            Holding(c) /\ Holding(d) /\ call[c].select_id = call[d].select_id
                => c = d

\* The in_use flag, by which loc_sync_process_ind drops an indication without
\* looking at a slot, says exactly whether some slot is in use, although the
\* receive thread recomputes it from the slots it happened to visit.
InUseTracksSlots == in_use <=> \E i \in Slot : slot_in_use[i]

\* A slot's recv_ind_payload_ptr points to the buffer of the caller that holds
\* the slot and is still in its call: the receive thread never copies into the
\* stack of a call that has returned.
PayloadOwned ==
    \A i \in Slot : \A c \in Caller :
        slots[i].payload = c => Holding(c) /\ call[c].select_id = i

\* ind_is_waiting is set exactly while the slot's caller is inside
\* pthread_cond_timedwait, so the receive thread never takes an absent caller
\* for a waiting one (its signal would be lost), nor the reverse.
WaitingFlagExact ==
    \A c \in Caller : Holding(c) =>
        (slots[call[c].select_id].ind_is_waiting
            <=> pc[c] \in {"blocked", "woken", "timedout"})

\* The -EBUSY and -EINVAL of loc_sync_wait_for_ind never happen.
NoInternalFailure == \A c \in Caller : call[c].ret # "INTERNAL"

\* An indication that found the slot before the caller timed out is never
\* lost, whether it came before or during the wait: the caller is not left
\* sleeping and its call succeeds.
NoLostIndication ==
    \A c \in Caller : call[c].matched =>
        /\ pc[c] # "blocked"
        /\ pc[c] = "returned" /\ call[c].sent => call[c].ret = "SUCCESS"

\* What is copied into a buffer is an indication of the client and id that
\* this call asked for.
CopiedIndIsWanted ==
    \A c \in Caller : call[c].buf # None => call[c].buf.ind = call[c].ind

\* A call that got a slot succeeds only when a matching indication arrived
\* during the call, and then its buffer has been filled.
SuccessMeansAnswered ==
    \A c \in Caller :
        pc[c] = "returned" /\ call[c].ret = "SUCCESS" /\ call[c].select_id # None
            => /\ call[c].matched
               /\ call[c].ptr => call[c].buf # None

\* Every call returns: the lost response is covered by the time out, and the
\* receive thread never keeps loc_sync_call_mutex.
EveryCallReturns == \A c \in Caller : []<>(pc[c] = "idle")

\* "Thread safe synchronous request, using Loc API status return code"
\* (loc_api_sync_req.h:75): a call reports success only if its request was
\* handed to locClientSendReq.
SuccessMeansSent ==
    \A c \in Caller :
        pc[c] = "returned" /\ call[c].ret = "SUCCESS" => call[c].sent

\* The same comment: the indication a thread is handed answers the request of
\* that thread, not that of another.
AnswerIsOwn ==
    \A c \in Caller : call[c].buf # None => call[c].buf.caller = c
\* An indication that comes for a call reaches that call, early, in time or as
\* its wait ends: only a wanted one is copied, the signal finds its sleeper,
\* and what came before the wait is remembered.
IndicationsKept == WaitingFlagExact /\ NoLostIndication /\ CopiedIndIsWanted
=============================================================================
