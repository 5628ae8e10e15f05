------------------------------- MODULE LocTimer -------------------------------
(* The timers of the GPS code, one container of them.  Clients start and stop  *)
(* timers by messages to the task of the container, which alone touches the    *)
(* heap and deletes delegates.  A timerfd is armed for the top of the heap; a  *)
(* poll thread that sees it expire disarms it and sends one more message, on   *)
(* which the due timers are taken from the heap and their clients called.      *)
(* Timers rank by whole seconds, though the timerfd is armed more finely.      *)

EXTENDS Integers, Sequences, FiniteSets

CONSTANTS
    Client,     \* LocTimers
    NoClient,   \* mClient == NULL
    MaxTimers,  \* bound on the starts, told apart by their delegate
    MaxTime,    \* bound on the clock
    PerSecond   \* ticks of the clock in a second

ASSUME LocTimerAssumption ==
    /\ IsFiniteSet(Client) /\ NoClient \notin Client
    /\ MaxTimers \in Nat /\ MaxTime \in Nat /\ PerSecond \in Nat \ {0}

Timer == 1 .. MaxTimers     \* LocTimerDelegates
NoTimer == 0
Never == MaxTime + 1        \* a timerfd that is not armed

VARIABLES
    now,        \* CLOCK_BOOTTIME
    client,     \* mTimer of each LocTimer
    timer,      \* the delegates
    made,       \* how many there were
    heap,       \* the heap: its members and its top
    fd,         \* the timerfd: when it expires, and whether it is polled
    msgs,       \* the queue of the message task
    task,       \* the thread of the message task; `at` is the clock it read last
    pollTask    \* the poll thread

ltVars == <<now, client, timer, made, heap, fd, msgs, task, pollTask>>

LtInit ==
    /\ now = 0 /\ made = 0
    /\ client = [c \in Client |-> NoTimer]
    /\ timer = [d \in Timer |-> [time |-> 0, mClient |-> NoClient, state |-> "new", ends |-> 0]]
    /\ heap = [in |-> {}, top |-> NoTimer]
    /\ fd = [at |-> Never, polled |-> FALSE]
    /\ msgs = <<>>
    /\ task = [pc |-> "wait", timer |-> NoTimer, client |-> NoClient, at |-> 0]
    /\ pollTask = "wait"

Msg(kind, d) == [kind |-> kind, timer |-> d]
Second(t) == t \div PerSecond
OutRanks(d, e) == Second(timer[d].time) < Second(timer[e].time)

-----------------------------------------------------------------------------
(* The clients, each call under the client's own lock.                     *)

\* A running timer is not started again.
TimerStart(c) ==
    /\ client[c] = NoTimer /\ made < MaxTimers
    /\ \E t \in now + 1 .. MaxTime :
        /\ made' = made + 1
        /\ timer' = [timer EXCEPT ![made'] =
                        [time |-> t, mClient |-> c, state |-> "started", ends |-> 0]]
        /\ client' = [client EXCEPT ![c] = made']
        /\ msgs' = Append(msgs, Msg("push", made'))
    /\ UNCHANGED <<now, heap, fd, task, pollTask>>

\* mutant: the client keeps its timer.
StoppedKeeping(c) ==
    /\ timer' = [timer EXCEPT ![client[c]].mClient = NoClient, ![client[c]].ends = @ + 1]
    /\ msgs' = Append(msgs, Msg("remove", client[c]))
    /\ UNCHANGED client

\* LocTimer::stop of a running timer, by whoever calls it.
Stopped(c) ==
    /\ timer' = [timer EXCEPT ![client[c]].mClient = NoClient, ![client[c]].ends = @ + 1]
    /\ client' = [client EXCEPT ![c] = NoTimer]
    /\ msgs' = Append(msgs, Msg("remove", client[c]))

TimerStop(c) ==
    /\ client[c] # NoTimer
    /\ Stopped(c)
    /\ UNCHANGED <<now, made, heap, fd, task, pollTask>>

-----------------------------------------------------------------------------
(* The message task.                                                       *)

TimerTake(kind) == task.pc = "wait" /\ msgs # <<>> /\ Head(msgs).kind = kind

\* Where a member of the heap leaves it; among timers of the same second the
\* shape of the heap decides which is the next top.
Tops(S) == IF S = {} THEN {NoTimer}
           ELSE {d \in S : \A e \in S : ~OutRanks(e, d)}
HeapWithout(d) ==
    {[in |-> heap.in \ {d}, top |-> t] :
        t \in IF heap.top = d THEN Tops(heap.in \ {d}) ELSE {heap.top}}

\* mutant: a new top does not arm the timerfd.
MsgTimerPushAppending ==
    /\ TimerTake("push")
    /\ LET d == Head(msgs).timer
           prior == heap.top
           top == IF prior = NoTimer \/ OutRanks(d, prior) THEN d ELSE prior IN
        /\ heap' = [in |-> heap.in \cup {d}, top |-> top]
        /\ task' = [task EXCEPT !.pc = IF prior = NoTimer THEN "addPoll" ELSE "wait"]
    /\ msgs' = Tail(msgs)
    /\ UNCHANGED <<now, client, timer, made, fd, pollTask>>

\* A timer that becomes the top arms the timerfd.
MsgTimerPush ==
    /\ TimerTake("push")
    /\ LET d == Head(msgs).timer
           prior == heap.top
           top == IF prior = NoTimer \/ OutRanks(d, prior) THEN d ELSE prior IN
        /\ heap' = [in |-> heap.in \cup {d}, top |-> top]
        /\ task' = [task EXCEPT !.pc = IF top # prior THEN "addPoll" ELSE "wait"]
    /\ msgs' = Tail(msgs)
    /\ UNCHANGED <<now, client, timer, made, fd, pollTask>>

\* mutant: a timer that is not the top stays in the heap.
MsgTimerRemoveTop ==
    /\ TimerTake("remove")
    /\ LET d == Head(msgs).timer IN
        /\ IF heap.top = d THEN heap' \in HeapWithout(d) ELSE UNCHANGED heap
        /\ timer' = [timer EXCEPT ![d].state = "deleted"]
        /\ task' = [task EXCEPT !.pc = IF heap.top = d /\ heap'.top # NoTimer
                                       THEN "addPoll" ELSE "wait"]
    /\ msgs' = Tail(msgs)
    /\ UNCHANGED <<now, client, made, fd, pollTask>>

\* The timer leaves the heap, where it still is when it has not expired.  If
\* it was the top the timerfd is armed for the next one; of an empty heap it
\* stays armed.
MsgTimerRemove ==
    /\ TimerTake("remove")
    /\ LET d == Head(msgs).timer IN
        /\ heap' \in HeapWithout(d)
        /\ timer' = [timer EXCEPT ![d].state = "deleted"]
        /\ task' = [task EXCEPT !.pc = IF heap.top = d /\ heap'.top # NoTimer
                                       THEN "addPoll" ELSE "wait"]
    /\ msgs' = Tail(msgs)
    /\ UNCHANGED <<now, client, made, fd, pollTask>>

\* updateSoonestTime: first the timerfd is polled, then it is armed.
AddPoll ==
    /\ task.pc = "addPoll"
    /\ fd' = [fd EXCEPT !.polled = TRUE]
    /\ task' = [task EXCEPT !.pc = "setTime"]
    /\ UNCHANGED <<now, client, timer, made, heap, msgs, pollTask>>

SetTime ==
    /\ task.pc = "setTime"
    /\ fd' = [fd EXCEPT !.at = timer[heap.top].time]
    /\ task' = [task EXCEPT !.pc = "wait"]
    /\ UNCHANGED <<now, client, timer, made, heap, msgs, pollTask>>

\* The top is taken from the heap and asked for its client, without a lock.
PopTop(at) ==
    /\ heap' \in HeapWithout(heap.top)
    /\ task' = [pc |-> "popped", timer |-> heap.top,
                client |-> timer[heap.top].mClient, at |-> at]

\* The clock is read, once, and the first of the heap taken whatever its time.
MsgTimerExpire ==
    /\ TimerTake("expire")
    /\ msgs' = Tail(msgs)
    /\ IF heap.top = NoTimer THEN UNCHANGED <<heap, task>> ELSE PopTop(now)
    /\ UNCHANGED <<now, client, timer, made, fd, pollTask>>

\* The client is called if it had a timer to stop: it may be another one than
\* has expired.
TimeOutCallback ==
    /\ task.pc = "popped"
    /\ LET c == task.client IN
        IF c # NoClient /\ c \in {b \in Client : client[b] # NoTimer}
        THEN Stopped(c)
        ELSE UNCHANGED <<client, timer, msgs>>
    /\ task' = [task EXCEPT !.pc = "next", !.timer = NoTimer, !.client = NoClient]
    /\ UNCHANGED <<now, made, heap, fd, pollTask>>

\* mutant: the timerfd is not armed for what is left.
PopIfOutRanksOnly ==
    /\ task.pc = "next"
    /\ IF heap.top # NoTimer /\ Second(timer[heap.top].time) <= Second(task.at)
       THEN PopTop(task.at)
       ELSE /\ task' = [task EXCEPT !.pc = "wait", !.at = 0]
            /\ UNCHANGED heap
    /\ UNCHANGED <<now, client, timer, made, fd, msgs, pollTask>>

\* The next ones are taken if they were due then, by the second; then the
\* timerfd is armed for what is left.
PopIfOutRanks ==
    /\ task.pc = "next"
    /\ IF heap.top # NoTimer /\ Second(timer[heap.top].time) <= Second(task.at)
       THEN PopTop(task.at)
       ELSE /\ task' = [task EXCEPT !.pc = IF heap.top = NoTimer THEN "wait" ELSE "addPoll",
                                   !.at = 0]
            /\ UNCHANGED heap
    /\ UNCHANGED <<now, client, timer, made, fd, msgs, pollTask>>

-----------------------------------------------------------------------------
(* The poll thread and the clock.                                          *)

EpollWait ==
    /\ pollTask = "wait" /\ fd.polled /\ fd.at <= now
    /\ pollTask' = "disarm"
    /\ UNCHANGED <<now, client, timer, made, heap, fd, msgs, task>>

DisarmFd ==
    /\ pollTask = "disarm"
    /\ fd' = [fd EXCEPT !.at = Never]
    /\ pollTask' = "removePoll"
    /\ UNCHANGED <<now, client, timer, made, heap, msgs, task>>

RemovePoll ==
    /\ pollTask = "removePoll"
    /\ fd' = [fd EXCEPT !.polled = FALSE]
    /\ pollTask' = "send"
    /\ UNCHANGED <<now, client, timer, made, heap, msgs, task>>

SendExpire ==
    /\ pollTask = "send"
    /\ msgs' = Append(msgs, Msg("expire", NoTimer))
    /\ pollTask' = "wait"
    /\ UNCHANGED <<now, client, timer, made, heap, fd, task>>

Tick ==
    /\ now < MaxTime
    /\ now' = now + 1
    /\ UNCHANGED <<client, timer, made, heap, fd, msgs, task, pollTask>>

TimerTask ==
    \/ MsgTimerPush \/ MsgTimerRemove \/ AddPoll \/ SetTime
    \/ MsgTimerExpire \/ TimeOutCallback \/ PopIfOutRanks
PollThread == EpollWait \/ DisarmFd \/ RemovePoll \/ SendExpire

LtNext == TimerTask \/ PollThread \/ Tick \/ \E c \in Client : TimerStart(c) \/ TimerStop(c)

LtSpec == LtInit /\ [][LtNext]_ltVars

-----------------------------------------------------------------------------
(* Properties.                                                             *)

\* Types of the clock, the timers, the timerfd and the threads.
LtTypeOK ==
    /\ now \in 0 .. MaxTime /\ made \in 0 .. MaxTimers
    /\ client \in [Client -> Timer \cup {NoTimer}]
    /\ timer \in [Timer -> [time : 0 .. MaxTime, mClient : Client \cup {NoClient},
                            state : {"new", "started", "deleted"}, ends : 0 .. 1]]
    /\ heap \in [in : SUBSET Timer, top : Timer \cup {NoTimer}]
    /\ fd \in [at : 0 .. Never, polled : BOOLEAN]
    /\ msgs \in Seq([kind : {"push", "remove", "expire"}, timer : Timer \cup {NoTimer}])
    /\ task \in [pc : {"wait", "addPoll", "setTime", "popped", "next"},
                 timer : Timer \cup {NoTimer}, client : Client \cup {NoClient},
                 at : 0 .. MaxTime]
    /\ pollTask \in {"wait", "disarm", "removePoll", "send"}

MsgsFor(d) == {i \in DOMAIN msgs : msgs[i].timer = d}

\* A delegate is deleted only when nothing refers to it any more: no message,
\* neither the heap nor the expiry being handled, nor its client.
DeletedUnused ==
    \A d \in Timer : timer[d].state = "deleted" =>
        /\ d \notin heap.in /\ MsgsFor(d) = {} /\ task.timer # d
        /\ \A c \in Client : client[c] # d

\* The stop of a client and the expiry of its timer race, and one of them
\* ends the timer: each start is ended once, and has one removal to come.
EndedOnce ==
    \A d \in Timer :
        /\ timer[d].ends <= 1
        /\ timer[d].ends = 1 /\ timer[d].state = "started" =>
            Cardinality({i \in MsgsFor(d) : msgs[i].kind = "remove"}) = 1

ExpireComing == pollTask # "wait" \/ \E i \in DOMAIN msgs : msgs[i].kind = "expire"

\* While timers wait the timerfd is polled and armed for the top of the heap,
\* or an expiry is on its way that will arm it, whatever the poll thread
\* undoes meanwhile.
ArmedForTop ==
    heap.in # {} /\ task.pc = "wait" /\ ~ExpireComing =>
        fd.polled /\ fd.at = timer[heap.top].time

\* A timer that is started ends: its client stops it or is called back.
StartedTimerEnds == \A d \in Timer : []<>(timer[d].state # "started")

\* What an expiry takes from the heap is due ("pop everything in the heap that
\* outRanks now").
PopsDue == task.pc = "popped" => Second(timer[task.timer].time) <= Second(task.at)
\* A started timer is ended once, by its client or its expiry, and its
\* delegate is deleted when nobody refers to it any more.
TimerEndsOnce == EndedOnce /\ DeletedUnused
=============================================================================
