-------------------------------- MODULE MsgTask --------------------------------
(* A thread with a queue of messages, as the GPS code uses it for the location *)
(* engine and the timers: msg_q, MsgTask and the delegate that LocThread and   *)
(* its thread share.  The owner ends it: the queue is unblocked, the thread is *)
(* taken from the task, a joinable one is joined, and the last of the two that *)
(* lets go frees the delegate.  The task itself, with its queue, is freed by   *)
(* its thread, which does not wait for the owner, nor start it if told to stop.*)
(* No other thread sends once the owner ends it; a message being handled may.  *)

EXTENDS Integers, Sequences, FiniteSets

CONSTANTS
    LocMsg,     \* messages, each sent once
    NoMsg       \* no message

ASSUME MsgTaskAssumption == IsFiniteSet(LocMsg) /\ NoMsg \notin LocMsg

VARIABLES
    msgq,       \* msg_q: its list, unblocked, and whether it and its task exist
    loop,       \* threadMain: where it is, the message it handles
    delegate,   \* LocThreadDelegate: mRunnable, mJoinable, mRefCount, deletions
    owner,      \* how far the owner is
    fate,       \* of each message: new, queued, handled, refused, or times freed
    log         \* messages in the order they were accepted and handled

mtVars == <<msgq, loop, delegate, owner, fate, log>>

MtInit ==
    /\ msgq = [list |-> <<>>, unblocked |-> FALSE, alive |-> TRUE]
    /\ loop = [pc |-> "start", msg |-> NoMsg]
    /\ delegate \in [running : {TRUE}, joinable : BOOLEAN, refs : {2}, deleted : {0}]
    /\ owner = "sends"
    /\ fate = [m \in LocMsg |-> [at |-> "new", freed |-> 0]]
    /\ log = [accepted |-> <<>>, handled |-> <<>>]

Woken == IF loop.pc = "sleep" THEN [loop EXCEPT !.pc = "rcv"] ELSE loop

\* msg_q_snd: an unblocked queue refuses the message, and nobody frees it.
MsgSnd(m) ==
    /\ fate[m].at = "new"
    /\ IF msgq.unblocked
       THEN fate' = [fate EXCEPT ![m].at = "refused"] /\ UNCHANGED <<msgq, log, loop>>
       ELSE /\ msgq' = [msgq EXCEPT !.list = Append(@, m)]
            /\ fate' = [fate EXCEPT ![m].at = "queued"]
            /\ log' = [log EXCEPT !.accepted = Append(@, m)]
            /\ loop' = Woken

OwnerSends ==
    /\ owner = "sends"
    /\ \E m \in LocMsg : MsgSnd(m)
    /\ UNCHANGED <<delegate, owner>>

\* The message being handled sends another one, to its own thread.
HandlerSends ==
    /\ loop.pc = "proc"
    /\ \E m \in LocMsg : MsgSnd(m)
    /\ UNCHANGED <<delegate, owner>>

-----------------------------------------------------------------------------
(* threadMain.                                                             *)

\* A thread that finds no runnable, since stop came first, deletes none.
StartThread ==
    /\ loop.pc = "start"
    /\ loop' = [loop EXCEPT !.pc = IF delegate.running THEN "check" ELSE "destroy"]
    /\ UNCHANGED <<msgq, delegate, owner, fate, log>>

CheckRunning ==
    /\ loop.pc = "check"
    /\ loop' = [loop EXCEPT !.pc = IF delegate.running THEN "enter" ELSE "exit"]
    /\ UNCHANGED <<msgq, delegate, owner, fate, log>>

\* msg_q_rcv refuses at its entry when unblocked,
EnterRcv ==
    /\ loop.pc = "enter"
    /\ loop' = [loop EXCEPT !.pc = IF msgq.unblocked THEN "exit" ELSE "rcv"]
    /\ UNCHANGED <<msgq, delegate, owner, fate, log>>

\* mutant: the newest message is taken first.
MsgRcvNewest ==
    /\ loop.pc = "rcv"
    /\ LET n == Len(msgq.list) IN
        IF n > 0
        THEN /\ loop' = [pc |-> "proc", msg |-> msgq.list[n]]
             /\ msgq' = [msgq EXCEPT !.list = SubSeq(@, 1, n - 1)]
             /\ fate' = [fate EXCEPT ![msgq.list[n]].at = "handled"]
             /\ log' = [log EXCEPT !.handled = Append(@, msgq.list[n])]
        ELSE /\ loop' = [loop EXCEPT !.pc = IF msgq.unblocked THEN "exit" ELSE "sleep"]
             /\ UNCHANGED <<msgq, fate, log>>
    /\ UNCHANGED <<delegate, owner>>

\* and waits in a loop for a message or to be unblocked.
MsgRcv ==
    /\ loop.pc = "rcv"
    /\ IF msgq.list # <<>>
       THEN /\ loop' = [pc |-> "proc", msg |-> Head(msgq.list)]
            /\ msgq' = [msgq EXCEPT !.list = Tail(@)]
            /\ fate' = [fate EXCEPT ![Head(msgq.list)].at = "handled"]
            /\ log' = [log EXCEPT !.handled = Append(@, Head(msgq.list))]
       ELSE /\ loop' = [loop EXCEPT !.pc = IF msgq.unblocked THEN "exit" ELSE "sleep"]
            /\ UNCHANGED <<msgq, fate, log>>
    /\ UNCHANGED <<delegate, owner>>

\* The message is handled and freed.
ProcEnds ==
    /\ loop.pc = "proc"
    /\ fate' = [fate EXCEPT ![loop.msg].freed = @ + 1]
    /\ loop' = [pc |-> "check", msg |-> NoMsg]
    /\ UNCHANGED <<msgq, delegate, owner, log>>

\* mutant: the messages left are not freed.
DeleteRunnableOnly ==
    /\ loop.pc = "exit"
    /\ delegate' = [delegate EXCEPT !.running = FALSE]
    /\ msgq' = [msgq EXCEPT !.list = <<>>, !.alive = FALSE]
    /\ loop' = [loop EXCEPT !.pc = "destroy"]
    /\ UNCHANGED <<owner, fate, log>>

\* The runnable is deleted, and with it the queue and the messages left.
DeleteRunnable ==
    /\ loop.pc = "exit"
    /\ delegate' = [delegate EXCEPT !.running = FALSE]
    /\ fate' = [m \in LocMsg |-> IF \E i \in DOMAIN msgq.list : msgq.list[i] = m
                                 THEN [fate[m] EXCEPT !.freed = @ + 1] ELSE fate[m]]
    /\ msgq' = [msgq EXCEPT !.list = <<>>, !.alive = FALSE]
    /\ loop' = [loop EXCEPT !.pc = "destroy"]
    /\ UNCHANGED <<owner, log>>

\* mutant: whoever lets go deletes.
LetGoDeleting ==
    delegate' = [delegate EXCEPT !.refs = IF @ > 0 THEN @ - 1 ELSE @, !.deleted = @ + 1]

\* LocThreadDelegate::destroy, by the thread and by the owner.
LetGo ==
    delegate' = IF delegate.refs > 0
                THEN [delegate EXCEPT !.refs = @ - 1,
                         !.deleted = IF delegate.refs = 1 THEN @ + 1 ELSE @]
                ELSE delegate

ThreadLetsGo ==
    /\ loop.pc = "destroy"
    /\ LetGo
    /\ loop' = [loop EXCEPT !.pc = "ended"]
    /\ UNCHANGED <<msgq, owner, fate, log>>

-----------------------------------------------------------------------------
(* MsgTask::destroy by the owner.                                          *)

Bye == IF delegate.joinable THEN "stop" ELSE "destroy"

\* mutant: the thread is not woken.
UnblockSilently ==
    /\ owner = "sends"
    /\ msgq' = [msgq EXCEPT !.unblocked = TRUE]
    /\ owner' = "unblocked"
    /\ UNCHANGED <<loop, delegate, fate, log>>

Unblock ==
    /\ owner = "sends"
    /\ msgq' = [msgq EXCEPT !.unblocked = TRUE]
    /\ loop' = Woken
    /\ owner' = "unblocked"
    /\ UNCHANGED <<delegate, fate, log>>

\* mThread is read and cleared in the task, which its thread may have freed:
\* the memory still holds it, or the owner is lost and what follows undefined.
TakeThread ==
    /\ owner = "unblocked"
    /\ owner' \in {Bye} \cup (IF msgq.alive THEN {} ELSE {"lost"})
    /\ UNCHANGED <<msgq, loop, delegate, fate, log>>

StopRunning ==
    /\ owner = "stop"
    /\ delegate' = [delegate EXCEPT !.running = FALSE, !.joinable = FALSE]
    /\ owner' = "join"
    /\ UNCHANGED <<msgq, loop, fate, log>>

\* mutant: the delegate is freed when the thread is joined.
JoinThreadDeleting ==
    /\ owner = "join"
    /\ delegate' = [delegate EXCEPT !.deleted = @ + 1]
    /\ owner' = "destroy"
    /\ UNCHANGED <<msgq, loop, fate, log>>

JoinThread ==
    /\ owner = "join" /\ loop.pc = "ended"
    /\ owner' = "destroy"
    /\ UNCHANGED <<msgq, loop, delegate, fate, log>>

OwnerLetsGo ==
    /\ owner = "destroy"
    /\ LetGo
    /\ owner' = "gone"
    /\ UNCHANGED <<msgq, loop, fate, log>>

ThreadMain ==
    \/ StartThread \/ CheckRunning \/ EnterRcv \/ MsgRcv \/ ProcEnds \/ DeleteRunnable \/ ThreadLetsGo
Destroyer == TakeThread \/ StopRunning \/ JoinThread \/ OwnerLetsGo

MtNext == ThreadMain \/ Destroyer \/ OwnerSends \/ HandlerSends \/ Unblock

MtSpec == MtInit /\ [][MtNext]_mtVars

-----------------------------------------------------------------------------
(* Properties.                                                             *)

\* Types of the queue, the thread, the delegate and the messages.
MtTypeOK ==
    /\ msgq \in [list : Seq(LocMsg), unblocked : BOOLEAN, alive : BOOLEAN]
    /\ loop \in [pc : {"start", "check", "enter", "rcv", "sleep", "proc", "exit", "destroy", "ended"},
                 msg : LocMsg \cup {NoMsg}]
    /\ delegate \in [running : BOOLEAN, joinable : BOOLEAN, refs : 0 .. 2, deleted : 0 .. 1]
    /\ owner \in {"sends", "unblocked", "stop", "join", "destroy", "gone", "lost"}
    /\ fate \in [LocMsg -> [at : {"new", "queued", "handled", "refused"}, freed : 0 .. 1]]
    /\ log \in [accepted : Seq(LocMsg), handled : Seq(LocMsg)]

\* A message that is accepted is freed once: when it was handled, or with the
\* task.  One that waits or is being handled is not freed yet, and none is ever
\* when the thread was stopped before it started: then none was handled.
MessageFreedOnce ==
    \A m \in LocMsg :
        /\ fate[m].at = "queued" /\ msgq.alive => fate[m].freed = 0
        /\ loop.msg = m => fate[m].freed = 0
        /\ loop.pc = "ended" =>
            IF msgq.alive THEN fate[m].at # "handled"
                          ELSE fate[m].freed = 1 <=> fate[m].at \in {"queued", "handled"}

\* Messages are handled in the order they were accepted, and none after it was
\* left in the queue.
HandledInOrder == log.handled = SubSeq(log.accepted, 1, Len(log.handled))

\* Neither the owner nor the thread uses the delegate after it is freed, and it
\* is freed once, when both have let it go.  The task is freed after the owner
\* has unblocked its queue, and its thread does not use it afterwards.
DelegateOutlivesUsers ==
    /\ owner # "gone" \/ loop.pc # "ended" => delegate.deleted = 0
    /\ owner = "gone" /\ loop.pc = "ended" => delegate.deleted = 1
    /\ ~msgq.alive => loop.pc \in {"destroy", "ended"} /\ owner # "sends"

\* The comment of destroy says that the task is deleted once its thread object
\* is, so not while destroy still has to take mThread from it.
RunnableOutlivesOwner == owner = "unblocked" => msgq.alive

\* The comment of LocThread says that a runnable whose thread was started is
\* deleted by LocThread: it is when both have let the thread go.
RunnableDeleted == owner = "gone" /\ loop.pc = "ended" => ~msgq.alive

\* A task that its owner ends does end, though its thread may sleep, unless the
\* owner is lost in the freed task: the thread ends even then.
TaskEnds == []<>(owner # "sends" => owner \in {"gone", "lost"} /\ loop.pc = "ended")
\* What is accepted is handled in order, or left in the queue, and freed once.
MessagesKept == HandledInOrder /\ MessageFreedOnce
=============================================================================
