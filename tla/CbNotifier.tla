------------------------------ MODULE CbNotifier ------------------------------
(* The notifier by which the camera HAL calls the application.  Threads of   *)
(* the HAL put notifications in mDataQ and one job command for each into the *)
(* thread's command queue; starting and stopping the snapshot mode, and the  *)
(* end, are commands that go to the head of the queue.  The notifier thread  *)
(* calls the application, reports the last snapshot to the state machine and *)
(* waits for its answer, and releases what the notification holds.           *)

EXTENDS Queues

CONSTANTS
    Note,       \* notifications, each sent once
    NoNote,     \* no notification
    Kind,       \* what each one is: notify, video or snapshot
    Sender,     \* threads that send them
    MaxModes,   \* bound on changes of the snapshot mode
    MaxExpected, \* bound on numOfSnapshotsExpected
    CbMayFail   \* may mDataQ be without memory

ASSUME CbAssumption ==
    /\ IsFiniteSet(Note) /\ IsFiniteSet(Sender) /\ NoNote \notin Note
    /\ Kind \in [Note -> {"notify", "video", "snapshot"}]
    /\ MaxModes \in Nat /\ MaxExpected \in Nat /\ CbMayFail \in BOOLEAN

VARIABLES
    cb,         \* QCameraCbNotifier: mActive, mDataQ, the commands; what was sent
    cbTh,       \* cbNotifyRoutine
    sender,     \* how far each sender is: idle, checked or queued
    released    \* how often the data of each notification was released

cbVars == <<cb, cbTh, sender, released>>

CbInit ==
    /\ cb = [mActive |-> FALSE, dataQ |-> <<>>, cmds |-> <<>>, modes |-> 0, mode |-> "STOP",
             sent |-> {}]
    /\ cbTh = [pc |-> "none", note |-> NoNote, isSnapshotActive |-> FALSE,
               longShot |-> FALSE, expected |-> 0, rcvd |-> 0, done |-> 0]
    /\ sender = [s \in Sender |-> [pc |-> "idle", note |-> NoNote]]
    /\ released = [n \in Note |-> 0]

InQ(n) == \E i \in DOMAIN cb.dataQ : cb.dataQ[i] = n

ReleaseAll(S) == [n \in Note |-> released[n] + (IF n \in S THEN 1 ELSE 0)]
OfKind(k) == {n \in Note : InQ(n) /\ Kind[n] = k}
NotOfKind(k) == Kept(cb.dataQ, {i \in DOMAIN cb.dataQ : Kind[cb.dataQ[i]] # k})

-----------------------------------------------------------------------------
(* The threads of the HAL.                                                 *)

SetCallbacks ==
    /\ cbTh.pc = "none"
    /\ cb' = [cb EXCEPT !.mActive = TRUE]
    /\ cbTh' = [cbTh EXCEPT !.pc = "wait"]
    /\ UNCHANGED <<sender, released>>

\* A sender that finds the notifier ended releases the data itself.
NotifyCallback(s) ==
    /\ sender[s].pc = "idle"
    /\ \E n \in Note \ cb.sent :
        /\ cb' = [cb EXCEPT !.sent = @ \cup {n}]
        /\ IF cb.mActive
           THEN /\ sender' = [sender EXCEPT ![s] = [pc |-> "checked", note |-> n]]
                /\ UNCHANGED released
           ELSE released' = ReleaseAll({n}) /\ UNCHANGED sender
    /\ UNCHANGED cbTh

\* The notification is queued, though the notifier may have ended meanwhile.
Enqueue(s) ==
    /\ sender[s].pc = "checked"
    /\ cb' = [cb EXCEPT !.dataQ = Append(@, sender[s].note)]
    /\ sender' = [sender EXCEPT ![s] = [pc |-> "queued", note |-> NoNote]]
    /\ UNCHANGED <<cbTh, released>>

\* Without memory for it the sender releases its data itself.
EnqueueFails(s) ==
    /\ CbMayFail /\ sender[s].pc = "checked"
    /\ released' = ReleaseAll({sender[s].note})
    /\ sender' = [sender EXCEPT ![s] = [pc |-> "idle", note |-> NoNote]]
    /\ UNCHANGED <<cb, cbTh>>

\* mutant: no command is sent while one waits.
SendJobOnce(s) ==
    /\ sender[s].pc = "queued"
    /\ cb' = IF \E i \in DOMAIN cb.cmds : cb.cmds[i] = "JOB" THEN cb
             ELSE [cb EXCEPT !.cmds = Append(@, "JOB")]
    /\ sender' = [sender EXCEPT ![s].pc = "idle"]
    /\ UNCHANGED <<cbTh, released>>

\* Then its command is sent.
SendJob(s) ==
    /\ sender[s].pc = "queued"
    /\ cb' = [cb EXCEPT !.cmds = Append(@, "JOB")]
    /\ sender' = [sender EXCEPT ![s].pc = "idle"]
    /\ UNCHANGED <<cbTh, released>>

\* mutant: what is flushed is not released.
FlushVideoKeeping ==
    /\ cb.mActive
    /\ cb' = [cb EXCEPT !.dataQ = NotOfKind("video")]
    /\ UNCHANGED <<cbTh, sender, released>>

\* mutant: what is flushed stays in the queue.
FlushVideoTwice ==
    /\ cb.mActive
    /\ released' = ReleaseAll(OfKind("video"))
    /\ UNCHANGED <<cb, cbTh, sender>>

FlushVideoNotifications ==
    /\ cb.mActive
    /\ released' = ReleaseAll(OfKind("video"))
    /\ cb' = [cb EXCEPT !.dataQ = NotOfKind("video")]
    /\ UNCHANGED <<cbTh, sender>>

\* startSnapshots and stopSnapshots: the postprocessor starts and stops.
SetMode(m) ==
    /\ cb.modes < MaxModes /\ cb.mode # m /\ cb.mActive
    /\ cb' = [cb EXCEPT !.cmds = <<m>> \o @, !.mode = m, !.modes = @ + 1]
    /\ UNCHANGED <<cbTh, sender, released>>

CbExit ==
    /\ cb.mActive
    /\ cb' = [cb EXCEPT !.mActive = FALSE, !.cmds = <<"EXIT">> \o @]
    /\ UNCHANGED <<cbTh, sender, released>>

\* The notifier is destroyed, and with it its queue, once the thread is
\* joined and no other thread calls.
Destroy ==
    /\ cbTh.pc = "ended" /\ \A s \in Sender : sender[s].pc = "idle"
    /\ cbTh' = [cbTh EXCEPT !.pc = "destroyed"]
    /\ released' = ReleaseAll({n \in Note : InQ(n)})
    /\ cb' = [cb EXCEPT !.dataQ = <<>>]
    /\ UNCHANGED sender

-----------------------------------------------------------------------------
(* cbNotifyRoutine.                                                        *)

CbTake(c) ==
    /\ cbTh.pc = "wait" /\ cb.cmds # <<>> /\ Head(cb.cmds) = c

\* How many pictures are expected is read when the command is handled.
StartDataProc ==
    /\ CbTake("START")
    /\ \E n \in 1 .. MaxExpected, l \in BOOLEAN :
        cbTh' = [cbTh EXCEPT !.isSnapshotActive = TRUE, !.expected = n, !.longShot = l,
                             !.rcvd = 0, !.done = 0]
    /\ cb' = [cb EXCEPT !.cmds = Tail(@)]
    /\ UNCHANGED <<sender, released>>

StopDataProc ==
    /\ CbTake("STOP")
    /\ cbTh' = [cbTh EXCEPT !.isSnapshotActive = FALSE, !.expected = 0, !.rcvd = 0]
    /\ cb' = [cb EXCEPT !.cmds = Tail(@), !.dataQ = NotOfKind("snapshot")]
    /\ released' = ReleaseAll(OfKind("snapshot"))
    /\ UNCHANGED sender

\* mutant: every picture after the last one expected is reported, too.
DoNextJobAtLeast ==
    /\ CbTake("JOB")
    /\ IF cb.dataQ = <<>>
       THEN cb' = [cb EXCEPT !.cmds = Tail(@)] /\ UNCHANGED cbTh
       ELSE LET n == Head(cb.dataQ)
                counts == /\ Kind[n] = "snapshot"
                          /\ cbTh.isSnapshotActive /\ ~cbTh.longShot
            IN  /\ cb' = [cb EXCEPT !.cmds = Tail(@), !.dataQ = Tail(@)]
                /\ \/ /\ counts
                      /\ cbTh' = [cbTh EXCEPT !.note = n, !.rcvd = @ + 1,
                                     !.pc = IF cbTh.expected <= cbTh.rcvd + 1
                                            THEN "sync" ELSE "call"]
                   \/ ~counts /\ cbTh' = [cbTh EXCEPT !.note = n, !.pc = "call"]
    /\ UNCHANGED <<sender, released>>

\* A notification is taken, if flushes left one; the message type may be
\* disabled.  The last snapshot expected is first reported to the state
\* machine.
DoNextJob ==
    /\ CbTake("JOB")
    /\ IF cb.dataQ = <<>>
       THEN cb' = [cb EXCEPT !.cmds = Tail(@)] /\ UNCHANGED cbTh
       ELSE LET n == Head(cb.dataQ)
                counts == /\ Kind[n] = "snapshot"
                          /\ cbTh.isSnapshotActive /\ ~cbTh.longShot
            IN  /\ cb' = [cb EXCEPT !.cmds = Tail(@), !.dataQ = Tail(@)]
                /\ \/ /\ counts
                      /\ cbTh' = [cbTh EXCEPT !.note = n, !.rcvd = @ + 1,
                                     !.pc = IF cbTh.expected = cbTh.rcvd + 1
                                            THEN "sync" ELSE "call"]
                   \/ ~counts /\ cbTh' = [cbTh EXCEPT !.note = n, !.pc = "call"]
    /\ UNCHANGED <<sender, released>>

\* The message type of the notification is not enabled.
SkipDisabled ==
    /\ CbTake("JOB") /\ cb.dataQ # <<>>
    /\ cb' = [cb EXCEPT !.cmds = Tail(@), !.dataQ = Tail(@)]
    /\ released' = ReleaseAll({Head(cb.dataQ)})
    /\ UNCHANGED <<cbTh, sender>>

\* processSyncEvt(SNAPSHOT_DONE) returns.
SnapshotDoneAnswered ==
    /\ cbTh.pc = "sync"
    /\ cbTh' = [cbTh EXCEPT !.pc = "call", !.done = @ + 1]
    /\ UNCHANGED <<cb, sender, released>>

\* The application returns from its callback.
CallbackReturns ==
    /\ cbTh.pc = "call"
    /\ released' = ReleaseAll({cbTh.note})
    /\ cbTh' = [cbTh EXCEPT !.pc = "wait", !.note = NoNote]
    /\ UNCHANGED <<cb, sender>>

\* mutant: what is released stays in the queue.
ExitRoutineKeeping ==
    /\ CbTake("EXIT")
    /\ cbTh' = [cbTh EXCEPT !.pc = "ended"]
    /\ released' = ReleaseAll({n \in Note : InQ(n)})
    /\ cb' = [cb EXCEPT !.cmds = Tail(@)]
    /\ UNCHANGED sender

\* The rest of mDataQ is released.
ExitRoutine ==
    /\ CbTake("EXIT")
    /\ cbTh' = [cbTh EXCEPT !.pc = "ended"]
    /\ released' = ReleaseAll({n \in Note : InQ(n)})
    /\ cb' = [cb EXCEPT !.cmds = Tail(@), !.dataQ = <<>>]
    /\ UNCHANGED sender

NotifierThread ==
    \/ StartDataProc \/ StopDataProc \/ DoNextJob \/ SkipDisabled
    \/ SnapshotDoneAnswered \/ CallbackReturns \/ ExitRoutine

\* Fairness: a sender goes on, the thread runs, the notifier is destroyed.
CbFair(s) == Enqueue(s) \/ SendJob(s)

CbNext ==
    \/ NotifierThread
    \/ SetCallbacks \/ FlushVideoNotifications \/ CbExit \/ Destroy
    \/ \E s \in Sender : NotifyCallback(s) \/ Enqueue(s) \/ EnqueueFails(s) \/ SendJob(s)
    \/ \E m \in {"START", "STOP"} : SetMode(m)

CbSpec == CbInit /\ [][CbNext]_cbVars

-----------------------------------------------------------------------------
(* Properties.                                                             *)

\* Types of the notifier, its thread and the senders.
CbTypeOK ==
    /\ cb \in [mActive : BOOLEAN, dataQ : Seq(Note),
               cmds : Seq({"JOB", "START", "STOP", "EXIT"}),
               modes : Nat, mode : {"START", "STOP"}, sent : SUBSET Note]
    /\ cbTh \in [pc : {"none", "wait", "sync", "call", "ended", "destroyed"},
                 note : Note \cup {NoNote}, isSnapshotActive : BOOLEAN,
                 longShot : BOOLEAN, expected : Nat, rcvd : Nat, done : Nat]
    /\ sender \in [Sender -> [pc : {"idle", "checked", "queued"}, note : Note \cup {NoNote}]]
    /\ released \in [Note -> {0, 1}]

\* Who has a notification: the queue, the thread, a sender.
Holders(n) ==
    Cardinality({i \in DOMAIN cb.dataQ : cb.dataQ[i] = n})
    + (IF cbTh.note = n THEN 1 ELSE 0) + Cardinality({s \in Sender : sender[s].note = n})

\* The data of a notification has one holder until it is released, once, by
\* whoever took it from the queue: the callback's end, a flush, the end of
\* the thread, the destruction of the queue, or the sender that was refused.
NoteReleasedOnce ==
    \A n \in Note : Holders(n) + released[n] = (IF n \in cb.sent THEN 1 ELSE 0)

JobsIn == Cardinality({i \in DOMAIN cb.cmds : cb.cmds[i] = "JOB"})

\* No notification is left in the queue without a job command that will take
\* it, though flushes take notifications and leave their commands.
NoNoteStranded ==
    cbTh.pc \in {"wait", "sync", "call"} =>
        Len(cb.dataQ) <= JobsIn + Cardinality({s \in Sender : sender[s].pc = "queued"})

\* The state machine hears of a picture's end once for a start of the
\* snapshot mode, and only when all the pictures expected have come.
SnapshotDoneOnce ==
    /\ cbTh.done <= 1
    /\ cbTh.pc = "sync" => cbTh.done = 0 /\ cbTh.rcvd = cbTh.expected

\* Every notification that was sent is released in the end, whatever is
\* flushed or stopped meanwhile.
NoteEnds == \A n \in Note : []<>(n \in cb.sent => released[n] = 1)

\* When the commands are worked off the snapshot mode is the one asked for
\* last (startSnapshots "Enables snapshot mode").
LastModeHolds ==
    cbTh.pc = "wait" /\ cb.cmds = <<>> => (cbTh.isSnapshotActive <=> cb.mode = "START")
\* A notification reaches its callback or its release, once: it has one holder
\* until then, a job comes for it, and the end of a picture is told once.
NotesHandledOnce == NoteReleasedOnce /\ NoNoteStranded /\ SnapshotDoneOnce
=============================================================================
