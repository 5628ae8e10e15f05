------------------------ MODULE HalStateMachineApi ------------------------
(* The state machine keeps the promise of HalApi: what is asked for and    *)
(* not answered yet is what waits in api_queue, the command being handled, *)
(* and the PREPARE_SNAPSHOT that brought the state of that name.           *)

EXTENDS HalStateMachine, FiniteSets

EvtCode == {Code(e) : e \in ApiEvt}

InQueue(e) == {i \in 1 .. Len(api_queue) : Code(api_queue[i].evt) = e}
Results(e) == {i \in 1 .. Len(m_apiResultList) : Code(m_apiResultList[i].evt) = e}
One(b) == IF b THEN 1 ELSE 0

Asked(e) ==
    Cardinality(InQueue(e)) + One(Code(cur.evt) = e)
        + One(e = "PREPARE_SNAPSHOT" /\ hal.m_state = "PREPARE_SNAPSHOT")
Answered(e) == Cardinality(Results(e))

Api == INSTANCE HalApi WITH
    Evt <- EvtCode,
    Unattended <- {"CANCEL_PICTURE"},   \* LiveSnapshotThread
    Unanswered <- {"REG_FACE_IMAGE"},   \* PreparingIgnore
    waits <- [c \in Caller |-> Code(call[c].evt)],
    asked <- [e \in EvtCode |-> Asked(e)],
    answered <- [e \in EvtCode |-> Answered(e)]

\* Every step of the machine and its callers is a step of HalApi: a result
\* is signalled once for each event asked for, and a thread returns with a
\* result of its own event.  Only the live snapshot's CANCEL_PICTURE is asked
\* for by a thread that does not wait, and only REG_FACE_IMAGE is dropped, in
\* the state PREPARE_SNAPSHOT.
KeepsApi == Api!Spec
=============================================================================
