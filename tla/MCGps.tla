------------------------------- MODULE MCGps -------------------------------
(* The parts of the location code that share no variable, in one run: TLC  *)
(* explores each of them for itself, from the initial states of that part. *)

EXTENDS LocSyncReq, LocTimer, MsgTask, Agps

VARIABLE part    \* the part this behaviour runs; the others stay where they began

\* What has several initial values varies in its own part only.
GpsInit ==
    /\ part \in {"sync_req", "timer", "task", "agps"}
    /\ Init /\ LtInit /\ MtInit /\ AgInit
    /\ part # "agps" => agps.kind = "ds"
    /\ part # "task" => delegate.joinable

gpsVars == <<part, vars, ltVars, mtVars, agVars>>

InSyncReq == part = "sync_req" /\ UNCHANGED <<part, ltVars, mtVars, agVars>>
InTimer   == part = "timer"    /\ UNCHANGED <<part, vars, mtVars, agVars>>
InTask    == part = "task"     /\ UNCHANGED <<part, vars, ltVars, agVars>>
InAgps    == part = "agps"     /\ UNCHANGED <<part, vars, ltVars, mtVars>>

GpsNext ==
    \/ InSyncReq /\ Next
    \/ InTimer /\ LtNext
    \/ InTask /\ MtNext
    \/ InAgps /\ AgNext

GpsSpec == GpsInit /\ [][GpsNext]_gpsVars

\* The fairness of the parts, one thread of each part at a time: since a
\* behaviour stays in its part, a disjunction over the parts is as fair to
\* the thread of that part as the thread alone.
GpsFairSpec ==
    /\ GpsSpec
    /\ WF_gpsVars(\/ InSyncReq /\ (VisitSlot \/ EndWalk)
                  \/ InTimer /\ TimerTask
                  \/ InTask /\ ThreadMain
                  \/ InAgps /\ AgpsHandler)
    /\ WF_gpsVars(\/ InTimer /\ PollThread
                  \/ InTask /\ Destroyer
                  \/ InAgps /\ NetAnswers)
    /\ WF_gpsVars(\/ InTimer /\ Tick
                  \/ InAgps /\ RetryCallback)
    /\ \A c \in Caller : SF_gpsVars(InSyncReq /\ CallerStep(c))
\* Types of the four parts.
GpsTypeOK == TypeOK /\ LtTypeOK /\ MtTypeOK /\ AgTypeOK

\* Requests, timers, tasks and the connections' questions end.
GpsCallsEnd == EveryCallReturns /\ StartedTimerEnds /\ TaskEnds /\ AskingEnds
=============================================================================
