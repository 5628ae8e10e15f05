--------------------------------- MODULE Agps ---------------------------------
(* The AGPS state machine of the location engine.  Connections of the modem   *)
(* (and the wifi daemon's requests) subscribe to a network; the first makes   *)
(* the machine ask for it, the last to go makes it ask for its release.  The  *)
(* answers come as messages that do not name the request they answer.  Three  *)
(* kinds: "atl" removes a subscriber at once, "wifi" keeps it inactive until  *)
(* the network is released, and "ds", the emergency data call, whose request  *)
(* may be refused and is then retried by a timer.                             *)

EXTENDS Queues

CONSTANTS
    Conn,       \* connections, each asked for once
    NoConn,     \* of a message that names none
    AgpsKinds,  \* kinds of machine considered
    MaxRetries, \* MAX_START_DATA_CALL_RETRIES
    MaxLosses,  \* bound on networks lost and engines restarted
    MaxBusy     \* bound on the refusals to be retried

ASSUME AgpsAssumption ==
    /\ NoConn \notin Conn /\ AgpsKinds \subseteq {"atl", "wifi", "ds"}
    /\ MaxRetries \in Nat /\ MaxLosses \in Nat /\ MaxBusy \in Nat

VARIABLES
    agps,       \* the machine: kind, mEnforceSingleSubscriber, state,
                \* subscribers, mRetries and the retry timers that run
    net,        \* the framework or data service: requests to it, and whether
                \* the network is up
    queue,      \* messages to the thread of the location engine
    modem,      \* what each connection has been told
    faults      \* losses and refusals so far

agVars == <<agps, net, queue, modem, faults>>

AgInit ==
    /\ agps \in [kind : AgpsKinds, single : BOOLEAN, state : {"Released"},
                 subs : {<<>>}, retries : {0}, timers : {0}]
    /\ agps.single => agps.kind = "atl"
    /\ net = [reqs |-> <<>>, up |-> FALSE]
    /\ queue = <<>>
    /\ modem = [c \in Conn |-> "new"]
    /\ faults = [lost |-> 0, busy |-> 0]

Message(event, c) == [event |-> event, conn |-> c]
AgWaits == agps.kind # "atl"    \* waitForCloseComplete

-----------------------------------------------------------------------------
(* Subscribers, the newest first, and what a notification tells them.      *)

Subscriber(c) == [conn |-> c, inactive |-> FALSE]
HasSub(subs, c) == \E i \in DOMAIN subs : subs[i].conn = c
Active(subs) == Kept(subs, {i \in DOMAIN subs : ~subs[i].inactive})
Inactive(subs) == Kept(subs, {i \in DOMAIN subs : subs[i].inactive})
WithoutSub(subs, c) == Kept(subs, {i \in DOMAIN subs : subs[i].conn # c})
AddSubscriber(subs, c) == IF HasSub(subs, c) THEN subs ELSE <<Subscriber(c)>> \o subs
SetInactive(subs, c) ==
    [i \in DOMAIN subs |-> IF subs[i].conn = c THEN [subs[i] EXCEPT !.inactive = TRUE] ELSE subs[i]]

\* What a connection makes of what it is told.
Learns(m, status) ==
    IF m = "lost" THEN m
    ELSE CASE status = "GRANTED" -> IF m = "asked" THEN "open"
                                    ELSE IF m = "done" THEN "unasked" ELSE m
           [] status = "DENIED" ->
                (CASE agps.kind = "atl" -> IF m = "asked" THEN "done" ELSE m
                   [] agps.kind = "wifi" -> "done"
                   [] OTHER -> IF m = "done" THEN "unasked" ELSE "done")
           [] status = "RELEASED" -> IF agps.kind = "ds" THEN m ELSE "done"
           [] status = "UNSUBSCRIBE" -> IF agps.kind = "wifi" THEN m ELSE "done"

TellFrom(told, subs, status) ==
    [c \in Conn |-> IF HasSub(subs, c) THEN Learns(told[c], status) ELSE told[c]]
Tell(subs, status) == TellFrom(modem, subs, status)

\* Subscribers of a data call that are told of its release close the call.
CloseCalls(subs, status) ==
    IF agps.kind = "ds" /\ status = "RELEASED" THEN [net EXCEPT !.up = FALSE] ELSE net

Asking(n, action) == [n EXCEPT !.reqs = Append(@, action)]

\* mutant: it is tried again without end.
SendRsrcRequestEndless(subs, n, told) ==
    {[ok |-> TRUE, net |-> Asking(n, "REQUEST"), modem |-> told, busy |-> faults.busy,
      retries |-> agps.retries, timers |-> agps.timers]} \cup
    (IF agps.kind = "ds" /\ faults.busy < MaxBusy
     THEN {[ok |-> FALSE, net |-> n, modem |-> told, busy |-> faults.busy + 1,
            retries |-> agps.retries + 1, timers |-> agps.timers + 1]}
     ELSE {})

\* sendRsrcRequest(GPS_REQUEST_AGPS_DATA_CONN), what can come of it.  A data
\* call that is busy will be tried again by a timer; after too many trials, or
\* without a profile, its newest subscriber is sent to the AGPS network.  The
\* subscriber stays in every case.
SendRsrcRequest(subs, n, told) ==
    {[ok |-> TRUE, net |-> Asking(n, "REQUEST"), modem |-> told, busy |-> faults.busy,
      retries |-> agps.retries, timers |-> agps.timers]} \cup
    (IF agps.kind = "ds" /\ faults.busy < MaxBusy /\ agps.retries < MaxRetries
     THEN {[ok |-> FALSE, net |-> n, modem |-> told, busy |-> faults.busy + 1,
            retries |-> agps.retries + 1, timers |-> agps.timers + 1]}
     ELSE {}) \cup
    (IF agps.kind = "ds"
     THEN {[ok |-> FALSE, net |-> n, busy |-> faults.busy, retries |-> 0,
            modem |-> TellFrom(told, SubSeq(Active(subs), 1, 1), "DENIED"),
            timers |-> agps.timers]}
     ELSE {})

-----------------------------------------------------------------------------
(* Requests of the modem.                                                  *)

AgTake(event) == queue # <<>> /\ Head(queue).event = event

\* A second subscriber where only one is allowed is denied.
SubscribeRefused ==
    /\ AgTake("SUBSCRIBE") /\ agps.single /\ agps.subs # <<>>
    /\ modem' = Tell(<<Subscriber(Head(queue).conn)>>, "DENIED")
    /\ queue' = Tail(queue)
    /\ UNCHANGED <<agps, net, faults>>

\* AgpsReleasedState: the network is asked for, and waited for unless a data
\* call cannot start.
SubscribeReleased ==
    /\ AgTake("SUBSCRIBE") /\ agps.state = "Released"
    /\ ~(agps.single /\ agps.subs # <<>>)
    /\ LET subs == AddSubscriber(agps.subs, Head(queue).conn) IN
        \E r \in SendRsrcRequest(subs, net, modem) :
            /\ agps' = [agps EXCEPT !.subs = subs, !.retries = r.retries, !.timers = r.timers,
                           !.state = IF r.ok THEN "Pending" ELSE "Released"]
            /\ net' = r.net /\ modem' = r.modem
            /\ faults' = [faults EXCEPT !.busy = r.busy]
    /\ queue' = Tail(queue)

\* AgpsPendingState and AgpsReleasingState: the subscriber waits with the others.
SubscribeWaits ==
    /\ AgTake("SUBSCRIBE") /\ agps.state \in {"Pending", "Releasing"}
    /\ ~(agps.single /\ agps.subs # <<>>)
    /\ agps' = [agps EXCEPT !.subs = AddSubscriber(@, Head(queue).conn)]
    /\ queue' = Tail(queue)
    /\ UNCHANGED <<net, modem, faults>>

\* AgpsAcquiredState: it is told at once.
SubscribeAcquired ==
    /\ AgTake("SUBSCRIBE") /\ agps.state = "Acquired"
    /\ ~(agps.single /\ agps.subs # <<>>)
    /\ modem' = Tell(<<Subscriber(Head(queue).conn)>>, "GRANTED")
    /\ agps' = [agps EXCEPT !.subs = AddSubscriber(@, Head(queue).conn)]
    /\ queue' = Tail(queue)
    /\ UNCHANGED <<net, faults>>

\* Nobody has subscribed with that connection: it is told so, by wifi nothing.
UnsubscribeUnknown ==
    /\ AgTake("UNSUBSCRIBE") /\ ~HasSub(agps.subs, Head(queue).conn)
    /\ modem' = [modem EXCEPT ![Head(queue).conn] =
                    IF agps.kind = "wifi" \/ @ = "lost" THEN @ ELSE "done"]
    /\ queue' = Tail(queue)
    /\ UNCHANGED <<agps, net, faults>>

\* In AgpsReleasedState a subscriber is told, and stays.
UnsubscribeReleased ==
    /\ AgTake("UNSUBSCRIBE") /\ agps.state = "Released" /\ HasSub(agps.subs, Head(queue).conn)
    /\ modem' = Tell(<<Subscriber(Head(queue).conn)>>, "UNSUBSCRIBE")
    /\ queue' = Tail(queue)
    /\ UNCHANGED <<agps, net, faults>>

\* mutant: a subscriber that goes stays subscribed.
LeaveStaying(c) == agps.subs

\* What is left of the subscribers, and what they are told, when one goes.
Leave(c) ==
    IF AgWaits THEN SetInactive(agps.subs, c) ELSE WithoutSub(agps.subs, c)
LeaveTold(c) ==
    IF agps.kind = "wifi" THEN modem ELSE Tell(<<Subscriber(c)>>, "UNSUBSCRIBE")

\* mutant: inactive subscribers do not keep the machine from Released.
UnsubscribeToReleased ==
    /\ AgTake("UNSUBSCRIBE") /\ agps.state \in {"Pending", "Acquired"}
    /\ HasSub(agps.subs, Head(queue).conn)
    /\ LET subs == Leave(Head(queue).conn) IN
        /\ agps' = [agps EXCEPT !.subs = subs,
                       !.state = IF Active(subs) = <<>> THEN "Released" ELSE @]
        /\ net' = IF Active(subs) = <<>> THEN Asking(net, "RELEASE") ELSE net
    /\ modem' = LeaveTold(Head(queue).conn)
    /\ queue' = Tail(queue)
    /\ UNCHANGED faults

\* AgpsPendingState and AgpsAcquiredState: when no active one is left the
\* network is released.
Unsubscribe ==
    /\ AgTake("UNSUBSCRIBE") /\ agps.state \in {"Pending", "Acquired"}
    /\ HasSub(agps.subs, Head(queue).conn)
    /\ LET subs == Leave(Head(queue).conn) IN
        /\ agps' = [agps EXCEPT !.subs = subs,
                       !.state = IF subs = <<>> THEN "Released"
                                 ELSE IF Active(subs) = <<>> THEN "Releasing" ELSE @]
        /\ net' = IF Active(subs) = <<>> THEN Asking(net, "RELEASE") ELSE net
    /\ modem' = LeaveTold(Head(queue).conn)
    /\ queue' = Tail(queue)
    /\ UNCHANGED faults

\* AgpsReleasingState.
UnsubscribeReleasing ==
    /\ AgTake("UNSUBSCRIBE") /\ agps.state = "Releasing"
    /\ HasSub(agps.subs, Head(queue).conn)
    /\ LET subs == Leave(Head(queue).conn) IN
        agps' = [agps EXCEPT !.subs = subs, !.state = IF subs = <<>> THEN "Released" ELSE @]
    /\ modem' = LeaveTold(Head(queue).conn)
    /\ queue' = Tail(queue)
    /\ UNCHANGED <<net, faults>>

-----------------------------------------------------------------------------
(* Answers of the network.                                                 *)

\* mutant: inactive subscribers are told, too.
GrantedToAll ==
    /\ AgTake("GRANTED")
    /\ IF agps.state = "Pending"
       THEN /\ agps' = [agps EXCEPT !.state = "Acquired"]
            /\ modem' = [c \in Conn |-> IF HasSub(agps.subs, c) THEN "open" ELSE modem[c]]
       ELSE UNCHANGED <<agps, modem>>
    /\ queue' = Tail(queue)
    /\ UNCHANGED <<net, faults>>

\* Granted counts only where it is waited for.
Granted ==
    /\ AgTake("GRANTED")
    /\ IF agps.state = "Pending"
       THEN /\ agps' = [agps EXCEPT !.state = "Acquired"]
            /\ modem' = Tell(Active(agps.subs), "GRANTED")
       ELSE UNCHANGED <<agps, modem>>
    /\ queue' = Tail(queue)
    /\ UNCHANGED <<net, faults>>

AllGo(status) ==
    /\ agps' = [agps EXCEPT !.state = "Released", !.subs = <<>>,
                   !.retries = IF status = "DENIED" /\ agps.subs # <<>> THEN 0 ELSE @]
    /\ modem' = Tell(agps.subs, status)
    /\ net' = CloseCalls(agps.subs, status)
    /\ UNCHANGED faults

\* mutant: the network is not asked for again.
ReleasingEndsOnly ==
    /\ agps' = [agps EXCEPT !.subs = Active(@),
                   !.state = IF Active(agps.subs) = <<>> THEN "Released" ELSE "Pending"]
    /\ modem' = Tell(Inactive(agps.subs), Head(queue).event)
    /\ net' = CloseCalls(Inactive(agps.subs), Head(queue).event)
    /\ UNCHANGED faults

\* AgpsReleasingState: the inactive ones go; if new ones have come meanwhile
\* the network is asked for again, and waited for even if a data call cannot
\* start.
ReleasingEnds ==
    LET active == Active(agps.subs)
        told == Tell(Inactive(agps.subs), Head(queue).event)
        closed == CloseCalls(Inactive(agps.subs), Head(queue).event) IN
    IF active = <<>>
    THEN /\ agps' = [agps EXCEPT !.subs = <<>>, !.state = "Released"]
         /\ modem' = told /\ net' = closed
         /\ UNCHANGED faults
    ELSE \E r \in SendRsrcRequest(active, closed, told) :
         /\ agps' = [agps EXCEPT !.subs = active, !.state = "Pending",
                        !.retries = r.retries, !.timers = r.timers]
         /\ net' = r.net /\ modem' = r.modem
         /\ faults' = [faults EXCEPT !.busy = r.busy]

Ignored == UNCHANGED <<agps, net, modem, faults>>

\* A network that could not be opened.
Denied ==
    /\ AgTake("DENIED")
    /\ \/ agps.state = "Pending" /\ AllGo("DENIED")
       \/ agps.state = "Releasing" /\ ReleasingEnds
       \/ agps.state \in {"Released", "Acquired"} /\ Ignored
    /\ queue' = Tail(queue)

\* A network that is closed.  Of a data call that is pending it means that it
\* could not be opened.
Released ==
    /\ AgTake("RELEASED")
    /\ \/ agps.state = "Acquired" /\ AllGo("RELEASED")
       \/ agps.state = "Releasing" /\ ReleasingEnds
       \/ agps.state = "Pending" /\ agps.kind = "ds" /\ AllGo("DENIED")
       \/ agps.state = "Pending" /\ agps.kind # "ds" /\ Ignored
       \/ agps.state = "Released" /\ Ignored
    /\ queue' = Tail(queue)

\* loc_eng_handle_engine_up: subscribers are dropped, the state is kept.
EngineUp ==
    /\ AgTake("ENGINE_UP")
    /\ agps' = [agps EXCEPT !.subs = <<>>]
    /\ queue' = Tail(queue)
    /\ UNCHANGED <<net, modem, faults>>

AgpsHandler ==
    \/ SubscribeRefused \/ SubscribeReleased \/ SubscribeWaits
    \/ SubscribeAcquired \/ UnsubscribeUnknown \/ UnsubscribeReleased \/ Unsubscribe
    \/ UnsubscribeReleasing \/ Granted \/ Denied \/ Released \/ EngineUp

-----------------------------------------------------------------------------
(* The modem, the network and the retry timer.                             *)

ModemAsks(c) ==
    /\ modem[c] = "new"
    /\ modem' = [modem EXCEPT ![c] = "asked"]
    /\ queue' = Append(queue, Message("SUBSCRIBE", c))
    /\ UNCHANGED <<agps, net, faults>>

ModemReleases(c) ==
    /\ modem[c] \in {"asked", "open"}
    /\ modem' = [modem EXCEPT ![c] = "closing"]
    /\ queue' = Append(queue, Message("UNSUBSCRIBE", c))
    /\ UNCHANGED <<agps, net, faults>>

\* The engine restarts, and knows of no connection then.
EngineRestarts ==
    /\ faults.lost < MaxLosses /\ agps.kind = "atl"
    /\ faults' = [faults EXCEPT !.lost = @ + 1]
    /\ modem' = [c \in Conn |-> IF modem[c] \in {"new", "done"} THEN modem[c] ELSE "lost"]
    /\ queue' = Append(queue, Message("ENGINE_UP", NoConn))
    /\ UNCHANGED <<agps, net>>

\* Every request is answered; an opening may fail.
NetAnswers ==
    /\ net.reqs # <<>>
    /\ \E up \in BOOLEAN :
        /\ Head(net.reqs) = "RELEASE" => ~up
        /\ net' = [reqs |-> Tail(net.reqs), up |-> up]
        /\ queue' = Append(queue, Message(
                IF up THEN "GRANTED"
                ELSE IF Head(net.reqs) = "RELEASE" \/ agps.kind = "ds" THEN "RELEASED"
                ELSE "DENIED", NoConn))
    /\ UNCHANGED <<agps, modem, faults>>

NetLost ==
    /\ net.up /\ faults.lost < MaxLosses
    /\ faults' = [faults EXCEPT !.lost = @ + 1]
    /\ net' = [net EXCEPT !.up = FALSE]
    /\ queue' = Append(queue, Message("RELEASED", NoConn))
    /\ UNCHANGED <<agps, modem>>

\* DSStateMachine::retryCallback: the newest active subscriber asks again.
RetryCallback ==
    /\ agps.timers > 0
    /\ agps' = [agps EXCEPT !.timers = @ - 1]
    /\ queue' = IF Active(agps.subs) = <<>> THEN queue
                ELSE Append(queue, Message("SUBSCRIBE", Head(Active(agps.subs)).conn))
    /\ UNCHANGED <<net, modem, faults>>

AgNext ==
    \/ AgpsHandler \/ EngineRestarts \/ NetAnswers \/ NetLost \/ RetryCallback
    \/ \E c \in Conn : ModemAsks(c) \/ ModemReleases(c)

AgSpec == AgInit /\ [][AgNext]_agVars

-----------------------------------------------------------------------------
(* Properties.                                                             *)

Events == {"SUBSCRIBE", "UNSUBSCRIBE", "GRANTED", "DENIED", "RELEASED", "ENGINE_UP"}

\* Types of the machine, the network, the messages and the connections.
AgTypeOK ==
    /\ agps \in [kind : AgpsKinds, single : BOOLEAN,
                 state : {"Released", "Pending", "Acquired", "Releasing"},
                 subs : Seq([conn : Conn, inactive : BOOLEAN]),
                 retries : 0 .. MaxRetries, timers : 0 .. MaxBusy]
    /\ net \in [reqs : Seq({"REQUEST", "RELEASE"}), up : BOOLEAN]
    /\ queue \in Seq([event : Events, conn : Conn \cup {NoConn}])
    /\ modem \in [Conn -> {"new", "asked", "open", "closing", "done", "lost", "unasked"}]
    /\ faults \in [lost : 0 .. MaxLosses, busy : 0 .. MaxBusy]

\* A machine in the released state has no subscribers ("subscriber list not
\* empty!!!"), however late the answers come; a data call is another matter.
ReleasedIsEmpty == agps.kind # "ds" /\ agps.state = "Released" => agps.subs = <<>>

\* A connection that was told it has the network, and neither gave it back nor
\* was told of its loss, is a subscriber of a machine that holds it.
OpenIsAcquired ==
    agps.kind # "ds" => \A c \in Conn : modem[c] = "open" =>
        agps.state = "Acquired" /\ HasSub(Active(agps.subs), c)

\* A connection that is closed is not told again that it has the network.
NotGrantedWhenDone == agps.kind # "ds" => \A c \in Conn : modem[c] # "unasked"

\* Every connection that asks is told something, or stops asking.
AskingEnds == \A c \in Conn : []<>(agps.kind # "ds" => modem[c] # "asked")

\* No subscriber is left in the released state but while a call that was busy
\* is tried again ("the list should really be empty, nothing to remove").
NoneLeftReleased ==
    agps.state = "Released" /\ agps.timers = 0 /\ queue = <<>> => agps.subs = <<>>
\* A connection holds the network it was granted, and is granted none after
\* it has left.
GrantsAreHeld == OpenIsAcquired /\ NotGrantedWhenDone
=============================================================================
