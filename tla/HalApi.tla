------------------------------- MODULE HalApi -------------------------------
(* What the hardware interface promises the threads that call it: every    *)
(* event a thread asks for is answered at most once, and the thread        *)
(* returns with an answer of that event.  Answers are told apart by their  *)
(* event only, as the list of results of waitAPIResult is.  Two weaknesses *)
(* of the promise are named: an event may be asked for that nobody waits   *)
(* for, whose answer the next caller takes, and one may be dropped.        *)

EXTENDS Naturals

CONSTANTS
    Caller, Evt,
    Unattended,  \* events asked for by a thread that does not wait
    Unanswered   \* events that may be dropped without an answer

VARIABLES
    waits,      \* the event each caller waits for, or "none"
    asked,      \* how often each event was asked for and not answered yet
    answered    \* how many answers of each event nobody has taken yet

vars == <<waits, asked, answered>>

TypeOK ==
    /\ waits \in [Caller -> Evt \cup {"none"}]
    /\ asked \in [Evt -> Nat]
    /\ answered \in [Evt -> Nat]

Init ==
    /\ waits = [c \in Caller |-> "none"]
    /\ asked = [e \in Evt |-> 0]
    /\ answered = [e \in Evt |-> 0]

Ask(c, e) ==
    /\ waits[c] = "none"
    /\ waits' = [waits EXCEPT ![c] = e]
    /\ asked' = [asked EXCEPT ![e] = @ + 1]
    /\ UNCHANGED answered

AskAndLeave(e) ==
    /\ asked' = [asked EXCEPT ![e] = @ + 1]
    /\ UNCHANGED <<waits, answered>>

Drop(e) ==
    /\ asked[e] > 0
    /\ asked' = [asked EXCEPT ![e] = @ - 1]
    /\ UNCHANGED <<waits, answered>>

Answer(e) ==
    /\ asked[e] > 0
    /\ asked' = [asked EXCEPT ![e] = @ - 1]
    /\ answered' = [answered EXCEPT ![e] = @ + 1]
    /\ UNCHANGED waits

TakeAnswer(c) ==
    /\ waits[c] # "none"
    /\ answered[waits[c]] > 0
    /\ answered' = [answered EXCEPT ![waits[c]] = @ - 1]

Return(c) ==
    /\ TakeAnswer(c)
    /\ waits' = [waits EXCEPT ![c] = "none"]
    /\ UNCHANGED asked

\* The answer taken, the same call goes on to ask for another event.
ReturnAndAsk(c, e) ==
    /\ TakeAnswer(c)
    /\ waits' = [waits EXCEPT ![c] = e]
    /\ asked' = [asked EXCEPT ![e] = @ + 1]

Next ==
    \/ \E c \in Caller : Return(c) \/ \E e \in Evt : Ask(c, e) \/ ReturnAndAsk(c, e)
    \/ \E e \in Evt : Answer(e)
    \/ \E e \in Unattended : AskAndLeave(e)
    \/ \E e \in Unanswered : Drop(e)

Spec == Init /\ [][Next]_vars
=============================================================================
