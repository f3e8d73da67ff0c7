---------------------------- MODULE PanelExchange ----------------------------
(***************************************************************************)
(* What PanelClient promises the two tasks that share one panel session:   *)
(* one question at a time, an answer only to the question just asked, and  *)
(* the panel's events one by one in the order it sent them, except for the *)
(* newest of them when a session ends.                                     *)
(***************************************************************************)
EXTENDS Integers

CONSTANT Tasks      \* who calls the client

None == -1

VARIABLES
    asking,     \* the question each task waits for an answer to, or None
    reply,      \* the question each task was last given the answer to
    asked,      \* how many questions have been asked
    answered,   \* those the panel has answered
    sent,       \* events the panel sent that were not lost with a session
    got         \* how many of them have been received

questions == <<asking, reply, asked, answered>>
vars == <<questions, sent, got>>

Init ==
    /\ asking = [t \in Tasks |-> None] /\ reply = [t \in Tasks |-> None]
    /\ asked = 0 /\ answered = {}
    /\ sent = 0 /\ got = 0

\* A fresh question while no other task waits for an answer; a task that
\* waits may give its own up for it.
Ask(t) ==
    /\ \A u \in Tasks \ {t} : asking[u] = None
    /\ asking' = [asking EXCEPT ![t] = asked]
    /\ asked' = asked + 1
    /\ UNCHANGED <<reply, answered, sent, got>>

PanelAnswers ==
    /\ \E n \in 0..(asked - 1) : answered' = answered \cup {n}
    /\ UNCHANGED <<asking, reply, asked, sent, got>>

\* A task is given the answer to the question it waits for.
TakeAnswer(t) ==
    /\ asking[t] \in answered
    /\ reply' = [reply EXCEPT ![t] = asking[t]]
    /\ asking' = [asking EXCEPT ![t] = None]
    /\ UNCHANGED <<asked, answered, sent, got>>

\* Out of patience, refused, or the session broke; a question that could not
\* be sent counts as asked.
GiveUp(t) ==
    /\ asking' = [asking EXCEPT ![t] = None]
    /\ asked' \in {asked, asked + 1}
    /\ UNCHANGED <<reply, answered, sent, got>>

PanelSends == sent' = sent + 1 /\ UNCHANGED <<questions, got>>

Receive == got < sent /\ got' = got + 1 /\ UNCHANGED <<questions, sent>>

\* A session ends: the newest events may be lost.
Lose == sent' \in got..sent /\ UNCHANGED <<questions, got>>

Next ==
    \/ \E t \in Tasks : Ask(t) \/ TakeAnswer(t) \/ GiveUp(t)
    \/ PanelAnswers \/ PanelSends \/ Receive \/ Lose

Spec == Init /\ [][Next]_vars
=============================================================================
