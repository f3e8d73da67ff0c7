--------------------------- MODULE LifecycleProofs ---------------------------
(***************************************************************************)
(* Over any number of lives, faults and commands: availability never stays *)
(* online behind a process that is gone, and no command is acted upon      *)
(* twice.                                                                  *)
(***************************************************************************)
EXTENDS Lifecycle, TLAPS

USE LimitsAssumption

\* The broker holds a will exactly for the connection that is up, and when
\* it is told to discard it, "offline" is published or another will is left.
WillInv ==
    /\ armed <=> mq = "up"
    /\ OnlineIsGuarded
    /\ (phase \in {"disconnect", "close"} /\ avail = "online") => stale > 0

\* A command delivered live was not acted upon and is not delivered again;
\* those to come are new.
Live(m) == m.tap # 0 /\ ~m.retain

TapInv ==
    /\ TapActedOnce
    /\ \A n \in 1..MaxTaps : n > taps => acted[n] = 0
    /\ \A i \in 1..Len(inbox) : Live(inbox[i]) => inbox[i].tap <= taps /\ acted[inbox[i].tap] = 0
    /\ \A i, j \in 1..Len(inbox) : (Live(inbox[i]) /\ Live(inbox[j]) /\ i # j) => inbox[i].tap # inbox[j].tap

Messages == [topic : Topics, tap : 0..MaxTaps, retain : BOOLEAN]

-----------------------------------------------------------------------------
LEMMA Put ==
    ASSUME NEW S, NEW w \in Seq(S), NEW e \in S
    PROVE  /\ Append(w, e) \in Seq(S)
           /\ Len(Append(w, e)) = Len(w) + 1 /\ Len(w) \in Nat
           /\ \A i \in 1..Len(Append(w, e)) : Append(w, e)[i] = IF i = Len(w) + 1 THEN e ELSE w[i]
OBVIOUS

LEMMA InboxTail ==
    ASSUME inbox \in Seq(Messages), inbox # <<>>
    PROVE  /\ Head(inbox) = inbox[1] /\ Head(inbox) \in Messages /\ Tail(inbox) \in Seq(Messages)
           /\ Len(inbox) \in Nat \ {0} /\ Len(Tail(inbox)) = Len(inbox) - 1
           /\ \A i \in 1..Len(Tail(inbox)) : Tail(inbox)[i] = inbox[i + 1] /\ i + 1 \in 1..Len(inbox)
OBVIOUS

LEMMA MessageMade ==
    ASSUME NEW topic \in Topics, NEW tap \in 0..MaxTaps, NEW retain \in BOOLEAN
    PROVE  Message(topic, tap, retain) \in Messages
BY DEF Message, Messages

\* The waits are numbers.
LEMMA Waits ==
    ASSUME NEW k \in Nat, k > 0
    PROVE  WaitSeconds(k) \in Int
<1>1. Least(k - 1, Doublings) \in Nat
  BY DEF Least, Doublings
<1>2. 2^Least(k - 1, Doublings) \in Int
  BY <1>1
<1> QED
  BY <1>2 DEF WaitSeconds, Least, Base, Cap

-----------------------------------------------------------------------------
(* Type correctness *)

Phases == Starting \cup Stopping \cup {"up", "down"}
Causes == {"none", "panel", "broker", "backoff", "task", "ended", "killed"}

ProcessTyped ==
    /\ attempt \in Nat /\ delay \in Int
    /\ tasks \in [Tasks -> {"none", "running", "failed", "ended"}]
    /\ cause \in Causes
    /\ lives \in Nat /\ faults \in Nat

BrokerTyped ==
    /\ mq \in {"none", "up", "lost"}
    /\ avail \in {"none", "online", "offline"} /\ armed \in BOOLEAN /\ stale \in Nat

CommandsTyped ==
    /\ kept \in [Topics -> 0..MaxTaps] /\ subs \subseteq Topics
    /\ inbox \in Seq(Messages)
    /\ acted \in [1..MaxTaps -> Nat] /\ taps \in 0..MaxTaps

LEMMA Parts == TypeOK <=> phase \in Phases /\ ProcessTyped /\ BrokerTyped /\ CommandsTyped
BY DEF TypeOK, Phases, Causes, ProcessTyped, BrokerTyped, CommandsTyped, Messages

LEMMA PhasesNamed ==
    /\ {"login", "wait", "enumerate", "spawn", "up", "down", "cancel", "offline", "disconnect", "close"} \subseteq Phases
    /\ \A p \in PanelSteps \cup PublishSteps \cup SubscribeSteps \cup {"broker"} : After[p] \in Phases
BY DEF Phases, Starting, Stopping, After, PanelSteps, PublishSteps, SubscribeSteps

LEMMA InitTyped == Init => TypeOK
<1> SUFFICES ASSUME Init PROVE TypeOK
  OBVIOUS
<1>1. phase \in Phases
  BY PhasesNamed DEF Init
<1>2. ProcessTyped
  BY DEF Init, ProcessTyped, Causes
<1>4. BrokerTyped
  BY DEF Init, BrokerTyped
<1>3. CommandsTyped
  BY DEF Init, CommandsTyped, Messages
<1> QED
  BY <1>1, <1>2, <1>3, <1>4, Parts

LEMMA NextPhase == phase \in Phases /\ [Next]_vars => phase' \in Phases
<1> SUFFICES ASSUME phase \in Phases, [Next]_vars PROVE phase' \in Phases
  OBVIOUS
<1> USE PhasesNamed DEF Leaves, process
<1>1. CASE Runs
  BY <1>1 DEF Runs, LoginSucceeds, LoginFails, WaitEnds, PanelAnswers, PanelFails, BrokerAccepts, BrokerRefuses,
              Publishes, Subscribes, BrokerStepFails, StartTasks, NoticesTask, Cancels, PublishesOffline,
              Disconnects, ClosesPanel
<1>2. CASE HandleCommand \/ \E t \in Tasks : TaskLosesBroker(t) \/ TaskEnds(t)
  BY <1>2 DEF HandleCommand, TaskLosesBroker, TaskEnds
<1>3. CASE Killed \/ PowerFails \/ ConnectionLost \/ PublishesWill \/ S6Restarts \/ Started \/ Tap \/ UNCHANGED vars
  BY <1>3 DEF Killed, PowerFails, Dies, ConnectionLost, PublishesWill, S6Restarts, Started, Starts, Tap, vars
<1> QED
  BY <1>1, <1>2, <1>3 DEF Next

LEMMA NextProcess == ProcessTyped /\ [Next]_vars => ProcessTyped'
<1> SUFFICES ASSUME ProcessTyped, [Next]_vars PROVE ProcessTyped'
  OBVIOUS
<1> USE DEF ProcessTyped, Causes, Leaves, process, Misfortune
<1>1. CASE LoginFails
  <2>1. attempt' \in Nat /\ attempt' > 0
    BY <1>1 DEF LoginFails
  <2>2. delay' \in Int
    BY <1>1, <2>1, Waits DEF LoginFails
  <2> QED
    BY <1>1, <2>1, <2>2 DEF LoginFails
<1>2. CASE LoginSucceeds \/ WaitEnds \/ PanelAnswers \/ PanelFails \/ BrokerAccepts \/ BrokerRefuses
  BY <1>2 DEF LoginSucceeds, WaitEnds, PanelAnswers, PanelFails, BrokerAccepts, BrokerRefuses
<1>3. CASE Publishes \/ Subscribes \/ BrokerStepFails
  BY <1>3 DEF Publishes, Subscribes, BrokerStepFails
<1>4. CASE StartTasks \/ Cancels
  BY <1>4 DEF StartTasks, Cancels
<1>5. CASE NoticesTask \/ PublishesOffline \/ Disconnects \/ ClosesPanel
  BY <1>5 DEF NoticesTask, PublishesOffline, Disconnects, ClosesPanel
<1>6. CASE HandleCommand \/ ConnectionLost \/ PublishesWill \/ Tap \/ UNCHANGED vars
  <2>1. UNCHANGED <<attempt, delay, tasks, cause, lives>> /\ faults' \in {faults, faults + 1}
    BY <1>6 DEF HandleCommand, ConnectionLost, PublishesWill, Tap, vars
  <2> QED
    BY <2>1
<1>7. ASSUME NEW t \in Tasks, TaskLosesBroker(t) \/ TaskEnds(t) PROVE ProcessTyped'
  <2>1. PICK how \in {"failed", "ended"} : tasks' = [tasks EXCEPT ![t] = how]
    BY <1>7 DEF TaskLosesBroker, TaskEnds
  <2>2. UNCHANGED <<attempt, delay, cause, lives>> /\ faults' \in Nat
    BY <1>7 DEF TaskLosesBroker, TaskEnds
  <2> QED
    BY <2>1, <2>2
<1>8. CASE Killed \/ PowerFails
  BY <1>8 DEF Killed, PowerFails, Dies
<1>9. CASE S6Restarts \/ Started
  BY <1>9 DEF S6Restarts, Started, Starts
<1> QED
  BY <1>1, <1>2, <1>3, <1>4, <1>5, <1>6, <1>7, <1>8, <1>9 DEF Next, Runs

LEMMA NextBroker == BrokerTyped /\ [Next]_vars => BrokerTyped'
<1> SUFFICES ASSUME BrokerTyped, [Next]_vars PROVE BrokerTyped'
  OBVIOUS
<1> USE DEF BrokerTyped, broker
<1>1. CASE LoginSucceeds \/ LoginFails \/ WaitEnds \/ PanelAnswers \/ PanelFails \/ BrokerRefuses
  BY <1>1 DEF LoginSucceeds, LoginFails, WaitEnds, PanelAnswers, PanelFails, BrokerRefuses
<1>2. CASE BrokerAccepts \/ PublishesOffline \/ Disconnects
  BY <1>2 DEF BrokerAccepts, PublishesOffline, Disconnects
<1>3. CASE Publishes
  BY <1>3 DEF Publishes
<1>4. CASE Subscribes \/ BrokerStepFails \/ StartTasks \/ NoticesTask \/ Cancels \/ ClosesPanel
  BY <1>4 DEF Subscribes, BrokerStepFails, StartTasks, NoticesTask, Cancels, ClosesPanel
<1>5. CASE HandleCommand \/ Tap \/ UNCHANGED vars \/ \E t \in Tasks : TaskLosesBroker(t) \/ TaskEnds(t)
  BY <1>5 DEF HandleCommand, Tap, vars, TaskLosesBroker, TaskEnds
<1>6. CASE Killed \/ PowerFails
  <2>1. mq' = "none" /\ armed' = FALSE /\ avail' \in {avail, "offline"} /\ stale' \in {stale, stale + 1}
    BY <1>6 DEF Killed, PowerFails, Dies
  <2>2. armed' \in BOOLEAN /\ mq' \in {"none", "up", "lost"} /\ avail' \in {"none", "online", "offline"}
    BY <2>1, Zenon
  <2>3. stale' \in Nat
    BY <2>1
  <2> QED
    BY <2>2, <2>3
<1>7. CASE ConnectionLost
  <2>1. mq' = "lost" /\ armed' = FALSE /\ avail' = avail /\ stale' = stale + 1
    BY <1>7 DEF ConnectionLost
  <2>2. armed' \in BOOLEAN /\ mq' \in {"none", "up", "lost"} /\ avail' \in {"none", "online", "offline"}
    BY <2>1, Zenon
  <2>3. stale' \in Nat
    BY <2>1
  <2> QED
    BY <2>2, <2>3
<1>8. CASE PublishesWill
  BY <1>8 DEF PublishesWill
<1>9. CASE S6Restarts \/ Started
  BY <1>9 DEF S6Restarts, Started, Starts
<1> QED
  BY <1>1, <1>2, <1>3, <1>4, <1>5, <1>6, <1>7, <1>8, <1>9 DEF Next, Runs

LEMMA NextCommands == CommandsTyped /\ [Next]_vars => CommandsTyped'
<1> SUFFICES ASSUME CommandsTyped, [Next]_vars PROVE CommandsTyped'
  OBVIOUS
<1> USE DEF CommandsTyped, commands
<1>1. ASSUME UNCHANGED commands PROVE CommandsTyped'
  BY <1>1
<1>2. CASE Publishes
  <2>1. CASE phase = "clear"
    <3>1. Message("alarm", 0, FALSE) \in Messages
      BY DEF Message, Messages, Topics
    <3>2. inbox' = Append(inbox, Message("alarm", 0, FALSE)) /\ kept' = [kept EXCEPT !["alarm"] = 0]
      BY <1>2, <2>1 DEF Publishes
    <3>3. inbox' \in Seq(Messages)
      BY <3>1, <3>2, Put
    <3>4. UNCHANGED <<subs, acted, taps>>
      BY <1>2 DEF Publishes
    <3>5. kept' \in [Topics -> 0..MaxTaps]
      <4>1. 0 \in 0..MaxTaps /\ "alarm" \in Topics
        BY DEF Topics
      <4> QED
        BY <3>2, <4>1
    <3> QED
      BY <3>3, <3>4, <3>5
  <2>2. CASE phase # "clear"
    BY <1>1, <1>2, <2>2 DEF Publishes
  <2> QED
    BY <2>1, <2>2
<1>3. CASE Subscribes
  <2>1. PICK topic \in Topics :
            /\ subs' = subs \cup {topic} /\ UNCHANGED <<kept, acted, taps>>
            /\ inbox' = IF kept[topic] = 0 THEN inbox ELSE Append(inbox, Message(topic, kept[topic], TRUE))
    BY <1>3 DEF Subscribes, Topics
  <2>2. Message(topic, kept[topic], TRUE) \in Messages
    BY MessageMade
  <2>3. inbox' \in Seq(Messages)
    BY <2>1, <2>2, Put
  <2> QED
    BY <2>1, <2>3
<1>4. CASE Disconnects \/ Killed \/ PowerFails
  <2>1. subs' = {} /\ inbox' = <<>> /\ UNCHANGED <<kept, acted, taps>>
    BY <1>4 DEF Disconnects, Killed, PowerFails, Dies
  <2> QED
    BY <2>1
<1>5. CASE ConnectionLost
  BY <1>5 DEF ConnectionLost
<1>6. CASE HandleCommand
  <2>1. Head(inbox) \in Messages /\ inbox' \in Seq(Messages) /\ UNCHANGED <<kept, subs, taps>>
    BY <1>6, InboxTail DEF HandleCommand
  <2>2. acted' = acted \/ acted' = [acted EXCEPT ![Head(inbox).tap] = @ + 1]
    BY <1>6 DEF HandleCommand
  <2>3. CASE acted' = acted
    BY <2>1, <2>3
  <2>4. CASE acted' = [acted EXCEPT ![Head(inbox).tap] = @ + 1]
    <3>1. \A n \in 1..MaxTaps : acted[n] \in Nat
      OBVIOUS
    <3>2. \A n \in 1..MaxTaps : acted[n] + 1 \in Nat
      BY <3>1, SMTT(30)
    <3>3. acted' \in [1..MaxTaps -> Nat]
      BY <2>4, <3>2
    <3> QED
      BY <2>1, <3>3
  <2> QED
    BY <2>2, <2>3, <2>4
<1>7. CASE Tap
  <2>1. taps' \in 1..MaxTaps /\ UNCHANGED <<subs, acted>>
    BY <1>7 DEF Tap
  <2>2. PICK topic \in Topics, retain \in BOOLEAN :
            /\ kept' = IF retain THEN [kept EXCEPT ![topic] = taps'] ELSE kept
            /\ inbox' = IF topic \in subs THEN Append(inbox, Message(topic, taps', FALSE)) ELSE inbox
    BY <1>7 DEF Tap
  <2>3. Message(topic, taps', FALSE) \in Messages
    BY <2>1 DEF Message, Messages
  <2>4. inbox' \in Seq(Messages)
    BY <2>2, <2>3, Put
  <2>5. kept' \in [Topics -> 0..MaxTaps]
    BY <2>1, <2>2
  <2> QED
    BY <2>1, <2>4, <2>5
<1>8. CASE LoginSucceeds \/ LoginFails \/ WaitEnds \/ PanelAnswers \/ PanelFails \/ BrokerAccepts \/ BrokerRefuses
  BY <1>1, <1>8 DEF LoginSucceeds, LoginFails, WaitEnds, PanelAnswers, PanelFails, BrokerAccepts, BrokerRefuses
<1>9. CASE BrokerStepFails \/ StartTasks \/ NoticesTask \/ Cancels \/ PublishesOffline \/ ClosesPanel
  BY <1>1, <1>9 DEF BrokerStepFails, StartTasks, NoticesTask, Cancels, PublishesOffline, ClosesPanel
<1>10. CASE PublishesWill \/ S6Restarts \/ Started \/ UNCHANGED vars \/ \E t \in Tasks : TaskLosesBroker(t) \/ TaskEnds(t)
  BY <1>1, <1>10 DEF PublishesWill, S6Restarts, Started, Starts, vars, TaskLosesBroker, TaskEnds
<1> QED
  BY <1>2, <1>3, <1>4, <1>5, <1>6, <1>7, <1>8, <1>9, <1>10 DEF Next, Runs

LEMMA NextTyped == TypeOK /\ [Next]_vars => TypeOK'
<1> SUFFICES ASSUME TypeOK, [Next]_vars PROVE TypeOK'
  OBVIOUS
<1>1. (phase \in Phases)' /\ ProcessTyped' /\ BrokerTyped' /\ CommandsTyped'
  BY Parts, NextPhase, NextProcess, NextBroker, NextCommands
<1> QED
  BY <1>1 DEF TypeOK, Phases, Causes, ProcessTyped, BrokerTyped, CommandsTyped, Messages

\* Every step of every life keeps the types.
THEOREM LifecycleTyped == Spec => []TypeOK
BY InitTyped, NextTyped, PTL DEF Spec

-----------------------------------------------------------------------------
(* Availability *)

LEMMA NextWill == TypeOK /\ WillInv /\ [Next]_vars => WillInv'
<1> SUFFICES ASSUME TypeOK, WillInv, [Next]_vars PROVE WillInv'
  OBVIOUS
<1> USE DEF WillInv, OnlineIsGuarded, process, broker, commands, Misfortune, Leaves
<1>1. CASE LoginSucceeds \/ WaitEnds \/ LoginFails
  BY <1>1 DEF LoginSucceeds, WaitEnds, LoginFails
<1>2. CASE PanelAnswers \/ PanelFails
  BY <1>2 DEF PanelAnswers, PanelFails, PanelSteps, After
<1>3. CASE BrokerAccepts \/ BrokerRefuses \/ BrokerStepFails
  BY <1>3 DEF BrokerAccepts, BrokerRefuses, BrokerStepFails, After
<1>4. CASE Publishes \/ Subscribes
  <2>1. \A p \in PublishSteps \cup SubscribeSteps : After[p] \notin {"disconnect", "close"}
    BY DEF PublishSteps, SubscribeSteps, After
  <2>2. phase' = After[phase] /\ phase \in PublishSteps \cup SubscribeSteps
    BY <1>4 DEF Publishes, Subscribes
  <2>3. UNCHANGED <<mq, armed, stale>> /\ mq = "up"
    BY <1>4 DEF Publishes, Subscribes
  <2> QED
    BY <2>1, <2>2, <2>3
<1>5. CASE StartTasks \/ NoticesTask
  BY <1>5 DEF StartTasks, NoticesTask
<1>6. CASE Cancels
  BY <1>6 DEF Cancels
<1>7. CASE PublishesOffline
  BY <1>7 DEF PublishesOffline
<1>8. CASE Disconnects \/ ClosesPanel
  BY <1>8 DEF Disconnects, ClosesPanel
<1>9. CASE HandleCommand \/ Tap \/ \E t \in Tasks : TaskLosesBroker(t) \/ TaskEnds(t)
  <2>1. UNCHANGED <<phase, mq, avail, armed, stale>>
    BY <1>9 DEF HandleCommand, Tap, TaskLosesBroker, TaskEnds
  <2> QED
    BY <2>1
<1>10. CASE Killed \/ PowerFails
  BY <1>10 DEF Killed, PowerFails, Dies, TypeOK
<1>11. CASE ConnectionLost \/ PublishesWill
  <2>1. stale \in Nat
    BY DEF TypeOK
  <2> QED
    BY <1>11, <2>1 DEF ConnectionLost, PublishesWill
<1>12. CASE S6Restarts \/ Started
  BY <1>12 DEF S6Restarts, Started, Starts
<1>13. CASE UNCHANGED vars
  BY <1>13 DEF vars
<1> QED
  BY <1>1, <1>2, <1>3, <1>4, <1>5, <1>6, <1>7, <1>8, <1>9, <1>10, <1>11, <1>12, <1>13 DEF Next, Runs

\* The order of connect, online, offline and DISCONNECT in app.run: whatever
\* stops the process, and wherever, a will stands behind a retained "online".
THEOREM OnlineGuarded == Spec => []OnlineIsGuarded
<1>1. Init => WillInv
  BY DEF Init, WillInv, OnlineIsGuarded
<1>2. WillInv => OnlineIsGuarded
  BY DEF WillInv
<1> QED
  BY <1>1, <1>2, NextWill, LifecycleTyped, PTL DEF Spec

-----------------------------------------------------------------------------
(* Commands *)

\* What does not count as a live delivery changes nothing.
LEMMA Delivers ==
    ASSUME CommandsTyped, TapInv, UNCHANGED <<acted, taps>>,
           \/ inbox' = inbox \/ inbox' = <<>>
           \/ \E m \in Messages : ~Live(m) /\ inbox' = Append(inbox, m)
    PROVE  TapInv'
<1>1. CASE inbox' = inbox
  BY <1>1 DEF TapInv, TapActedOnce
<1>3. CASE inbox' = <<>>
  <2>1. \A i \in 1..Len(inbox') : FALSE
    BY <1>3
  <2> QED
    BY <2>1 DEF TapInv, TapActedOnce
<1>2. CASE \E m \in Messages : ~Live(m) /\ inbox' = Append(inbox, m)
  <2>1. PICK m \in Messages : ~Live(m) /\ inbox' = Append(inbox, m)
    BY <1>2
  <2>2. /\ Len(inbox') = Len(inbox) + 1 /\ Len(inbox) \in Nat
        /\ \A i \in 1..Len(inbox') : inbox'[i] = IF i = Len(inbox) + 1 THEN m ELSE inbox[i]
    BY <2>1, Put DEF CommandsTyped
  <2>3. \A i \in 1..Len(inbox') : Live(inbox'[i]) => i \in 1..Len(inbox) /\ inbox'[i] = inbox[i]
    BY <2>1, <2>2
  <2> QED
    BY <2>3 DEF TapInv, TapActedOnce
<1> QED
  BY <1>1, <1>2, <1>3

\* A new command, delivered live or not at all.
LEMMA Taps ==
    ASSUME CommandsTyped, TapInv, Tap
    PROVE  TapInv'
<1>1. taps \in Nat /\ taps' = taps + 1 /\ taps' \in 1..MaxTaps /\ acted' = acted
  BY DEF Tap, CommandsTyped, commands
<1>2. PICK topic \in Topics, retain \in BOOLEAN :
          inbox' = IF topic \in subs THEN Append(inbox, Message(topic, taps', FALSE)) ELSE inbox
  BY DEF Tap
<1> DEFINE m == Message(topic, taps', FALSE)
<1>3. m \in Messages /\ m.tap = taps'
  BY <1>1 DEF Message, Messages
<1> HIDE DEF m
<1>4. acted[taps'] = 0 /\ \A i \in 1..Len(inbox) : Live(inbox[i]) => inbox[i].tap # taps' /\ inbox[i].tap <= taps'
  <2>1. \A i \in 1..Len(inbox) : inbox[i].tap \in Nat
    <3>1. \A i \in 1..Len(inbox) : inbox[i] \in Messages
      BY DEF CommandsTyped
    <3> QED
      BY <3>1 DEF Messages
  <2> QED
    BY <1>1, <2>1 DEF TapInv
<1>5. \A i \in 1..Len(inbox') : \/ i \in 1..Len(inbox) /\ inbox'[i] = inbox[i]
                                \/ i = Len(inbox) + 1 /\ inbox'[i] = m
  <2>1. CASE inbox' = inbox
    BY <2>1
  <2>2. CASE inbox' = Append(inbox, m)
    <3>1. /\ Len(inbox') = Len(inbox) + 1 /\ Len(inbox) \in Nat
          /\ \A i \in 1..Len(inbox') : inbox'[i] = IF i = Len(inbox) + 1 THEN m ELSE inbox[i]
      BY <1>3, <2>2, Put DEF CommandsTyped
    <3> QED
      BY <3>1
  <2> QED
    BY <1>2, <2>1, <2>2 DEF m
<1>6. \A n \in 1..MaxTaps : n > taps' => acted'[n] = 0
  BY <1>1 DEF TapInv
<1>7. \A i \in 1..Len(inbox') : Live(inbox'[i]) => inbox'[i].tap <= taps' /\ acted'[inbox'[i].tap] = 0
  <2> SUFFICES ASSUME NEW i \in 1..Len(inbox'), Live(inbox'[i])
               PROVE  inbox'[i].tap <= taps' /\ acted[inbox'[i].tap] = 0
    BY <1>1
  <2>1. CASE i \in 1..Len(inbox) /\ inbox'[i] = inbox[i]
    BY <1>4, <2>1 DEF TapInv
  <2>2. CASE inbox'[i] = m
    BY <1>1, <1>3, <1>4, <2>2
  <2> QED
    BY <1>5, <2>1, <2>2
<1>8. \A i, j \in 1..Len(inbox') : (Live(inbox'[i]) /\ Live(inbox'[j]) /\ i # j) => inbox'[i].tap # inbox'[j].tap
  <2> SUFFICES ASSUME NEW i \in 1..Len(inbox'), NEW j \in 1..Len(inbox'), Live(inbox'[i]), Live(inbox'[j]), i # j
               PROVE  inbox'[i].tap # inbox'[j].tap
    OBVIOUS
  <2>1. CASE i \in 1..Len(inbox) /\ inbox'[i] = inbox[i] /\ j \in 1..Len(inbox) /\ inbox'[j] = inbox[j]
    BY <2>1 DEF TapInv
  <2>2. CASE i \in 1..Len(inbox) /\ inbox'[i] = inbox[i] /\ inbox'[j] = m
    BY <1>3, <1>4, <2>2
  <2>3. CASE inbox'[i] = m /\ j \in 1..Len(inbox) /\ inbox'[j] = inbox[j]
    BY <1>3, <1>4, <2>3
  <2> QED
    BY <1>5, <2>1, <2>2, <2>3
<1>9. TapActedOnce'
  BY <1>1 DEF TapInv, TapActedOnce
<1> QED
  BY <1>6, <1>7, <1>8, <1>9 DEF TapInv

LEMMA Handles ==
    ASSUME CommandsTyped, TapInv, HandleCommand
    PROVE  TapInv'
<1> DEFINE m == Head(inbox)
<1>1. /\ m = inbox[1] /\ m \in Messages /\ Len(inbox) \in Nat \ {0} /\ Len(inbox') = Len(inbox) - 1
      /\ \A i \in 1..Len(inbox') : inbox'[i] = inbox[i + 1] /\ i + 1 \in 1..Len(inbox)
  BY InboxTail DEF HandleCommand, CommandsTyped
<1>2. taps' = taps /\ acted' = IF Live(m) THEN [acted EXCEPT ![m.tap] = @ + 1] ELSE acted
  BY DEF HandleCommand, ActsOn, Live
<1> HIDE DEF m
<1>3. Live(m) => m.tap \in 1..MaxTaps /\ m.tap <= taps /\ acted[m.tap] = 0
  BY <1>1 DEF Live, Messages, TapInv
<1>4. \A n \in 1..MaxTaps : acted'[n] = IF Live(m) /\ n = m.tap THEN 1 ELSE acted[n]
  BY <1>2, <1>3 DEF CommandsTyped
<1>5. TapActedOnce'
  BY <1>4 DEF TapInv, TapActedOnce
<1>6. \A n \in 1..MaxTaps : n > taps' => acted'[n] = 0
  BY <1>2, <1>3, <1>4 DEF TapInv, CommandsTyped
<1>7. \A i \in 1..Len(inbox') : Live(inbox'[i]) =>
          inbox'[i].tap \in 1..MaxTaps /\ inbox'[i].tap <= taps' /\ acted'[inbox'[i].tap] = 0
  <2> SUFFICES ASSUME NEW i \in 1..Len(inbox'), Live(inbox'[i])
               PROVE  inbox'[i].tap \in 1..MaxTaps /\ inbox'[i].tap <= taps' /\ acted'[inbox'[i].tap] = 0
    OBVIOUS
  <2>1. inbox'[i] = inbox[i + 1] /\ i + 1 \in 1..Len(inbox) /\ i + 1 # 1
    BY <1>1
  <2>2. inbox[i + 1] \in Messages
    BY <2>1 DEF CommandsTyped
  <2>3. inbox[i + 1].tap \in 1..MaxTaps
    BY <2>1, <2>2 DEF Live, Messages
  <2>4. inbox[i + 1].tap <= taps /\ acted[inbox[i + 1].tap] = 0
    BY <2>1 DEF TapInv
  <2>5. 1 \in 1..Len(inbox)
    BY <1>1
  <2>6. Live(m) => inbox[i + 1].tap # m.tap
    BY <1>1, <2>1, <2>5 DEF TapInv
  <2> QED
    BY <1>2, <1>4, <2>1, <2>3, <2>4, <2>6
<1>8. \A i, j \in 1..Len(inbox') : (Live(inbox'[i]) /\ Live(inbox'[j]) /\ i # j) => inbox'[i].tap # inbox'[j].tap
  <2> SUFFICES ASSUME NEW i \in 1..Len(inbox'), NEW j \in 1..Len(inbox'), Live(inbox'[i]), Live(inbox'[j]), i # j
               PROVE  inbox'[i].tap # inbox'[j].tap
    OBVIOUS
  <2>1. /\ inbox'[i] = inbox[i + 1] /\ i + 1 \in 1..Len(inbox)
        /\ inbox'[j] = inbox[j + 1] /\ j + 1 \in 1..Len(inbox) /\ i + 1 # j + 1
    BY <1>1
  <2> QED
    BY <2>1 DEF TapInv
<1> QED
  BY <1>5, <1>6, <1>7, <1>8 DEF TapInv

LEMMA NextTap == CommandsTyped /\ TapInv /\ [Next]_vars => TapInv'
<1> SUFFICES ASSUME CommandsTyped, TapInv, [Next]_vars PROVE TapInv'
  OBVIOUS
<1> USE DEF commands
<1>1. CASE Publishes
  <2>1. Message("alarm", 0, FALSE) \in Messages /\ ~Live(Message("alarm", 0, FALSE))
    BY DEF Message, Messages, Topics, Live
  <2> QED
    BY <1>1, <2>1, Delivers DEF Publishes
<1>2. CASE Subscribes
  <2>1. PICK topic \in Topics :
            /\ UNCHANGED <<acted, taps>>
            /\ inbox' = IF kept[topic] = 0 THEN inbox ELSE Append(inbox, Message(topic, kept[topic], TRUE))
    BY <1>2 DEF Subscribes, Topics
  <2>2. Message(topic, kept[topic], TRUE) \in Messages /\ ~Live(Message(topic, kept[topic], TRUE))
    BY DEF Message, Messages, Live, CommandsTyped
  <2> QED
    BY <2>1, <2>2, Delivers
<1>3. CASE Disconnects \/ Killed \/ PowerFails \/ ConnectionLost
  BY <1>3, Delivers DEF Disconnects, Killed, PowerFails, Dies, ConnectionLost
<1>4. CASE HandleCommand
  BY <1>4, Handles
<1>5. CASE Tap
  BY <1>5, Taps
<1>6. CASE LoginSucceeds \/ LoginFails \/ WaitEnds \/ PanelAnswers \/ PanelFails \/ BrokerAccepts \/ BrokerRefuses
  BY <1>6, Delivers DEF LoginSucceeds, LoginFails, WaitEnds, PanelAnswers, PanelFails, BrokerAccepts, BrokerRefuses
<1>7. CASE BrokerStepFails \/ StartTasks \/ NoticesTask \/ Cancels \/ PublishesOffline \/ ClosesPanel
  BY <1>7, Delivers DEF BrokerStepFails, StartTasks, NoticesTask, Cancels, PublishesOffline, ClosesPanel
<1>8. CASE PublishesWill \/ S6Restarts \/ Started \/ UNCHANGED vars \/ \E t \in Tasks : TaskLosesBroker(t) \/ TaskEnds(t)
  BY <1>8, Delivers DEF PublishesWill, S6Restarts, Started, Starts, vars, TaskLosesBroker, TaskEnds
<1> QED
  BY <1>1, <1>2, <1>3, <1>4, <1>5, <1>6, <1>7, <1>8 DEF Next, Runs

\* The command task never acts on a command twice, over any restarts of the
\* add-on and with commands left retained on the broker.
THEOREM TapsActedOnce == Spec => []TapActedOnce
<1>1. Init => TapInv
  BY DEF Init, TapInv, TapActedOnce
<1>2. TapInv => TapActedOnce
  BY DEF TapInv
<1>3. TypeOK => CommandsTyped
  BY Parts
<1> QED
  BY <1>1, <1>2, <1>3, NextTap, LifecycleTyped, PTL DEF Spec

-----------------------------------------------------------------------------
(* The back-off *)

\* 5, 10, 20, then 30 seconds for ever.
LEMMA Schedule ==
    /\ WaitSeconds(1) = 5 /\ WaitSeconds(2) = 10 /\ WaitSeconds(3) = 20
    /\ \A k \in Nat : k > 3 => WaitSeconds(k) = Cap
<1> USE DEF WaitSeconds, Least, Base, Cap, Doublings
<1>1. 2^0 = 1 /\ 2^1 = 2 /\ 2^2 = 4 /\ 2^3 = 8
  OBVIOUS
<1>2. WaitSeconds(1) = 5 /\ WaitSeconds(2) = 10 /\ WaitSeconds(3) = 20
  BY <1>1
<1>3. ASSUME NEW k \in Nat, k > 3 PROVE WaitSeconds(k) = Cap
  <2>1. Least(k - 1, Doublings) = 3
    BY <1>3
  <2> QED
    BY <1>1, <2>1
<1> QED
  BY <1>2, <1>3

\* The wait announced last is the one the number of attempts calls for.
DelayInv ==
    phase \in {"login", "wait"} =>
        IF attempt = 0 THEN delay = 0 ELSE delay = WaitSeconds(attempt)

LEMMA NextDelay == TypeOK /\ DelayInv /\ [Next]_vars => DelayInv'
<1> SUFFICES ASSUME TypeOK, DelayInv, [Next]_vars PROVE DelayInv'
  OBVIOUS
<1>0. attempt \in Nat
  BY DEF TypeOK
<1> USE DEF DelayInv, process
<1>1. CASE LoginFails
  BY <1>0, <1>1 DEF LoginFails, Leaves
<1>2. CASE WaitEnds
  BY <1>2 DEF WaitEnds
<1>3. CASE S6Restarts \/ Started
  BY <1>3 DEF S6Restarts, Started, Starts
<1>4. CASE PanelAnswers \/ BrokerAccepts \/ Publishes \/ Subscribes
  <2>1. phase' = After[phase] /\ phase \in DOMAIN After
    BY <1>4 DEF PanelAnswers, BrokerAccepts, Publishes, Subscribes, PanelSteps, PublishSteps, SubscribeSteps, After
  <2>2. phase' \notin {"login", "wait"}
    BY <2>1 DEF After
  <2> QED
    BY <2>2
<1>5. CASE LoginSucceeds \/ PanelFails \/ BrokerRefuses \/ BrokerStepFails \/ StartTasks \/ NoticesTask
  BY <1>5 DEF LoginSucceeds, PanelFails, BrokerRefuses, BrokerStepFails, StartTasks, NoticesTask, Leaves
<1>6. CASE Cancels \/ PublishesOffline \/ Disconnects \/ ClosesPanel \/ Killed \/ PowerFails
  BY <1>6 DEF Cancels, PublishesOffline, Disconnects, ClosesPanel, Killed, PowerFails, Dies
<1>7. CASE HandleCommand \/ ConnectionLost \/ PublishesWill \/ Tap \/ UNCHANGED vars
           \/ \E t \in Tasks : TaskLosesBroker(t) \/ TaskEnds(t)
  BY <1>7 DEF HandleCommand, ConnectionLost, PublishesWill, Tap, vars, TaskLosesBroker, TaskEnds
<1> QED
  BY <1>1, <1>2, <1>3, <1>4, <1>5, <1>6, <1>7 DEF Next, Runs

\* Waits between failed logins grow until they reach the cap and stay there,
\* however many logins fail.
THEOREM BackoffGrows == Spec => WaitsGrow
<1>1. Init => DelayInv
  BY DEF Init, DelayInv
<1>2. TypeOK /\ DelayInv /\ [Next]_vars =>
        [phase = "login" /\ phase' = "wait" /\ delay > 0 =>
            delay' <= Cap /\ (delay' > delay \/ (delay = Cap /\ delay' = Cap))]_vars
  <2> SUFFICES ASSUME TypeOK, DelayInv, Next, phase = "login", phase' = "wait", delay > 0
               PROVE  delay' <= Cap /\ (delay' > delay \/ (delay = Cap /\ delay' = Cap))
    OBVIOUS
  <2>1. LoginFails
    <3>1. CASE PanelAnswers \/ BrokerAccepts \/ Publishes \/ Subscribes
      BY <3>1 DEF PanelAnswers, BrokerAccepts, Publishes, Subscribes, PanelSteps, PublishSteps, SubscribeSteps
    <3> QED
      BY <3>1 DEF Next, Runs, LoginSucceeds, WaitEnds, PanelFails, BrokerRefuses, BrokerStepFails, StartTasks,
             NoticesTask, Cancels, PublishesOffline, Disconnects, ClosesPanel, Killed, PowerFails, Dies,
             HandleCommand, ConnectionLost, PublishesWill, Tap, TaskLosesBroker, TaskEnds, S6Restarts, Started,
             Starts, Leaves, process
  <2>2. attempt \in Nat /\ attempt > 0 /\ delay = WaitSeconds(attempt)
    BY DEF TypeOK, DelayInv
  <2>3. delay' = WaitSeconds(attempt + 1)
    BY <2>1 DEF LoginFails, Leaves
  <2>4. CASE attempt \in {1, 2}
    BY <2>2, <2>3, <2>4, Schedule DEF Cap
  <2>5. CASE attempt = 3
    BY <2>2, <2>3, <2>5, Schedule DEF Cap
  <2>6. CASE attempt > 3
    BY <2>2, <2>3, <2>6, Schedule DEF Cap
  <2> QED
    BY <2>2, <2>4, <2>5, <2>6
<1> QED
  BY <1>1, <1>2, NextDelay, LifecycleTyped, PTL DEF Spec, WaitsGrow
=============================================================================
