------------------------------ MODULE Lifecycle ------------------------------
(***************************************************************************)
(* app.py from the start of the process to its end, over any number of     *)
(* lives: login with back-off, start-up against panel and broker, the two  *)
(* background tasks, the finally block; and what the broker keeps meanwhile: *)
(* the retained availability, the last wills, retained commands.           *)
(*                                                                         *)
(* Each step of start-up and shutdown ends where the code awaits the panel *)
(* or the broker.  What the tasks do while they run is in AlarmBridge; here *)
(* they handle commands and fail.  Time is left out but for the length of  *)
(* the back-off.                                                           *)
(***************************************************************************)
EXTENDS Integers, Sequences

CONSTANTS
    MaxExponent,        \* 2^MaxExponent is the first power no float can hold
    MaxLoginFailures,   \* bound: failed logins of one life
    MaxLives,           \* bound: starts of the process
    MaxFaults,          \* bound: refusals, lost connections, failed tasks, kills
    MaxTaps             \* bound: commands published by clients of the broker

ASSUME LimitsAssumption == {MaxExponent, MaxLoginFailures, MaxLives, MaxFaults, MaxTaps} \subseteq Nat

VARIABLES
    phase,      \* where app.run is suspended, or "down"
    attempt,    \* connects and logins tried so far in this life
    delay,      \* the wait last announced
    tasks,      \* the two background tasks
    mq,         \* the MQTT connection as the app has it
    cause,      \* why the last life ended
    avail,      \* the broker's retained availability
    armed,      \* the broker holds the will of the connection
    stale,      \* dead connections whose wills it has yet to publish
    kept,       \* per topic, the retained command (0: none)
    subs,       \* topics subscribed
    inbox,      \* commands delivered and not handled
    acted,      \* per command, how often it was acted upon
    taps, lives, faults

process == <<phase, attempt, delay, tasks, cause>>
broker == <<avail, armed, stale>>
commands == <<kept, subs, inbox, acted, taps>>
vars == <<process, mq, broker, commands, lives, faults>>

Tasks == {"listen", "command"}
Topics == {"alarm", "ready"}

Misfortune == faults < MaxFaults /\ faults' = faults + 1

-----------------------------------------------------------------------------
(* The order of start-up *)

\* Steps that ask the panel, and steps that talk to the broker.
PanelSteps == {"enumerate", "zones", "areas", "events"}
PublishSteps == {"online", "discovery", "link", "clear"}
SubscribeSteps == {"subscribe", "subscribeReady"}

After == [enumerate |-> "broker", broker |-> "online", online |-> "discovery", discovery |-> "zones",
          zones |-> "areas", areas |-> "events", events |-> "link", link |-> "subscribe",
          subscribe |-> "clear", clear |-> "subscribeReady", subscribeReady |-> "spawn"]

Starting == {"login", "wait", "spawn"} \cup DOMAIN After
Stopping == {"cancel", "offline", "disconnect", "close"}

\* An exception, or the end of a task, takes the run to its finally block.
Leaves(why) == phase' = "cancel" /\ cause' = why

-----------------------------------------------------------------------------
(* Login with back-off *)

\* The first and the longest wait, in seconds, and how many doublings take
\* one past the other.
Base == 5
Cap == 30
Doublings == 3

Least(a, b) == IF a < b THEN a ELSE b

\* startup_login_wait_seconds: the power is exact, its product a float.  The
\* mutant leaves out the cap.
Overflows(k) == k - 1 >= MaxExponent
WaitUncapped(k) == Base * 2^(k - 1)
WaitSeconds(k) == Least(Base * 2^Least(k - 1, Doublings), Cap)

LoginSucceeds ==
    /\ phase = "login"
    /\ phase' = "enumerate"
    /\ UNCHANGED <<attempt, delay, tasks, cause, mq, broker, commands, lives, faults>>

\* Any of the four exceptions a connect or a login ends with; the mutant
\* misses one of them.
LoginFailsFast ==
    /\ phase = "login" /\ attempt < MaxLoginFailures
    /\ attempt' = attempt + 1
    /\ \/ delay' = WaitSeconds(attempt') /\ phase' = "wait" /\ UNCHANGED cause
       \/ Leaves("panel") /\ UNCHANGED delay
    /\ UNCHANGED <<tasks, mq, broker, commands, lives, faults>>

LoginFails ==
    /\ phase = "login" /\ attempt < MaxLoginFailures
    /\ attempt' = attempt + 1
    /\ IF Overflows(attempt')
       THEN Leaves("backoff") /\ UNCHANGED delay
       ELSE delay' = WaitSeconds(attempt') /\ phase' = "wait" /\ UNCHANGED cause
    /\ UNCHANGED <<tasks, mq, broker, commands, lives, faults>>

WaitEnds ==
    /\ phase = "wait"
    /\ phase' = "login"
    /\ UNCHANGED <<attempt, delay, tasks, cause, mq, broker, commands, lives, faults>>

-----------------------------------------------------------------------------
(* Start-up *)

PanelAnswers ==
    /\ phase \in PanelSteps
    /\ phase' = After[phase]
    /\ UNCHANGED <<attempt, delay, tasks, cause, mq, broker, commands, lives, faults>>

PanelFails ==
    /\ phase \in PanelSteps
    /\ Misfortune
    /\ Leaves("panel")
    /\ UNCHANGED <<attempt, delay, tasks, mq, broker, commands, lives>>

\* The will goes with the connection; the mutant connects without.
ConnectsWillless ==
    /\ phase = "broker"
    /\ mq' = "up"
    /\ phase' = After[phase]
    /\ UNCHANGED <<attempt, delay, tasks, cause, broker, commands, lives, faults>>

BrokerAccepts ==
    /\ phase = "broker"
    /\ mq' = "up" /\ armed' = TRUE
    /\ phase' = After[phase]
    /\ UNCHANGED <<attempt, delay, tasks, cause, avail, stale, commands, lives, faults>>

BrokerRefuses ==
    /\ phase = "broker"
    /\ Misfortune
    /\ Leaves("broker")
    /\ UNCHANGED <<attempt, delay, tasks, mq, broker, commands, lives>>

\* The retained command is cleared by an empty message, which a subscriber
\* receives as well: command 0, which no handler knows.
Message(topic, tap, retain) == [topic |-> topic, tap |-> tap, retain |-> retain]

Publishes ==
    /\ phase \in PublishSteps /\ mq = "up"
    /\ avail' = IF phase = "online" THEN "online" ELSE avail
    /\ IF phase = "clear"
       THEN kept' = [kept EXCEPT !["alarm"] = 0] /\ inbox' = Append(inbox, Message("alarm", 0, FALSE))
       ELSE UNCHANGED <<kept, inbox>>
    /\ phase' = After[phase]
    /\ UNCHANGED <<attempt, delay, tasks, cause, mq, armed, stale, subs, acted, taps, lives, faults>>

\* The broker hands over the retained command of the topic, marked as such.
Subscribes ==
    /\ phase \in SubscribeSteps /\ mq = "up"
    /\ LET topic == IF phase = "subscribe" THEN "alarm" ELSE "ready"
       IN  /\ subs' = subs \cup {topic}
           /\ inbox' = IF kept[topic] = 0 THEN inbox ELSE Append(inbox, Message(topic, kept[topic], TRUE))
    /\ phase' = After[phase]
    /\ UNCHANGED <<attempt, delay, tasks, cause, mq, broker, kept, acted, taps, lives, faults>>

BrokerStepFails ==
    /\ phase \in PublishSteps \cup SubscribeSteps /\ mq = "lost"
    /\ Leaves("broker")
    /\ UNCHANGED <<attempt, delay, tasks, mq, broker, commands, lives, faults>>

StartTasks ==
    /\ phase = "spawn"
    /\ tasks' = [t \in Tasks |-> "running"]
    /\ phase' = "up"
    /\ UNCHANGED <<attempt, delay, cause, mq, broker, commands, lives, faults>>

-----------------------------------------------------------------------------
(* The background tasks *)

\* A task whose publish or whose inbox finds the connection gone fails.
TaskLosesBroker(t) ==
    /\ tasks[t] = "running" /\ mq = "lost"
    /\ tasks' = [tasks EXCEPT ![t] = "failed"]
    /\ UNCHANGED <<phase, attempt, delay, cause, mq, broker, commands, lives, faults>>

\* An error nobody expected; or the task is simply over.
TaskEnds(t) ==
    /\ tasks[t] = "running"
    /\ Misfortune
    /\ \E how \in {"failed", "ended"} : tasks' = [tasks EXCEPT ![t] = how]
    /\ UNCHANGED <<phase, attempt, delay, cause, mq, broker, commands, lives>>

\* _wait_for_shutdown_or_background_failure; the mutant waits for the listen
\* task only.
NoticesListenOnly ==
    /\ phase = "up" /\ tasks["listen"] # "running"
    /\ Leaves(IF tasks["listen"] = "failed" THEN "task" ELSE "ended")
    /\ UNCHANGED <<attempt, delay, tasks, mq, broker, commands, lives, faults>>

NoticesTask ==
    /\ phase = "up"
    /\ \E t \in Tasks :
        /\ tasks[t] # "running" /\ (t = "command" => tasks["listen"] = "running")
        /\ Leaves(IF tasks[t] = "failed" THEN "task" ELSE "ended")
    /\ UNCHANGED <<attempt, delay, tasks, mq, broker, commands, lives, faults>>

\* _listen_alarm_commands drops what was retained; the mutant acts upon it.
ActsOnRetained(m) == m.tap # 0
ActsOn(m) == ~m.retain /\ m.tap # 0

HandleCommand ==
    /\ tasks["command"] = "running" /\ inbox # <<>>
    /\ LET m == Head(inbox)
       IN  acted' = IF ActsOn(m) THEN [acted EXCEPT ![m.tap] = @ + 1] ELSE acted
    /\ inbox' = Tail(inbox)
    /\ UNCHANGED <<process, mq, broker, kept, subs, taps, lives, faults>>

-----------------------------------------------------------------------------
(* The finally block *)

Cancels ==
    /\ phase = "cancel"
    /\ tasks' = [t \in Tasks |-> "none"]
    /\ phase' = IF mq = "none" THEN "disconnect" ELSE "offline"
    /\ UNCHANGED <<attempt, delay, cause, mq, broker, commands, lives, faults>>

\* The failure to publish is logged and swallowed.
PublishesOffline ==
    /\ phase = "offline"
    /\ avail' = IF mq = "up" THEN "offline" ELSE avail
    /\ phase' = "disconnect"
    /\ UNCHANGED <<attempt, delay, tasks, cause, mq, armed, stale, commands, lives, faults>>

\* A clean DISCONNECT discards the will.
Disconnects ==
    /\ phase = "disconnect"
    /\ mq' = "none"
    /\ armed' = FALSE
    /\ subs' = {} /\ inbox' = <<>>
    /\ phase' = "close"
    /\ UNCHANGED <<attempt, delay, tasks, cause, avail, stale, kept, acted, taps, lives, faults>>

ClosesPanel ==
    /\ phase = "close"
    /\ phase' = "down"
    /\ UNCHANGED <<attempt, delay, tasks, cause, mq, broker, commands, lives, faults>>

-----------------------------------------------------------------------------
(* The environment *)

Dies ==
    /\ phase' = "down" /\ cause' = "killed"
    /\ tasks' = [t \in Tasks |-> "none"]
    /\ mq' = "none" /\ subs' = {} /\ inbox' = <<>>
    /\ armed' = FALSE
    /\ UNCHANGED <<attempt, delay, kept, acted, taps, lives>>

\* SIGTERM is not handled.  The kernel closes the connection and the broker,
\* seeing that, publishes the will.
Killed ==
    /\ phase # "down"
    /\ Misfortune
    /\ Dies
    /\ avail' = IF armed THEN "offline" ELSE avail
    /\ UNCHANGED stale

\* Power or network goes without a word to the broker: it publishes the will
\* when its keepalive runs out.
PowerFails ==
    /\ phase # "down"
    /\ Misfortune
    /\ Dies
    /\ stale' = IF armed THEN stale + 1 ELSE stale
    /\ UNCHANGED avail

ConnectionLost ==
    /\ mq = "up"
    /\ Misfortune
    /\ mq' = "lost" /\ subs' = {}
    /\ armed' = FALSE /\ stale' = stale + 1
    /\ UNCHANGED <<process, avail, kept, inbox, acted, taps, lives>>

\* (The mutant publishes the will of a connection that ended properly too.)
PublishesAnyWill ==
    /\ phase = "down" /\ lives > 0
    /\ stale' = stale - 1 /\ avail' = "offline"
    /\ UNCHANGED <<process, mq, armed, commands, lives, faults>>

PublishesWill ==
    /\ stale > 0
    /\ stale' = stale - 1 /\ avail' = "offline"
    /\ UNCHANGED <<process, mq, armed, commands, lives, faults>>

\* s6 restarts what ended without an error; anything else stops the container
\* until Supervisor or an operator starts it.
Starts ==
    /\ phase = "down" /\ lives < MaxLives
    /\ lives' = lives + 1
    /\ phase' = "login" /\ attempt' = 0 /\ delay' = 0 /\ cause' = "none"
    /\ UNCHANGED <<tasks, mq, broker, commands, faults>>

S6Restarts == cause = "ended" /\ Starts
Started == cause # "ended" /\ Starts

\* Any client of the broker publishes a command, retained or not.
Tap ==
    /\ taps < MaxTaps
    /\ taps' = taps + 1
    /\ \E topic \in Topics, retain \in BOOLEAN :
        /\ kept' = IF retain THEN [kept EXCEPT ![topic] = taps'] ELSE kept
        /\ inbox' = IF topic \in subs THEN Append(inbox, Message(topic, taps', FALSE)) ELSE inbox
    /\ UNCHANGED <<process, mq, broker, subs, acted, lives, faults>>

-----------------------------------------------------------------------------
Init ==
    /\ phase = "down" /\ attempt = 0 /\ delay = 0 /\ cause = "none"
    /\ tasks = [t \in Tasks |-> "none"]
    /\ mq = "none"
    /\ avail = "none" /\ armed = FALSE /\ stale = 0
    /\ kept = [t \in Topics |-> 0] /\ subs = {} /\ inbox = <<>>
    /\ acted = [n \in 1..MaxTaps |-> 0] /\ taps = 0
    /\ lives = 0 /\ faults = 0

\* What the process does by itself once it is started.
Runs ==
    \/ LoginSucceeds \/ LoginFails \/ WaitEnds
    \/ PanelAnswers \/ PanelFails \/ BrokerAccepts \/ BrokerRefuses
    \/ Publishes \/ Subscribes \/ BrokerStepFails \/ StartTasks
    \/ NoticesTask
    \/ Cancels \/ PublishesOffline \/ Disconnects \/ ClosesPanel

Next ==
    \/ Runs
    \/ HandleCommand
    \/ \E t \in Tasks : TaskLosesBroker(t) \/ TaskEnds(t)
    \/ Killed \/ PowerFails \/ ConnectionLost \/ PublishesWill
    \/ S6Restarts \/ Started \/ Tap

Spec == Init /\ [][Next]_vars

\* The command task waits for messages and so learns of a lost connection;
\* the listen task may have nothing to publish.
FairSpec ==
    /\ Spec
    /\ WF_vars(Runs) /\ WF_vars(PublishesWill) /\ WF_vars(S6Restarts)
    /\ WF_vars(TaskLosesBroker("command"))

-----------------------------------------------------------------------------
(* Properties *)

TypeOK ==
    /\ phase \in Starting \cup Stopping \cup {"up", "down"}
    /\ attempt \in Nat /\ delay \in Int
    /\ tasks \in [Tasks -> {"none", "running", "failed", "ended"}]
    /\ mq \in {"none", "up", "lost"}
    /\ cause \in {"none", "panel", "broker", "backoff", "task", "ended", "killed"}
    /\ avail \in {"none", "online", "offline"} /\ armed \in BOOLEAN /\ stale \in Nat
    /\ kept \in [Topics -> 0..MaxTaps] /\ subs \subseteq Topics
    /\ inbox \in Seq([topic : Topics, tap : 0..MaxTaps, retain : BOOLEAN])
    /\ acted \in [1..MaxTaps -> Nat] /\ taps \in 0..MaxTaps
    /\ lives \in Nat /\ faults \in Nat

\* Wherever the process is stopped, in start-up, while it runs or inside its
\* finally block, "online" does not outlive it: a will is there to take it
\* back, the one of the connection or one the broker still has to publish.
OnlineIsGuarded == avail = "online" => armed \/ stale > 0

\* A command is acted upon once at most, over any crashes and restarts,
\* whether or not it was published with the retain flag and whenever it came.
TapActedOnce == \A n \in 1..MaxTaps : acted[n] <= 1

\* A process that is down, or has lost one of its tasks, is shown so.
OfflineAtLast ==
    (phase = "down" \/ \E t \in Tasks : tasks[t] \in {"failed", "ended"}) ~> (avail # "online")

\* Failed connects and logins do not end the process.
LoginRetried == (phase \in {"login", "wait"}) ~> (phase = "enumerate" \/ cause = "killed")

\* The first waits grow, and once at the cap stay there.
WaitsGrow ==
    [][phase = "login" /\ phase' = "wait" /\ delay > 0 =>
        delay' <= Cap /\ (delay' > delay \/ (delay = Cap /\ delay' = Cap))]_vars
=============================================================================
