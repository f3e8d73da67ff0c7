# Formal models of Texecom Alarm

TLA+ modules, TLC model-checking runs and TLAPS proofs for the Texecom Alarm
add-on, the Python bridge between a Texecom panel (Connect protocol over ComIP)
and Home Assistant (MQTT). File names without a directory are in
`src/texecom_alarm/src/texecom_alarm/`.

## The system

| Component | State | Operations | Talks to |
| --- | --- | --- | --- |
| Listen task (`app.py`, `_listen_with_reconnect`, `_listen_panel_messages`) | last check-in time, frame in hand, payload captured before an exchange | receive, check-in, poll, handle ZONE/AREA/LOG, replace a stuck session | panel client, trust, gate, shared payload, MQTT |
| Command task (`app.py` `_listen_alarm_commands`, `arm_commands.py`) | locals of one tap | Arm, Disarm, ready-to-arm switches, flags read after Disarm, close after a collision | the same |
| Re-login (`reconnect.py`) | attempt, `collision`, guarding payload | close, wait, connect, LOGIN, snapshots, subscribe | run by the listen task |
| `PanelTrust` | `_live`, clocks, collision flag, last accepted arm | note check-ins and traffic, record a failed tap, poll, recover, reset | both tasks; publishes Connection |
| `ArmGestureGate` | mode of the last accepted arm | observe a live payload | both tasks |
| `_SharedAlarmState` | last payload | plain reads and writes | both tasks |
| `PanelClient` (`protocol/client.py`) | transport, buffer, sequence, login flag, queue of unsolicited frames, io lock | connect, close, login, commands, receive | both tasks |
| Frame codec (`protocol/frame.py`, `crc.py`) | none | encode, decode a stream | client |
| Decoding (`area_state.py`, `alarm_flags_guard.py`, `config.Settings`) | none | AREA byte and flags bitmap to payload, guards, Part-Arm labels | all of the above |
| Startup and shutdown (`app.run`, `__main__.py`) | startup attempt, tasks | login with back-off, discovery, last will, background failure | everything |
| Zones (`zones.py`, `zone_state.py`) | zone list | enumerate, snapshot in batches, publish pushes | listen task, re-login |
| Trigger snapshot (`trigger_snapshot.py`) | 32 recent events | record, publish on the edge into `triggered` | listen task |
| MQTT discovery and publisher, logging | - | format, transport | - |

The two tasks run on one event loop and share four pieces of mutable state (the
payload, the gate, the tracker, the session) without a lock of their own; the
client's io lock serialises the panel exchanges only. What is hard here:

- **Interleavings.** Every `await` lets the other task run. A payload is read,
  then a panel exchange or a publish is awaited, then the payload is used; it
  is published, then stored.
- **A lossy, lagging panel.** Pushes are lost when a session ends; area flags lag
  and cannot show exit or entry; replies may be missing although the panel acted.
- **Two clocks for two kinds of failure.** Missed check-ins end a session after
  a patience period, failed taps degrade Connection at once and replace the
  session only after a fail window.
- **Re-login racing taps.** Taps go on while a session is replaced.

What makes each part correct is listed with its module below; `PROJECT.json`
lists the hazards at their lines and the property that covers each.

## Modules

| Module | Models | Extends |
| --- | --- | --- |
| `AlarmPayload` | payloads, flags guards, end of an arm gesture (operators) | - |
| `AreaDecode` | AREA bytes, flags bitmap, Part-Arm labels (operators) | `AlarmPayload` |
| `MCAreaDecode` | a reference panel that reports its areas both ways | `AreaDecode` |
| `AreaDecodeProofs` | proofs | `MCAreaDecode` |
| `AlarmBridge` | both tasks, the re-login, the session, the panel | `AlarmPayload`; instantiates `PanelConnection` |
| `AlarmBridgeClaims` | sentences of the docs that do not hold | `AlarmBridge` |
| `AlarmBridgeProofs`, `AlarmBridgeTypes` | proofs | `AlarmBridge` |
| `PanelTrust` | the listen loop's and the tracker's clocks | instantiates `PanelConnection` |
| `PanelConnection` | what the Connection topic promises its readers (abstract) | - |
| `PanelTrustProofs` | proofs | `PanelTrust` |
| `PanelClient` | the client: lock, exchanges, event queue, slices | instantiates `PanelExchange` |
| `PanelExchange` | what the client promises the tasks (abstract) | - |
| `PanelClientProofs` | proofs | `PanelClient` |
| `FrameCodec` | frames on bytes, over a checksum (operators) | - |
| `Crc` | the CRC-8 of `crc.py` | - |
| `FrameStream` | `_recv_frame` over a chunked, noisy stream | `FrameCodec` |
| `MCFrameStream` | two frames made to be mistaken for others | `FrameStream`, `Crc` |
| `FrameStreamProofs` | proofs | `FrameStream` |
| `Lifecycle` | start-up, supervision, shutdown, crashes, the broker | - |
| `LifecycleClaims` | the back-off sentence that does not hold | `Lifecycle` |
| `LifecycleProofs` | proofs | `Lifecycle` |
| `ZoneMonitor` | zones shown, trigger buffer and snapshot | `AlarmPayload` |
| `ZoneMonitorClaims` | a sentence of the docs that does not hold | `ZoneMonitor` |
| `ZoneMonitorProofs` | proofs | `ZoneMonitor` |

They fit together in layers. `FrameStream` shows that `_recv_frame` makes of the
bytes the sequence of frames the panel wrote; `PanelClient` starts from that
sequence and shows that two tasks that share it get what `PanelExchange` promises:
answers to their own questions, and events in order. `AlarmBridge` and
`ZoneMonitor` start from that promise: an exchange is one step of a task, and the
events are one stream. `AlarmBridge` has the alarm payload, the session and
Connection with both tasks in full, `PanelTrust` the clocks behind its
nondeterministic "patience ran out" (what the two say of Connection is one abstract
specification, `PanelConnection`, that both implement), `ZoneMonitor` the rest of the listen task, and
`Lifecycle` what is around the two tasks.

Some definitions come with a mutant (`KeepLink` beside `EndGrace`): the same
definition with a plausible bug. `PROJECT.json` names, for each property, the
mutant under which TLC finds it violated.

### AlarmBridge

**Grain.** A step runs from one suspension point of a task to the next, as on
the event loop. `lpc` and `cpc` name the point where each task is suspended.
A publish takes effect when it is called and suspends after it, so it ends a
step, and the assignment behind it is a step of its own (`LHandle` and
`LAreaCommit`, `CFlagsReply` and `CFlagsCommit`). Code between two suspension
points is one step (`EndSession` covers everything from the exception to the
first publish of the re-login).

**The panel exchange.** An exchange of the listen task takes effect when its
reply comes: sending and waiting is where the task is suspended (`lpc = "poll"`,
the re-login's points), and whether it is answered, refused, unanswered or broken
is decided by the reply step. For the command task the arrival of the reply and
the rest of the handler are two steps, because the frames queued during the wait
may be handled by the listen task in between. `LockFree` is the io lock, as far
as the listen task can see it: taken while the command task's reply is on its way
back to the handler.

**The session.** `sess` is the transport and login state, `wire` what the panel
sent and the bridge has not read, ending in at most one fault (the end of the
stream, or bytes outside the framing), `queue` the client's queue of unsolicited
frames. An exchange moves what precedes its reply from `wire` to `queue`;
`close` drops `wire`, `connect` the queue.

**The panel** is the environment: `house` changes as keypad, timers and
detectors have it (`HouseNext`), sends an AREA push when a session is
subscribed, and `flags` catch up later (`FlagsCatchUp`), with the
views that `alarm_flags_guard.py` describes. An accepted disarm may come without
a push (`CarriedOut`). A tap may be refused, or unanswered with or without
having been carried out.

**Left out.** ZONE and LOG frames (in `ZoneMonitor`) and undecoded frames: a
frame that only proves the session alive has the same effect as an answered
check-in, which may happen on every pass. Time: see `PanelTrust`. Failures of
the MQTT broker and panels whose area rows have two bytes (their snapshot is
refused at startup). A dropped retained command and an unmapped mode change
nothing.

**Properties.**

- `TypeOK`.
- `LinkMatchesTrust`: while the listen loop runs, Connection is on exactly when
  the tracker is live. The command task may degrade both at any point of a
  re-login; `reset_after_reconnect` publishes once more for that reason.
- `ConnectionOffWhileHealing`: Connection is off while a session is replaced,
  except for the one attempt that follows a collision.
- `ConnectionSpec`: the two tasks implement `PanelConnection`. Its phase is read off
  `lpc` (the listen loop, the re-login, and between the two `resume`, where the topic
  is on already and the tracker not yet reset), `trusted` is the tracker's `live`, and
  a loss is excused during the first attempt after a collision (`grace`, `first`). It
  says of every step what the two invariants above say of every state: what a reader
  of the topic can conclude from a change of it.
- `AckMemoryWithinGate`: the gate and the tracker never disagree on the accepted
  arm.
- `FlagsKeepTransient`: a poll or a re-login snapshot publishes nothing but an
  alarm over exit or entry, though its guard is a payload captured earlier.
- `DriftCorrected`: a settled payload is in the end the one the flags give,
  whatever pushes were lost and stores overwritten.
- `ConnectionRecovers`: Connection comes back and stays, with the tracker live
  and the listen loop running, once the failures stop.

### PanelTrust

One variable per clock reading of the listen loop and the tracker, over a
discrete clock. `Tick` waits where the code cannot: a check-in is over within
`AnswerTimeout` (`PanelClient.response_timeout`, 2 s, no retry), and a due
check-in starts within `Lag`, the time a poll, a tap's exchange or a publish
holds the loop. `offSince` and `lastOk` are history: they are set where
Connection goes off and where the panel answers, and no guard reads them.
`why` records which of the three ways ended a session.

- `RefusingPanelDetected`: a panel that answers nothing is found out within
  patience and two rounds of check-ins, whatever it pushes.
- `DeadOnlyAfterPatience`: and not before patience has run out since its last
  answer.
- `StuckOffEndsSession`: after a failed tap Connection is on again, or the session
  is being replaced, within the fail window and two rounds, even when taps keep
  failing.
- `OffThroughRecoverWindow`: it does not come on inside the recover window.
- `ConnectionSpec`: whenever the windows change Connection, it is a change that
  `PanelConnection` allows; here a re-login is one step and no loss is excused.

### AreaDecode

Operators only. `MCAreaDecode` lets two areas of a reference panel change state
and compares the two readings of the house.

- `BitmapReadsBack`: each flag of each area reads back as set, with one-byte and
  two-byte rows.
- `ReadingsAgree`: the AREA byte and the bitmap give one payload.
- `ArmRoundTrip`: a house that settles in the mode a tap asked for is shown in
  that mode, for every labelling that validation admits.
- `PollSettles`: a poll does not republish what it just published and never shows
  an alarm as armed.

### PanelClient and PanelExchange

`send_command`, `_await_response`, `recv_message`, `connect` and `close` of
`protocol/client.py` under both tasks. `io` is the asyncio lock with its waiters in
order; `x` the exchange in progress (one at most, since it holds the lock); `wire`
what the panel sent and nobody read. A step ends where the code suspends, and
taking a free lock is a step of its own. Time is left out: a wait or a slice may
run out whenever nothing is left to read, and a slice that ends may be the last of
its `recv_message`. Every frame and reply carries, as history, how many events came
up to it; no guard reads that.

The panel answers a request late, twice (a request sent twice is answered twice),
in any order, or not at all. The one assumption on it is `Lag`: an answer does not
arrive after `Lag` further sequence numbers were used, `Lag <= SeqMod`. With 256
numbers and waits of seconds that is minutes; without it a wrapped number does
match.

- `MatchIsOwn`: a reply with the number a task waits for answers the very request
  it sent, over wrapping numbers, requests repeated under the old number and
  requests renewed under a new one.
- `EventsInOrder`: the events not received yet, in the queue and on the wire, are
  the ones that follow the last one received, in order and without a gap. What a
  close drops is the newest of them.
- `ExchangeSpec`: the client implements `PanelExchange`. A wait is a question; a
  repeated request is a stutter, a renewed one gives its question up for a new one.
- `CommandsEnd`: commands and closes get the lock and end though the listen task
  reads for ever.

### FrameCodec, Crc and FrameStream

`encode_frame`, `_inspect_leading`, `crc8` on real bytes, and the loop of
`_recv_frame`. The checksum is a parameter of `FrameCodec`, and `MCFrameStream` gives
it the CRC: `crc8` needs a bitwise operator, which a module to be proved about cannot
use. `ChecksumAssumption` says all that the stream asks of it: one byte of a frame
changed changes its checksum. TLC evaluates it for the frames of the run; for frames
of any length it follows from `TurnsApart`, which TLC evaluates for all 65536 pairs of
a CRC and a byte. The panel writes frames, one of which may be garbled in one byte,
stray bytes, `+++`, and closes; the network cuts the bytes anywhere. `sent` and
`got` are history. After noise the panel writes no more frames, since a frame
behind it belongs to a session that is already lost; the length byte is not
garbled, because then a CRC-8 that holds by chance (1 in 256) is what decides.

- `DeliveredInOrder`: what is returned is a prefix of what was sent.
- `EndsForAReason`: "outside the protocol" only after noise, `+++` only when the
  panel hung up and with every frame before it returned, end of stream only when it
  was closed. A chunk that ends inside a frame or inside `+++` decides nothing.
- `StreamIsRead`: every frame of a clean stream is returned, and a `+++` with
  nothing behind it is noticed.

### Lifecycle

`app.run` and `__main__.main` over several lives of the process. `phase` is the
await the process is at: the login loop, each start-up step against panel and
broker, "up" (waiting for a task to end), and the three awaits of the `finally`
block. The broker keeps the retained availability, the will of the connection
(`armed`), the wills of dead connections it has yet to publish (`stale`) and
retained commands (`kept`); `acted` counts, as history, how often each command was
acted upon.

- `OnlineIsGuarded`: wherever the process is killed, a retained "online" has a will
  behind it.
- `TapActedOnce`: no command is acted upon twice, over restarts and retained
  publishes, although a retained command is delivered at every subscription.
- `OfflineAtLast`: a process that is down or has lost one of its two tasks ends up
  shown offline.
- `LoginRetried`, `WaitsGrow`: a failed login is tried again, after waits that grow
  to the cap and stay there.

### ZoneMonitor

The listen task's side of zones and triggers. `pc` is the step of a login, "idle",
a received `frame` in hand, or the wait for a poll's reply; a poll may run while a
frame is in hand, as in the code, where a due poll comes before the frame is looked
at. `prev` is the payload captured before a read (`previous` at the poll,
`previous_payload` around a re-login). A disarm is one step of the command task: its
interleavings are in `AlarmBridge`, here it matters that the payload changes at any
point of the listen task's steps. `missed`, `opened`, `since`, `cause`, `taken` and
`excused` are history; `missed` collects the zones about which no push will come.

- `ZonesShown`: with a subscribed session, the last push on its way about a zone
  in use says what the panel has, and without one the retained topic does. The two
  exceptions, in `missed`, are changes between the zone read and the subscription,
  and publishes that failed: both stay wrong until the zone changes again.
- `PushNamesOpener`: a trigger snapshot on an AREA push names the zone that opened
  last before it in this session, unless the buffer has dropped it for newer pushes.
- `EntryHasSnapshot`: whichever way the entity enters triggered, attributes were
  published for it. `excused` are an alarm found at start-up (no snapshot is taken
  there), a publish that failed, and an alarm stored by the flags read of a disarm.

## Runs

| Run | Bounds | Question |
| --- | --- | --- |
| `bridge` | mode away; 1 house event, 2 taps, 2 faults; fair | the shared state under taps and failing re-logins; refinement of `PanelConnection`; convergence and recovery |
| `panel_trust` | interval 2, patience 3, recover 2, fail 4, answer 1, lag 1, clock to 16 | windows; the same refinement by the clocks |
| `area_decode` | home and night, all labellings, panels of 88 and 168 zones | decoding |
| `client` | 2 sequence numbers, lag 2; 2 calls, 2 events, 1 fault | exchange, order, refinement |
| `client_liveness` | the same with lag 1 and 1 event; fair | every command ends |
| `lifecycle` | 2 lives, 3 faults, 5 failed logins, 2 commands; fair | availability, commands, back-off |
| `frame_stream` | 2 frames, 1 noise; fair | framing over every chunking |
| `zone_monitor` | 2 zones, one in use; buffer of 2; 4 changes, 1 poll or disarm, 2 faults | zones and trigger snapshot |
| `claim_*` | the smallest that show it | each is expected to be violated |

Deadlock is checked in all runs but `lifecycle` (the process ends and is not started
again after the last life), `frame_stream` (the session ends), `zone_monitor` (the
bounds are used up) and their claims. Bounds are on the number of events of the
environment; nothing bounds a queue, which holds at most what those events push.

Why they are enough: two taps, an event and two faults are an arm and the disarm
after it, or a tap on a mode made not ready, with a change of the house before,
between or after them, through a re-login that fails once inside; the safety properties of this run are also proved, for any number of taps,
events and faults and for every set of modes, and so are those of `client`,
`lifecycle` and `zone_monitor`, except where said below. Two sequence numbers make
every second request wrap; with a lag of 1, `client_liveness` also reaches answers
that come too late within two calls. In `panel_trust` the windows are small but ordered as the
settings allow (patience at least one interval, the answer timeout at most one), and
the clock runs long enough for the longest window (`FailWindow + 2 * Round` = 12) to
pass after a first outage. Five failed logins reach the cap of 30 s from 5 s and
repeat it. In `frame_stream` one frame carries the length, sequence and type bytes
that look like a header, the other a body with `+++` and `t` in it. Four changes are
an opening, the entry, the alarm and one more push that can push the opening out of a
buffer of two.

**Fairness.** `AlarmBridge`: the event loop runs a task that can go on, so both
tasks are weakly fair. Polls and check-ins come round by the clock (300 s and
15 s), so a point of the loop where one may be due, reached for ever, is one where
it is taken: strong fairness of `LPollStart` and of an answered check-in after the
recover window. Flags catch up. Taps, house events and faults have no fairness;
faults are finitely many, so `ConnectionRecovers` speaks of what happens once they
stop. `PanelClient`: each task is weakly fair inside a call (waits have timeouts),
and nothing is assumed of the panel: it need not answer. `FrameStream`: the client
reads on. `Lifecycle`: the process does its next step, the broker publishes a will
some time (1.5 keepalives), s6 restarts what ended cleanly, and the command task,
which waits on the broker, learns of a lost connection; the listen task need not.
`ZoneMonitor` states no fairness and has no liveness property.

## Where documentation and code part

Each `claim_*` run states a sentence of the docs (or a comment) as a property and
shows a run of the code that breaks it; `PROJECT.json` quotes the sentences.

- `HangUpTurnsConnectionOff`: a hang-up during the flags read after a disarm gets
  the grace meant for unreadable bytes.
- `PollCorrectsAlarm`: exit or entry whose end was lost is never corrected.
- `NeverGivesUp`: the back-off computes `2 ** (n - 1)` as a float product before the
  cap; the 1025th failed login (about eight and a half hours) raises `OverflowError`
  and ends the process.
- `SnapshotNamesOpener`: a poll that is due runs before the received ZONE push is
  recorded, reads the alarm the zone set off and publishes the snapshot without it.

Further ones were met while reading and modelling, and are stated here in words:

- A blocked arm restores the payload read before the 0.35 s hold
  (`arm_commands.py:346`), over an AREA push handled during it. The same can follow
  from a disarm that finds "disarmed" in the queue and stores it without publishing
  (`arm_commands.py:310`), if the queued frame is lost with the session.
  `docs/reference/mqtt.md:43-45` says "then the current payload".
- An arm and an unset during a re-login leave the gate closed for that mode until a
  disarm or another live state (`app.py:573`). The specification has a sentence for
  each side (a lagging snapshot must not forget the gesture; an unset house ends
  it); the code keeps the first.
- A disarm between the ACK of an arm and its exit push is dropped as a duplicate
  (`arm_commands.py:257`); `docs/architecture.md:253` says "Disarm always goes to the
  panel."
- After a failed arm the check against publishing over exit or entry is made on the
  captured payload (`arm_commands.py:431`, against its comment).
- A panel that stops answering between the first login and the start of the tasks
  ends the process (`app.py:197`);
  `docs/specs/spec-continuous-operation.md:80-81` says it must not.
- The will of a connection that died silently is published after the restarted
  process is online (`mqtt/discovery.py:161`, once per life), so entities stay
  unavailable though the app runs; the same specification, lines 112-113.
- A zone that changes between the zone read and the subscription is shown wrong
  until it changes again (`reconnect.py:100`).
- An alarm stored by the flags read after a disarm has no trigger snapshot
  (`arm_commands.py:296`, only the listen task takes one).
- `AREA_MAP` and `parse_zone_count` admit a panel of 640 zones, which
  `enumerate_zones` cannot ask for beyond zone 255 (`zones.py:115`).

## Proofs

`tlapm` checks the eight proof modules with no step left out. Every safety invariant
and every action property that a passing run checks is proved. The assumptions are the
named ones in the modules: the modes differ from one another and from `NoMode`,
bounds are natural numbers, for the clocks `WindowsAssumption` (windows positive,
interval at most patience, answer timeout at most the interval; all three are what
validation and the constants give), for the client `Lag <= SeqMod`, for the zones that
those in use are zones and that 0 is a status, for the stream that frames can be
encoded, that a stray byte is neither a frame's first nor a `+`, and what
`ChecksumAssumption` asks of the CRC, for the decoding that the panel is one of
`AREA_MAP` (others raise `ProtocolError`).

**AlarmBridgeProofs** proves `LinkMatchesTrust`, `ConnectionOffWhileHealing`,
`AckMemoryWithinGate`, `FlagsKeepTransient` and `ConnectionSpec` for all modes and any
number of events, taps and faults. The first three are inductive as they stand. Two lemmas
carry the interleaving: nothing outside the listen task writes its variables
(`OthersKeepListen`), and nothing outside it improves Connection
(`OthersDegrade`). `FlagsKeepTransient` needs `CaptureHolds`: wherever the
listen task holds a captured payload, the shared payload is either that one or
not exit or entry, because the command task stores only unset or a flags read, and
flags never read as exit or entry. `BridgeKeepsPromise` maps every step to one of
`PanelConnection` or to a stutter; the end of an attempt needs
`ConnectionOffWhileHealing`, because the code publishes off only after the first
attempt of a collision and the promise is that the topic is off after every one.

**PanelTrustProofs** proves all six properties of `PanelTrust` for all intervals
and windows and any length of run. They speak of `now`, but the code looks
at the clock at a few points of a pass only, so they are not inductive. The
invariant `IInv` bounds `now` by the start of the last check-in (`OnSchedule`), and
that start by the readings the windows are measured from: the beginning of the
streak and the last answer (`StreakPlaced`), the beginning of the degrade and the
failed tap (`DegradePlaced`). `LinkPlaced` ties Connection to the tracker. Each part
has its lemma with a case for each action. The refinement of `PanelConnection`
(`TrustKeepsPromise`) needs no invariant.

**PanelClientProofs** proves all four safety properties, the refinement included,
for every size of the sequence space. `LockInv`: only the head of the lock's queue
is in an exchange or a slice, and nobody is in the queue twice. `NumberInv`: every
request and reply under way carries the sequence number of its age (`Back`), and the
exchange in progress has the newest number; so a reply no older than `SeqMod` whose
number matches is the newest (`BackInjective`), which is `MatchIsOwn`. `OrderInv`
says of queue and wire that each event is the successor of the one before it
(`GoesOnAppends`, `GoesOnTail`). `ClientIsExchange` maps each action to a step of
`PanelExchange` or to a stutter.

**LifecycleProofs** proves the type invariant, `OnlineIsGuarded` and `TapActedOnce`
for any number of lives, faults and commands. `WillInv` follows the will through
connect, disconnect and loss; `TapInv` counts, for each command, the copies in the
inbox that would be acted upon and the times it was: one at most in all, because a
copy delivered at a subscription carries the retain flag. `BackoffGrows` proves
`WaitsGrow` with `DelayInv`, that the wait last announced is the one of the last
attempt.

**ZoneMonitorProofs** proves the type invariant, `ZonesShown` and `EntryHasSnapshot`
for every panel, buffer length and number of changes. `Placed` says where a frame can
be in hand and that nothing is on its way without a subscription. `ShownInv` adds to
`ZonesShown` what holds between the zone read and the subscription, and the lemmas
`PushedLast`, `PushedOther` and `TakenFirst` follow the last push about a zone through
the stream. `EntryInv` adds that a payload carried over a lost session has its
attributes. `PushNamesOpener` compares what the panel knew when it sent an AREA push
with what the buffer holds when the push is handled. `OpenerInv` joins the two: the
buffer knows some zone as opened some number of pushes ago (`Knows`), and the pushes in
hand and on the wire lead from there, one by one, to the panel's last opener (`Leads`).
A push that is sent makes that path longer (`LeadsOn`), one that is received moves its
first step into the hand (`LeadsFromSecond`), one that is handled moves it into the
buffer (`RecordsOpen`, `RecordsOther`, with the deque counted from its end).

**FrameStreamProofs** proves `TypeOK`, `DeliveredInOrder` and `EndsForAReason` for any
frames, strays and checksum that keep the assumptions, any number of frames and noises
and every way to cut the stream. `OnTheWay` says what is in buffer and pipe together:
the encodings of the frames sent and not yet returned, and behind them nothing, a
`+++`, or noise. With it a decoded frame is the next one sent, a fault is at the noise
or at the `+++`, and a frame cut by a chunk only needs more (`InspectLeading` is
followed byte by byte through each of its returns).

**AreaDecodeProofs** proves all four properties of `MCAreaDecode` for every set of
modes, every labelling that validation admits and every panel of `AREA_MAP`. The core
is the arithmetic of the bitmap: byte and bit of a flag of an area are in its own row
and no other's.

**AlarmBridgeTypes** proves `AlarmBridge!TypeOK`. It is not inductive: a handler
publishes and stores the payload it holds, and an exchange queues what is on the
wire. `HandsTyped` says where a task holds a payload (a pushed one at the commit of a
push, the one of before the outage through a re-login, the one captured by a bounce
or a failed command), and `StreamTyped` that a fault has nothing behind it on the
wire.

Only model-checked: the liveness properties (liveness under fairness is outside what
the prover handles), and that the CRC keeps `ChecksumAssumption` (a computation with
bitwise operators, and for any length an induction over data; see `TurnsApart`).

## Not modelled

- The formatting of MQTT discovery payloads, names and log lines.
- Reading and validating options, except for the Part-Arm labels: input validation
  without state.
- Panels whose zones need more than one batch of 168: none of those `AREA_MAP`
  knows gets so far (see above). Panels with areas of eight bytes per flag, which the
  code refuses.
- The time stamp of the trigger snapshot.
- The MQTT library's own reconnecting and queueing: the app uses one connection per
  life and ends when it is lost.
- The spikes and scripts: not part of the add-on.

What could still be added: `AlarmBridge`'s exchange as an instance of `PanelExchange`,
so that these layers too are composed by the tools and not only by argument.
