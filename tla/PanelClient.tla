----------------------------- MODULE PanelClient -----------------------------
(***************************************************************************)
(* protocol/client.py: one Connect session used by two asyncio tasks.  A   *)
(* command is sent and its reply awaited under the io lock; what else      *)
(* arrives meanwhile is queued for the listen task, which itself reads the *)
(* stream in short slices under the same lock.                             *)
(*                                                                         *)
(* A step runs from one suspension point of a task to the next, except     *)
(* that taking a free lock is a step of its own.  Time is left out: a wait *)
(* may run out when nothing is left to read.  A frame is on the wire from  *)
(* the moment it can be read; the decoding of the byte stream is in        *)
(* FrameStream.                                                            *)
(***************************************************************************)
EXTENDS Integers, Sequences

CONSTANTS
    Listener,   \* the listen task (startup and re-login are its code too)
    Commander,  \* the command task
    SeqMod,     \* sequence numbers, 256 in the code
    Lag,        \* the panel answers before Lag further numbers are used
    MaxCalls,   \* bound: commands and closes
    MaxEvents,  \* bound: events sent and not lost
    MaxFaults   \* bound: faults on the wire, failed writes, refusals

Tasks == {Listener, Commander}

ASSUME TasksAssumption == Listener # Commander
ASSUME SeqAssumption == SeqMod \in Nat /\ Lag \in Nat /\ Lag <= SeqMod /\ Lag > 0
ASSUME BoundsAssumption == MaxCalls \in Nat /\ MaxEvents \in Nat /\ MaxFaults \in Nat

VARIABLES
    seq,        \* _seq, the next sequence number
    io,         \* _io_lock: its holder and those waiting, first come first served
    sess,       \* "none" (no reader and writer), "open", or "auth"
    queue,      \* _message_queue: the numbers of the events in it
    wire,       \* frames and faults that arrived and were not read
    pending,    \* requests the panel has and has not answered
    pc, op,     \* per task: where it is suspended, in which call
    x,          \* the exchange in progress: number, seq, attempt, busy
    taken,      \* history: how many sequence numbers have been used
    replied,    \* history, per task: the request whose reply it last took
    answered,   \* history: requests the panel has answered
    sent, got,  \* history: events that arrived, events received
    calls, faults

session == <<sess, queue, wire, pending>>
task == <<pc, op>>
events == <<sent, got>>
bounds == <<calls, faults>>
vars == <<seq, io, session, task, x, taken, replied, answered, events, bounds>>

-----------------------------------------------------------------------------
(* Requests and frames *)

\* READ stands for the zone, identification and area reads and for
\* SETEVENTMESSAGES, SETAREA for Arm and Disarm.
Commands == {"LOGIN", "GETDATETIME", "SETAREA", "READ"}

MayCall(t) == IF t = Listener THEN {"LOGIN", "GETDATETIME", "READ"} ELSE {"SETAREA", "READ"}

\* login_retries, keepalive's retries=0, and the default of send_command.
Retries(c) == CASE c = "LOGIN" -> 2 [] c = "GETDATETIME" -> 0 [] OTHER -> 1

NoExchange == [number |-> 0, seq |-> 0, attempt |-> 0, busy |-> FALSE]

\* What arrives carries in n how many events have arrived up to it.
EventFrame(n) == [kind |-> "M", n |-> n]
ReplyFrame(r, good, n) == [kind |-> "R", n |-> n, number |-> r.number, seq |-> r.seq, cmd |-> r.cmd, good |-> good]
\* Bytes outside the framing or +++, which are consumed; the end of the stream.
Junk(n) == [kind |-> "junk", n |-> n]
Eof(n) == [kind |-> "eof", n |-> n]

Misfortune == faults < MaxFaults /\ faults' = faults + 1

-----------------------------------------------------------------------------
(* The panel *)

\* Nothing comes after the end of the stream.
Delivers == sess # "none" /\ \A i \in 1..Len(wire) : wire[i].kind # "eof"

PanelSends ==
    /\ Delivers /\ sent < MaxEvents
    /\ wire' = Append(wire, EventFrame(sent + 1))
    /\ sent' = sent + 1
    /\ UNCHANGED <<seq, io, sess, queue, pending, task, x, taken, replied, answered, got, bounds>>

\* An answer may be late, out of turn or missing, but not older than Lag.
PanelAnswers ==
    \E r \in pending, good \in BOOLEAN :
        /\ Delivers /\ taken - r.number <= Lag
        /\ IF good THEN UNCHANGED faults ELSE Misfortune
        /\ wire' = Append(wire, ReplyFrame(r, good, sent))
        /\ pending' = pending \ {r}
        /\ answered' = answered \cup {r.number}
        /\ UNCHANGED <<seq, io, sess, queue, task, x, taken, replied, events, calls>>

WireBreaks ==
    /\ Delivers
    /\ Misfortune
    /\ wire' \in {Append(wire, Junk(sent)), Append(wire, Eof(sent))}
    /\ UNCHANGED <<seq, io, sess, queue, pending, task, x, taken, replied, answered, events, calls>>

-----------------------------------------------------------------------------
(* The io lock *)

Waits(t) == io' = Append(io, t)
Holds(t) == io # <<>> /\ Head(io) = t
Releases == io' = Tail(io)

Starts(t, c) == op' = [op EXCEPT ![t] = c] /\ pc' = [pc EXCEPT ![t] = "lock"]

\* The call of t returns or raises, and its locals go.
Ends(t) ==
    /\ pc' = [pc EXCEPT ![t] = "idle"] /\ op' = [op EXCEPT ![t] = "none"]
    /\ x' = IF pc[t] = "wait" THEN NoExchange ELSE x

-----------------------------------------------------------------------------
(* send_command *)

\* _next_seq; the mutants wrap one number early, and never.
NextSeqForever == seq' = seq + 1 /\ taken' = taken + 1
NextSeqEarly == seq' = (IF seq + 1 >= SeqMod - 1 THEN 0 ELSE seq + 1) /\ taken' = taken + 1
NextSeq == seq' = (IF seq + 1 = SeqMod THEN 0 ELSE seq + 1) /\ taken' = taken + 1

\* Writes the request of the exchange y and waits for its reply.
Sends(t, c, y) ==
    /\ x' = y
    /\ pending' = pending \cup {[number |-> y.number, seq |-> y.seq, cmd |-> c, attempt |-> y.attempt]}
    /\ pc' = [pc EXCEPT ![t] = "wait"]
    /\ UNCHANGED io

Call(t) ==
    /\ pc[t] = "idle" /\ calls < MaxCalls
    /\ calls' = calls + 1
    /\ \E c \in MayCall(t) \cup {"close"} : Starts(t, c)
    /\ Waits(t)
    /\ UNCHANGED <<seq, session, x, taken, replied, answered, events, faults>>

Refuses(c) == sess = "none" \/ (c # "LOGIN" /\ sess # "auth")

Refused(t) ==
    /\ pc[t] = "lock" /\ Holds(t)
    /\ op[t] \in Commands /\ Refuses(op[t])
    /\ Ends(t)
    /\ Releases
    /\ UNCHANGED <<seq, session, taken, replied, answered, events, bounds>>

Begin(t) ==
    /\ pc[t] = "lock" /\ Holds(t)
    /\ op[t] \in Commands /\ ~Refuses(op[t])
    /\ NextSeq
    /\ Sends(t, op[t], [number |-> taken, seq |-> seq, attempt |-> 0, busy |-> FALSE])
    /\ UNCHANGED <<op, sess, queue, wire, replied, answered, events, bounds>>

\* A wait that ran out with attempts left.  The request is sent again, with
\* a new number if it is Arm or Disarm and events arrived during the wait.
RetriesNow(t) == pc[t] = "wait" /\ wire = <<>> /\ x.attempt < Retries(op[t])
Renews(t) == x.busy /\ op[t] = "SETAREA"
RetrySeq(t) == IF Renews(t) THEN NextSeq ELSE UNCHANGED <<seq, taken>>

\* The socket dies while sending, at the first attempt or a later one.
WriteFails(t) ==
    /\ \/ pc[t] = "lock" /\ Holds(t) /\ op[t] \in Commands /\ ~Refuses(op[t]) /\ NextSeq
       \/ RetriesNow(t) /\ RetrySeq(t)
    /\ Misfortune
    /\ Ends(t)
    /\ Releases
    /\ UNCHANGED <<session, replied, answered, events, calls>>

-----------------------------------------------------------------------------
(* _await_response *)

Reads(t, kind) == pc[t] = "wait" /\ wire # <<>> /\ Head(wire).kind = kind

QueueEvent(t) ==
    /\ Reads(t, "M")
    /\ queue' = Append(queue, Head(wire).n) /\ wire' = Tail(wire)
    /\ x' = [x EXCEPT !.busy = TRUE]
    /\ UNCHANGED <<seq, io, sess, pending, task, taken, replied, answered, events, bounds>>

\* Assumption on the panel: a reply older than Lag does not arrive.
TooLate ==
    /\ wire # <<>> /\ Head(wire).kind = "R"
    /\ taken - Head(wire).number > Lag
    /\ wire' = Tail(wire)
    /\ UNCHANGED <<seq, io, sess, queue, pending, task, x, taken, replied, answered, events, bounds>>

InTime(f) == taken - f.number <= Lag

\* The mutant matches a reply by its command only.
MatchesCommand(t, f) == f.cmd = op[t]
Matches(t, f) == f.seq = x.seq

SkipReply(t) ==
    /\ Reads(t, "R") /\ InTime(Head(wire)) /\ ~Matches(t, Head(wire))
    /\ wire' = Tail(wire)
    /\ UNCHANGED <<seq, io, sess, queue, pending, task, x, taken, replied, answered, events, bounds>>

\* The call ends with the reply, or with ProtocolError if it answers another
\* command, is a NAK or has the wrong shape.  An accepted LOGIN authenticates
\* the session.
LoggedIn(t, f) == op[t] = "LOGIN" /\ f.cmd = "LOGIN" /\ f.good

TakeReply(t) ==
    /\ Reads(t, "R") /\ InTime(Head(wire)) /\ Matches(t, Head(wire))
    /\ replied' = [replied EXCEPT ![t] = Head(wire).number]
    /\ sess' = IF LoggedIn(t, Head(wire)) THEN "auth" ELSE sess
    /\ Ends(t)
    /\ wire' = Tail(wire)
    /\ Releases
    /\ UNCHANGED <<seq, queue, pending, taken, answered, events, bounds>>

\* A fault ends the call and the session; the end of the stream stays.
Faulted == wire # <<>> /\ Head(wire).kind \in {"junk", "eof"}
ReadsFault == wire' = IF Head(wire).kind = "eof" THEN wire ELSE Tail(wire)

WaitFails(t) ==
    /\ pc[t] = "wait" /\ Faulted
    /\ ReadsFault
    /\ Ends(t)
    /\ Releases
    /\ UNCHANGED <<seq, sess, queue, pending, taken, replied, answered, events, bounds>>

TimesOut(t) ==
    /\ pc[t] = "wait" /\ wire = <<>> /\ x.attempt >= Retries(op[t])
    /\ Ends(t)
    /\ Releases
    /\ UNCHANGED <<seq, session, taken, replied, answered, events, bounds>>

Resend(t) ==
    /\ RetriesNow(t)
    /\ RetrySeq(t)
    /\ Sends(t, op[t], [number |-> IF Renews(t) THEN taken ELSE x.number,
                        seq |-> IF Renews(t) THEN seq ELSE x.seq,
                        attempt |-> x.attempt + 1, busy |-> FALSE])
    /\ UNCHANGED <<op, sess, queue, wire, replied, answered, events, bounds>>

-----------------------------------------------------------------------------
(* recv_message, called by the listen task only *)

Receives(n) == got' = n /\ Ends(Listener)

\* A queued event is returned at once.
ReceiveQueued ==
    /\ pc[Listener] = "idle" /\ queue # <<>>
    /\ Receives(Head(queue)) /\ queue' = Tail(queue)
    /\ UNCHANGED <<seq, io, sess, wire, pending, taken, replied, answered, sent, bounds>>

ReceiveUnconnected ==
    /\ pc[Listener] = "idle" /\ queue = <<>> /\ sess = "none"
    /\ UNCHANGED vars

ReceiveStarts ==
    /\ pc[Listener] = "idle" /\ queue = <<>> /\ sess # "none"
    /\ Starts(Listener, "recv") /\ Waits(Listener)
    /\ UNCHANGED <<seq, session, x, taken, replied, answered, events, bounds>>

\* With the lock in hand the queue is looked at again: a command may have
\* queued events meanwhile.  The mutant goes straight to the stream.
ReceiveSliceBlindly ==
    /\ pc[Listener] = "lock" /\ op[Listener] = "recv" /\ Holds(Listener)
    /\ \/ sess = "none" /\ Ends(Listener) /\ Releases
       \/ sess # "none" /\ pc' = [pc EXCEPT ![Listener] = "slice"] /\ UNCHANGED <<io, op, x>>
    /\ UNCHANGED <<seq, session, taken, replied, answered, events, bounds>>

ReceiveSlice ==
    /\ pc[Listener] = "lock" /\ op[Listener] = "recv" /\ Holds(Listener)
    /\ \/ /\ queue # <<>>
          /\ Receives(Head(queue)) /\ queue' = Tail(queue)
          /\ Releases
       \/ /\ queue = <<>> /\ sess = "none"
          /\ Ends(Listener)
          /\ Releases /\ UNCHANGED <<queue, got>>
       \/ /\ queue = <<>> /\ sess # "none"
          /\ pc' = [pc EXCEPT ![Listener] = "slice"]
          /\ UNCHANGED <<io, queue, op, x, got>>
    /\ UNCHANGED <<seq, sess, wire, pending, taken, replied, answered, sent, bounds>>

ReceiveFrame ==
    /\ pc[Listener] = "slice" /\ wire # <<>> /\ Head(wire).kind = "M"
    /\ Receives(Head(wire).n) /\ wire' = Tail(wire)
    /\ Releases
    /\ UNCHANGED <<seq, sess, queue, pending, taken, replied, answered, sent, bounds>>

\* A slice that ran out, or read a reply nobody waits for, lets the lock go
\* and asks for it again behind those waiting; the mutant keeps it.
KeepsLock == UNCHANGED io
PassesLock == io' = Append(Tail(io), Listener)

SliceEnds ==
    /\ pc[Listener] = "slice"
    /\ \/ wire = <<>> /\ UNCHANGED wire
       \/ wire # <<>> /\ Head(wire).kind = "R" /\ InTime(Head(wire)) /\ wire' = Tail(wire)
    /\ \/ /\ PassesLock
          /\ pc' = [pc EXCEPT ![Listener] = "lock"]
          /\ UNCHANGED <<op, x>>
       \/ Releases /\ Ends(Listener)
    /\ UNCHANGED <<seq, sess, queue, pending, taken, replied, answered, events, bounds>>

SliceFails ==
    /\ pc[Listener] = "slice" /\ Faulted
    /\ ReadsFault
    /\ Ends(Listener)
    /\ Releases
    /\ UNCHANGED <<seq, sess, queue, pending, taken, replied, answered, events, bounds>>

-----------------------------------------------------------------------------
(* connect and close *)

\* What was not read is gone with the session.
Hangup == wire' = <<>> /\ pending' = {} /\ sent' = got + Len(queue)

\* connect takes no lock.  Only the listen task connects, after a close.
Connect ==
    /\ pc[Listener] = "idle" /\ sess = "none"
    /\ sess' = "open"
    /\ queue' = <<>> /\ wire' = <<>> /\ pending' = {} /\ sent' = got
    /\ UNCHANGED <<seq, io, task, x, taken, replied, answered, got, bounds>>

Close(t) ==
    /\ pc[t] = "lock" /\ op[t] = "close" /\ Holds(t)
    /\ sess' = "none"
    /\ Hangup
    /\ Ends(t)
    /\ Releases
    /\ UNCHANGED <<seq, queue, taken, replied, answered, got, bounds>>

-----------------------------------------------------------------------------
Init ==
    /\ seq = 0 /\ taken = 0 /\ io = <<>>
    /\ sess = "none"
    /\ queue = <<>> /\ wire = <<>> /\ pending = {}
    /\ pc = [t \in Tasks |-> "idle"] /\ op = [t \in Tasks |-> "none"]
    /\ x = NoExchange
    /\ replied = [t \in Tasks |-> -1] /\ answered = {}
    /\ sent = 0 /\ got = 0
    /\ calls = 0 /\ faults = 0

\* What a task does inside a call of send_command or close.
Works(t) ==
    \/ Refused(t) \/ Begin(t) \/ WriteFails(t) \/ Close(t)
    \/ QueueEvent(t) \/ SkipReply(t) \/ TakeReply(t) \/ WaitFails(t) \/ TimesOut(t) \/ Resend(t)

Listens == ReceiveSlice \/ ReceiveFrame \/ SliceEnds \/ SliceFails

Next ==
    \/ PanelSends \/ PanelAnswers \/ WireBreaks \/ TooLate
    \/ \E t \in Tasks : Call(t) \/ Works(t)
    \/ ReceiveQueued \/ ReceiveUnconnected \/ ReceiveStarts \/ Listens
    \/ Connect

Spec == Init /\ [][Next]_vars

FairSpec ==
    /\ Spec
    /\ \A t \in Tasks : WF_vars(Works(t))
    /\ WF_vars(Listens) /\ WF_vars(TooLate)

-----------------------------------------------------------------------------
(* Properties *)

Requests == [number : Nat, seq : 0..(SeqMod - 1), cmd : Commands, attempt : 0..2]

Frames ==
    [kind : {"M", "junk", "eof"}, n : Nat]
        \cup [kind : {"R"}, n : Nat, number : Nat, seq : 0..(SeqMod - 1), cmd : Commands, good : BOOLEAN]

TypeOK ==
    /\ seq \in 0..(SeqMod - 1) /\ taken \in Nat
    /\ io \in Seq(Tasks)
    /\ sess \in {"none", "open", "auth"}
    /\ queue \in Seq(Nat)
    /\ wire \in Seq(Frames)
    /\ pending \subseteq Requests
    /\ pc \in [Tasks -> {"idle", "lock", "wait", "slice"}]
    /\ op \in [Tasks -> Commands \cup {"none", "recv", "close"}]
    /\ x \in [number : Nat, seq : 0..(SeqMod - 1), attempt : 0..2, busy : BOOLEAN]
    /\ replied \in [Tasks -> Nat \cup {-1}] /\ answered \subseteq Nat
    /\ sent \in Nat /\ got \in Nat /\ calls \in Nat /\ faults \in Nat

\* A reply that carries the number a task waits for answers the request the
\* task sent, although numbers wrap and replies come late or twice.
MatchIsOwn ==
    \A t \in Tasks, i \in 1..Len(wire) :
        (pc[t] = "wait" /\ wire[i].kind = "R" /\ InTime(wire[i]) /\ Matches(t, wire[i]))
            => wire[i].number = x.number /\ wire[i].cmd = op[t]

\* Wherever an event waits, in the queue or on the wire, every one that came
\* before it is delivered first: the queue goes on from the last event
\* received, the wire from the end of the queue.
EventsInOrder ==
    LET before(i) == IF i = 1 THEN got + Len(queue) ELSE wire[i - 1].n
    IN  /\ \A i \in 1..Len(queue) : queue[i] = got + i
        /\ \A i \in 1..Len(wire) : wire[i].n = before(i) + (IF wire[i].kind = "M" THEN 1 ELSE 0)
        /\ sent = IF wire = <<>> THEN got + Len(queue) ELSE wire[Len(wire)].n

\* The client is one exchange at a time over a channel of events.
Asking == [t \in Tasks |-> IF pc[t] = "wait" THEN x.number ELSE -1]

Exchange == INSTANCE PanelExchange WITH
    asking <- Asking,
    reply <- replied,
    asked <- taken
ExchangeSpec == Exchange!Spec

\* A command or a close ends, whatever the other task and the panel do: the
\* listen task's endless reading cannot keep the lock from it.
CommandsEnd ==
    \A t \in Tasks : (pc[t] # "idle" /\ op[t] # "recv") ~> (pc[t] = "idle")
=============================================================================
