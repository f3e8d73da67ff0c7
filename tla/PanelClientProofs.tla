-------------------------- MODULE PanelClientProofs --------------------------
(***************************************************************************)
(* For every modulus, every Lag up to it and any number of calls, events   *)
(* and faults: a reply that matches is the reply to the request just sent, *)
(* events come in order, and the client is a PanelExchange.                *)
(***************************************************************************)
EXTENDS PanelClient, TLAPS

USE TasksAssumption, SeqAssumption, BoundsAssumption

\* The sequence number that was used a numbers ago.
Back(a) == IF seq >= a THEN seq - a ELSE seq - a + SeqMod

\* Only the head of the lock's queue is inside an exchange or a slice, and a
\* task that is in no call does not wait for the lock.
Once == \A i, j \in 1..Len(io) : io[i] = io[j] => i = j

\* t is not among those that hold the lock or wait for it.
Away(t) == \A i \in 1..Len(io) : io[i] # t

LockInv ==
    /\ Once
    /\ \A t \in Tasks : pc[t] \in {"wait", "slice"} => Holds(t) /\ sess # "none"
    /\ \A t \in Tasks : pc[t] = "idle" => Away(t)
    /\ \A t \in Tasks : pc[t] = "wait" => op[t] \in Commands
    /\ \A t \in Tasks : pc[t] = "slice" => t = Listener /\ op[t] = "recv" /\ queue = <<>>

\* A request or a reply under way carries the sequence number of its age.
Placed(r) == r.number < taken /\ (InTime(r) => r.seq = Back(taken - r.number))

\* The exchange in progress has the newest number.
Current(t, r) == r.number = x.number => r.cmd = op[t]

NumberInv ==
    /\ answered \subseteq 0..(taken - 1)
    /\ \A r \in pending : Placed(r)
    /\ \A i \in 1..Len(wire) : wire[i].kind = "R" => Placed(wire[i]) /\ wire[i].number \in answered
    /\ \A t \in Tasks : pc[t] = "wait" =>
        /\ x.number = taken - 1 /\ x.seq = Back(1)
        /\ \A r \in pending : Current(t, r)
        /\ \A i \in 1..Len(wire) : wire[i].kind = "R" => Current(t, wire[i])

IInv == TypeOK /\ LockInv /\ NumberInv

-----------------------------------------------------------------------------
(* Arithmetic of the sequence number *)

\* Two requests no more than SeqMod apart do not share a number.
LEMMA BackInjective ==
    ASSUME NEW a \in 1..SeqMod, seq \in 0..(SeqMod - 1), Back(a) = Back(1)
    PROVE  a = 1
BY DEF Back

\* Using a number makes everything under way one older.
LEMMA NextAges ==
    ASSUME seq \in 0..(SeqMod - 1), taken \in Nat, NextSeq
    PROVE  /\ seq' \in 0..(SeqMod - 1) /\ taken' = taken + 1 /\ seq = Back(1)'
           /\ \A a \in 1..(SeqMod - 1) : Back(a + 1)' = Back(a)
BY DEF NextSeq, Back

LEMMA PlacedAges ==
    ASSUME seq \in 0..(SeqMod - 1), taken \in Nat, NextSeq,
           NEW r, r.number \in Nat, Placed(r)
    PROVE  Placed(r)'
BY DEF NextSeq, Back, Placed, InTime

-----------------------------------------------------------------------------
(* Frames *)

LEMMA FrameFields ==
    ASSUME NEW f \in Frames
    PROVE  /\ f.kind \in {"M", "R", "junk", "eof"} /\ f.n \in Nat
           /\ f.kind = "R" => f.number \in Nat /\ f.seq \in 0..(SeqMod - 1) /\ f.cmd \in Commands
BY DEF Frames

LEMMA FramesMade ==
    ASSUME NEW n \in Nat
    PROVE  /\ EventFrame(n) \in Frames /\ Junk(n) \in Frames /\ Eof(n) \in Frames
           /\ \A r \in Requests, good \in BOOLEAN : ReplyFrame(r, good, n) \in Frames
BY DEF Frames, Requests, EventFrame, Junk, Eof, ReplyFrame

-----------------------------------------------------------------------------
(* Sequences *)

LEMMA Taken ==
    ASSUME NEW S, NEW w \in Seq(S), w # <<>>
    PROVE  /\ Head(w) = w[1] /\ Head(w) \in S /\ Tail(w) \in Seq(S)
           /\ Len(w) \in Nat \ {0} /\ Len(Tail(w)) = Len(w) - 1
           /\ \A i \in 1..Len(Tail(w)) : Tail(w)[i] = w[i + 1] /\ i + 1 \in 1..Len(w)
OBVIOUS

LEMMA WireTail ==
    ASSUME wire \in Seq(Frames), wire # <<>>
    PROVE  /\ Head(wire) = wire[1] /\ Head(wire) \in Frames /\ Tail(wire) \in Seq(Frames)
           /\ Len(wire) \in Nat \ {0} /\ Len(Tail(wire)) = Len(wire) - 1
           /\ \A i \in 1..Len(Tail(wire)) : Tail(wire)[i] = wire[i + 1] /\ i + 1 \in 1..Len(wire)
BY Taken

LEMMA QueueTail ==
    ASSUME queue \in Seq(Nat), queue # <<>>
    PROVE  /\ Head(queue) = queue[1] /\ Head(queue) \in Nat /\ Tail(queue) \in Seq(Nat)
           /\ Len(queue) \in Nat \ {0} /\ Len(Tail(queue)) = Len(queue) - 1
           /\ \A i \in 1..Len(Tail(queue)) : Tail(queue)[i] = queue[i + 1] /\ i + 1 \in 1..Len(queue)
BY Taken

LEMMA Put ==
    ASSUME NEW S, NEW w \in Seq(S), NEW e \in S
    PROVE  /\ Append(w, e) \in Seq(S)
           /\ Len(Append(w, e)) = Len(w) + 1 /\ Len(w) \in Nat
           /\ \A i \in 1..Len(Append(w, e)) : Append(w, e)[i] = IF i = Len(w) + 1 THEN e ELSE w[i]
OBVIOUS

-----------------------------------------------------------------------------
(* The io lock *)

LEMMA LockWaits ==
    ASSUME NEW t \in Tasks, io \in Seq(Tasks), Once, Away(t), Waits(t)
    PROVE  /\ io' \in Seq(Tasks) /\ Once'
           /\ \A u \in Tasks : u # t => (Away(u) => Away(u)')
           /\ \A u \in Tasks : Holds(u) => Holds(u)'
<1>1. io' \in Seq(Tasks) /\ Len(io') = Len(io) + 1 /\ Len(io) \in Nat
  BY DEF Waits
<1>2. \A i \in 1..Len(io') : io'[i] = IF i = Len(io) + 1 THEN t ELSE io[i]
  BY DEF Waits
<1> QED
  BY <1>1, <1>2 DEF Once, Away, Holds

LEMMA LockReleases ==
    ASSUME NEW t \in Tasks, io \in Seq(Tasks), Once, Holds(t), Releases
    PROVE  /\ io' \in Seq(Tasks) /\ Once' /\ Away(t)'
           /\ \A u \in Tasks : u # t => (Away(u) => Away(u)') /\ ~Holds(u)
BY Taken DEF Once, Away, Releases, Holds

LEMMA LockPasses ==
    ASSUME io \in Seq(Tasks), Once, Holds(Listener), PassesLock
    PROVE  /\ io' \in Seq(Tasks) /\ Once'
           /\ \A u \in Tasks : u # Listener => (Away(u) => Away(u)') /\ ~Holds(u)
<1> DEFINE rest == Tail(io)
<1>1. Listener \in Tasks /\ io # <<>> /\ Head(io) = Listener
  BY DEF Holds, Tasks
<1>2. /\ rest \in Seq(Tasks) /\ Len(rest) = Len(io) - 1 /\ Len(io) \in Nat \ {0} /\ io[1] = Listener
      /\ \A i \in 1..Len(rest) : rest[i] = io[i + 1] /\ i + 1 \in 1..Len(io)
  BY <1>1, Taken
<1>3. io' = Append(rest, Listener)
  BY DEF PassesLock
<1> HIDE DEF rest
<1>4. /\ io' \in Seq(Tasks) /\ Len(io') = Len(rest) + 1
      /\ \A i \in 1..Len(io') : io'[i] = IF i = Len(rest) + 1 THEN Listener ELSE rest[i]
  BY <1>1, <1>2, <1>3, Put
<1>5. Len(io') = Len(io) /\ \A i \in 1..Len(io) : io'[i] = IF i = Len(io) THEN Listener ELSE io[i + 1]
  BY <1>2, <1>4
<1>6. Once'
  BY <1>1, <1>2, <1>5 DEF Once
<1>7. ASSUME NEW u \in Tasks, u # Listener, Away(u) PROVE Away(u)'
  <2>1. \A i \in 1..Len(io) : io'[i] # u
    BY <1>2, <1>5, <1>7 DEF Away
  <2> QED
    BY <2>1, <1>5 DEF Away
<1>8. \A u \in Tasks : u # Listener => ~Holds(u)
  BY <1>1 DEF Holds
<1> QED
  BY <1>4, <1>6, <1>7, <1>8

-----------------------------------------------------------------------------
(* Type correctness *)

LEMMA InitTyped == Init => TypeOK
BY DEF Init, TypeOK, NoExchange, Tasks

LEMMA NextTyped == TypeOK /\ LockInv /\ [Next]_vars => TypeOK'
<1> SUFFICES ASSUME TypeOK, LockInv, [Next]_vars PROVE TypeOK'
  OBVIOUS
<1> USE DEF TypeOK, session, task, events, bounds, Misfortune
<1>1. CASE PanelSends
  BY <1>1, FramesMade, Put DEF PanelSends
<1>2. CASE PanelAnswers
  <2>1. PICK r \in pending, good \in BOOLEAN :
            /\ wire' = Append(wire, ReplyFrame(r, good, sent)) /\ pending' = pending \ {r}
            /\ answered' = answered \cup {r.number} /\ faults' \in {faults, faults + 1}
            /\ UNCHANGED <<seq, io, sess, queue, task, x, taken, replied, events, calls>>
    BY <1>2 DEF PanelAnswers
  <2>2. ReplyFrame(r, good, sent) \in Frames /\ r.number \in Nat
    BY FramesMade DEF Requests
  <2>3. wire' \in Seq(Frames)
    BY <2>1, <2>2, Put
  <2>4. pending' \subseteq Requests /\ answered' \subseteq Nat
    BY <2>1, <2>2
  <2>5. faults' \in Nat
    BY <2>1
  <2> QED
    BY <2>1, <2>3, <2>4, <2>5
<1>3. CASE WireBreaks
  <2>1. PICK f \in {Junk(sent), Eof(sent)} : wire' = Append(wire, f)
    BY <1>3 DEF WireBreaks
  <2>2. wire' \in Seq(Frames)
    BY <2>1, FramesMade, Put
  <2> QED
    BY <1>3, <2>2 DEF WireBreaks
<1>4. CASE TooLate
  BY <1>4, WireTail DEF TooLate
<1>5. ASSUME NEW t \in Tasks, Call(t) PROVE TypeOK'
  BY <1>5, LockWaits DEF Call, Starts, MayCall, Commands, Tasks, LockInv
<1>6. ASSUME NEW t \in Tasks, Refused(t) PROVE TypeOK'
  BY <1>6, LockReleases DEF Refused, Ends, NoExchange, LockInv
<1>7. ASSUME NEW t \in Tasks, Begin(t) PROVE TypeOK'
  BY <1>7 DEF Begin, NextSeq, Sends, Requests
<1>8. ASSUME NEW t \in Tasks, WriteFails(t) PROVE TypeOK'
  BY <1>8, LockReleases DEF WriteFails, NextSeq, RetriesNow, RetrySeq, Ends, NoExchange, LockInv
<1>9. ASSUME NEW t \in Tasks, Close(t) PROVE TypeOK'
  BY <1>9, LockReleases DEF Close, Hangup, Ends, NoExchange, LockInv
<1>10. ASSUME NEW t \in Tasks, QueueEvent(t) PROVE TypeOK'
  BY <1>10, WireTail, Put, FrameFields DEF QueueEvent, Reads
<1>11. ASSUME NEW t \in Tasks, SkipReply(t) PROVE TypeOK'
  BY <1>11, WireTail DEF SkipReply, Reads
<1>12. ASSUME NEW t \in Tasks, TakeReply(t) PROVE TypeOK'
  BY <1>12, WireTail, FrameFields, LockReleases DEF TakeReply, Reads, Ends, NoExchange, LockInv
<1>13. ASSUME NEW t \in Tasks, WaitFails(t) PROVE TypeOK'
  BY <1>13, WireTail, LockReleases DEF WaitFails, Faulted, ReadsFault, Ends, NoExchange, LockInv
<1>14. ASSUME NEW t \in Tasks, TimesOut(t) PROVE TypeOK'
  BY <1>14, LockReleases DEF TimesOut, Ends, NoExchange, LockInv
<1>15. ASSUME NEW t \in Tasks, Resend(t) PROVE TypeOK'
  <2>1. x.attempt + 1 \in 0..2
    BY <1>15 DEF Resend, RetriesNow, Retries
  <2> QED
    BY <1>15, <2>1 DEF Resend, RetriesNow, RetrySeq, NextSeq, Sends, Requests, LockInv
<1>16. CASE ReceiveQueued
  BY <1>16, QueueTail DEF ReceiveQueued, Receives, Ends, NoExchange, Tasks
<1>17. CASE ReceiveUnconnected
  BY <1>17 DEF ReceiveUnconnected, vars
<1>18. CASE ReceiveStarts
  BY <1>18, LockWaits DEF ReceiveStarts, Starts, Tasks, LockInv
<1>19. CASE ReceiveSlice
  <2>1. CASE queue # <<>>
    <3>1. queue' \in Seq(Nat) /\ got' \in Nat
      BY <1>19, <2>1, QueueTail DEF ReceiveSlice, Receives
    <3>2. io' \in Seq(Tasks)
      BY <1>19, <2>1, LockReleases DEF ReceiveSlice, Tasks, LockInv
    <3> QED
      BY <1>19, <2>1, <3>1, <3>2 DEF ReceiveSlice, Receives, Ends, NoExchange, Tasks
  <2>2. CASE queue = <<>>
    BY <1>19, <2>2, LockReleases DEF ReceiveSlice, Ends, Tasks, LockInv
  <2> QED
    BY <2>1, <2>2
<1>20. CASE ReceiveFrame
  BY <1>20, WireTail, FrameFields, LockReleases DEF ReceiveFrame, Receives, Ends, NoExchange, Tasks, LockInv
<1>21. CASE SliceEnds
  <2>1. wire' \in Seq(Frames)
    <3>1. wire' = wire \/ (wire # <<>> /\ wire' = Tail(wire))
      BY <1>21 DEF SliceEnds
    <3> QED
      BY <3>1, WireTail
  <2>2. io' \in Seq(Tasks)
    BY <1>21, LockReleases, LockPasses DEF SliceEnds, Tasks, LockInv
  <2> QED
    BY <1>21, <2>1, <2>2 DEF SliceEnds, Ends, Tasks
<1>22. CASE SliceFails
  BY <1>22, WireTail, LockReleases DEF SliceFails, Faulted, ReadsFault, Ends, NoExchange, Tasks, LockInv
<1>23. CASE Connect
  BY <1>23 DEF Connect
<1>24. CASE UNCHANGED vars
  BY <1>24 DEF vars
<1> QED
  BY <1>1, <1>2, <1>3, <1>4, <1>5, <1>6, <1>7, <1>8, <1>9, <1>10, <1>11, <1>12, <1>13, <1>14, <1>15, <1>16,
     <1>17, <1>18, <1>19, <1>20, <1>21, <1>22, <1>23, <1>24 DEF Next, Works, Listens

-----------------------------------------------------------------------------
(* The lock is respected *)

LEMMA InitLock == Init => LockInv
BY DEF Init, LockInv, Once, Away, Tasks

\* A task that leaves the lock, or lets the next one have it, disturbs nobody.
LEMMA EndsLock ==
    ASSUME TypeOK, LockInv, NEW t \in Tasks, Holds(t), Ends(t), Releases
    PROVE  LockInv'
<1>1. pc' = [pc EXCEPT ![t] = "idle"] /\ op' = [op EXCEPT ![t] = "none"]
  BY DEF Ends
<1>2. Once' /\ Away(t)' /\ \A u \in Tasks : u # t => (Away(u) => Away(u)') /\ ~Holds(u)
  BY LockReleases DEF TypeOK, LockInv
<1>3. \A u \in Tasks : u # t => pc[u] \notin {"wait", "slice"}
  BY <1>2 DEF LockInv
<1> QED
  BY <1>1, <1>2, <1>3 DEF LockInv, TypeOK

\* A call asks for the lock.
LEMMA StartsLock ==
    ASSUME TypeOK, LockInv, NEW t \in Tasks, pc[t] = "idle", NEW c, Starts(t, c), Waits(t),
           UNCHANGED <<sess, queue>>
    PROVE  LockInv'
<1>1. Once' /\ \A u \in Tasks : u # t => (Away(u) => Away(u)')
  BY LockWaits DEF TypeOK, LockInv
<1>2. \A u \in Tasks : Holds(u) => Holds(u)'
  BY LockWaits DEF TypeOK, LockInv
<1> QED
  BY <1>1, <1>2 DEF LockInv, TypeOK, Starts

LEMMA NextLock == TypeOK /\ LockInv /\ [Next]_vars => LockInv'
<1> SUFFICES ASSUME TypeOK, LockInv, [Next]_vars PROVE LockInv'
  OBVIOUS
<1> USE DEF session, task, events, bounds
<1>0. ASSUME UNCHANGED <<io, sess, pc, op>>, queue' = queue \/ pc[Listener] # "slice" PROVE LockInv'
  BY <1>0 DEF LockInv, Once, Away, Holds, Tasks
<1>1. CASE PanelSends \/ PanelAnswers \/ WireBreaks \/ TooLate \/ UNCHANGED vars
  BY <1>0, <1>1 DEF PanelSends, PanelAnswers, WireBreaks, TooLate, vars
<1>5. ASSUME NEW t \in Tasks, Call(t) PROVE LockInv'
  BY <1>5, StartsLock DEF Call
<1>6. ASSUME NEW t \in Tasks, Refused(t) \/ WriteFails(t) \/ Close(t) PROVE LockInv'
  <2>1. Holds(t) /\ Ends(t) /\ Releases /\ queue' = queue
    BY <1>6 DEF Refused, WriteFails, Close, RetriesNow, LockInv
  <2>2. sess' = sess \/ Close(t)
    BY <1>6 DEF Refused, WriteFails
  <2>3. \A u \in Tasks : u # t => pc[u] \notin {"wait", "slice"}
    BY <2>1 DEF LockInv, Holds
  <2> QED
    BY <2>1, <2>2, <2>3, EndsLock
<1>7. ASSUME NEW t \in Tasks, Begin(t) PROVE LockInv'
  BY <1>7 DEF Begin, Sends, Refuses, LockInv, TypeOK, Once, Away, Holds
<1>8. ASSUME NEW t \in Tasks, TakeReply(t) \/ WaitFails(t) \/ TimesOut(t) PROVE LockInv'
  <2>1. Holds(t) /\ Ends(t) /\ Releases /\ queue' = queue /\ pc[t] = "wait"
    BY <1>8 DEF TakeReply, WaitFails, TimesOut, Reads, LockInv
  <2>2. \A u \in Tasks : u # t => pc[u] \notin {"wait", "slice"}
    BY <2>1 DEF LockInv, Holds
  <2> QED
    BY <2>1, <2>2, EndsLock
<1>9. ASSUME NEW t \in Tasks, QueueEvent(t) \/ SkipReply(t) PROVE LockInv'
  <2>1. pc[t] = "wait" /\ UNCHANGED <<io, sess, pc, op>>
    BY <1>9 DEF QueueEvent, SkipReply, Reads
  <2>2. pc[Listener] # "slice"
    BY <2>1 DEF LockInv, Holds, Tasks
  <2> QED
    BY <2>1, <2>2, <1>0
<1>10. ASSUME NEW t \in Tasks, Resend(t) PROVE LockInv'
  BY <1>10 DEF Resend, RetriesNow, Sends, LockInv, TypeOK, Once, Away, Holds
<1>11. CASE ReceiveQueued
  BY <1>11 DEF ReceiveQueued, Receives, Ends, LockInv, TypeOK, Once, Away, Holds, Tasks
<1>12. CASE ReceiveUnconnected
  BY <1>0, <1>12 DEF ReceiveUnconnected, vars
<1>13. CASE ReceiveStarts
  BY <1>13, StartsLock DEF ReceiveStarts, Tasks
<1>14. CASE ReceiveSlice
  <2>1. CASE Ends(Listener) /\ Releases
    BY <1>14, <2>1, EndsLock DEF ReceiveSlice, Tasks
  <2>2. CASE pc' = [pc EXCEPT ![Listener] = "slice"] /\ UNCHANGED <<io, op, queue>> /\ queue = <<>> /\ sess # "none"
    BY <1>14, <2>2 DEF ReceiveSlice, LockInv, TypeOK, Once, Away, Holds
  <2> QED
    BY <1>14, <2>1, <2>2 DEF ReceiveSlice, Receives
<1>15. CASE ReceiveFrame \/ SliceFails
  <2>1. Holds(Listener) /\ Ends(Listener) /\ Releases /\ UNCHANGED <<sess, queue>>
    BY <1>15 DEF ReceiveFrame, SliceFails, Receives, LockInv, Tasks
  <2> QED
    BY <2>1, EndsLock DEF Tasks
<1>16. CASE SliceEnds
  <2>1. Holds(Listener) /\ Listener \in Tasks
    BY <1>16 DEF SliceEnds, LockInv, Tasks
  <2>2. CASE Releases /\ Ends(Listener)
    BY <1>16, <2>1, <2>2, EndsLock DEF SliceEnds
  <2>3. CASE PassesLock /\ pc' = [pc EXCEPT ![Listener] = "lock"] /\ UNCHANGED op
    <3>1. Once' /\ \A u \in Tasks : u # Listener => (Away(u) => Away(u)') /\ ~Holds(u)
      BY <2>1, <2>3, LockPasses DEF TypeOK, LockInv
    <3> QED
      BY <1>16, <2>1, <2>3, <3>1 DEF SliceEnds, LockInv, TypeOK
  <2> QED
    BY <1>16, <2>2, <2>3 DEF SliceEnds
<1>17. CASE Connect
  BY <1>17 DEF Connect, LockInv, Once, Away, Holds, Tasks
<1> QED
  BY <1>1, <1>5, <1>6, <1>7, <1>8, <1>9, <1>10, <1>11, <1>12, <1>13, <1>14, <1>15, <1>16, <1>17
     DEF Next, Works, Listens

-----------------------------------------------------------------------------
(* Numbers under way *)

LEMMA InitNumber == Init => NumberInv
BY DEF Init, NumberInv, Tasks

\* A step that uses no number and puts no request or reply under way.
Fades ==
    /\ UNCHANGED <<seq, taken, answered>>
    /\ pending' \subseteq pending
    /\ \A i \in 1..Len(wire') : wire'[i].kind = "R" => \E j \in 1..Len(wire) : wire'[i] = wire[j]
    /\ \A t \in Tasks : pc'[t] = "wait" =>
        pc[t] = "wait" /\ op'[t] = op[t] /\ x'.number = x.number /\ x'.seq = x.seq

LEMMA FadesNumber == NumberInv /\ Fades => NumberInv'
BY DEF NumberInv, Fades, Placed, Current, InTime, Back

\* What is read from the wire, and what is put there that is no reply.
LEMMA WireFades ==
    ASSUME TypeOK,
           \/ wire' = wire \/ wire' = <<>>
           \/ wire # <<>> /\ wire' = Tail(wire)
           \/ \E f \in Frames : f.kind # "R" /\ wire' = Append(wire, f)
    PROVE  \A i \in 1..Len(wire') : wire'[i].kind = "R" => \E j \in 1..Len(wire) : wire'[i] = wire[j]
<1>1. CASE wire' = wire \/ wire' = <<>>
  BY <1>1
<1>2. CASE wire # <<>> /\ wire' = Tail(wire)
  BY <1>2, WireTail DEF TypeOK
<1>3. CASE \E f \in Frames : f.kind # "R" /\ wire' = Append(wire, f)
  <2>1. PICK f \in Frames : f.kind # "R" /\ wire' = Append(wire, f)
    BY <1>3
  <2>2. /\ Len(wire') = Len(wire) + 1 /\ Len(wire) \in Nat
        /\ \A i \in 1..Len(wire') : wire'[i] = IF i = Len(wire) + 1 THEN f ELSE wire[i]
    BY <2>1, Put DEF TypeOK
  <2> QED
    BY <2>1, <2>2
<1> QED
  BY <1>1, <1>2, <1>3

\* Waiting tasks go on waiting for the same, or stop.
LEMMA EndsFades ==
    ASSUME TypeOK, LockInv, NEW t \in Tasks, Holds(t), Ends(t)
    PROVE  \A u \in Tasks : pc'[u] # "wait"
BY DEF Ends, LockInv, TypeOK, Holds

LEMMA NextFades ==
    ASSUME TypeOK, LockInv, [Next]_vars,
           ~PanelAnswers, \A t \in Tasks : ~Begin(t) /\ ~WriteFails(t) /\ ~Resend(t)
    PROVE  Fades
<1> USE DEF session, task, events, bounds
<1>1. CASE PanelSends
  <2>1. EventFrame(sent + 1) \in Frames /\ EventFrame(sent + 1).kind # "R"
    BY FramesMade DEF TypeOK, EventFrame
  <2> QED
    BY <1>1, <2>1, WireFades DEF PanelSends, Fades
<1>2. CASE WireBreaks
  <2>1. /\ Junk(sent) \in Frames /\ Junk(sent).kind # "R"
        /\ Eof(sent) \in Frames /\ Eof(sent).kind # "R"
    BY FramesMade DEF TypeOK, Junk, Eof
  <2>2. \E f \in Frames : f.kind # "R" /\ wire' = Append(wire, f)
    BY <1>2, <2>1 DEF WireBreaks
  <2> QED
    BY <1>2, <2>2, WireFades DEF WireBreaks, Fades
<1>3. CASE TooLate \/ UNCHANGED vars \/ ReceiveUnconnected
  BY <1>3, WireFades DEF TooLate, ReceiveUnconnected, vars, Fades
<1>4. ASSUME NEW t \in Tasks, Call(t) PROVE Fades
  BY <1>4, WireFades DEF Call, Starts, Fades, TypeOK
<1>5. ASSUME NEW t \in Tasks, Refused(t) \/ Close(t) \/ TakeReply(t) \/ WaitFails(t) \/ TimesOut(t) PROVE Fades
  <2>1. Holds(t) /\ Ends(t)
    BY <1>5 DEF Refused, Close, TakeReply, WaitFails, TimesOut, Reads, LockInv
  <2>2. wire' = wire \/ wire' = <<>> \/ (wire # <<>> /\ wire' = Tail(wire))
    BY <1>5 DEF Refused, Close, Hangup, TakeReply, WaitFails, TimesOut, Reads, Faulted, ReadsFault
  <2>3. UNCHANGED <<seq, taken, answered>> /\ pending' \subseteq pending
    BY <1>5 DEF Refused, Close, Hangup, TakeReply, WaitFails, TimesOut
  <2> QED
    BY <2>1, <2>2, <2>3, WireFades, EndsFades DEF Fades
<1>6. ASSUME NEW t \in Tasks, QueueEvent(t) \/ SkipReply(t) PROVE Fades
  <2>1. wire # <<>> /\ wire' = Tail(wire)
    BY <1>6 DEF QueueEvent, SkipReply, Reads
  <2>2. x'.number = x.number /\ x'.seq = x.seq
    BY <1>6 DEF QueueEvent, SkipReply, TypeOK
  <2>3. UNCHANGED <<seq, taken, answered, pc, op, pending>>
    BY <1>6 DEF QueueEvent, SkipReply
  <2> QED
    BY <2>1, <2>2, <2>3, WireFades DEF Fades
<1>7. CASE ReceiveQueued \/ ReceiveStarts
  BY <1>7, WireFades DEF ReceiveQueued, ReceiveStarts, Receives, Starts, Ends, Fades, TypeOK, Tasks
<1>8. CASE ReceiveSlice \/ SliceEnds
  <2>1. wire' = wire \/ (wire # <<>> /\ wire' = Tail(wire))
    BY <1>8 DEF ReceiveSlice, SliceEnds
  <2>2. \A t \in Tasks : pc'[t] # "wait"
    BY <1>8, EndsFades DEF ReceiveSlice, SliceEnds, Receives, Ends, LockInv, TypeOK, Holds, Tasks
  <2> QED
    BY <1>8, <2>1, <2>2, WireFades DEF ReceiveSlice, SliceEnds, Fades
<1>9. CASE ReceiveFrame \/ SliceFails
  <2>1. Holds(Listener) /\ Ends(Listener) /\ Listener \in Tasks
    BY <1>9 DEF ReceiveFrame, SliceFails, Receives, LockInv, Tasks
  <2>2. wire' = wire \/ (wire # <<>> /\ wire' = Tail(wire))
    BY <1>9 DEF ReceiveFrame, SliceFails, Faulted, ReadsFault
  <2> QED
    BY <1>9, <2>1, <2>2, WireFades, EndsFades DEF ReceiveFrame, SliceFails, Fades
<1>10. CASE Connect
  BY <1>10, WireFades DEF Connect, Fades
<1> QED
  BY <1>1, <1>2, <1>3, <1>4, <1>5, <1>6, <1>7, <1>8, <1>9, <1>10 DEF Next, Works, Listens

\* A fresh number makes what is under way older.
LEMMA NumberAges ==
    ASSUME TypeOK, NextSeq
    PROVE  /\ taken' = taken + 1 /\ taken \in Nat /\ seq = Back(1)'
           /\ \A e : e.number \in Nat /\ Placed(e) => Placed(e)' /\ e.number < taken
<1>1. ASSUME NEW e, e.number \in Nat, Placed(e) PROVE Placed(e)' /\ e.number < taken
  BY <1>1, PlacedAges DEF TypeOK, Placed
<1> QED
  BY <1>1, NextAges DEF TypeOK

\* The request of a new exchange, or of one renewed, is the newest.
LEMMA SendsNumber ==
    ASSUME TypeOK, NumberInv, NextSeq, UNCHANGED <<op, wire, answered>>,
           NEW t \in Tasks, \A u \in Tasks : u # t => pc[u] # "wait",
           NEW y, y.number = taken, y.seq = seq, Sends(t, op[t], y)
    PROVE  NumberInv'
<1> DEFINE new == [number |-> y.number, seq |-> y.seq, cmd |-> op[t], attempt |-> y.attempt]
<1>1. /\ taken' = taken + 1 /\ taken \in Nat /\ seq = Back(1)'
      /\ \A e : e.number \in Nat /\ Placed(e) => Placed(e)' /\ e.number < taken
  BY NumberAges
<1>2. x' = y /\ pending' = pending \cup {new} /\ \A u \in Tasks : pc'[u] = "wait" => u = t
  BY DEF Sends, TypeOK
<1>3. Placed(new)' /\ Current(t, new)'
  BY <1>1 DEF Placed, Current
<1>4. ASSUME NEW e, e.number \in Nat, Placed(e) PROVE Placed(e)' /\ Current(t, e)'
  BY <1>1, <1>2, <1>4 DEF Current
<1>5. \A r \in pending' : Placed(r)' /\ Current(t, r)'
  <2>1. \A r \in pending : r.number \in Nat /\ Placed(r)
    BY DEF TypeOK, Requests, NumberInv
  <2>2. \A r \in pending : Placed(r)' /\ Current(t, r)'
    BY <2>1, <1>4
  <2> QED
    BY <1>2, <1>3, <2>2
<1>6. \A i \in 1..Len(wire') : wire'[i].kind = "R" => wire'[i].number \in Nat /\ Placed(wire'[i]) /\ wire'[i].number \in answered'
  BY FrameFields DEF TypeOK, NumberInv
<1>7. \A e : (\E i \in 1..Len(wire') : e = wire'[i] /\ e.kind = "R") => Placed(e)' /\ Current(t, e)'
  BY <1>4, <1>6
<1>8. x'.number = taken' - 1 /\ x'.seq = Back(1)'
  BY <1>1, <1>2
<1>9. answered' \subseteq 0..(taken' - 1)
  BY <1>1 DEF NumberInv
<1> QED
  BY <1>2, <1>5, <1>6, <1>7, <1>8, <1>9 DEF NumberInv, Placed, Current, InTime, Back

LEMMA NextNumber == TypeOK /\ LockInv /\ NumberInv /\ [Next]_vars => NumberInv'
<1> SUFFICES ASSUME TypeOK, LockInv, NumberInv, [Next]_vars PROVE NumberInv'
  OBVIOUS
<1> USE DEF session, task, events, bounds
<1>1. CASE PanelAnswers
  <2>1. PICK r \in pending, good \in BOOLEAN :
            /\ wire' = Append(wire, ReplyFrame(r, good, sent)) /\ pending' = pending \ {r}
            /\ answered' = answered \cup {r.number}
            /\ UNCHANGED <<seq, taken, x, pc, op>>
    BY <1>1 DEF PanelAnswers
  <2> DEFINE f == ReplyFrame(r, good, sent)
  <2>2. f.number = r.number /\ f.seq = r.seq /\ f.cmd = r.cmd /\ f.kind = "R"
    BY DEF ReplyFrame
  <2>3. f \in Frames /\ r.number \in Nat /\ wire \in Seq(Frames)
    BY FramesMade DEF TypeOK, Requests
  <2>4. Placed(r) /\ \A t \in Tasks : pc[t] = "wait" => Current(t, r)
    BY DEF NumberInv
  <2>5. Placed(f) /\ \A t \in Tasks : pc[t] = "wait" => Current(t, f)
    BY <2>2, <2>4 DEF Placed, InTime, Current
  <2> HIDE DEF f
  <2>6. \A i \in 1..Len(wire') : wire'[i] = f \/ \E j \in 1..Len(wire) : wire'[i] = wire[j]
    <3>1. Len(wire) \in Nat /\ Len(wire') = Len(wire) + 1 /\ \A i \in 1..Len(wire') : wire'[i] = IF i = Len(wire) + 1 THEN f ELSE wire[i]
      BY <2>1, <2>3, Put DEF f
    <3> QED
      BY <3>1
  <2>7. \A i \in 1..Len(wire') : wire'[i].kind = "R" =>
            /\ Placed(wire'[i]) /\ wire'[i].number \in answered'
            /\ \A t \in Tasks : pc[t] = "wait" => Current(t, wire'[i])
    BY <2>1, <2>2, <2>5, <2>6 DEF NumberInv
  <2>8. answered' \subseteq 0..(taken - 1)
    <3>1. r.number \in 0..(taken - 1) /\ answered \subseteq 0..(taken - 1)
      BY <2>3, <2>4 DEF NumberInv, Placed, TypeOK
    <3> QED
      BY <2>1, <3>1
  <2>9. \A e : (Placed(e) <=> Placed(e)') /\ \A t \in Tasks : Current(t, e) <=> Current(t, e)'
    BY <2>1 DEF Placed, InTime, Back, Current
  <2>10. Back(1)' = Back(1)
    BY <2>1 DEF Back
  <2> QED
    BY <2>1, <2>7, <2>8, <2>9, <2>10 DEF NumberInv
<1>2. ASSUME NEW t \in Tasks, Begin(t) PROVE NumberInv'
  <2>1. \A u \in Tasks : u # t => pc[u] # "wait"
    BY <1>2 DEF Begin, LockInv, Holds
  <2> QED
    BY <1>2, <2>1, SendsNumber DEF Begin
<1>3. ASSUME NEW t \in Tasks, WriteFails(t) PROVE NumberInv'
  <2>1. Holds(t) /\ Ends(t) /\ UNCHANGED <<pending, wire, answered>>
    BY <1>3 DEF WriteFails, RetriesNow, LockInv
  <2>2. \A u \in Tasks : pc'[u] # "wait"
    BY <2>1, EndsFades
  <2>3. CASE NextSeq
    <3>0. taken' = taken + 1 /\ taken \in Nat
      BY <2>3, NumberAges DEF TypeOK
    <3>1. answered' \subseteq 0..(taken' - 1)
      BY <2>1, <3>0 DEF NumberInv
    <3>2. \A e : e.number \in Nat /\ Placed(e) => Placed(e)'
      BY <2>3, NumberAges
    <3>3. \A r \in pending : Placed(r)'
      BY <3>2 DEF TypeOK, Requests, NumberInv
    <3>4. \A e : (\E i \in 1..Len(wire) : e = wire[i] /\ e.kind = "R") => Placed(e)'
      BY <3>2, FrameFields DEF TypeOK, NumberInv
    <3> QED
      BY <2>1, <2>2, <3>1, <3>3, <3>4 DEF NumberInv, Placed, InTime, Back
  <2>4. CASE UNCHANGED <<seq, taken>>
    <3>1. Fades
      BY <2>1, <2>2, <2>4 DEF Fades
    <3> QED
      BY <3>1, FadesNumber
  <2> QED
    BY <1>3, <2>3, <2>4 DEF WriteFails, RetrySeq
<1>4. ASSUME NEW t \in Tasks, Resend(t) PROVE NumberInv'
  <2>1. pc[t] = "wait" /\ UNCHANGED <<op, wire, answered>> /\ \A u \in Tasks : u # t => pc[u] # "wait"
    BY <1>4 DEF Resend, RetriesNow, LockInv, Holds
  <2>2. CASE Renews(t)
    BY <1>4, <2>1, <2>2, SendsNumber DEF Resend, RetrySeq
  <2>3. CASE ~Renews(t)
    <3> DEFINE y == [number |-> x.number, seq |-> x.seq, attempt |-> x.attempt + 1, busy |-> FALSE]
               again == [number |-> x.number, seq |-> x.seq, cmd |-> op[t], attempt |-> x.attempt + 1]
    <3>1. UNCHANGED <<seq, taken>> /\ x' = y /\ pending' = pending \cup {again} /\ pc' = [pc EXCEPT ![t] = "wait"]
      BY <1>4, <2>3 DEF Resend, RetrySeq, Sends
    <3>2. x.number = taken - 1 /\ x.seq = Back(1) /\ taken \in Nat
      BY <2>1 DEF NumberInv, TypeOK
    <3>3. Placed(again) /\ Current(t, again)
      BY <3>2 DEF Placed, Current
    <3>4. x'.number = x.number /\ x'.seq = x.seq /\ Back(1)' = Back(1)
      BY <3>1 DEF Back
    <3>5. \A e : (Placed(e) <=> Placed(e)') /\ \A u \in Tasks : Current(u, e) <=> Current(u, e)'
      BY <2>1, <3>1, <3>4 DEF Placed, InTime, Back, Current
    <3>6. \A u \in Tasks : pc'[u] = "wait" => u = t
      BY <2>1, <3>1 DEF TypeOK
    <3> QED
      BY <2>1, <3>1, <3>2, <3>3, <3>4, <3>5, <3>6 DEF NumberInv
  <2> QED
    BY <2>2, <2>3
<1>5. CASE ~PanelAnswers /\ \A t \in Tasks : ~Begin(t) /\ ~WriteFails(t) /\ ~Resend(t)
  BY <1>5, NextFades, FadesNumber
<1> QED
  BY <1>1, <1>2, <1>3, <1>4, <1>5

-----------------------------------------------------------------------------
(* What follows *)

LEMMA Inductive == Spec => []IInv
<1>1. Init => IInv
  BY InitTyped, InitLock, InitNumber DEF IInv
<1>2. IInv /\ [Next]_vars => IInv'
  BY NextTyped, NextLock, NextNumber DEF IInv
<1> QED
  BY <1>1, <1>2, PTL DEF Spec

\* Types are kept by every step of the two tasks, the panel and the wire.
THEOREM ClientTyped == Spec => []TypeOK
<1>1. IInv => TypeOK
  BY DEF IInv
<1> QED
  BY <1>1, Inductive, PTL

\* For every modulus of the sequence number, and replies no later than it
\* wraps, client.py's match by number alone finds the reply to the request
\* the task has just sent.
THEOREM ReplyIsOwn == Spec => []MatchIsOwn
<1>1. IInv => MatchIsOwn
  <2> SUFFICES ASSUME IInv, NEW t \in Tasks, NEW i \in 1..Len(wire), pc[t] = "wait",
                      wire[i].kind = "R", InTime(wire[i]), Matches(t, wire[i])
               PROVE  wire[i].number = x.number /\ wire[i].cmd = op[t]
    BY DEF MatchIsOwn
  <2>1. /\ Placed(wire[i]) /\ Current(t, wire[i])
        /\ x.number = taken - 1 /\ x.seq = Back(1)
    BY DEF IInv, NumberInv
  <2>2. wire[i].number \in Nat /\ taken \in Nat /\ seq \in 0..(SeqMod - 1)
    BY FrameFields DEF IInv, TypeOK
  <2>3. taken - wire[i].number \in 1..SeqMod /\ Back(taken - wire[i].number) = Back(1)
    BY <2>1, <2>2 DEF Placed, InTime, Matches
  <2>4. taken - wire[i].number = 1
    BY <2>2, <2>3, BackInjective
  <2> QED
    BY <2>1, <2>2, <2>4 DEF Current
<1> QED
  BY <1>1, Inductive, PTL

-----------------------------------------------------------------------------
(* Events in order *)

Adds(f) == IF f.kind = "M" THEN 1 ELSE 0

\* The frames w go on from event b up to event s.
GoesOn(w, b, s) ==
    /\ \A i \in 1..Len(w) : w[i].n = (IF i = 1 THEN b ELSE w[i - 1].n) + Adds(w[i])
    /\ s = IF w = <<>> THEN b ELSE w[Len(w)].n
    /\ \A i, j \in 1..Len(w) : i <= j => w[i].n <= w[j].n

Queued == got + Len(queue)

OrderInv == (\A i \in 1..Len(queue) : queue[i] = got + i) /\ GoesOn(wire, Queued, sent)

LEMMA OrderMeans == OrderInv => EventsInOrder
BY DEF OrderInv, EventsInOrder, GoesOn, Queued, Adds

LEMMA GoesOnAppends ==
    ASSUME NEW w \in Seq(Frames), NEW b \in Nat, NEW s \in Nat, GoesOn(w, b, s),
           NEW f \in Frames, f.n = s + Adds(f)
    PROVE  GoesOn(Append(w, f), b, f.n)
<1> DEFINE v == Append(w, f)
<1>1. /\ Len(v) = Len(w) + 1 /\ Len(w) \in Nat /\ v # <<>>
      /\ \A i \in 1..Len(v) : v[i] = IF i = Len(w) + 1 THEN f ELSE w[i]
  BY Put
<1> HIDE DEF v
<1>2. Adds(f) \in {0, 1} /\ f.n \in Nat /\ \A i \in 1..Len(w) : w[i].n \in Nat
  BY FrameFields DEF Adds
<1>3. w = <<>> <=> Len(w) = 0
  OBVIOUS
<1>4. \A i \in 1..Len(v) : v[i].n = (IF i = 1 THEN b ELSE v[i - 1].n) + Adds(v[i])
  <2> SUFFICES ASSUME NEW i \in 1..Len(v) PROVE v[i].n = (IF i = 1 THEN b ELSE v[i - 1].n) + Adds(v[i])
    OBVIOUS
  <2>1. CASE i = Len(w) + 1
    BY <1>1, <1>3, <2>1 DEF GoesOn
  <2>2. CASE i \in 1..Len(w)
    <3>1. v[i] = w[i] /\ (i # 1 => v[i - 1] = w[i - 1] /\ i - 1 \in 1..Len(w))
      BY <1>1, <2>2
    <3>2. w[i].n = (IF i = 1 THEN b ELSE w[i - 1].n) + Adds(w[i])
      BY <2>2 DEF GoesOn
    <3> QED
      BY <3>1, <3>2
  <2> QED
    BY <1>1, <2>1, <2>2
<1>5. \A i \in 1..Len(w) : w[i].n <= s
  BY <1>3 DEF GoesOn
<1>6. \A i, j \in 1..Len(v) : i <= j => v[i].n <= v[j].n
  <2> SUFFICES ASSUME NEW i \in 1..Len(v), NEW j \in 1..Len(v), i <= j PROVE v[i].n <= v[j].n
    OBVIOUS
  <2>1. CASE j = Len(w) + 1
    <3>1. s <= f.n /\ v[j] = f
      BY <1>1, <1>2, <2>1
    <3>2. v[i] = f \/ (i \in 1..Len(w) /\ v[i] = w[i])
      BY <1>1
    <3> QED
      <4>1. CASE v[i] = f
        BY <1>2, <3>1, <4>1
      <4>2. CASE i \in 1..Len(w) /\ v[i] = w[i]
        <5>1. w[i].n \in Nat /\ w[i].n <= s
          BY <1>2, <1>5, <4>2
        <5> QED
          BY <1>2, <3>1, <4>2, <5>1
      <4> QED
        BY <3>2, <4>1, <4>2
  <2>2. CASE j \in 1..Len(w)
    <3>1. i \in 1..Len(w) /\ v[i] = w[i] /\ v[j] = w[j]
      BY <1>1, <2>2
    <3>2. w[i].n <= w[j].n
      BY <2>2, <3>1 DEF GoesOn
    <3> QED
      BY <3>1, <3>2
  <2> QED
    BY <1>1, <2>1, <2>2
<1> QED
  BY <1>1, <1>4, <1>6 DEF GoesOn, v

LEMMA GoesOnTail ==
    ASSUME NEW w \in Seq(Frames), NEW b \in Nat, NEW s \in Nat, GoesOn(w, b, s), w # <<>>
    PROVE  Head(w).n = b + Adds(Head(w)) /\ GoesOn(Tail(w), Head(w).n, s)
<1> DEFINE v == Tail(w)
<1>1. /\ Head(w) = w[1] /\ v \in Seq(Frames)
      /\ Len(w) \in Nat \ {0} /\ Len(v) = Len(w) - 1
      /\ \A i \in 1..Len(v) : v[i] = w[i + 1] /\ i + 1 \in 1..Len(w)
  BY Taken
<1>2. v = <<>> <=> Len(v) = 0
  <2>1. \A u \in Seq(Frames) : u = <<>> <=> Len(u) = 0
    OBVIOUS
  <2> QED
    BY <1>1, <2>1
<1> HIDE DEF v
<1>3. Head(w).n = b + Adds(Head(w))
  BY <1>1 DEF GoesOn
<1>4. \A i \in 1..Len(v) : v[i].n = (IF i = 1 THEN Head(w).n ELSE v[i - 1].n) + Adds(v[i])
  <2> SUFFICES ASSUME NEW i \in 1..Len(v)
               PROVE  v[i].n = (IF i = 1 THEN Head(w).n ELSE v[i - 1].n) + Adds(v[i])
    OBVIOUS
  <2>1. v[i] = w[i + 1] /\ i + 1 \in 1..Len(w) /\ i + 1 # 1 /\ (i + 1) - 1 = i
    BY <1>1
  <2>2. w[i + 1].n = w[i].n + Adds(w[i + 1])
    BY <2>1 DEF GoesOn
  <2>3. w[i] = IF i = 1 THEN Head(w) ELSE v[i - 1]
    BY <1>1
  <2> QED
    BY <2>1, <2>2, <2>3
<1>5. s = IF v = <<>> THEN Head(w).n ELSE v[Len(v)].n
  BY <1>1, <1>2 DEF GoesOn
<1>6. \A i, j \in 1..Len(v) : i <= j => v[i].n <= v[j].n
  BY <1>1 DEF GoesOn
<1> QED
  BY <1>3, <1>4, <1>5, <1>6 DEF GoesOn, v

LEMMA GoesOnReaches ==
    ASSUME NEW w \in Seq(Frames), NEW b \in Nat, NEW s \in Nat, GoesOn(w, b, s)
    PROVE  b <= s
<1>1. CASE w = <<>>
  BY <1>1 DEF GoesOn
<1>2. CASE w # <<>>
  <2>1. w[1].n \in Nat /\ Len(w) \in Nat \ {0} /\ Adds(w[1]) \in {0, 1}
    BY <1>2, FrameFields DEF Adds
  <2>2. w[1].n = b + Adds(w[1]) /\ w[1].n <= s
    BY <1>2, <2>1 DEF GoesOn
  <2> QED
    BY <2>1, <2>2
<1> QED
  BY <1>1, <1>2

\* The head of the wire is read and is no event.
LEMMA ReadsOn ==
    ASSUME TypeOK, OrderInv, wire # <<>>, Head(wire).kind # "M", wire' = Tail(wire),
           UNCHANGED <<queue, sent, got>>
    PROVE  OrderInv'
<1>1. GoesOn(Tail(wire), Queued, sent)
  BY GoesOnTail DEF OrderInv, TypeOK, Queued, Adds
<1> QED
  BY <1>1 DEF OrderInv, Queued

\* The oldest queued event is received.
LEMMA ReceivesQueued ==
    ASSUME TypeOK, OrderInv, queue # <<>>, got' = Head(queue), queue' = Tail(queue), UNCHANGED <<wire, sent>>
    PROVE  OrderInv' /\ got' = got + 1 /\ got < sent
<1>1. got' = got + 1 /\ Queued' = Queued /\ Queued \in Nat /\ got < Queued
  BY QueueTail DEF OrderInv, TypeOK, Queued
<1>2. \A i \in 1..Len(queue') : queue'[i] = got' + i
  BY <1>1, QueueTail DEF OrderInv, TypeOK
<1>3. Queued <= sent
  BY <1>1, GoesOnReaches DEF OrderInv, TypeOK
<1> QED
  BY <1>1, <1>2, <1>3 DEF OrderInv, TypeOK

\* An event that comes while nothing is queued is received.
LEMMA ReceivesFirst ==
    ASSUME TypeOK, OrderInv, queue = <<>>, wire # <<>>, Head(wire).kind = "M",
           got' = Head(wire).n, wire' = Tail(wire), UNCHANGED <<queue, sent>>
    PROVE  OrderInv' /\ got' = got + 1 /\ got < sent
<1>0. got \in Nat /\ got' \in Nat /\ Len(queue) = 0
  BY WireTail, FrameFields DEF TypeOK
<1>1. Queued = got /\ Queued' = got'
  BY <1>0 DEF Queued
<1>2. got' = got + 1 /\ GoesOn(wire', got', sent)
  BY <1>1, GoesOnTail DEF OrderInv, TypeOK, Adds
<1>3. got' <= sent
  <2>1. Tail(wire) \in Seq(Frames) /\ sent \in Nat
    BY WireTail DEF TypeOK
  <2> QED
    BY <1>0, <1>2, <2>1, GoesOnReaches
<1> QED
  BY <1>1, <1>2, <1>3 DEF OrderInv, TypeOK

\* A session ends: what was on the wire is lost, and perhaps the queue.
LEMMA HangsUp ==
    ASSUME TypeOK, OrderInv, wire' = <<>>, UNCHANGED got,
           \/ queue' = queue /\ sent' = Queued
           \/ queue' = <<>> /\ sent' = got
    PROVE  OrderInv' /\ sent' \in got..sent
<1>1. Queued <= sent /\ got <= Queued /\ Queued \in Nat
  BY GoesOnReaches DEF OrderInv, TypeOK, Queued
<1>2. Queued' = sent'
  <2>1. CASE queue' = queue /\ sent' = Queued
    BY <2>1 DEF Queued
  <2>2. CASE queue' = <<>> /\ sent' = got
    <3>1. got \in Nat /\ Len(queue') = 0
      BY <2>2 DEF TypeOK
    <3> QED
      BY <2>2, <3>1 DEF Queued
  <2> QED
    BY <2>1, <2>2
<1>3. GoesOn(wire', Queued', sent')
  BY <1>2 DEF GoesOn
<1> QED
  BY <1>1, <1>3 DEF OrderInv, TypeOK

LEMMA InitOrder == Init => OrderInv
BY DEF Init, OrderInv, GoesOn, Queued

LEMMA NextOrder == TypeOK /\ LockInv /\ OrderInv /\ [Next]_vars => OrderInv'
<1> SUFFICES ASSUME TypeOK, LockInv, OrderInv, [Next]_vars PROVE OrderInv'
  OBVIOUS
<1> USE DEF session, task, events, bounds
<1>0. wire \in Seq(Frames) /\ Queued \in Nat /\ sent \in Nat /\ got \in Nat
  BY DEF TypeOK, Queued
<1>1. ASSUME UNCHANGED <<queue, wire, sent, got>> PROVE OrderInv'
  BY <1>1 DEF OrderInv, Queued
<1>2. ASSUME NEW f \in Frames, wire' = Append(wire, f), f.n = sent + Adds(f), sent' = f.n, UNCHANGED <<queue, got>>
      PROVE  OrderInv'
  <2>1. GoesOn(Append(wire, f), Queued, f.n)
    BY <1>0, <1>2, GoesOnAppends DEF OrderInv
  <2> QED
    BY <1>2, <2>1 DEF OrderInv, Queued
<1>3. CASE PanelSends
  <2>1. EventFrame(sent + 1) \in Frames
    BY <1>0, FramesMade
  <2> QED
    BY <1>0, <1>2, <1>3, <2>1 DEF PanelSends, EventFrame, Adds
<1>4. CASE PanelAnswers
  <2>1. PICK r \in pending, good \in BOOLEAN :
            wire' = Append(wire, ReplyFrame(r, good, sent)) /\ UNCHANGED <<queue, sent, got>>
    BY <1>4 DEF PanelAnswers
  <2>2. ReplyFrame(r, good, sent) \in Frames
    BY <1>0, FramesMade DEF TypeOK
  <2>3. ReplyFrame(r, good, sent).n = sent /\ ReplyFrame(r, good, sent).kind = "R"
    BY DEF ReplyFrame
  <2> QED
    BY <1>0, <1>2, <2>1, <2>2, <2>3 DEF Adds
<1>5. CASE WireBreaks
  <2>1. /\ Junk(sent) \in Frames /\ Junk(sent).n = sent + Adds(Junk(sent))
        /\ Eof(sent) \in Frames /\ Eof(sent).n = sent + Adds(Eof(sent))
    BY <1>0, FramesMade DEF Junk, Eof, Adds
  <2>2. PICK f \in {Junk(sent), Eof(sent)} : wire' = Append(wire, f) /\ UNCHANGED <<queue, sent, got>>
    BY <1>5 DEF WireBreaks
  <2>3. f \in Frames /\ f.n = sent + Adds(f) /\ f.n = sent
    BY <2>1, <2>2 DEF Junk, Eof
  <2> QED
    BY <1>2, <2>2, <2>3
<1>6. CASE TooLate
  BY <1>6, ReadsOn DEF TooLate
<1>7. ASSUME NEW t \in Tasks, SkipReply(t) \/ TakeReply(t) PROVE OrderInv'
  BY <1>7, ReadsOn DEF SkipReply, TakeReply, Reads
<1>8. ASSUME NEW t \in Tasks, WaitFails(t) PROVE OrderInv'
  BY <1>1, <1>8, ReadsOn DEF WaitFails, Faulted, ReadsFault
<1>9. CASE SliceFails
  BY <1>1, <1>9, ReadsOn DEF SliceFails, Faulted, ReadsFault
<1>10. CASE SliceEnds
  BY <1>1, <1>10, ReadsOn DEF SliceEnds
<1>11. ASSUME NEW t \in Tasks, QueueEvent(t) PROVE OrderInv'
  <2>1. /\ queue' = Append(queue, Head(wire).n) /\ wire' = Tail(wire) /\ wire # <<>>
        /\ Head(wire).kind = "M" /\ UNCHANGED <<sent, got>>
    BY <1>11 DEF QueueEvent, Reads
  <2>2. Head(wire).n = Queued + 1 /\ GoesOn(wire', Head(wire).n, sent)
    BY <1>0, <2>1, GoesOnTail DEF OrderInv, Adds
  <2>3. queue \in Seq(Nat) /\ Head(wire).n \in Nat
    BY <1>0, <2>2 DEF TypeOK
  <2>4. /\ Len(queue') = Len(queue) + 1 /\ Len(queue) \in Nat
        /\ \A i \in 1..Len(queue') : queue'[i] = IF i = Len(queue) + 1 THEN Head(wire).n ELSE queue[i]
    BY <2>1, <2>3, Put
  <2>5. Queued' = Head(wire).n
    BY <1>0, <2>1, <2>2, <2>4 DEF Queued
  <2>6. \A i \in 1..Len(queue') : queue'[i] = got' + i
    BY <1>0, <2>1, <2>2, <2>4 DEF OrderInv, Queued
  <2> QED
    BY <2>1, <2>2, <2>5, <2>6 DEF OrderInv
<1>12. CASE ReceiveQueued
  BY <1>12, ReceivesQueued DEF ReceiveQueued, Receives
<1>13. CASE ReceiveSlice
  BY <1>1, <1>13, ReceivesQueued DEF ReceiveSlice, Receives
<1>14. CASE ReceiveFrame
  BY <1>14, ReceivesFirst DEF ReceiveFrame, Receives, LockInv, Tasks
<1>15. CASE Connect
  BY <1>15, HangsUp DEF Connect
<1>16. ASSUME NEW t \in Tasks, Close(t) PROVE OrderInv'
  BY <1>16, HangsUp DEF Close, Hangup, Queued
<1>17. ASSUME NEW t \in Tasks, Call(t) \/ Refused(t) \/ Begin(t) \/ WriteFails(t) \/ TimesOut(t) \/ Resend(t) PROVE OrderInv'
  BY <1>1, <1>17 DEF Call, Refused, Begin, WriteFails, TimesOut, Resend
<1>18. CASE ReceiveUnconnected \/ ReceiveStarts \/ UNCHANGED vars
  BY <1>1, <1>18 DEF ReceiveUnconnected, ReceiveStarts, vars
<1> QED
  BY <1>3, <1>4, <1>5, <1>6, <1>7, <1>8, <1>9, <1>10, <1>11, <1>12, <1>13, <1>14, <1>15, <1>16, <1>17, <1>18
     DEF Next, Works, Listens

\* recv_message gives the listen task every event that is not lost with a
\* session, in the order the panel sent them, whichever task read it.
THEOREM EventsComeInOrder == Spec => []EventsInOrder
<1>1. Init => IInv /\ OrderInv
  BY InitTyped, InitLock, InitNumber, InitOrder DEF IInv
<1>2. IInv /\ OrderInv /\ [Next]_vars => IInv' /\ OrderInv'
  BY NextTyped, NextLock, NextNumber, NextOrder DEF IInv
<1>3. OrderInv => EventsInOrder
  BY OrderMeans
<1> QED
  BY <1>1, <1>2, <1>3, PTL DEF Spec

-----------------------------------------------------------------------------
(* The client is an exchange *)

LEMMA InitExchange == Init => Exchange!Init
BY DEF Init, Exchange!Init, Exchange!None, Asking, Tasks

\* A task that stops waiting no longer asks; nobody else was asking.
LEMMA EndsAsking ==
    ASSUME TypeOK, LockInv, NEW t \in Tasks, Holds(t), Ends(t)
    PROVE  Asking' = [Asking EXCEPT ![t] = -1]
<1>1. \A u \in Tasks : pc'[u] # "wait"
  BY EndsFades
<1>2. \A u \in Tasks : u # t => pc[u] # "wait"
  BY DEF LockInv, Holds
<1> QED
  BY <1>1, <1>2 DEF Asking

\* A request under a fresh number is a fresh question.
LEMMA SendsAsking ==
    ASSUME TypeOK, LockInv, NEW t \in Tasks, Holds(t), NextSeq, UNCHANGED <<replied, answered, sent, got>>,
           NEW y, y.number = taken, NEW c, Sends(t, c, y)
    PROVE  Exchange!Ask(t)
<1>1. \A u \in Tasks : u # t => pc[u] # "wait"
  BY DEF LockInv, Holds
<1>2. Asking' = [Asking EXCEPT ![t] = taken]
  BY <1>1 DEF Sends, Asking, TypeOK
<1>3. taken' = taken + 1
  BY DEF NextSeq
<1>4. \A u \in Tasks \ {t} : Asking[u] = -1
  BY <1>1 DEF Asking
<1> QED
  BY <1>2, <1>3, <1>4 DEF Exchange!Ask, Exchange!None

LEMMA NextExchange ==
    TypeOK /\ LockInv /\ NumberInv /\ MatchIsOwn /\ OrderInv /\ [Next]_vars => [Exchange!Next]_(Exchange!vars)
<1> SUFFICES ASSUME TypeOK, LockInv, NumberInv, MatchIsOwn, OrderInv, [Next]_vars
             PROVE  [Exchange!Next]_(Exchange!vars)
  OBVIOUS
<1> USE DEF session, task, events, bounds, Exchange!questions
<1>0. ASSUME UNCHANGED <<Asking, replied, taken, answered, sent, got>> PROVE [Exchange!Next]_(Exchange!vars)
  BY <1>0 DEF Exchange!vars
<1>1. ASSUME UNCHANGED <<Asking, replied, taken, answered, sent>>, got' = got + 1, got < sent
      PROVE  [Exchange!Next]_(Exchange!vars)
  BY <1>1 DEF Exchange!Next, Exchange!Receive
<1>2. ASSUME UNCHANGED <<Asking, replied, taken, answered, got>>, sent' \in got..sent
      PROVE  [Exchange!Next]_(Exchange!vars)
  BY <1>2 DEF Exchange!Next, Exchange!Lose
<1>3. ASSUME NEW t \in Tasks, Holds(t), Ends(t), taken' \in {taken, taken + 1}, UNCHANGED <<replied, answered, sent, got>>
      PROVE  [Exchange!Next]_(Exchange!vars)
  <2>1. Exchange!GiveUp(t)
    BY <1>3, EndsAsking DEF Exchange!GiveUp, Exchange!None
  <2> QED
    BY <2>1 DEF Exchange!Next
<1>4. CASE PanelSends
  BY <1>4 DEF PanelSends, Asking, Exchange!Next, Exchange!PanelSends
<1>5. CASE PanelAnswers
  <2>1. PICK r \in pending : answered' = answered \cup {r.number} /\ UNCHANGED <<pc, x, replied, taken, sent, got>>
    BY <1>5 DEF PanelAnswers
  <2>2. r.number \in 0..(taken - 1)
    BY <2>1 DEF NumberInv, Placed, TypeOK, Requests
  <2>3. Asking' = Asking
    BY <2>1 DEF Asking
  <2> QED
    BY <2>1, <2>2, <2>3 DEF Exchange!Next, Exchange!PanelAnswers
<1>6. CASE WireBreaks \/ TooLate
  BY <1>0, <1>6 DEF WireBreaks, TooLate, Asking
<1>7. ASSUME NEW t \in Tasks, Call(t) PROVE [Exchange!Next]_(Exchange!vars)
  <2>1. Asking' = Asking
    BY <1>7 DEF Call, Starts, Asking, TypeOK
  <2> QED
    BY <1>0, <1>7, <2>1 DEF Call
<1>8. ASSUME NEW t \in Tasks, Refused(t) \/ WaitFails(t) \/ TimesOut(t) PROVE [Exchange!Next]_(Exchange!vars)
  <2>1. Holds(t) /\ Ends(t)
    BY <1>8 DEF Refused, WaitFails, TimesOut, LockInv
  <2> QED
    BY <1>3, <1>8, <2>1 DEF Refused, WaitFails, TimesOut
<1>9. ASSUME NEW t \in Tasks, WriteFails(t) PROVE [Exchange!Next]_(Exchange!vars)
  <2>1. Holds(t) /\ Ends(t) /\ taken' \in {taken, taken + 1}
    BY <1>9 DEF WriteFails, RetriesNow, RetrySeq, NextSeq, LockInv
  <2> QED
    BY <1>3, <1>9, <2>1 DEF WriteFails
<1>10. ASSUME NEW t \in Tasks, Begin(t) PROVE [Exchange!Next]_(Exchange!vars)
  <2>1. Exchange!Ask(t)
    BY <1>10, SendsAsking DEF Begin
  <2> QED
    BY <2>1 DEF Exchange!Next
<1>11. ASSUME NEW t \in Tasks, Resend(t) PROVE [Exchange!Next]_(Exchange!vars)
  <2>1. Holds(t)
    BY <1>11 DEF Resend, RetriesNow, LockInv
  <2>2. CASE Renews(t)
    <3>1. Exchange!Ask(t)
      BY <1>11, <2>1, <2>2, SendsAsking DEF Resend, RetrySeq
    <3> QED
      BY <3>1 DEF Exchange!Next
  <2>3. CASE ~Renews(t)
    <3>1. Asking' = Asking /\ UNCHANGED <<replied, taken, answered, sent, got>>
      BY <1>11, <2>3 DEF Resend, RetriesNow, RetrySeq, Sends, Asking, TypeOK
    <3> QED
      BY <1>0, <3>1
  <2> QED
    BY <2>2, <2>3
<1>12. ASSUME NEW t \in Tasks, QueueEvent(t) \/ SkipReply(t) PROVE [Exchange!Next]_(Exchange!vars)
  <2>1. x'.number = x.number /\ pc' = pc
    BY <1>12 DEF QueueEvent, SkipReply, TypeOK
  <2>2. Asking' = Asking
    BY <2>1 DEF Asking
  <2> QED
    BY <1>0, <1>12, <2>2 DEF QueueEvent, SkipReply
<1>13. ASSUME NEW t \in Tasks, TakeReply(t) PROVE [Exchange!Next]_(Exchange!vars)
  <2>1. pc[t] = "wait" /\ Holds(t) /\ Ends(t)
    BY <1>13 DEF TakeReply, Reads, LockInv
  <2>2. Head(wire).number = x.number /\ Head(wire).number \in answered
    <3>1. Head(wire) = wire[1] /\ 1 \in 1..Len(wire) /\ Head(wire).kind = "R"
      BY <1>13, WireTail DEF TakeReply, Reads, TypeOK
    <3> QED
      BY <1>13, <2>1, <3>1 DEF TakeReply, MatchIsOwn, NumberInv
  <2>3. Asking[t] = x.number /\ Asking' = [Asking EXCEPT ![t] = -1]
    BY <2>1, EndsAsking DEF Asking
  <2>4. Exchange!TakeAnswer(t)
    BY <1>13, <2>2, <2>3 DEF TakeReply, Exchange!TakeAnswer, Exchange!None
  <2> QED
    BY <2>4 DEF Exchange!Next
<1>14. ASSUME NEW t \in Tasks, Close(t) PROVE [Exchange!Next]_(Exchange!vars)
  <2>1. \A u \in Tasks : pc[u] # "wait"
    BY <1>14 DEF Close, LockInv, Holds
  <2>2. Asking' = Asking
    BY <1>14, <2>1, EndsFades DEF Close, Asking
  <2>3. sent' \in got..sent
    BY <1>14, HangsUp DEF Close, Hangup, Queued
  <2> QED
    BY <1>2, <1>14, <2>2, <2>3 DEF Close
<1>15. CASE Connect
  <2>1. sent' \in got..sent
    BY <1>15, HangsUp DEF Connect
  <2> QED
    BY <1>2, <1>15, <2>1 DEF Connect, Asking
<1>16. ASSUME \A u \in Tasks : pc[u] = "wait" <=> pc'[u] = "wait", \A u \in Tasks : pc[u] = "wait" => x' = x
       PROVE  Asking' = Asking
  BY <1>16 DEF Asking
<1>17. CASE ReceiveQueued
  <2>1. \A u \in Tasks : (pc[u] = "wait" <=> pc'[u] = "wait") /\ x' = x
    BY <1>17 DEF ReceiveQueued, Receives, Ends, TypeOK, Tasks
  <2> QED
    BY <1>1, <1>16, <1>17, <2>1, ReceivesQueued DEF ReceiveQueued, Receives
<1>18. CASE ReceiveStarts \/ ReceiveUnconnected \/ UNCHANGED vars
  <2>1. \A u \in Tasks : (pc[u] = "wait" <=> pc'[u] = "wait") /\ x' = x
    BY <1>18 DEF ReceiveStarts, ReceiveUnconnected, vars, Starts, TypeOK, Tasks
  <2> QED
    BY <1>0, <1>16, <1>18, <2>1 DEF ReceiveStarts, ReceiveUnconnected, vars
<1>19. CASE Listens
  <2>1. Holds(Listener) /\ Listener \in Tasks /\ pc[Listener] # "wait"
    BY <1>19 DEF Listens, ReceiveSlice, ReceiveFrame, SliceEnds, SliceFails, LockInv, Tasks
  <2>2. \A u \in Tasks : pc[u] # "wait"
    BY <2>1 DEF LockInv, Holds
  <2>3. \A u \in Tasks : pc'[u] # "wait"
    BY <1>19, <2>1, <2>2, EndsFades
       DEF Listens, ReceiveSlice, ReceiveFrame, SliceEnds, SliceFails, Receives, TypeOK
  <2>4. Asking' = Asking
    BY <2>2, <2>3 DEF Asking
  <2>5. \/ UNCHANGED got
        \/ got' = got + 1 /\ got < sent
    BY <1>19, ReceivesQueued, ReceivesFirst
       DEF Listens, ReceiveSlice, ReceiveFrame, SliceEnds, SliceFails, Receives, LockInv, Tasks
  <2> QED
    BY <1>0, <1>1, <1>19, <2>4, <2>5 DEF Listens, ReceiveSlice, ReceiveFrame, SliceEnds, SliceFails
<1> QED
  BY <1>4, <1>5, <1>6, <1>7, <1>8, <1>9, <1>10, <1>11, <1>12, <1>13, <1>14, <1>15, <1>17, <1>18, <1>19
     DEF Next, Works

\* Locks, retries, queue and sequence numbers implement one exchange at a
\* time with answers to the question asked, and a lossy-at-the-end stream of
\* events.
THEOREM ClientIsExchange == Spec => ExchangeSpec
<1>1. Init => IInv /\ OrderInv /\ Exchange!Init
  BY InitTyped, InitLock, InitNumber, InitOrder, InitExchange DEF IInv
<1>2. IInv /\ OrderInv /\ [Next]_vars => IInv' /\ OrderInv'
  BY NextTyped, NextLock, NextNumber, NextOrder DEF IInv
<1>3. IInv /\ MatchIsOwn /\ OrderInv /\ [Next]_vars => [Exchange!Next]_(Exchange!vars)
  BY NextExchange DEF IInv
<1> QED
  BY <1>1, <1>2, <1>3, ReplyIsOwn, PTL DEF Spec, ExchangeSpec, Exchange!Spec
=============================================================================
