----------------------------- MODULE FrameStream -----------------------------
(***************************************************************************)
(* The byte stream under PanelClient: the panel writes frames, noise, "+++" *)
(* or the end of the stream; the network delivers it in chunks of any size; *)
(* _recv_frame decodes what it has and reads on.  A wait that runs out     *)
(* leaves the buffer as it is, so it is no step here.                      *)
(***************************************************************************)
EXTENDS FrameCodec

CONSTANTS
    Frames,     \* what the panel may send
    Strays,     \* bytes that may turn up between frames
    MaxFrames,  \* bound: frames sent
    MaxNoise    \* bound: strays and garbled frames

ASSUME FramesAssumption ==
    \A f \in Frames :
        /\ f \in [type : {FrameTypes[t] : t \in DOMAIN FrameTypes}, sequence : Byte, body : Seq(Byte)]
        /\ Encodes(f)

\* What is asked of the CRC: it tells a frame from one with another byte in it.
ASSUME ChecksumAssumption ==
    \A f \in Frames :
        /\ Checksum(WithoutCrc(f)) \in Byte
        /\ \A i \in DOMAIN WithoutCrc(f) : \A b \in Byte \ {WithoutCrc(f)[i]} :
               Checksum([WithoutCrc(f) EXCEPT ![i] = b]) # Checksum(WithoutCrc(f))
ASSUME StraysAssumption == Strays \subseteq Byte \ {HeaderStart, EndOfSession[1]}
ASSUME BoundsAssumption == MaxFrames \in Nat /\ MaxNoise \in Nat

VARIABLES
    pipe,       \* bytes written and not read
    panel,      \* "open", "hung up" (wrote +++) or "closed" (end of stream)
    buf,        \* PanelClient._buf
    sent,       \* frames written, in order, until noise came
    got,        \* frames returned
    noise,      \* how often there was noise
    ended       \* why ForcedDisconnect was raised, or "no"

vars == <<pipe, panel, buf, sent, got, noise, ended>>

-----------------------------------------------------------------------------
(* The panel and the network *)

Writes(f) ==
    /\ panel = "open" /\ noise = 0
    /\ Len(sent) < MaxFrames
    /\ pipe' = pipe \o EncodeFrame(f)
    /\ sent' = Append(sent, f)
    /\ UNCHANGED <<panel, buf, got, noise, ended>>

\* A stray byte, or a frame one byte of which is another; the length of a
\* frame is left alone, since then the CRC is a matter of chance.
Stray(b) == pipe' = pipe \o <<b>>

Garbled(f) ==
    \E bytes \in {EncodeFrame(f)} :
        \E i \in DOMAIN bytes \ {3}, b \in Strays \cup {HeaderStart} :
            /\ bytes[i] # b
            /\ pipe' = pipe \o [bytes EXCEPT ![i] = b]

Noise ==
    /\ panel = "open"
    /\ noise < MaxNoise /\ noise' = noise + 1
    /\ \/ \E b \in Strays : Stray(b)
       \/ \E f \in Frames : Garbled(f)
    /\ UNCHANGED <<panel, buf, sent, got, ended>>

HangsUp ==
    /\ panel = "open"
    /\ panel' = "hung up"
    /\ pipe' = pipe \o EndOfSession
    /\ UNCHANGED <<buf, sent, got, noise, ended>>

Closes ==
    /\ panel # "closed"
    /\ panel' = "closed"
    /\ UNCHANGED <<pipe, buf, sent, got, noise, ended>>

-----------------------------------------------------------------------------
(* _recv_frame *)

\* The mutant leaves in the buffer what it has returned.
KeepsBytes(n) == buf' = buf
Takes(n) == buf' = SubSeq(buf, n + 1, Len(buf))

Decodes(leading) ==
    /\ \E f \in leading.frame : got' = Append(got, f)
    /\ Takes(leading.consumed)
    /\ UNCHANGED <<pipe, panel, sent, noise, ended>>

\* "+++", or bytes outside the Connect protocol.
Faults(leading) ==
    /\ leading.frame = {} /\ leading.consumed > 0
    /\ ended' = IF leading.consumed = 3 THEN "+++" ELSE "outside"
    /\ Takes(leading.consumed)
    /\ UNCHANGED <<pipe, panel, sent, got, noise>>

\* The mutant decodes into an empty buffer each time.
ForgetsRest(n) == buf' = SubSeq(pipe, 1, n)
Extends(n) == buf' = buf \o SubSeq(pipe, 1, n)

Reads(leading) ==
    /\ leading = NeedsMore
    /\ \E n \in 1..Len(pipe) :
        /\ Extends(n)
        /\ pipe' = SubSeq(pipe, n + 1, Len(pipe))
    /\ UNCHANGED <<panel, sent, got, noise, ended>>

ReadsEof(leading) ==
    /\ leading = NeedsMore
    /\ pipe = <<>> /\ panel = "closed"
    /\ ended' = "eof"
    /\ UNCHANGED <<pipe, panel, buf, sent, got, noise>>

-----------------------------------------------------------------------------
Init ==
    /\ pipe = <<>> /\ buf = <<>>
    /\ panel = "open"
    /\ sent = <<>> /\ got = <<>>
    /\ noise = 0 /\ ended = "no"

RecvFrame ==
    /\ ended = "no"
    /\ LET leading == InspectLeading(buf)
       IN  Decodes(leading) \/ Faults(leading) \/ Reads(leading) \/ ReadsEof(leading)

Next ==
    \/ \E f \in Frames : Writes(f)
    \/ Noise \/ HangsUp \/ Closes
    \/ RecvFrame

Spec == Init /\ [][Next]_vars

\* The client reads on, again after a wait that ran out.
FairSpec == Spec /\ WF_vars(RecvFrame)

-----------------------------------------------------------------------------
(* Properties *)

TypeOK ==
    /\ pipe \in Seq(Byte) /\ buf \in Seq(Byte)
    /\ panel \in {"open", "hung up", "closed"}
    /\ sent \in Seq(Frames) /\ got \in Seq(Frames)
    /\ noise \in 0..MaxNoise
    /\ ended \in {"no", "+++", "outside", "eof"}

\* However the stream is cut into chunks and wherever it is garbled, only
\* frames the panel sent are returned, each once and in order.
DeliveredInOrder == IsPrefix(got, sent)

\* A session ends for the reason it has: a chunk that ends inside a frame or
\* inside "+++" is never taken for noise, nor a frame for the end.
EndsForAReason ==
    /\ ended = "outside" => noise > 0
    /\ ended = "+++" => panel # "open" /\ (noise = 0 => got = sent)
    /\ ended = "eof" => panel = "closed"

\* Every frame of a clean stream is returned, and a hang-up or the end of the
\* stream is noticed with nothing coming after it.
StreamIsRead ==
    /\ \A n \in 1..MaxFrames : (noise = 0 /\ Len(sent) = n) ~> (noise > 0 \/ Len(got) >= n)
    /\ (panel # "open" /\ noise = 0) ~> (ended # "no")
=============================================================================
