-------------------------- MODULE FrameStreamProofs --------------------------
(***************************************************************************)
(* For any frames, strays and checksum of the kind ChecksumAssumption asks *)
(* for: however the stream is cut up, what _recv_frame returns and why it  *)
(* gives up.                                                               *)
(***************************************************************************)
EXTENDS FrameStream, SequenceTheorems, TLAPS

-----------------------------------------------------------------------------
(* The codec *)

LEMMA TypesKnown == \A t \in DOMAIN FrameTypes : FrameTypes[t] \in Byte
<1>1. DOMAIN FrameTypes = {"command", "response", "message"}
  BY DEF FrameTypes
<1>2. FrameTypes["command"] = 67 /\ FrameTypes["response"] = 82 /\ FrameTypes["message"] = 77
  BY DEF FrameTypes
<1> QED
  BY <1>1, <1>2 DEF Byte

\* The frame before its checksum.
LEMMA HeaderAndBody ==
    ASSUME NEW f \in Frames
    PROVE  /\ f.body \in Seq(Byte) /\ Len(f.body) \in 0..250
           /\ f.type \in Byte /\ f.sequence \in Byte
           /\ \E t \in DOMAIN FrameTypes : FrameTypes[t] = f.type
           /\ WithoutCrc(f) \in Seq(Byte) /\ Len(WithoutCrc(f)) = Len(f.body) + 4
           /\ WithoutCrc(f)[1] = HeaderStart /\ WithoutCrc(f)[2] = f.type
           /\ WithoutCrc(f)[3] = Len(f.body) + 5 /\ WithoutCrc(f)[4] = f.sequence
           /\ \A i \in 1..Len(f.body) : WithoutCrc(f)[4 + i] = f.body[i]
<1> DEFINE h == <<HeaderStart, f.type, Len(f.body) + HeaderLen + 1, f.sequence>>
<1>1. /\ f.body \in Seq(Byte) /\ Len(f.body) \in Nat /\ f.sequence \in Byte
      /\ Len(f.body) + HeaderLen + 1 <= 255
      /\ \E t \in DOMAIN FrameTypes : FrameTypes[t] = f.type
  BY FramesAssumption, LenProperties DEF Encodes
<1>2. f.type \in Byte
  BY <1>1, TypesKnown
<1>3. Len(f.body) \in 0..250 /\ Len(f.body) + HeaderLen + 1 = Len(f.body) + 5
  <2>1. ASSUME NEW n \in Nat, n + HeaderLen + 1 <= 255
        PROVE  n \in 0..250 /\ n + HeaderLen + 1 = n + 5
    BY <2>1 DEF HeaderLen
  <2> QED
    BY <1>1, <2>1
<1>4. Len(f.body) + HeaderLen + 1 \in Byte /\ HeaderStart \in Byte
  <2>1. ASSUME NEW n \in 0..250 PROVE n + 5 \in Byte
    BY DEF Byte
  <2>2. HeaderStart \in Byte
    BY DEF HeaderStart, Byte
  <2> QED
    BY <1>3, <2>1, <2>2
<1>5. h \in Seq(Byte) /\ Len(h) = 4
  BY <1>1, <1>2, <1>4
<1>6. WithoutCrc(f) = h \o f.body
  BY DEF WithoutCrc
<1>7. /\ WithoutCrc(f) \in Seq(Byte) /\ Len(WithoutCrc(f)) = 4 + Len(f.body)
      /\ \A i \in 1..(4 + Len(f.body)) : WithoutCrc(f)[i] = IF i <= 4 THEN h[i] ELSE f.body[i - 4]
  BY <1>1, <1>5, <1>6, ConcatProperties
<1>8. h[1] = HeaderStart /\ h[2] = f.type /\ h[3] = Len(f.body) + 5 /\ h[4] = f.sequence
  BY <1>3
<1>9. \A i \in 1..Len(f.body) : WithoutCrc(f)[4 + i] = f.body[i]
  BY <1>3, <1>7
<1> HIDE DEF h
<1>10. \A i \in 1..4 : WithoutCrc(f)[i] = h[i]
  BY <1>3, <1>7
<1> QED
  BY <1>1, <1>2, <1>3, <1>7, <1>8, <1>9, <1>10

\* A frame on the wire.
LEMMA Encoded ==
    ASSUME NEW f \in Frames
    PROVE  /\ EncodeFrame(f) \in Seq(Byte)
           /\ Len(EncodeFrame(f)) \in 5..255 /\ Len(EncodeFrame(f)) = Len(f.body) + 5
           /\ EncodeFrame(f)[1] = HeaderStart /\ EncodeFrame(f)[2] = f.type
           /\ EncodeFrame(f)[3] = Len(EncodeFrame(f)) /\ EncodeFrame(f)[4] = f.sequence
           /\ \A i \in 1..Len(f.body) : EncodeFrame(f)[4 + i] = f.body[i]
           /\ EncodeFrame(f)[Len(EncodeFrame(f))] = Checksum(WithoutCrc(f))
           /\ \A i \in 1..Len(WithoutCrc(f)) : EncodeFrame(f)[i] = WithoutCrc(f)[i]
<1>1. Checksum(WithoutCrc(f)) \in Byte
  BY ChecksumAssumption
<1>2. WithoutCrc(f) \in Seq(Byte)
  BY HeaderAndBody
<1>3. /\ EncodeFrame(f) \in Seq(Byte) /\ Len(EncodeFrame(f)) = Len(WithoutCrc(f)) + 1
      /\ \A i \in 1..Len(WithoutCrc(f)) : EncodeFrame(f)[i] = WithoutCrc(f)[i]
      /\ EncodeFrame(f)[Len(WithoutCrc(f)) + 1] = Checksum(WithoutCrc(f))
  BY <1>1, <1>2, AppendProperties DEF EncodeFrame
<1>4. Len(WithoutCrc(f)) = Len(f.body) + 4 /\ Len(f.body) \in 0..250
  BY HeaderAndBody
<1>5. \A i \in 1..4 : EncodeFrame(f)[i] = WithoutCrc(f)[i]
  BY <1>3, <1>4
<1>6. \A i \in 1..Len(f.body) : EncodeFrame(f)[4 + i] = WithoutCrc(f)[4 + i]
  BY <1>3, <1>4
<1>7. Len(EncodeFrame(f)) = Len(f.body) + 5 /\ Len(EncodeFrame(f)) \in 5..255
  <2>1. Len(EncodeFrame(f)) = Len(f.body) + 4 + 1
    <3>1. Len(EncodeFrame(f)) = Len(WithoutCrc(f)) + 1
      BY <1>3
    <3>2. Len(WithoutCrc(f)) = Len(f.body) + 4
      BY <1>4
    <3> QED
      BY <3>1, <3>2
  <2>2. Len(f.body) \in 0..250
    BY <1>4
  <2>3. \A n \in 0..250 : n + 4 + 1 = n + 5 /\ n + 5 \in 5..255
    OBVIOUS
  <2>4. Len(f.body) + 4 + 1 = Len(f.body) + 5 /\ Len(f.body) + 5 \in 5..255
    BY <2>2, <2>3
  <2> QED
    BY <2>1, <2>4
<1>8. EncodeFrame(f)[Len(EncodeFrame(f))] = Checksum(WithoutCrc(f))
  BY <1>3
<1> QED
  BY <1>3, <1>5, <1>6, <1>7, <1>8, HeaderAndBody

\* e is what buffer starts with, as far as it goes.
Leads(e, buffer) == \A j \in 1..Len(buffer) : j <= Len(e) => buffer[j] = e[j]

\* A buffer that starts with another byte than "+" is no end of the session.
LEMMA NoEnd ==
    ASSUME NEW buffer \in Seq(Byte), buffer = <<>> \/ buffer[1] # 43
    PROVE  ~MayBeEnd(buffer)
<1> SUFFICES ASSUME MayBeEnd(buffer) PROVE FALSE
  OBVIOUS
<1>1. Len(buffer) >= 3 /\ SubSeq(buffer, 1, 3) = EndOfSession
  BY DEF MayBeEnd
<1>2. SubSeq(buffer, 1, 3)[1] = buffer[1]
  BY <1>1
<1>3. EndOfSession[1] = 43
  BY DEF EndOfSession
<1> QED
  BY <1>1, <1>2, <1>3

\* What a whole frame in front becomes once its bytes are all there.
LEMMA WholeFrame ==
    ASSUME NEW f \in Frames, NEW buffer \in Seq(Byte), Len(buffer) >= Len(EncodeFrame(f)),
           Leads(EncodeFrame(f), buffer)
    PROVE  InspectLeading(buffer) = Decoded(f, Len(EncodeFrame(f)))
<1> DEFINE n == Len(EncodeFrame(f))
           bytes == SubSeq(buffer, 1, buffer[3])
<1>1. EncodeFrame(f) \in Seq(Byte) /\ n \in 5..255 /\ n = Len(f.body) + 5 /\ Len(buffer) \in Nat
  BY Encoded
<1>2. \A i \in 1..n : buffer[i] = EncodeFrame(f)[i]
  BY <1>1 DEF Leads
<1>3. buffer[1] = HeaderStart /\ buffer[2] = f.type /\ buffer[3] = n /\ buffer[4] = f.sequence
  <2>1. \A i \in 1..4 : buffer[i] = EncodeFrame(f)[i]
    BY <1>1, <1>2
  <2> QED
    BY <2>1, Encoded
<1>4. bytes = EncodeFrame(f)
  <2>1. bytes \in Seq(Byte) /\ Len(bytes) = n /\ \A i \in 1..n : bytes[i] = buffer[i]
    BY <1>1, <1>3
  <2> QED
    BY <1>1, <1>2, <2>1, SeqEqual
<1>5. Front(bytes) = WithoutCrc(f)
  <2>1. WithoutCrc(f) \in Seq(Byte) /\ Len(WithoutCrc(f)) = n - 1
    BY <1>1, HeaderAndBody
  <2>2. Front(bytes) = SubSeq(EncodeFrame(f), 1, n - 1)
    BY <1>4 DEF Front
  <2>3. /\ SubSeq(EncodeFrame(f), 1, n - 1) \in Seq(Byte) /\ Len(SubSeq(EncodeFrame(f), 1, n - 1)) = n - 1
        /\ \A i \in 1..(n - 1) : SubSeq(EncodeFrame(f), 1, n - 1)[i] = EncodeFrame(f)[i]
    BY <1>1
  <2>4. \A i \in 1..(n - 1) : EncodeFrame(f)[i] = WithoutCrc(f)[i]
    BY <2>1, Encoded
  <2> QED
    BY <2>1, <2>2, <2>3, <2>4, SeqEqual
<1>6. CrcHolds(bytes)
  BY <1>4, <1>5, Encoded DEF CrcHolds, Last
<1>7. SubSeq(bytes, HeaderLen + 1, buffer[3] - 1) = f.body
  <2>1. f.body \in Seq(Byte) /\ Len(f.body) = n - 5
    BY <1>1, HeaderAndBody
  <2>2. /\ SubSeq(EncodeFrame(f), 5, n - 1) \in Seq(Byte) /\ Len(SubSeq(EncodeFrame(f), 5, n - 1)) = n - 5
        /\ \A i \in 1..(n - 5) : SubSeq(EncodeFrame(f), 5, n - 1)[i] = EncodeFrame(f)[4 + i]
    BY <1>1
  <2>3. \A i \in 1..(n - 5) : SubSeq(EncodeFrame(f), 5, n - 1)[i] = f.body[i]
    BY <2>1, <2>2, Encoded
  <2>4. SubSeq(EncodeFrame(f), 5, n - 1) = f.body
    BY <2>1, <2>2, <2>3, SeqEqual
  <2> QED
    BY <1>3, <1>4, <2>4 DEF HeaderLen
<1>8. Frame(buffer[2], buffer[4], f.body) = f
  <2>1. f \in [type : {FrameTypes[t] : t \in DOMAIN FrameTypes}, sequence : Byte, body : Seq(Byte)]
    BY FramesAssumption
  <2> QED
    BY <1>3, <2>1 DEF Frame
<1>9. ~MayBeEnd(buffer)
  BY <1>3, NoEnd DEF HeaderStart
<1>10. \E t \in DOMAIN FrameTypes : FrameTypes[t] = buffer[2]
  BY <1>3, HeaderAndBody
<1>11. ~(Len(buffer) < HeaderLen) /\ ~(buffer[1] # HeaderStart \/ buffer[3] < HeaderLen + 1) /\ ~(Len(buffer) < buffer[3])
  BY <1>1, <1>3 DEF HeaderLen
<1>12. InspectLeading(buffer)
           = Decoded(Frame(buffer[2], buffer[4], SubSeq(bytes, HeaderLen + 1, buffer[3] - 1)), buffer[3])
  BY <1>6, <1>9, <1>10, <1>11 DEF InspectLeading
<1> QED
  BY <1>3, <1>7, <1>8, <1>12

\* A frame whose bytes are not all there is waited for.
LEMMA PartFrame ==
    ASSUME NEW f \in Frames, NEW buffer \in Seq(Byte), Len(buffer) < Len(EncodeFrame(f)),
           Leads(EncodeFrame(f), buffer)
    PROVE  InspectLeading(buffer) = NeedsMore
<1>0. Len(EncodeFrame(f)) \in 5..255 /\ Len(buffer) \in Nat
  BY Encoded
<1>1. /\ Len(buffer) >= 1 => buffer[1] = HeaderStart
      /\ Len(buffer) >= 3 => buffer[3] = Len(EncodeFrame(f))
  <2>1. \A i \in {1, 3} : Len(buffer) >= i => buffer[i] = EncodeFrame(f)[i]
    BY <1>0 DEF Leads
  <2> QED
    BY <2>1, Encoded
<1>2. ~MayBeEnd(buffer)
  BY <1>1, NoEnd DEF HeaderStart
<1> QED
  BY <1>0, <1>1, <1>2 DEF InspectLeading, HeaderLen

-----------------------------------------------------------------------------
(* Noise in front *)

StrayByte(e) == \E b \in Strays : e = <<b>>

GarbledFrame(e) ==
    \E f \in Frames :
        \E i \in DOMAIN EncodeFrame(f) \ {3}, b \in Strays \cup {HeaderStart} :
            /\ EncodeFrame(f)[i] # b
            /\ e = [EncodeFrame(f) EXCEPT ![i] = b]

LEMMA StrayInFront ==
    ASSUME NEW e, StrayByte(e), NEW buffer \in Seq(Byte), Leads(e, buffer)
    PROVE  InspectLeading(buffer) \in {NeedsMore, Misses(1)}
<1>1. PICK b \in Strays : e = <<b>>
  BY DEF StrayByte
<1>2. Len(buffer) >= 1 => buffer[1] = b /\ b # HeaderStart /\ b # 43
  BY <1>1, StraysAssumption DEF Leads, EndOfSession
<1>3. ~MayBeEnd(buffer)
  BY <1>2, NoEnd
<1> QED
  BY <1>2, <1>3 DEF InspectLeading, HeaderLen

\* A garbled frame: what of it is as it was.
LEMMA Garbles ==
    ASSUME NEW f \in Frames, NEW i \in DOMAIN EncodeFrame(f) \ {3}, NEW b \in Strays \cup {HeaderStart}
    PROVE  /\ [EncodeFrame(f) EXCEPT ![i] = b] \in Seq(Byte)
           /\ Len([EncodeFrame(f) EXCEPT ![i] = b]) = Len(EncodeFrame(f))
           /\ i \in 1..Len(EncodeFrame(f)) /\ i # 3 /\ b \in Byte /\ b # 43
           /\ \A j \in 1..Len(EncodeFrame(f)) :
                  [EncodeFrame(f) EXCEPT ![i] = b][j] = IF j = i THEN b ELSE EncodeFrame(f)[j]
<1>1. b \in Byte /\ b # 43
  BY StraysAssumption DEF HeaderStart, EndOfSession, Byte
<1>2. EncodeFrame(f) \in Seq(Byte) /\ DOMAIN EncodeFrame(f) = 1..Len(EncodeFrame(f))
  BY Encoded, LenProperties
<1> QED
  BY <1>1, <1>2, ExceptSeq

\* Whichever byte of it is another, the checksum does not hold.
LEMMA CrcTells ==
    ASSUME NEW f \in Frames, NEW i \in DOMAIN EncodeFrame(f) \ {3}, NEW b \in Strays \cup {HeaderStart},
           EncodeFrame(f)[i] # b
    PROVE  ~CrcHolds([EncodeFrame(f) EXCEPT ![i] = b])
<1> DEFINE e == EncodeFrame(f)
           n == Len(e)
           w == WithoutCrc(f)
           g == [e EXCEPT ![i] = b]
           h == SubSeq(g, 1, n - 1)
<1>1. /\ g \in Seq(Byte) /\ Len(g) = n /\ i \in 1..n /\ b \in Byte
      /\ \A j \in 1..n : g[j] = IF j = i THEN b ELSE e[j]
  BY Garbles
<1>2. n \in 5..255 /\ w \in Seq(Byte) /\ Len(w) = n - 1
  BY Encoded, HeaderAndBody
<1>3. e[n] = Checksum(w) /\ \A j \in 1..(n - 1) : e[j] = w[j]
  BY <1>2, Encoded
<1>4. Last(g) = g[n] /\ Front(g) = h
  BY <1>1 DEF Last, Front
<1> HIDE DEF g
<1>5. h \in Seq(Byte) /\ Len(h) = n - 1 /\ \A j \in 1..(n - 1) : h[j] = g[j]
  BY <1>1, <1>2
<1> HIDE DEF h, n, w, e
<1>6. CASE i = n
  <2>1. \A j \in 1..(n - 1) : h[j] = w[j]
    BY <1>1, <1>2, <1>3, <1>5, <1>6
  <2>2. h = w
    BY <1>2, <1>5, <2>1, SeqEqual
  <2>3. g[n] = b
    BY <1>1, <1>6
  <2>4. g[n] # Checksum(w)
    BY <1>3, <1>6, <2>3 DEF e
  <2>5. ~CrcHolds(g)
    BY <1>4, <2>2, <2>4 DEF CrcHolds
  <2> QED
    BY <2>5 DEF g, e
<1>7. CASE i # n
  <2> DEFINE v == [w EXCEPT ![i] = b]
  <2>1. i \in 1..Len(w) /\ b # w[i]
    BY <1>1, <1>2, <1>3, <1>7 DEF e
  <2>2. v \in Seq(Byte) /\ Len(v) = n - 1 /\ \A j \in 1..(n - 1) : v[j] = IF j = i THEN b ELSE w[j]
    BY <1>1, <1>2, <2>1, ExceptSeq
  <2>3. Checksum(v) # Checksum(w)
    <3>1. i \in DOMAIN w /\ b \in Byte \ {w[i]}
      BY <1>1, <1>2, <2>1, LenProperties
    <3> QED
      BY <3>1, ChecksumAssumption DEF w
  <2> HIDE DEF v
  <2>4. \A j \in 1..(n - 1) : h[j] = v[j]
    BY <1>1, <1>2, <1>3, <1>5, <2>2
  <2>5. h = v
    BY <1>2, <1>5, <2>2, <2>4, SeqEqual
  <2>6. g[n] = Checksum(w)
    BY <1>1, <1>2, <1>3, <1>7
  <2>7. ~CrcHolds(g)
    BY <1>4, <2>3, <2>5, <2>6 DEF CrcHolds
  <2> QED
    BY <2>7 DEF g, e
<1> QED
  BY <1>6, <1>7

LEMMA GarbledInFront ==
    ASSUME NEW e, GarbledFrame(e), NEW buffer \in Seq(Byte), Leads(e, buffer)
    PROVE  InspectLeading(buffer) \in {NeedsMore, Misses(1)}
<1>0. PICK f \in Frames :
          \E i \in DOMAIN EncodeFrame(f) \ {3}, b \in Strays \cup {HeaderStart} :
              EncodeFrame(f)[i] # b /\ e = [EncodeFrame(f) EXCEPT ![i] = b]
  BY DEF GarbledFrame
<1>1. PICK i \in DOMAIN EncodeFrame(f) \ {3}, b \in Strays \cup {HeaderStart} :
          EncodeFrame(f)[i] # b /\ e = [EncodeFrame(f) EXCEPT ![i] = b]
  BY <1>0
<1> DEFINE n == Len(EncodeFrame(f))
<1>2. /\ e \in Seq(Byte) /\ Len(e) = n /\ n \in 5..255 /\ e[1] # 43 /\ e[3] = n
  <2>1. i # 3 /\ EncodeFrame(f)[1] = 116 /\ EncodeFrame(f)[3] = n /\ n \in 5..255
    BY Encoded DEF HeaderStart
  <2> QED
    BY <1>1, <2>1, Garbles
<1>3. /\ Len(buffer) \in Nat
      /\ Len(buffer) >= 1 => buffer[1] = e[1]
      /\ Len(buffer) >= 3 => buffer[3] = n
  <2>1. Len(buffer) \in Nat
    OBVIOUS
  <2>2. \A j \in {1, 3} : Len(buffer) >= j => buffer[j] = e[j]
    BY <1>2, <2>1 DEF Leads
  <2> QED
    BY <1>2, <2>1, <2>2
<1>4. ~MayBeEnd(buffer)
  BY <1>2, <1>3, NoEnd
<1>5. ASSUME Len(buffer) >= n PROVE ~CrcHolds(SubSeq(buffer, 1, n))
  <2>1. /\ SubSeq(buffer, 1, n) \in Seq(Byte) /\ Len(SubSeq(buffer, 1, n)) = n
        /\ \A j \in 1..n : SubSeq(buffer, 1, n)[j] = e[j]
    BY <1>2, <1>5 DEF Leads
  <2>2. SubSeq(buffer, 1, n) = e
    BY <1>2, <2>1, SeqEqual
  <2>3. ~CrcHolds([EncodeFrame(f) EXCEPT ![i] = b])
    BY <1>1, CrcTells
  <2> QED
    BY <1>1, <2>2, <2>3
<1> QED
  BY <1>2, <1>3, <1>4, <1>5 DEF InspectLeading, HeaderLen

\* "+++" in front and nothing after it: the end, once it is all there.
LEMMA EndInFront ==
    ASSUME NEW buffer \in Seq(Byte), Len(buffer) <= 3, Leads(EndOfSession, buffer)
    PROVE  InspectLeading(buffer) = IF Len(buffer) = 3 THEN Misses(3) ELSE NeedsMore
<1>0. Len(buffer) \in Nat
  OBVIOUS
<1>1. CASE Len(buffer) = 3
  <2>1. buffer = EndOfSession
    BY <1>1, SeqEqual DEF Leads, EndOfSession, Byte
  <2>2. MayBeEnd(buffer)
    BY <1>1, <2>1, SubSeqFull DEF MayBeEnd
  <2> QED
    BY <1>1, <2>2 DEF InspectLeading
<1>2. CASE Len(buffer) # 3
  BY <1>0, <1>2 DEF InspectLeading, MayBeEnd, HeaderLen
<1> QED
  BY <1>1, <1>2

-----------------------------------------------------------------------------
(* Sequences at an offset of the stream *)

At(s, d, e) == d + Len(e) <= Len(s) /\ \A j \in 1..Len(e) : s[d + j] = e[j]

LEMMA Assoc ==
    ASSUME NEW r \in Seq(Byte), NEW s \in Seq(Byte), NEW t \in Seq(Byte)
    PROVE  (r \o s) \o t = r \o (s \o t)
<1>1. /\ (r \o s) \o t \in Seq(Byte) /\ r \o (s \o t) \in Seq(Byte)
      /\ Len((r \o s) \o t) = Len(r \o (s \o t))
      /\ \A i \in 1..Len((r \o s) \o t) : ((r \o s) \o t)[i] = (r \o (s \o t))[i]
  OBVIOUS
<1> QED
  BY <1>1, SeqEqual

LEMMA AtAppend ==
    ASSUME NEW s \in Seq(Byte), NEW t \in Seq(Byte), NEW e \in Seq(Byte), NEW d \in Nat, At(s, d, e)
    PROVE  At(s \o t, d, e)
<1>1. /\ Len(s) \in Nat /\ Len(t) \in Nat /\ Len(e) \in Nat /\ Len(s \o t) = Len(s) + Len(t)
      /\ \A i \in 1..Len(s) : (s \o t)[i] = s[i]
  OBVIOUS
<1>2. \A j \in 1..Len(e) : d + j \in 1..Len(s) /\ s[d + j] = e[j]
  BY <1>1 DEF At
<1> QED
  BY <1>1, <1>2 DEF At

LEMMA AtEnd ==
    ASSUME NEW s \in Seq(Byte), NEW e \in Seq(Byte)
    PROVE  At(s \o e, Len(s), e) /\ Len(s \o e) = Len(s) + Len(e)
<1>1. /\ Len(s) \in Nat /\ Len(e) \in Nat /\ Len(s \o e) = Len(s) + Len(e)
      /\ \A j \in 1..Len(e) : (s \o e)[Len(s) + j] = e[j]
  OBVIOUS
<1> QED
  BY <1>1 DEF At

LEMMA AtShift ==
    ASSUME NEW s \in Seq(Byte), NEW e \in Seq(Byte), NEW n \in 0..Len(s), NEW d \in Nat, d >= n, At(s, d, e)
    PROVE  At(SubSeq(s, n + 1, Len(s)), d - n, e)
<1> DEFINE u == SubSeq(s, n + 1, Len(s))
<1>1. /\ Len(s) \in Nat /\ Len(e) \in Nat /\ Len(u) = Len(s) - n
      /\ \A i \in 1..(Len(s) - n) : u[i] = s[n + i]
  OBVIOUS
<1>2. \A j \in 1..Len(e) : d - n + j \in 1..(Len(s) - n) /\ n + (d - n + j) = d + j
  BY <1>1 DEF At
<1>3. \A j \in 1..Len(e) : u[d - n + j] = e[j]
  BY <1>1, <1>2 DEF At
<1> QED
  BY <1>1, <1>3 DEF At

\* What is at the start of the stream leads the buffer.
LEMMA AtLeads ==
    ASSUME NEW s \in Seq(Byte), NEW t \in Seq(Byte), NEW e \in Seq(Byte), At(s \o t, 0, e)
    PROVE  Leads(e, s)
<1>1. /\ Len(s) \in Nat /\ Len(e) \in Nat
      /\ \A i \in 1..Len(s) : (s \o t)[i] = s[i]
  OBVIOUS
<1>2. \A j \in 1..Len(e) : (s \o t)[j] = e[j]
  BY DEF At
<1> QED
  BY <1>1, <1>2 DEF Leads

-----------------------------------------------------------------------------
(* What is on its way *)

Stream == buf \o pipe

\* Where each frame that was sent and not returned ends in the stream.
Offsets(c) ==
    /\ c \in [Nat -> Nat] /\ c[Len(got)] = 0
    /\ \A k \in Len(got)..Len(sent) : \A m \in k..Len(sent) : c[k] <= c[m]
    /\ \A k \in (Len(got) + 1)..Len(sent) :
        /\ c[k] = c[k - 1] + Len(EncodeFrame(sent[k]))
        /\ At(Stream, c[k - 1], EncodeFrame(sent[k]))

\* What follows the frames: noise, the end of the session, or nothing.
Rest(d) ==
    /\ d <= Len(Stream)
    /\ noise = 0 /\ panel = "open" => Len(Stream) = d
    /\ noise = 0 /\ panel # "open" => Len(Stream) \in {d, d + 3}
    /\ noise = 0 /\ Len(Stream) # d => At(Stream, d, EndOfSession)
    /\ noise > 0 => \E e \in Seq(Byte) : (StrayByte(e) \/ GarbledFrame(e)) /\ At(Stream, d, e)

OnTheWay == \E c : Offsets(c) /\ Rest(c[Len(sent)])

InOrder ==
    /\ Len(got) <= Len(sent)
    /\ \A i \in 1..Len(got) : got[i] = sent[i]

\* While frames are read, the stream is laid out as it was written.
Inv == TypeOK /\ InOrder /\ (ended = "no" => OnTheWay) /\ EndsForAReason

LEMMA Typed ==
    ASSUME TypeOK
    PROVE  /\ Stream \in Seq(Byte) /\ Len(Stream) = Len(buf) + Len(pipe)
           /\ Len(buf) \in Nat /\ Len(pipe) \in Nat
           /\ Len(got) \in Nat /\ Len(sent) \in Nat /\ noise \in Nat
<1>1. buf \in Seq(Byte) /\ pipe \in Seq(Byte) /\ got \in Seq(Frames) /\ sent \in Seq(Frames)
  BY DEF TypeOK
<1>2. noise \in Nat
  <2>1. noise \in 0..MaxNoise
    BY DEF TypeOK
  <2> QED
    BY <2>1, BoundsAssumption
<1> QED
  BY <1>1, <1>2, ConcatProperties, LenProperties DEF Stream

\* What _inspect_leading finds: the next frame, or how the session ends.
LEMMA Leading ==
    ASSUME Inv, ended = "no"
    PROVE  \/ /\ Len(got) < Len(sent) /\ sent[Len(got) + 1] \in Frames
              /\ \/ InspectLeading(buf) = NeedsMore
                 \/ /\ Len(buf) >= Len(EncodeFrame(sent[Len(got) + 1]))
                    /\ InspectLeading(buf)
                           = Decoded(sent[Len(got) + 1], Len(EncodeFrame(sent[Len(got) + 1])))
           \/ /\ got = sent
              /\ \/ InspectLeading(buf) = NeedsMore
                 \/ noise = 0 /\ panel # "open" /\ InspectLeading(buf) = Misses(3)
                 \/ noise > 0 /\ InspectLeading(buf) = Misses(1)
<1> DEFINE g == Len(got)
<1>1. /\ buf \in Seq(Byte) /\ pipe \in Seq(Byte) /\ sent \in Seq(Frames) /\ got \in Seq(Frames)
      /\ g \in Nat /\ Len(sent) \in Nat /\ g <= Len(sent) /\ noise \in Nat
      /\ Len(buf) \in Nat /\ Len(pipe) \in Nat
  BY Typed DEF Inv, TypeOK, InOrder
<1>2. PICK c : Offsets(c) /\ Rest(c[Len(sent)])
  BY DEF Inv, OnTheWay
<1>3. CASE g < Len(sent)
  <2> DEFINE f == sent[g + 1]
  <2>1. g + 1 \in 1..Len(sent) /\ g + 1 \in (g + 1)..Len(sent) /\ g + 1 - 1 = g
    BY <1>1, <1>3
  <2>2. f \in Frames
    BY <1>1, <2>1, ElementOfSeq
  <2>3. At(Stream, 0, EncodeFrame(f))
    <3>1. /\ c[g] = 0
          /\ \A k \in (g + 1)..Len(sent) : At(Stream, c[k - 1], EncodeFrame(sent[k]))
      BY <1>2 DEF Offsets
    <3>2. At(Stream, c[g + 1 - 1], EncodeFrame(sent[g + 1]))
      BY <2>1, <3>1
    <3> QED
      BY <2>1, <3>1, <3>2
  <2>4. Leads(EncodeFrame(f), buf)
    BY <1>1, <2>2, <2>3, AtLeads, Encoded DEF Stream
  <2>5. Len(EncodeFrame(f)) \in Nat
    BY <2>2, Encoded
  <2>6. CASE Len(buf) >= Len(EncodeFrame(f))
    BY <1>1, <1>3, <2>2, <2>4, <2>6, WholeFrame
  <2>7. CASE Len(buf) < Len(EncodeFrame(f))
    BY <1>1, <1>3, <2>2, <2>4, <2>7, PartFrame
  <2> QED
    BY <1>1, <2>5, <2>6, <2>7
<1>4. CASE g = Len(sent)
  <2>1. got = sent
    BY <1>1, <1>4, SeqEqual DEF Inv, InOrder
  <2>2. Rest(0)
    BY <1>2, <1>4 DEF Offsets
  <2>3. CASE noise > 0
    <3>1. PICK e \in Seq(Byte) : (StrayByte(e) \/ GarbledFrame(e)) /\ At(Stream, 0, e)
      BY <2>2, <2>3 DEF Rest
    <3>2. Leads(e, buf)
      BY <1>1, <3>1, AtLeads DEF Stream
    <3> QED
      BY <1>1, <2>1, <2>3, <3>1, <3>2, StrayInFront, GarbledInFront
  <2>4. CASE noise = 0 /\ Len(Stream) = 0
    <3>1. buf = <<>>
      BY <1>1, <2>4 DEF Stream
    <3>2. ~MayBeEnd(buf)
      BY <1>1, <3>1, NoEnd
    <3>3. InspectLeading(buf) = NeedsMore
      BY <3>1, <3>2 DEF InspectLeading, HeaderLen
    <3> QED
      BY <2>1, <3>3
  <2>5. CASE noise = 0 /\ Len(Stream) # 0
    <3>1. panel # "open" /\ Len(Stream) = 3 /\ At(Stream, 0, EndOfSession)
      BY <2>2, <2>5 DEF Rest
    <3>2. EndOfSession \in Seq(Byte)
      BY DEF EndOfSession, Byte
    <3>3. Len(buf) <= 3 /\ Leads(EndOfSession, buf)
      BY <1>1, <3>1, <3>2, AtLeads DEF Stream
    <3> QED
      BY <1>1, <2>1, <2>5, <3>1, <3>3, EndInFront
  <2> QED
    BY <1>1, <2>3, <2>4, <2>5
<1> QED
  BY <1>1, <1>3, <1>4

-----------------------------------------------------------------------------
(* Type correctness *)

\* A step of the client, with what it found in front.
LEMMA Steps ==
    ASSUME [Next]_vars
    PROVE  \/ \E f \in Frames : Writes(f)
           \/ Noise \/ HangsUp \/ Closes
           \/ /\ ended = "no"
              /\ \/ Decodes(InspectLeading(buf)) \/ Faults(InspectLeading(buf))
                 \/ Reads(InspectLeading(buf)) \/ ReadsEof(InspectLeading(buf))
           \/ UNCHANGED vars
BY DEF Next, RecvFrame

\* A frame is returned only if it is the next one, and goes from the buffer.
LEMMA DecodesNext ==
    ASSUME Inv, ended = "no", Decodes(InspectLeading(buf)), InspectLeading(buf) # NeedsMore
    PROVE  /\ Len(got) < Len(sent) /\ sent[Len(got) + 1] \in Frames
           /\ Len(EncodeFrame(sent[Len(got) + 1])) <= Len(buf)
           /\ got' = Append(got, sent[Len(got) + 1])
           /\ buf' = SubSeq(buf, Len(EncodeFrame(sent[Len(got) + 1])) + 1, Len(buf))
           /\ UNCHANGED <<pipe, panel, sent, noise, ended>>
<1>1. \E f \in InspectLeading(buf).frame : TRUE
  BY DEF Decodes
<1>2. InspectLeading(buf) \notin {Misses(1), Misses(3)}
  BY <1>1 DEF Misses
<1>3. /\ Len(got) < Len(sent) /\ sent[Len(got) + 1] \in Frames
      /\ Len(buf) >= Len(EncodeFrame(sent[Len(got) + 1]))
      /\ InspectLeading(buf) = Decoded(sent[Len(got) + 1], Len(EncodeFrame(sent[Len(got) + 1])))
  BY <1>2, Leading
<1>4. Len(EncodeFrame(sent[Len(got) + 1])) <= Len(buf)
  BY <1>3, Encoded, Typed DEF Inv
<1> QED
  BY <1>3, <1>4 DEF Decodes, Decoded, Takes

LEMMA Remainder ==
    ASSUME NEW s \in Seq(Byte), NEW n \in Nat
    PROVE  /\ SubSeq(s, n + 1, Len(s)) \in Seq(Byte)
           /\ n <= Len(s) => Len(SubSeq(s, n + 1, Len(s))) = Len(s) - n
OBVIOUS

LEMMA NoFrameInNothing == NeedsMore.frame = {} /\ NeedsMore.consumed = 0
BY DEF NeedsMore, Misses

\* Both ways to fault, each with its reason.
LEMMA FaultsFor ==
    ASSUME Inv, ended = "no", Faults(InspectLeading(buf))
    PROVE  /\ \/ ended' = "+++" /\ noise = 0 /\ panel # "open" /\ got = sent
              \/ ended' = "outside" /\ noise > 0
           /\ buf' \in Seq(Byte)
           /\ UNCHANGED <<pipe, panel, sent, got, noise>>
<1>1. InspectLeading(buf).frame = {} /\ InspectLeading(buf).consumed > 0
  BY DEF Faults
<1>2. InspectLeading(buf) # NeedsMore
  BY <1>1, NoFrameInNothing
<1>3. \A f, n : Decoded(f, n).frame # {}
  BY DEF Decoded
<1>4. \/ got = sent /\ noise = 0 /\ panel # "open" /\ InspectLeading(buf) = Misses(3)
      \/ noise > 0 /\ InspectLeading(buf) = Misses(1)
  BY <1>1, <1>2, <1>3, Leading
<1>5. Misses(3).consumed = 3 /\ Misses(1).consumed = 1
  BY DEF Misses
<1>6. \/ ended' = "+++" /\ noise = 0 /\ panel # "open" /\ got = sent
      \/ ended' = "outside" /\ noise > 0
  BY <1>4, <1>5 DEF Faults
<1>7. buf' \in Seq(Byte)
  <2>1. buf \in Seq(Byte)
    BY DEF Inv, TypeOK
  <2>2. buf' = SubSeq(buf, 1 + 1, Len(buf)) \/ buf' = SubSeq(buf, 3 + 1, Len(buf))
    BY <1>4, <1>5 DEF Faults, Takes
  <2> QED
    BY <2>1, <2>2, Remainder
<1> QED
  BY <1>6, <1>7 DEF Faults

LEMMA ReadsOn ==
    ASSUME TypeOK, Reads(InspectLeading(buf))
    PROVE  /\ buf' \in Seq(Byte) /\ pipe' \in Seq(Byte) /\ Stream' = Stream
           /\ UNCHANGED <<panel, sent, got, noise, ended>>
<1>1. PICK n \in 1..Len(pipe) : buf' = buf \o SubSeq(pipe, 1, n) /\ pipe' = SubSeq(pipe, n + 1, Len(pipe))
  BY DEF Reads, Extends
<1>2. buf \in Seq(Byte) /\ pipe \in Seq(Byte) /\ Len(pipe) \in Nat
  BY Typed DEF TypeOK
<1> DEFINE u == SubSeq(pipe, 1, n)
           v == SubSeq(pipe, n + 1, Len(pipe))
<1>3. u \in Seq(Byte) /\ v \in Seq(Byte)
  BY <1>2
<1>4. u \o v = pipe
  <2>1. Len(u \o v) = Len(pipe) /\ \A i \in 1..Len(pipe) : (u \o v)[i] = pipe[i]
    BY <1>2
  <2> QED
    BY <1>2, <1>3, <2>1, SeqEqual, ConcatProperties
<1> HIDE DEF u, v
<1>5. (buf \o u) \o v = buf \o (u \o v)
  BY <1>2, <1>3, Assoc
<1> QED
  BY <1>1, <1>2, <1>3, <1>4, <1>5, ConcatProperties DEF Reads, Stream, u, v

\* What noise is made of, with where it goes.
LEMMA NoiseMade ==
    ASSUME TypeOK, Noise
    PROVE  /\ panel = "open" /\ noise' = noise + 1 /\ noise' \in 0..MaxNoise
           /\ \E e \in Seq(Byte) : (StrayByte(e) \/ GarbledFrame(e)) /\ pipe' = pipe \o e
           /\ UNCHANGED <<panel, buf, sent, got, ended>>
<1>1. noise < MaxNoise /\ noise' = noise + 1 /\ noise' \in 0..MaxNoise
  <2>1. noise \in 0..MaxNoise /\ noise < MaxNoise /\ noise' = noise + 1
    BY DEF TypeOK, Noise
  <2> QED
    BY <2>1, BoundsAssumption
<1>2. CASE \E b \in Strays : Stray(b)
  <2>1. PICK b \in Strays : pipe' = pipe \o <<b>>
    BY <1>2 DEF Stray
  <2>2. <<b>> \in Seq(Byte) /\ StrayByte(<<b>>)
    BY StraysAssumption DEF StrayByte
  <2> QED
    BY <1>1, <2>1, <2>2 DEF Noise
<1>3. CASE \E f \in Frames : Garbled(f)
  <2>1. PICK f \in Frames : Garbled(f)
    BY <1>3
  <2>2. PICK i \in DOMAIN EncodeFrame(f) \ {3}, b \in Strays \cup {HeaderStart} :
            EncodeFrame(f)[i] # b /\ pipe' = pipe \o [EncodeFrame(f) EXCEPT ![i] = b]
    BY <2>1 DEF Garbled
  <2>3. [EncodeFrame(f) EXCEPT ![i] = b] \in Seq(Byte)
    BY Garbles
  <2>4. GarbledFrame([EncodeFrame(f) EXCEPT ![i] = b])
    BY <2>2 DEF GarbledFrame
  <2> QED
    BY <1>1, <2>2, <2>3, <2>4 DEF Noise
<1> QED
  BY <1>2, <1>3 DEF Noise

LEMMA NextTyped ==
    ASSUME Inv, [Next]_vars
    PROVE  TypeOK'
<1>1. /\ TypeOK
      /\ buf \in Seq(Byte) /\ pipe \in Seq(Byte) /\ sent \in Seq(Frames) /\ got \in Seq(Frames)
  BY DEF Inv, TypeOK
<1>2. CASE \E f \in Frames : Writes(f)
  <2>1. PICK f \in Frames : Writes(f)
    BY <1>2
  <2>2. pipe \o EncodeFrame(f) \in Seq(Byte) /\ Append(sent, f) \in Seq(Frames)
    BY <1>1, Encoded, ConcatProperties, AppendProperties
  <2> QED
    BY <1>1, <2>1, <2>2 DEF TypeOK, Writes
<1>3. CASE Noise
  <2>1. pipe' \in Seq(Byte)
    BY <1>1, <1>3, NoiseMade, ConcatProperties
  <2> QED
    BY <1>1, <1>3, <2>1, NoiseMade DEF TypeOK
<1>4. CASE HangsUp
  <2>1. EndOfSession \in Seq(Byte)
    BY DEF EndOfSession, Byte
  <2>2. pipe \o EndOfSession \in Seq(Byte)
    BY <1>1, <2>1, ConcatProperties
  <2> QED
    BY <1>1, <1>4, <2>2 DEF TypeOK, HangsUp
<1>5. CASE Closes
  BY <1>1, <1>5 DEF TypeOK, Closes
<1>6. CASE ended = "no" /\ Decodes(InspectLeading(buf)) /\ InspectLeading(buf) # NeedsMore
  <2> DEFINE f == sent[Len(got) + 1]
  <2>1. /\ f \in Frames /\ got' = Append(got, f)
        /\ buf' = SubSeq(buf, Len(EncodeFrame(f)) + 1, Len(buf))
        /\ UNCHANGED <<pipe, panel, sent, noise, ended>>
    BY <1>6, DecodesNext
  <2>2. buf' \in Seq(Byte)
    <3>1. Len(EncodeFrame(f)) \in Nat
      BY <2>1, Encoded
    <3> QED
      BY <1>1, <2>1, <3>1, Remainder
  <2>3. got' \in Seq(Frames)
    BY <1>1, <2>1, AppendProperties
  <2> QED
    BY <1>1, <2>1, <2>2, <2>3 DEF TypeOK
<1>7. CASE ended = "no" /\ Faults(InspectLeading(buf))
  BY <1>1, <1>7, FaultsFor DEF TypeOK
<1>8. CASE Reads(InspectLeading(buf))
  BY <1>1, <1>8, ReadsOn DEF TypeOK
<1>9. CASE ReadsEof(InspectLeading(buf))
  BY <1>1, <1>9 DEF TypeOK, ReadsEof
<1>10. CASE UNCHANGED vars
  BY <1>1, <1>10 DEF TypeOK, vars
<1>11. CASE Decodes(InspectLeading(buf)) /\ InspectLeading(buf) = NeedsMore
  BY <1>11, NoFrameInNothing DEF Decodes
<1> QED
  BY <1>2, <1>3, <1>4, <1>5, <1>6, <1>7, <1>8, <1>9, <1>10, <1>11, Steps

-----------------------------------------------------------------------------
(* The safety properties, step by step *)

LEMMA NextInOrder ==
    ASSUME Inv, [Next]_vars
    PROVE  InOrder'
<1>1. /\ sent \in Seq(Frames) /\ got \in Seq(Frames) /\ Len(sent) \in Nat /\ Len(got) \in Nat
      /\ InOrder
  BY Typed DEF Inv, TypeOK
<1>2. CASE \E f \in Frames : Writes(f)
  <2>1. PICK f \in Frames : sent' = Append(sent, f) /\ got' = got
    BY <1>2 DEF Writes
  <2>2. Len(sent') = Len(sent) + 1 /\ \A i \in 1..Len(sent) : sent'[i] = sent[i]
    BY <1>1, <2>1, AppendProperties
  <2>3. \A i \in 1..Len(got) : i \in 1..Len(sent)
    BY <1>1 DEF InOrder
  <2> QED
    BY <1>1, <2>1, <2>2, <2>3 DEF InOrder
<1>3. CASE ended = "no" /\ Decodes(InspectLeading(buf)) /\ InspectLeading(buf) # NeedsMore
  <2> DEFINE f == sent[Len(got) + 1]
  <2>1. Len(got) < Len(sent) /\ f \in Frames /\ got' = Append(got, f) /\ sent' = sent
    BY <1>3, DecodesNext
  <2>2. /\ Len(got') = Len(got) + 1
        /\ \A i \in 1..Len(got) : got'[i] = got[i]
        /\ got'[Len(got) + 1] = f
    BY <1>1, <2>1, AppendProperties
  <2>3. \A i \in 1..(Len(got) + 1) : i \in 1..Len(got) \/ i = Len(got) + 1
    BY <1>1
  <2> QED
    BY <1>1, <2>1, <2>2, <2>3 DEF InOrder
<1>4. CASE UNCHANGED <<sent, got>>
  BY <1>1, <1>4 DEF InOrder
<1>5. CASE Decodes(InspectLeading(buf)) /\ InspectLeading(buf) = NeedsMore
  BY <1>5, NoFrameInNothing DEF Decodes
<1> QED
  BY <1>2, <1>3, <1>4, <1>5, Steps DEF Noise, HangsUp, Closes, Faults, Reads, ReadsEof, vars

LEMMA NextEnds ==
    ASSUME Inv, [Next]_vars
    PROVE  EndsForAReason'
<1>1. TypeOK /\ EndsForAReason /\ noise \in Nat
  BY Typed DEF Inv
<1>2. CASE \E f \in Frames : Writes(f)
  BY <1>1, <1>2 DEF EndsForAReason, Writes
<1>3. CASE Noise
  BY <1>1, <1>3, NoiseMade DEF EndsForAReason
<1>4. CASE HangsUp \/ Closes
  BY <1>1, <1>4 DEF EndsForAReason, HangsUp, Closes
<1>5. CASE ended = "no" /\ Faults(InspectLeading(buf))
  BY <1>1, <1>5, FaultsFor DEF EndsForAReason
<1>6. CASE ended = "no" /\ (Decodes(InspectLeading(buf)) \/ Reads(InspectLeading(buf)))
  BY <1>6 DEF EndsForAReason, Decodes, Reads
<1>7. CASE ReadsEof(InspectLeading(buf))
  BY <1>7 DEF EndsForAReason, ReadsEof
<1>8. CASE UNCHANGED vars
  BY <1>1, <1>8 DEF EndsForAReason, vars
<1> QED
  BY <1>2, <1>3, <1>4, <1>5, <1>6, <1>7, <1>8, Steps

-----------------------------------------------------------------------------
(* The layout of the stream, step by step *)

\* Bytes added at the end leave the frames where they are.
LEMMA AddsBehind ==
    ASSUME TypeOK, NEW t \in Seq(Byte), pipe' = pipe \o t, buf' = buf
    PROVE  /\ Stream' = Stream \o t /\ Stream \in Seq(Byte) /\ Len(Stream') = Len(Stream) + Len(t)
           /\ \A e \in Seq(Byte), d \in Nat : At(Stream, d, e) => At(Stream', d, e)
           /\ At(Stream', Len(Stream), t)
<1>1. buf \in Seq(Byte) /\ pipe \in Seq(Byte) /\ Stream \in Seq(Byte)
  BY Typed DEF TypeOK
<1>2. Stream' = Stream \o t
  BY <1>1, Assoc DEF Stream
<1> QED
  BY <1>1, <1>2, AtAppend, AtEnd

LEMMA FramesSent ==
    ASSUME TypeOK
    PROVE  \A k \in (Len(got) + 1)..Len(sent) : sent[k] \in Frames /\ EncodeFrame(sent[k]) \in Seq(Byte)
<1>1. sent \in Seq(Frames) /\ Len(sent) \in Nat /\ Len(got) \in Nat
  BY Typed DEF TypeOK
<1> QED
  BY <1>1, Encoded

LEMMA OffsetsAt ==
    ASSUME TypeOK, InOrder, NEW c, Offsets(c), NEW k \in (Len(got) + 1)..Len(sent)
    PROVE  /\ k \in Nat /\ k - 1 \in Nat /\ k \in 1..Len(sent)
           /\ EncodeFrame(sent[k]) \in Seq(Byte) /\ Len(EncodeFrame(sent[k])) \in Nat
           /\ c[k] \in Nat /\ c[k - 1] \in Nat
           /\ c[k] = c[k - 1] + Len(EncodeFrame(sent[k]))
           /\ At(Stream, c[k - 1], EncodeFrame(sent[k]))
<1>1. Len(got) \in Nat /\ Len(sent) \in Nat
  BY Typed
<1>2. k \in Nat /\ k - 1 \in Nat /\ k \in 1..Len(sent)
  BY <1>1
<1>3. EncodeFrame(sent[k]) \in Seq(Byte) /\ Len(EncodeFrame(sent[k])) \in Nat
  BY FramesSent, LenProperties
<1>4. c \in [Nat -> Nat]
  BY DEF Offsets
<1>5. c[k] = c[k - 1] + Len(EncodeFrame(sent[k])) /\ At(Stream, c[k - 1], EncodeFrame(sent[k]))
  BY DEF Offsets
<1> QED
  BY <1>2, <1>3, <1>4, <1>5

LEMMA OffsetsGrow ==
    ASSUME TypeOK, InOrder, NEW c, Offsets(c), NEW k \in Len(got)..Len(sent), NEW m \in k..Len(sent)
    PROVE  c[k] \in Nat /\ c[m] \in Nat /\ c[k] <= c[m]
<1>1. Len(got) \in Nat /\ Len(sent) \in Nat
  BY Typed
<1>2. k \in Nat /\ m \in Nat
  BY <1>1
<1>3. c \in [Nat -> Nat] /\ c[k] <= c[m]
  BY DEF Offsets
<1> QED
  BY <1>2, <1>3

\* So bytes added leave the offsets as they are, if no frame is counted.
LEMMA OffsetsBehind ==
    ASSUME TypeOK, InOrder, NEW c, Offsets(c), NEW t \in Seq(Byte), pipe' = pipe \o t,
           UNCHANGED <<buf, sent, got>>
    PROVE  Offsets(c)'
<1>1. Len(got) \in Nat /\ Len(sent) \in Nat /\ c \in [Nat -> Nat]
  BY Typed DEF Offsets
<1>2. ASSUME NEW k \in (Len(got) + 1)..Len(sent)
      PROVE  At(Stream', c[k - 1], EncodeFrame(sent[k]))
  <2>1. At(Stream, c[k - 1], EncodeFrame(sent[k])) /\ c[k - 1] \in Nat /\ EncodeFrame(sent[k]) \in Seq(Byte)
    BY OffsetsAt
  <2> QED
    BY <2>1, AddsBehind
<1> QED
  BY <1>1, <1>2 DEF Offsets

\* A frame written is the next one counted.
LEMMA WritesBehind ==
    ASSUME Inv, NEW f \in Frames, Writes(f), ended = "no"
    PROVE  OnTheWay'
<1> DEFINE n == Len(sent)
           g == Len(got)
           e == EncodeFrame(f)
           l == Len(e)
<1>1. /\ TypeOK /\ Len(got) \in Nat /\ n \in Nat /\ Len(got) <= n /\ Stream \in Seq(Byte) /\ Len(Stream) \in Nat
      /\ sent \in Seq(Frames)
  BY Typed, LenProperties DEF Inv, InOrder, TypeOK
<1>0. g \in Nat /\ n \in Nat /\ g <= n
  BY <1>1
<1>2. PICK c : Offsets(c) /\ Rest(c[n])
  BY DEF Inv, OnTheWay
<1>3. c \in [Nat -> Nat] /\ c[n] = Len(Stream) /\ noise = 0 /\ panel = "open"
  BY <1>2 DEF Offsets, Rest, Writes
<1>4. e \in Seq(Byte) /\ l \in Nat
  BY Encoded
<1>5. /\ Len(Stream') = Len(Stream) + l
      /\ \A x \in Seq(Byte), d \in Nat : At(Stream, d, x) => At(Stream', d, x)
      /\ At(Stream', Len(Stream), e)
  BY <1>1, <1>4, AddsBehind DEF Writes
<1>6. /\ sent' = Append(sent, f) /\ Len(sent') = n + 1 /\ sent'[n + 1] = f
      /\ \A k \in 1..n : sent'[k] = sent[k]
      /\ got' = got
  BY <1>1, AppendProperties DEF Writes
<1> HIDE DEF n, g, e, l
<1>7. PICK b \in [Nat -> Nat] : b[n + 1] = c[n] + l /\ \A k \in Nat : k # n + 1 => b[k] = c[k]
  <2>1. c[n] + l \in Nat /\ n + 1 \in Nat
    BY <1>0, <1>3, <1>4
  <2>2. [c EXCEPT ![n + 1] = c[n] + l] \in [Nat -> Nat]
    BY <1>3, <2>1
  <2> QED
    BY <1>3, <2>1, <2>2
<1>8. b[g] = 0
  <2>1. g # n + 1
    BY <1>0
  <2> QED
    BY <1>0, <1>2, <1>7, <2>1 DEF Offsets, g
<1>9. \A k \in g..n : k \in Nat /\ b[k] = c[k]
  BY <1>0, <1>7
<1>10. ASSUME NEW k \in g..(n + 1), NEW m \in k..(n + 1) PROVE b[k] <= b[m]
  <2>1. CASE m # n + 1
    <3>1. k \in g..n /\ m \in k..n /\ m \in g..n
      BY <1>0, <2>1
    <3> QED
      BY <1>1, <1>2, <1>9, <3>1, OffsetsGrow DEF n, g, Inv
  <2>2. CASE m = n + 1 /\ k = n + 1
    <3>1. b[n + 1] \in Nat
      BY <1>0, <1>7
    <3> QED
      BY <2>2, <3>1
  <2>3. CASE m = n + 1 /\ k # n + 1
    <3>1. k \in g..n /\ n \in k..n
      BY <1>0, <2>3
    <3>2. c[k] <= c[n] /\ c[k] \in Nat /\ c[n] \in Nat
      BY <1>1, <1>2, <3>1, OffsetsGrow DEF n, g, Inv
    <3>3. b[k] = c[k] /\ b[m] = c[n] + l
      BY <1>7, <1>9, <2>3, <3>1
    <3>4. c[k] <= c[n] + l
      <4>1. \A x, y, z \in Nat : x <= y => x <= y + z
        OBVIOUS
      <4> QED
        BY <1>4, <3>2, <4>1
    <3> QED
      BY <3>3, <3>4
  <2> QED
    BY <2>1, <2>2, <2>3
<1>11. ASSUME NEW k \in (g + 1)..(n + 1)
       PROVE  /\ b[k] = b[k - 1] + Len(EncodeFrame(sent'[k]))
              /\ At(Stream', b[k - 1], EncodeFrame(sent'[k]))
  <2>1. CASE k = n + 1
    <3>1. k - 1 = n /\ n \in g..n
      BY <1>0, <2>1
    <3>2. b[k - 1] = c[n] /\ b[k] = c[n] + l /\ sent'[k] = f
      BY <1>6, <1>7, <1>9, <2>1, <3>1
    <3> QED
      BY <1>3, <1>5, <3>2 DEF e, l
  <2>2. CASE k # n + 1
    <3>1. k \in (g + 1)..n /\ k \in 1..n /\ k - 1 \in g..n /\ k \in g..n
      BY <1>0, <2>2
    <3>2. /\ c[k] = c[k - 1] + Len(EncodeFrame(sent[k])) /\ At(Stream, c[k - 1], EncodeFrame(sent[k]))
          /\ c[k - 1] \in Nat /\ EncodeFrame(sent[k]) \in Seq(Byte)
      BY <1>1, <1>2, <3>1, OffsetsAt DEF n, g, Inv
    <3>3. b[k] = c[k] /\ b[k - 1] = c[k - 1] /\ sent'[k] = sent[k]
      BY <1>6, <1>9, <3>1
    <3> QED
      BY <1>5, <3>2, <3>3
  <2> QED
    BY <2>1, <2>2
<1>12. Offsets(b)'
  <2>1. Len(sent') = n + 1 /\ got' = got
    BY <1>6
  <2> QED
    BY <1>7, <1>8, <1>10, <1>11, <2>1 DEF Offsets, g
<1>13. Rest(b[Len(sent)])'
  <2>1. Len(Stream') = b[n + 1]
    BY <1>3, <1>5, <1>7
  <2>2. noise' = 0 /\ panel' = "open"
    BY <1>3 DEF Writes
  <2>3. b[Len(sent')] = Len(Stream') /\ Len(Stream') \in Nat
    <3>1. n + 1 \in Nat
      BY <1>0
    <3> QED
      BY <1>6, <1>7, <2>1, <3>1
  <2> QED
    BY <2>2, <2>3 DEF Rest
<1> QED
  BY <1>12, <1>13 DEF OnTheWay

\* Noise, or "+++", is the first thing behind the frames or comes later.
LEMMA NoiseBehind ==
    ASSUME Inv, Noise, ended = "no"
    PROVE  OnTheWay'
<1>1. PICK t \in Seq(Byte) : (StrayByte(t) \/ GarbledFrame(t)) /\ pipe' = pipe \o t
  BY NoiseMade DEF Inv
<1>2. TypeOK /\ InOrder /\ panel = "open" /\ noise' = noise + 1 /\ noise \in Nat /\ UNCHANGED <<panel, buf, sent, got, ended>>
  BY NoiseMade, Typed DEF Inv
<1>3. PICK c : Offsets(c) /\ Rest(c[Len(sent)])
  BY DEF Inv, OnTheWay
<1>4. Offsets(c)'
  BY <1>1, <1>2, <1>3, OffsetsBehind
<1>5. /\ Len(Stream') = Len(Stream) + Len(t) /\ Len(t) \in Nat /\ Len(Stream) \in Nat
      /\ \A e \in Seq(Byte), d \in Nat : At(Stream, d, e) => At(Stream', d, e)
      /\ At(Stream', Len(Stream), t)
  BY <1>1, <1>2, AddsBehind, LenProperties
<1>6. c[Len(sent)] \in Nat
  BY <1>2, <1>3, Typed DEF Offsets
<1>7. \E e \in Seq(Byte) : (StrayByte(e) \/ GarbledFrame(e)) /\ At(Stream', c[Len(sent)], e)
  <2>1. CASE noise = 0
    BY <1>1, <1>2, <1>3, <1>5, <2>1 DEF Rest
  <2>2. CASE noise > 0
    BY <1>3, <1>5, <1>6, <2>2 DEF Rest
  <2> QED
    BY <1>2, <2>1, <2>2
<1>8. c[Len(sent)] <= Len(Stream')
  BY <1>3, <1>5, <1>6 DEF Rest
<1>9. Rest(c[Len(sent)])'
  BY <1>2, <1>7, <1>8 DEF Rest, StrayByte, GarbledFrame
<1> QED
  BY <1>4, <1>9 DEF OnTheWay

LEMMA EndBehind ==
    ASSUME Inv, HangsUp, ended = "no"
    PROVE  OnTheWay'
<1>1. EndOfSession \in Seq(Byte) /\ Len(EndOfSession) = 3
  BY DEF EndOfSession, Byte
<1>2. TypeOK /\ InOrder /\ noise \in Nat
  BY Typed DEF Inv
<1>3. PICK c : Offsets(c) /\ Rest(c[Len(sent)])
  BY DEF Inv, OnTheWay
<1>4. Offsets(c)'
  BY <1>1, <1>2, <1>3, OffsetsBehind DEF HangsUp
<1>5. /\ Len(Stream') = Len(Stream) + 3 /\ Len(Stream) \in Nat
      /\ \A e \in Seq(Byte), d \in Nat : At(Stream, d, e) => At(Stream', d, e)
      /\ At(Stream', Len(Stream), EndOfSession)
  BY <1>1, <1>2, AddsBehind, LenProperties DEF HangsUp
<1>6. c[Len(sent)] \in Nat /\ c[Len(sent)] <= Len(Stream)
  BY <1>2, <1>3, Typed DEF Offsets, Rest
<1>7. CASE noise = 0
  <2>1. Len(Stream) = c[Len(sent)]
    BY <1>3, <1>7 DEF Rest, HangsUp
  <2> QED
    <3>1. noise' = 0 /\ panel' # "open" /\ sent' = sent
      BY <1>7 DEF HangsUp
    <3>2. Len(Stream') = c[Len(sent)] + 3 /\ At(Stream', c[Len(sent)], EndOfSession)
      BY <1>5, <2>1
    <3>3. Rest(c[Len(sent)])'
      BY <1>6, <3>1, <3>2 DEF Rest
    <3> QED
      BY <1>4, <3>3 DEF OnTheWay
<1>8. CASE noise > 0
  <2>1. \E e \in Seq(Byte) : (StrayByte(e) \/ GarbledFrame(e)) /\ At(Stream', c[Len(sent)], e)
    BY <1>3, <1>5, <1>6, <1>8 DEF Rest
  <2>2. noise' > 0 /\ noise' # 0 /\ sent' = sent
    <3>1. noise' = noise /\ sent' = sent
      BY DEF HangsUp
    <3>2. noise # 0
      BY <1>2, <1>8
    <3> QED
      BY <1>8, <3>1, <3>2
  <2>3. c[Len(sent)] <= Len(Stream')
    BY <1>5, <1>6
  <2>4. Rest(c[Len(sent)])'
    BY <2>1, <2>2, <2>3 DEF Rest, StrayByte, GarbledFrame
  <2> QED
    BY <1>4, <2>4 DEF OnTheWay
<1> QED
  BY <1>2, <1>7, <1>8

\* What _recv_frame takes is gone from the front of the stream.
LEMMA TakenOff ==
    ASSUME TypeOK, NEW n \in 0..Len(buf), buf' = SubSeq(buf, n + 1, Len(buf)), pipe' = pipe
    PROVE  Stream' = SubSeq(Stream, n + 1, Len(Stream))
<1>1. buf \in Seq(Byte) /\ pipe \in Seq(Byte)
  BY DEF TypeOK
<1> DEFINE u == SubSeq(buf, n + 1, Len(buf)) \o pipe
           v == SubSeq(buf \o pipe, n + 1, Len(buf \o pipe))
<1>2. u \in Seq(Byte) /\ Len(u) = Len(buf) - n + Len(pipe)
  BY <1>1
<1>3. v \in Seq(Byte) /\ Len(v) = Len(buf) + Len(pipe) - n
  BY <1>1
<1>4. \A i \in 1..Len(u) : u[i] = v[i]
  BY <1>1
<1>5. Len(u) = Len(v)
  BY <1>1
<1>6. u = v
  BY <1>2, <1>3, <1>4, <1>5, SeqEqual
<1> QED
  BY <1>6 DEF Stream

\* And the offsets of the frames left over are smaller by its length.
LEMMA DecodesShifts ==
    ASSUME Inv, ended = "no", Decodes(InspectLeading(buf)), InspectLeading(buf) # NeedsMore
    PROVE  OnTheWay'
<1> DEFINE n == Len(sent)
           g == Len(got)
           f == sent[g + 1]
           l == Len(EncodeFrame(f))
           z == Len(Stream)
<1>1. TypeOK /\ InOrder /\ Stream \in Seq(Byte)
  BY Typed DEF Inv
<1>2. n \in Nat /\ g \in Nat /\ g < n
  BY <1>1, Typed, DecodesNext
<1>3. /\ f \in Frames /\ got' = Append(got, f) /\ buf' = SubSeq(buf, l + 1, Len(buf)) /\ l <= Len(buf)
      /\ UNCHANGED <<pipe, panel, sent, noise, ended>>
  BY DecodesNext
<1>4. l \in 0..Len(buf) /\ l \in 0..z /\ l \in Nat /\ z \in Nat
  <2>1. /\ l \in 5..255 /\ Len(buf) \in Nat /\ Len(pipe) \in Nat
        /\ z = Len(buf) + Len(pipe) /\ l <= Len(buf)
    BY <1>1, <1>3, Encoded, Typed
  <2> HIDE DEF l, z
  <2> QED
    BY <2>1
<1>5. Stream' = SubSeq(Stream, l + 1, z)
  BY <1>1, <1>3, <1>4, TakenOff
<1>6. Len(got') = g + 1 /\ Len(sent') = n
  BY <1>1, <1>3, AppendProperties DEF TypeOK
<1>7. Len(Stream') = z - l
  <2>1. l <= Len(Stream)
    BY <1>4
  <2>2. Len(SubSeq(Stream, l + 1, Len(Stream))) = Len(Stream) - l
    BY <1>1, <1>4, <2>1, Remainder
  <2> QED
    BY <1>5, <2>2
<1>8. ASSUME NEW e \in Seq(Byte), NEW d \in Nat, d >= l, At(Stream, d, e)
      PROVE  At(Stream', d - l, e)
  BY <1>1, <1>4, <1>5, <1>8, AtShift
<1>9. PICK c : Offsets(c) /\ Rest(c[n])
  BY DEF Inv, OnTheWay
<1>10. c[g + 1] = l
  <2>1. g + 1 \in (g + 1)..n /\ g + 1 - 1 = g
    BY <1>2
  <2>2. c[g] = 0
    BY <1>9 DEF Offsets
  <2>3. \A k \in (g + 1)..n : c[k] = c[k - 1] + Len(EncodeFrame(sent[k]))
    BY <1>1, <1>9, OffsetsAt
  <2>4. c[g + 1] = c[g + 1 - 1] + l
    BY <2>1, <2>3
  <2> QED
    BY <1>4, <2>1, <2>2, <2>4
<1> HIDE DEF n, g, f, l, z
<1>11. \A k \in (g + 1)..n : k \in Nat /\ c[k] \in Nat /\ c[k] >= l /\ c[k] - l \in Nat
  <2>1. ASSUME NEW k \in (g + 1)..n PROVE k \in Nat /\ c[k] \in Nat /\ c[k] >= l
    <3>1. k \in Nat /\ g + 1 \in g..n /\ k \in (g + 1)..n
      BY <1>2
    <3> QED
      BY <1>1, <1>9, <1>10, <3>1, OffsetsGrow DEF g, n
  <2>2. \A x \in Nat : x >= l => x - l \in Nat
    BY <1>4
  <2> QED
    BY <2>1, <2>2
<1>12. PICK b \in [Nat -> Nat] : \A k \in (g + 1)..n : b[k] = c[k] - l
  <2> DEFINE b == [k \in Nat |-> IF k \in (g + 1)..n THEN c[k] - l ELSE 0]
  <2>1. b \in [Nat -> Nat]
    BY <1>11
  <2>2. \A k \in (g + 1)..n : b[k] = c[k] - l
    BY <1>11
  <2> QED
    BY <2>1, <2>2
<1>13. b[g + 1] = 0
  <2>1. g + 1 \in (g + 1)..n
    BY <1>2
  <2> QED
    BY <1>4, <1>10, <1>12, <2>1
<1>14. ASSUME NEW k \in (g + 1)..n, NEW m \in k..n PROVE b[k] <= b[m]
  <2>1. k \in g..n /\ m \in (g + 1)..n
    BY <1>2
  <2>2. c[k] <= c[m]
    BY <1>1, <1>9, <2>1, OffsetsGrow DEF g, n
  <2>3. \A x, y \in Nat : x <= y => x - l <= y - l
    BY <1>4
  <2> QED
    BY <1>11, <1>12, <2>1, <2>2, <2>3
<1>15. ASSUME NEW k \in (g + 1 + 1)..n
       PROVE  b[k] = b[k - 1] + Len(EncodeFrame(sent[k])) /\ At(Stream', b[k - 1], EncodeFrame(sent[k]))
  <2>1. k \in (g + 1)..n /\ k - 1 \in (g + 1)..n
    BY <1>2
  <2>2. /\ c[k] = c[k - 1] + Len(EncodeFrame(sent[k])) /\ At(Stream, c[k - 1], EncodeFrame(sent[k]))
        /\ EncodeFrame(sent[k]) \in Seq(Byte) /\ Len(EncodeFrame(sent[k])) \in Nat
    BY <1>1, <1>9, <2>1, OffsetsAt DEF g, n
  <2>3. b[k] = c[k] - l /\ b[k - 1] = c[k - 1] - l /\ c[k - 1] \in Nat /\ c[k - 1] >= l
    BY <1>11, <1>12, <2>1
  <2>4. \A x, y \in Nat : (x + y) - l = (x - l) + y
    BY <1>4
  <2> QED
    BY <1>8, <2>2, <2>3, <2>4
<1>16. Offsets(b)'
  BY <1>3, <1>6, <1>12, <1>13, <1>14, <1>15 DEF Offsets
<1>17. Rest(b[Len(sent)])'
  <2>1. n \in (g + 1)..n
    BY <1>2
  <2>2. b[n] = c[n] - l /\ c[n] \in Nat /\ c[n] >= l
    BY <1>11, <1>12, <2>1
  <2>3. ASSUME NEW e \in Seq(Byte), At(Stream, c[n], e) PROVE At(Stream', b[n], e)
    BY <1>8, <2>2, <2>3
  <2>4. \A x \in Nat : /\ x <= z => x - l <= z - l
                       /\ z = x => z - l = x - l
                       /\ z = x + 3 => z - l = x - l + 3
                       /\ z - l # x - l => z # x
    BY <1>4
  <2>5. EndOfSession \in Seq(Byte)
    BY DEF EndOfSession, Byte
  <2>6. b[n] <= Len(Stream')
    BY <1>7, <1>9, <2>2, <2>4 DEF Rest, z
  <2>7. noise = 0 /\ panel = "open" => Len(Stream') = b[n]
    BY <1>7, <1>9, <2>2, <2>4 DEF Rest, z
  <2>8. noise = 0 /\ panel # "open" => Len(Stream') \in {b[n], b[n] + 3}
    BY <1>7, <1>9, <2>2, <2>4 DEF Rest, z
  <2>9. noise = 0 /\ Len(Stream') # b[n] => At(Stream', b[n], EndOfSession)
    BY <1>7, <1>9, <2>2, <2>3, <2>4, <2>5 DEF Rest, z
  <2>10. noise > 0 => \E e \in Seq(Byte) : (StrayByte(e) \/ GarbledFrame(e)) /\ At(Stream', b[n], e)
    BY <1>9, <2>3 DEF Rest
  <2>11. noise' = noise /\ panel' = panel /\ Len(sent') = n
    BY <1>3, <1>6
  <2> QED
    BY <2>6, <2>7, <2>8, <2>9, <2>10, <2>11 DEF Rest, StrayByte, GarbledFrame
<1> QED
  BY <1>16, <1>17 DEF OnTheWay

\* Reading moves bytes, and closing the stream adds none.
LEMMA StaysOnTheWay ==
    ASSUME OnTheWay, Stream' = Stream, UNCHANGED <<sent, got, noise>>,
           panel' = panel \/ (panel' # "open" /\ Stream \in Seq(Byte))
    PROVE  OnTheWay'
<1>1. PICK c : Offsets(c) /\ Rest(c[Len(sent)])
  BY DEF OnTheWay
<1>2. Offsets(c)'
  BY <1>1 DEF Offsets
<1>3. Rest(c[Len(sent)])'
  BY <1>1 DEF Rest, StrayByte, GarbledFrame
<1> QED
  BY <1>2, <1>3 DEF OnTheWay

LEMMA NextOnTheWay ==
    ASSUME Inv, [Next]_vars, ended' = "no"
    PROVE  OnTheWay'
<1>1. CASE \E f \in Frames : Writes(f)
  BY <1>1, WritesBehind DEF Writes
<1>2. CASE Noise
  BY <1>2, NoiseBehind DEF Noise
<1>3. CASE HangsUp
  BY <1>3, EndBehind DEF HangsUp
<1>4. CASE Closes
  <2>1. Stream \in Seq(Byte)
    BY Typed DEF Inv
  <2>2. OnTheWay /\ Stream' = Stream /\ panel' # "open" /\ UNCHANGED <<sent, got, noise>>
    BY <1>4 DEF Closes, Stream, Inv
  <2> QED
    BY <2>1, <2>2, StaysOnTheWay
<1>5. CASE ended = "no" /\ Decodes(InspectLeading(buf)) /\ InspectLeading(buf) # NeedsMore
  BY <1>5, DecodesShifts
<1>6. CASE Decodes(InspectLeading(buf)) /\ InspectLeading(buf) = NeedsMore
  BY <1>6, NoFrameInNothing DEF Decodes
<1>7. CASE ended = "no" /\ Faults(InspectLeading(buf))
  BY <1>7, FaultsFor
<1>8. CASE Reads(InspectLeading(buf))
  <2>1. OnTheWay /\ Stream' = Stream /\ UNCHANGED <<panel, sent, got, noise>>
    BY <1>8, ReadsOn DEF Inv
  <2> QED
    BY <2>1, StaysOnTheWay
<1>9. CASE ReadsEof(InspectLeading(buf))
  BY <1>9 DEF ReadsEof
<1>10. CASE UNCHANGED vars
  <2>1. OnTheWay /\ Stream' = Stream /\ UNCHANGED <<panel, sent, got, noise>>
    BY <1>10 DEF vars, Stream, Inv
  <2> QED
    BY <2>1, StaysOnTheWay
<1> QED
  BY <1>1, <1>2, <1>3, <1>4, <1>5, <1>6, <1>7, <1>8, <1>9, <1>10, Steps

-----------------------------------------------------------------------------
(* The theorems *)

LEMMA InitInv == Init => Inv
<1> SUFFICES ASSUME Init PROVE Inv
  OBVIOUS
<1>1. TypeOK /\ InOrder /\ EndsForAReason
  BY BoundsAssumption DEF Init, TypeOK, InOrder, EndsForAReason
<1>2. OnTheWay
  <2> DEFINE c == [k \in Nat |-> 0]
  <2>1. Stream = <<>> /\ Len(Stream) = 0
    BY DEF Init, Stream
  <2>2. Offsets(c)
    BY DEF Init, Offsets
  <2>3. Rest(c[Len(sent)])
    BY <2>1 DEF Init, Rest
  <2> QED
    BY <2>2, <2>3 DEF OnTheWay
<1> QED
  BY <1>1, <1>2 DEF Inv

LEMMA NextInv == Inv /\ [Next]_vars => Inv'
BY NextTyped, NextInOrder, NextOnTheWay, NextEnds DEF Inv

LEMMA StreamInvariant == Spec => []Inv
BY InitInv, NextInv, PTL DEF Spec

\* What the stream and the buffer hold are bytes, and what is returned are frames.
THEOREM StreamTypes == Spec => []TypeOK
BY StreamInvariant, PTL DEF Inv

\* Whatever frames the panel sends, however the network cuts the stream and
\* wherever it is garbled, _recv_frame returns a prefix of what was sent: no
\* frame twice, none that was not sent, none out of order.
THEOREM DeliversInOrder == Spec => []DeliveredInOrder
<1>1. Inv => DeliveredInOrder
  <2> SUFFICES ASSUME Inv PROVE DeliveredInOrder
    OBVIOUS
  <2>1. got \in Seq(Frames) /\ sent \in Seq(Frames) /\ Len(got) \in Nat /\ Len(sent) \in Nat
    BY Typed DEF Inv, TypeOK
  <2>2. Len(got) <= Len(sent) /\ \A i \in 1..Len(got) : got[i] = sent[i]
    BY DEF Inv, InOrder
  <2>3. /\ SubSeq(sent, 1, Len(got)) \in Seq(Frames) /\ Len(SubSeq(sent, 1, Len(got))) = Len(got)
        /\ \A i \in 1..Len(got) : SubSeq(sent, 1, Len(got))[i] = sent[i]
    BY <2>1, <2>2
  <2>4. SubSeq(sent, 1, Len(got)) = got
    BY <2>1, <2>2, <2>3, SeqEqual
  <2>5. SubSeq(got, 1, Len(got)) = got
    BY <2>1, SubSeqFull
  <2> QED
    BY <2>2, <2>4, <2>5 DEF DeliveredInOrder, IsPrefix
<1> QED
  BY <1>1, StreamInvariant, PTL

\* _recv_frame raises ForcedDisconnect only for noise, for a "+++" that came
\* after everything else was returned, or at the end of the stream.
THEOREM SessionEndsForAReason == Spec => []EndsForAReason
BY StreamInvariant, PTL DEF Inv
=============================================================================
