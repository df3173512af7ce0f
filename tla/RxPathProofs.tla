---------------------------- MODULE RxPathProofs ----------------------------
(***************************************************************************)
(* Proofs about RxPath, for every frame size, chunk and queue that satisfy *)
(* RxAssumption: the parser stays inside its buffer, the receive queue     *)
(* drops nothing, and the line's damage costs a bounded number of frames.  *)
(***************************************************************************)
EXTENDS RxPath, TLAPS

USE DEF MinFrame, MaxFrame, FrameSize, CalmAfter, BufferFits

\* Every packet in the queue beyond the first was completed by bytes of this chunk.
QueueFitsChunk ==
  Len(queue) > 0 => (Len(queue) - 1) * MinFrame + length + 1 <= Chunk - reading

\* A genuine buffer is in step with the line.
InStep ==
  genuine =>
    /\ length = sent /\ length > 0
    /\ length >= HeaderSize => expected = FrameSize

\* A buffer that is not genuine was begun by the last thing that misled the parser.
Misled ==
  ~genuine =>
    /\ length >= 2 => length > calm
    /\ length = 1 => half \/ calm = 0

\* From its first byte to its last, a due frame is what the parser has buffered.
DueIsBuffered ==
  due => /\ sent = 0 => calm = CalmAfter
         /\ sent \in 1 .. FrameSize - 1 => genuine

IInv ==
  /\ TypeOK
  /\ QueueFitsChunk /\ dropped = FALSE
  /\ InStep /\ Misled /\ DueIsBuffered /\ missed = FALSE

-----------------------------------------------------------------------------
(* The parser. *)

\* What the parser does with any byte, from any state it can be in.
LEMMA ScanResult ==
  ASSUME TypeOK, NEW b \in Bytes
  PROVE  /\ Scan(b).length \in 0 .. MaxFrame - 1
         /\ Scan(b).expected \in {0} \cup MinFrame .. MaxFrame
         /\ (Scan(b).length >= HeaderSize <=> Scan(b).expected # 0)
         /\ Scan(b).expected # 0 => Scan(b).length < Scan(b).expected
         /\ Scan(b).length \in {0, 1, length + 1}
         /\ Scan(b).complete \in BOOLEAN
         /\ Scan(b).complete => Scan(b).length = 0 /\ length + 1 >= MinFrame
         /\ Scan(b).length = 1 => length <= 1 /\ b = Sync1
         /\ (Scan(b).length = 2 /\ length = 1) => b = Sync2
<1> DEFINE n == length + 1
           size == IF n = HeaderSize THEN HeaderSize + b + CrcSize ELSE expected
<1> USE RxAssumption DEF TypeOK
<1>1. b \in Nat
  OBVIOUS
<1>2. CASE length <= 1
  BY <1>2 DEF Scan, Hunt
<1>3. CASE length > 1 /\ n = HeaderSize /\ b > MaxPayload
  <2>1. Scan(b) = [length |-> 0, expected |-> 0, complete |-> FALSE]
    BY <1>1, <1>3 DEF Scan, TooLong
  <2> QED
    BY <1>1, <1>3, <2>1
<1>4. CASE length > 1 /\ ~(n = HeaderSize /\ b > MaxPayload)
  <2>1. size # 0 => n <= size /\ size \in MinFrame .. MaxFrame /\ n >= HeaderSize
    BY <1>1, <1>4
  <2>2. size = 0 => n < HeaderSize
    BY <1>1, <1>4
  <2>3. Scan(b) = IF size # 0 /\ n = size
                  THEN [length |-> 0, expected |-> 0, complete |-> TRUE]
                  ELSE [length |-> n, expected |-> size, complete |-> FALSE]
    BY <1>1, <1>4 DEF Scan, TooLong
  <2> QED
    BY <1>1, <1>4, <2>1, <2>2, <2>3
<1> QED
  BY <1>2, <1>3, <1>4

\* A buffer in step with the line grows with it, until the frame is complete.
LEMMA ScanInStep ==
  ASSUME TypeOK, InStep, NEW b \in Bytes,
         sent < FrameSize, b \in FrameBytes(sent + 1),
         genuine \/ (sent = 0 /\ length <= 1)
  PROVE  /\ sent + 1 < FrameSize =>
              /\ Scan(b).length = sent + 1 /\ ~Scan(b).complete
              /\ sent + 1 >= HeaderSize => Scan(b).expected = FrameSize
         /\ sent + 1 = FrameSize => Scan(b).complete
<1> USE RxAssumption DEF TypeOK, InStep
<1>1. CASE length <= 1
  BY <1>1 DEF FrameBytes, Scan, Hunt
<1>2. CASE length > 1
  <2>1. genuine /\ length = sent /\ length + 1 <= FrameSize
    BY <1>2
  <2>2. length + 1 = HeaderSize => b = payload
    BY <1>2, <2>1 DEF FrameBytes
  <2> QED
    BY <1>2, <2>1, <2>2 DEF Scan, TooLong
<1> QED
  BY <1>1, <1>2

-----------------------------------------------------------------------------
(* One byte pushed: the parts of the invariant that do not ask what byte it is. *)

NodeOK ==
  /\ reading \in 0 .. Chunk
  /\ queue \in Seq(Kinds) /\ Len(queue) <= QueueSize
  /\ QueueFitsChunk /\ dropped = FALSE

ParserOK ==
  /\ length \in 0 .. MaxFrame - 1
  /\ expected \in {0} \cup MinFrame .. MaxFrame
  /\ (length >= HeaderSize <=> expected # 0) /\ (expected # 0 => length < expected)
  /\ genuine \in BOOLEAN

\* A byte that completes a packet finds a place in the queue.
LEMMA PushFits ==
  ASSUME TypeOK, QueueFitsChunk, dropped = FALSE,
         NEW b \in Bytes, NEW next \in BOOLEAN, Push(b, next)
  PROVE  NodeOK' /\ ParserOK'
<1> DEFINE m == MinFrame
           q == Len(queue)
<1> USE RxAssumption
<1>1. /\ reading \in 1 .. Chunk /\ reading' = reading - 1
      /\ length' = Scan(b).length /\ expected' = Scan(b).expected
      /\ genuine' \in BOOLEAN
  <2>1. /\ reading > 0 /\ reading' = reading - 1
        /\ length' = Scan(b).length /\ expected' = Scan(b).expected
        /\ genuine' = (next /\ Scan(b).length = sent + 1 /\ (genuine \/ sent = 0))
    BY Zenon DEF Push
  <2> QED
    BY <2>1 DEF TypeOK
<1>2. ParserOK'
  BY <1>1, ScanResult DEF ParserOK
<1>3. m \in Nat /\ q \in Nat /\ q <= QueueSize /\ length \in Nat
  BY DEF TypeOK
<1>4. \/ UNCHANGED <<queue, dropped>> /\ length' <= length + 1
      \/ Scan(b).complete /\ \E k \in Kinds : Accept(k)
  <2>1. length' <= length + 1
    BY <1>1, <1>3, ScanResult
  <2>2. PICK k \in IF Scan(b).complete THEN Decoded(genuine /\ next) ELSE {"bad"} :
          IF k = "bad" THEN Reject ELSE Accept(k)
    BY Zenon DEF Push
  <2>3. CASE k = "bad"
    BY <2>1, <2>2, <2>3 DEF Reject
  <2>4. CASE k # "bad"
    <3>1. Scan(b).complete
      BY <2>2, <2>4
    <3>2. k \in Kinds
      BY <2>2, <2>4, <3>1 DEF Decoded, TypeOK
    <3> QED
      BY <2>2, <2>4, <3>1, <3>2
  <2> QED
    BY <2>3, <2>4
<1>5. CASE UNCHANGED <<queue, dropped>> /\ length' <= length + 1
  BY <1>1, <1>2, <1>3, <1>5 DEF NodeOK, ParserOK, QueueFitsChunk, TypeOK
<1>6. CASE Scan(b).complete /\ \E k \in Kinds : Accept(k)
  <2>1. length' = 0 /\ length + 1 >= m
    BY <1>1, <1>6, ScanResult
  <2>2. q > 0 => q * m + 1 <= Chunk - reading + 1
    <3>1. (q - 1) * m = q * m - m
      BY <1>3
    <3> QED
      BY <1>1, <1>3, <2>1, <3>1 DEF QueueFitsChunk
  <2>3. q < QueueSize
    <3> SUFFICES ASSUME q = QueueSize
                 PROVE  FALSE
      BY <1>3
    <3>1. CASE q = 0
      <4>1. QueueSize * m = 0
        BY <1>3, <3>1
      <4> QED
        BY <4>1
    <3>2. CASE q > 0
      <4>1. QueueSize * m \in Nat
        BY <1>3
      <4> QED
        BY <1>1, <2>2, <3>2, <4>1
    <3> QED
      BY <1>3, <3>1, <3>2
  <2>4. PICK k \in Kinds : Accept(k)
    BY <1>6
  <2>5. \/ UNCHANGED <<queue, dropped>>
        \/ queue' = Append(queue, k) /\ UNCHANGED dropped
    <3>1. ~(Len(queue) >= QueueSize)
      BY <1>3, <2>3
    <3> QED
      BY <2>4, <3>1, Zenon DEF Accept
  <2>6. CASE UNCHANGED <<queue, dropped>>
    BY <1>1, <1>2, <1>3, <2>1, <2>6 DEF NodeOK, ParserOK, QueueFitsChunk, TypeOK
  <2>7. CASE queue' = Append(queue, k) /\ UNCHANGED dropped
    <3>1. queue' \in Seq(Kinds) /\ Len(queue') = q + 1
      BY <2>7 DEF TypeOK
    <3>2. QueueFitsChunk'
      <4>1. (q + 1 - 1) * m = q * m
        BY <1>3
      <4>2. q = 0 => q * m = 0
        BY <1>3
      <4> QED
        BY <1>1, <1>3, <2>1, <2>2, <3>1, <4>1, <4>2 DEF QueueFitsChunk
    <3> QED
      BY <1>1, <1>2, <1>3, <2>3, <2>7, <3>1, <3>2 DEF NodeOK
  <2> QED
    BY <2>5, <2>6, <2>7
<1> QED
  BY <1>4, <1>5, <1>6

-----------------------------------------------------------------------------
(* The steps. *)

\* The line's own part of the type invariant
LineOK ==
  /\ kind \in Kinds /\ payload \in 0 .. MaxPayload /\ sent \in 0 .. FrameSize
  /\ calm \in 0 .. CalmAfter
  /\ half \in BOOLEAN /\ due \in BOOLEAN

\* What remains to be shown of a step once PushFits has said its part
Rest == LineOK /\ InStep /\ Misled /\ DueIsBuffered /\ missed = FALSE

LEMMA Parts ==
  NodeOK /\ ParserOK /\ Rest <=> IInv
BY DEF NodeOK, ParserOK, Rest, LineOK, IInv, TypeOK

LEMMA InitHolds ==
  Init => IInv
<1> SUFFICES ASSUME Init PROVE IInv
  OBVIOUS
<1>1. /\ kind = "ordinary" /\ payload = 0 /\ sent = MinFrame
      /\ length = 0 /\ expected = 0 /\ genuine = FALSE
      /\ reading = 0 /\ queue = << >> /\ dropped = FALSE
      /\ calm = CalmAfter /\ half = FALSE /\ due = FALSE /\ missed = FALSE
  BY DEF Init
<1>2. NodeOK /\ ParserOK /\ LineOK
  <2>1. queue \in Seq(Kinds) /\ Len(queue) = 0
    BY <1>1
  <2>2. NodeOK
    BY RxAssumption, <1>1, <2>1 DEF NodeOK, QueueFitsChunk
  <2>3. (length >= HeaderSize <=> expected # 0) /\ 0 \in 0 .. MaxFrame - 1
    BY RxAssumption, <1>1
  <2>4. ParserOK
    BY <1>1, <2>3 DEF ParserOK
  <2>5. kind \in Kinds /\ 0 \in 0 .. MaxPayload
    BY RxAssumption, <1>1 DEF Kinds
  <2>6. sent \in 0 .. FrameSize /\ calm \in 0 .. CalmAfter
    BY RxAssumption, <1>1
  <2>7. LineOK
    BY <1>1, <2>5, <2>6 DEF LineOK
  <2> QED
    BY <2>2, <2>4, <2>7
<1>3. InStep /\ Misled /\ DueIsBuffered /\ missed = FALSE
  BY <1>1 DEF InStep, Misled, DueIsBuffered
<1> QED
  BY <1>2, <1>3, Parts DEF Rest

\* The next byte of the frame: a parser in step stays so, and completes the frame with
\* its last byte; one that is not has a buffer older than the calm.
LEMMA IntactStep ==
  ASSUME IInv, NEW b \in Bytes, IntactByte(b)
  PROVE  IInv'
<1> USE RxAssumption
<1>1. NodeOK' /\ ParserOK'
  BY PushFits DEF IInv, IntactByte
<1>2. /\ sent < FrameSize /\ b \in FrameBytes(sent + 1) /\ sent' = sent + 1
      /\ UNCHANGED <<kind, payload, due>>
      /\ half' <=> (b = Sync1 /\ sent >= 2)
      /\ calm' = IF half /\ b = Sync2 THEN 0 ELSE AtMost(CalmAfter, calm + 1)
      /\ length' = Scan(b).length /\ expected' = Scan(b).expected
      /\ genuine' <=> (Scan(b).length = sent + 1 /\ (genuine \/ sent = 0))
      /\ half' \in BOOLEAN /\ missed' \in BOOLEAN
      /\ missed' <=> (missed \/ (/\ due /\ sent + 1 = FrameSize /\ kind # "other_version"
                               /\ ~(Scan(b).complete /\ genuine)))
  BY Zenon DEF IntactByte, Push
<1>3. /\ sent \in 0 .. FrameSize /\ payload \in 0 .. MaxPayload /\ kind \in Kinds
      /\ length \in 0 .. MaxFrame - 1
      /\ calm \in 0 .. CalmAfter /\ half \in BOOLEAN /\ due \in BOOLEAN
      /\ genuine \in BOOLEAN
  BY DEF IInv, TypeOK
<1>4. InStep /\ Misled /\ DueIsBuffered /\ missed = FALSE
  BY DEF IInv
<1>5. /\ Scan(b).length \in {0, 1, length + 1}
      /\ Scan(b).length = 1 => length <= 1 /\ b = Sync1
      /\ (Scan(b).length = 2 /\ length = 1) => b = Sync2
  BY ScanResult DEF IInv
<1>6. (genuine \/ (sent = 0 /\ length <= 1)) =>
        /\ sent + 1 < FrameSize =>
             /\ Scan(b).length = sent + 1 /\ ~Scan(b).complete
             /\ sent + 1 >= HeaderSize => Scan(b).expected = FrameSize
        /\ sent + 1 = FrameSize => Scan(b).complete
  BY <1>2, ScanInStep DEF IInv
<1>7. LineOK'
  BY <1>2, <1>3 DEF LineOK, AtMost
<1>8. Misled'
  <2> SUFFICES ASSUME ~genuine' PROVE Misled'
    BY DEF Misled
  <2>1. length' = 1 => half'
    <3> SUFFICES ASSUME length' = 1 PROVE sent >= 2
      BY <1>2, <1>5
    <3>1. sent # 0 /\ b = Sync1
      BY <1>2, <1>5
    <3>2. sent # 1
      BY <1>2, <3>1 DEF FrameBytes
    <3> QED
      BY <1>3, <3>1, <3>2
  <2>2. ASSUME length' >= 2 PROVE length' = length + 1 /\ length >= 1 /\ ~genuine
    <3>1. length' = length + 1 /\ length >= 1
      BY <1>2, <1>3, <1>5, <2>2
    <3>2. ~genuine
      BY <1>2, <1>3, <1>4, <3>1 DEF InStep
    <3> QED
      BY <3>1, <3>2
  <2>3. ASSUME length' >= 2 PROVE length' > calm'
    <3>1. calm' \in Nat /\ (calm' = 0 \/ calm' <= calm + 1)
      BY <1>2, <1>3 DEF AtMost
    <3>2. CASE length = 1
      <4>1. b = Sync2
        BY <1>2, <1>5, <2>2, <2>3, <3>2
      <4>2. calm' = 0 \/ calm = 0
        BY <1>2, <1>4, <2>2, <2>3, <3>2, <4>1 DEF Misled
      <4> QED
        BY <1>3, <2>2, <2>3, <3>1, <4>2
    <3>3. CASE length >= 2
      BY <1>3, <1>4, <2>2, <2>3, <3>1, <3>3 DEF Misled
    <3> QED
      BY <1>3, <2>2, <2>3, <3>2, <3>3
  <2> QED
    BY <2>1, <2>3 DEF Misled
<1>9. InStep'
  <2> SUFFICES ASSUME genuine' PROVE InStep'
    BY DEF InStep
  <2>1. length' = sent + 1 /\ (genuine \/ (sent = 0 /\ length <= 1))
    BY <1>2, <1>3, <1>5
  <2>2. ~Scan(b).complete
    <3>1. Scan(b).complete => Scan(b).length = 0
      BY ScanResult DEF IInv
    <3> QED
      BY <1>2, <1>3, <2>1, <3>1
  <2>3. sent + 1 < FrameSize
    BY <1>2, <1>3, <1>6, <2>1, <2>2
  <2> QED
    BY <1>2, <1>3, <1>6, <2>1, <2>3 DEF InStep
<1>10. due => genuine \/ (sent = 0 /\ length <= 1)
  <2> SUFFICES ASSUME due, ~genuine PROVE sent = 0 /\ length <= 1
    BY <1>3
  <2>1. sent = 0 /\ calm = CalmAfter
    BY <1>2, <1>3, <1>4 DEF DueIsBuffered
  <2> QED
    BY <1>3, <1>4, <2>1 DEF Misled
<1>11. DueIsBuffered'
  <2> SUFFICES ASSUME due', sent' \in 1 .. FrameSize' - 1 PROVE genuine'
    BY <1>2, <1>3 DEF DueIsBuffered
  <2>1. sent + 1 < FrameSize /\ due
    BY <1>2, <1>3
  <2> QED
    BY <1>2, <1>3, <1>6, <1>10, <2>1
<1>12. missed' = FALSE
  <2>1. sent + 1 = FrameSize => sent # 0
    BY <1>3
  <2> QED
    BY <1>2, <1>3, <1>4, <1>6, <1>10, <2>1
<1> QED
  BY <1>1, <1>7, <1>8, <1>9, <1>11, <1>12
  DEF NodeOK, ParserOK, LineOK, IInv, TypeOK

\* A byte that was not sent, or not like this: the parser has been misled just now.
LEMMA HarmStep ==
  ASSUME IInv, NEW b \in Bytes,
         SpoiltByte(b) \/ NoiseByte(b)
  PROVE  IInv'
<1> USE RxAssumption
<1>1. Push(b, FALSE) /\ Harm /\ UNCHANGED <<kind, payload>>
  BY DEF SpoiltByte, NoiseByte, line
<1>2. NodeOK' /\ ParserOK'
  BY <1>1, PushFits DEF IInv
<1>3. /\ sent \in 0 .. FrameSize /\ payload \in 0 .. MaxPayload /\ kind \in Kinds
      /\ missed = FALSE
  BY DEF IInv, TypeOK
<1>4. sent' = sent \/ (sent < FrameSize /\ sent' = sent + 1)
  BY DEF SpoiltByte, NoiseByte, line
<1>5. calm' = 0 /\ half' = FALSE /\ due' = FALSE
  BY <1>1 DEF Harm
<1>6. genuine' = FALSE /\ missed' = FALSE
  BY <1>1, <1>3, Zenon DEF Push
<1>7. LineOK'
  <2>1. sent' \in 0 .. FrameSize' /\ 0 \in 0 .. CalmAfter
    BY <1>1, <1>3, <1>4
  <2> QED
    BY <1>1, <1>3, <1>5, <2>1 DEF LineOK
<1>8. length' \in Nat
  BY <1>2 DEF ParserOK
<1>9. InStep' /\ Misled' /\ DueIsBuffered'
  BY <1>5, <1>6, <1>8 DEF InStep, Misled, DueIsBuffered
<1> QED
  BY <1>2, <1>6, <1>7, <1>9 DEF NodeOK, ParserOK, LineOK, IInv, TypeOK

LEMMA LoseStep ==
  ASSUME IInv, NEW n \in {sent + 1, FrameSize}, sent < FrameSize, Lose(n)
  PROVE  IInv'
<1> USE RxAssumption
<1>1. /\ sent' = n /\ genuine' = FALSE
      /\ calm' = 0 /\ half' = FALSE /\ due' = FALSE
      /\ UNCHANGED <<kind, payload, length, expected, reading, queue, dropped, missed>>
  BY DEF Lose, Harm, node
<1>2. /\ sent \in 0 .. FrameSize /\ payload \in 0 .. MaxPayload
      /\ length \in 0 .. MaxFrame - 1
  BY DEF IInv, TypeOK
<1>3. sent' \in 0 .. FrameSize' /\ 0 \in 0 .. CalmAfter
  BY <1>1, <1>2
<1>4. TypeOK'
  BY <1>1, <1>3 DEF IInv, TypeOK
<1>5. InStep' /\ Misled' /\ DueIsBuffered'
  BY <1>1, <1>2 DEF InStep, Misled, DueIsBuffered
<1>6. QueueFitsChunk' /\ dropped' = FALSE /\ missed' = FALSE
  BY <1>1 DEF IInv, QueueFitsChunk
<1> QED
  BY <1>4, <1>5, <1>6 DEF IInv

\* A new frame begins when the line has carried the last one: no buffer is genuine then.
LEMMA StartFrameStep ==
  ASSUME IInv, NEW k \in Kinds, NEW p \in 0 .. MaxPayload, StartFrame(k, p)
  PROVE  IInv'
<1> USE RxAssumption
<1>1. /\ sent = FrameSize /\ kind' = k /\ payload' = p /\ sent' = 0
      /\ due' \in BOOLEAN /\ (due' <=> calm = CalmAfter)
      /\ UNCHANGED <<length, expected, genuine, reading, queue, dropped, calm, half, missed>>
  BY DEF StartFrame, parser, node
<1>2. /\ payload \in 0 .. MaxPayload /\ length \in 0 .. MaxFrame - 1
      /\ (length >= HeaderSize <=> expected # 0) /\ (expected # 0 => length < expected)
  BY DEF IInv, TypeOK
<1>3. ~genuine
  BY <1>1, <1>2 DEF IInv, InStep
<1>4. 0 \in 0 .. FrameSize'
  BY <1>1
<1>5. TypeOK'
  BY <1>1, <1>4 DEF IInv, TypeOK
<1>6. InStep' /\ Misled' /\ DueIsBuffered'
  BY <1>1, <1>3 DEF IInv, InStep, Misled, DueIsBuffered
<1>7. QueueFitsChunk' /\ dropped' = FALSE /\ missed' = FALSE
  BY <1>1 DEF IInv, QueueFitsChunk
<1> QED
  BY <1>5, <1>6, <1>7 DEF IInv

LEMMA PollStep ==
  ASSUME IInv, (\E n \in 1 .. Chunk : Read(n)) \/ Deliver
  PROVE  IInv'
<1> USE RxAssumption
<1>1. UNCHANGED <<kind, payload, sent, length, expected, genuine, dropped,
                  calm, half, due, missed>>
  BY DEF Read, Deliver, line, parser, ghosts
<1>2. /\ reading \in 0 .. Chunk /\ queue \in Seq(Kinds) /\ Len(queue) <= QueueSize
      /\ length \in Nat /\ dropped = FALSE /\ missed = FALSE
  BY DEF IInv, TypeOK
<1>3. InStep' /\ Misled' /\ DueIsBuffered'
  BY <1>1 DEF IInv, InStep, Misled, DueIsBuffered
<1>4. /\ reading' \in 0 .. Chunk
      /\ queue' \in Seq(Kinds) /\ Len(queue') <= QueueSize
      /\ QueueFitsChunk'
  <2>1. CASE \E n \in 1 .. Chunk : Read(n)
    BY <1>2, <2>1 DEF Read, QueueFitsChunk
  <2>2. CASE Deliver
    <3> DEFINE q == Len(queue)
               m == MinFrame
    <3>1. /\ reading' = reading /\ queue' = Tail(queue) /\ length' = length
          /\ q > 0 /\ q \in Nat /\ m \in Nat
      BY <1>1, <1>2, <2>2 DEF Deliver
    <3>2. queue' \in Seq(Kinds) /\ Len(queue') = q - 1
      BY <1>2, <3>1
    <3>3. (q - 1 - 1) * m <= (q - 1) * m
      <4>1. (q - 1 - 1) * m = (q - 1) * m - m
        BY <3>1
      <4>2. (q - 1) * m \in Int
        BY <3>1
      <4> QED
        BY <3>1, <4>1, <4>2
    <3>4. (q - 1) * m + length + 1 <= Chunk - reading
      BY <3>1 DEF IInv, QueueFitsChunk
    <3>5. (q - 1) * m \in Int /\ (q - 1 - 1) * m \in Int
      BY <3>1
    <3>6. QueueFitsChunk'
      <4> SUFFICES (q - 1 - 1) * m + length + 1 <= Chunk - reading
        BY <3>1, <3>2 DEF QueueFitsChunk
      <4> HIDE DEF m
      <4> QED
        BY <1>2, <3>3, <3>4, <3>5
    <3> QED
      BY <1>2, <3>1, <3>2, <3>6
  <2> QED
    BY <2>1, <2>2
<1> QED
  BY <1>1, <1>3, <1>4 DEF IInv, TypeOK

-----------------------------------------------------------------------------
(* The theorems. *)

LEMMA StepPreserves ==
  IInv /\ [Next]_vars => IInv'
<1> SUFFICES ASSUME IInv, [Next]_vars PROVE IInv'
  OBVIOUS
<1>1. ASSUME NEW k \in Kinds, NEW p \in 0 .. MaxPayload, StartFrame(k, p) PROVE IInv'
  BY <1>1, StartFrameStep
<1>2. ASSUME NEW b \in Bytes, IntactByte(b) PROVE IInv'
  BY <1>2, IntactStep
<1>3. ASSUME NEW b \in Bytes, SpoiltByte(b) \/ NoiseByte(b) PROVE IInv'
  BY <1>3, HarmStep
<1>4. ASSUME NEW n \in {sent + 1, FrameSize}, sent < FrameSize, Lose(n) PROVE IInv'
  BY <1>4, LoseStep
<1>5. ASSUME (\E n \in 1 .. Chunk : Read(n)) \/ Deliver PROVE IInv'
  BY <1>5, PollStep
<1>6. CASE UNCHANGED vars
  BY <1>6 DEF vars, line, parser, node, ghosts, IInv, TypeOK, QueueFitsChunk,
              InStep, Misled, DueIsBuffered
<1> QED
  BY <1>1, <1>2, <1>3, <1>4, <1>5, <1>6 DEF Next

THEOREM Inductive ==
  Spec => []IInv
BY InitHolds, StepPreserves, PTL DEF Spec

\* Whatever bytes come, StreamParser::push never writes behind its buffer, and never waits
\* for a frame that would not fit.
THEOREM BufferSuffices ==
  Spec => []BufferFits
<1>1. IInv => BufferFits
  BY DEF IInv, TypeOK
<1> QED
  BY <1>1, Inductive, PTL

\* Whatever the line does, BikeNode::poll drops no packet that it has acknowledged, as
\* long as a chunk is not longer than the queue's worth of smallest frames.
THEOREM NothingDropped ==
  Spec => []AcknowledgedIsServed
<1>1. IInv => AcknowledgedIsServed
  BY DEF IInv, AcknowledgedIsServed
<1> QED
  BY <1>1, Inductive, PTL

\* Whatever the line did before, MaxFrame - 1 bytes later the parser is in step again.
THEOREM Resynchronises ==
  Spec => []LossIsBounded
<1>1. IInv => LossIsBounded
  BY DEF IInv, LossIsBounded
<1> QED
  BY <1>1, Inductive, PTL
=============================================================================
