------------------------------- MODULE RxPath -------------------------------
(***************************************************************************)
(* How a node receives: the bytes of a serial line, bike::StreamParser,    *)
(* which cuts them into frames, decode_packet, which checks a frame, and   *)
(* the receive queue behind bike::BikeNode::poll, which reads the line in  *)
(* chunks.                                                                 *)
(*                                                                         *)
(* The sender writes frame after frame as encode_packet lays them out:     *)
(* the two sync bytes, the rest of the header with the payload's length as *)
(* its last byte, the payload and the CRC.  On the line bytes are lost,    *)
(* changed or added, and the sender may stop in the middle of a frame.     *)
(*                                                                         *)
(* Of the buffer's bytes the model keeps how many there are and whether    *)
(* they are the first bytes of the frame now on the line (genuine): what   *)
(* is genuine and complete passes the CRC, anything else may or may not.   *)
(***************************************************************************)
EXTENDS Integers, Sequences

CONSTANTS
  Bytes,         \* bound: the values of a byte, some of them valid lengths, some not
  Sync1, Sync2,  \* kSyncByte1 and kSyncByte2
  HeaderSize, CrcSize, MaxPayload,   \* kHeaderSize, kCrcSize and kMaxPayloadSize
  Chunk,         \* how many bytes poll reads at once
  QueueSize      \* kNodeRxQueueSize

MinFrame == HeaderSize + CrcSize
MaxFrame == HeaderSize + MaxPayload + CrcSize

ASSUME RxAssumption ==
  /\ HeaderSize \in Nat /\ HeaderSize >= 3
  /\ CrcSize \in Nat \ {0} /\ MaxPayload \in Nat
  /\ Bytes \subseteq Nat /\ 0 .. MaxPayload \subseteq Bytes
  /\ Sync1 \in Bytes /\ Sync2 \in Bytes /\ Sync1 # Sync2
  /\ Chunk \in Nat \ {0} /\ QueueSize \in Nat
  /\ Chunk <= QueueSize * MinFrame

VARIABLES
  kind, payload, \* the frame on the line: what becomes of it, and its payload's length
  sent,          \* how many of its bytes the line has carried
  length,        \* length_ of the parser
  expected,      \* expected_ of the parser
  genuine,       \* the parser's buffer is the first length bytes of that frame
  reading,       \* bytes of the chunk that poll has read and not yet pushed
  queue,         \* rx_queue_: the kinds of the packets in it
  dropped,       \* rx_drops_ > 0
  calm,          \* history: bytes since the line last misled the parser, if only briefly
  half,          \* history: the last byte was Sync1, in the body of a frame
  due,           \* history: the frame on the line began in calm and is unharmed so far
  missed         \* history: a due frame was not received

line   == <<kind, payload, sent>>
parser == <<length, expected, genuine>>
node   == <<reading, queue, dropped>>
ghosts == <<calm, half, due, missed>>
vars   == <<line, parser, node, ghosts>>

Kinds == {"other_version", "for_another", "control", "ordinary"}

\* The longest a parser that was misled can stay so.
CalmAfter == MaxFrame - 1

AtMost(cap, n) == IF n < cap THEN n ELSE cap

-----------------------------------------------------------------------------
\* An empty line and a node that has just started
Init ==
  /\ kind = "ordinary" /\ payload = 0 /\ sent = MinFrame
  /\ length = 0 /\ expected = 0 /\ genuine = FALSE
  /\ reading = 0 /\ queue = << >> /\ dropped = FALSE
  /\ calm = CalmAfter /\ half = FALSE /\ due = FALSE /\ missed = FALSE

FrameSize == HeaderSize + payload + CrcSize

\* encode_packet: the values byte number n of the frame may have
FrameBytes(n) ==
  IF n = 1 THEN {Sync1}
  ELSE IF n = 2 THEN {Sync2}
  ELSE IF n = HeaderSize THEN {payload}
  ELSE Bytes

\* write_packet: the next frame.  encode_packet refuses a longer payload.
StartFrame(k, p) ==
  /\ sent = FrameSize
  /\ kind' = k /\ payload' = p /\ sent' = 0
  /\ due' = (calm = CalmAfter)
  /\ UNCHANGED <<parser, node, calm, half, missed>>

-----------------------------------------------------------------------------
(* The receiver: one byte of a chunk. *)

\* Mutant: after a first sync byte, only the second is looked for.
HuntNotTwice(b) == IF b = Sync1 /\ length = 0 THEN 1 ELSE 0

\* A byte that is not the second sync byte may be the first.
Hunt(b) == IF b = Sync1 THEN 1 ELSE 0

\* Mutant: a payload one byte too long passes.
TooLongByTwo(b) == b > MaxPayload + 1

TooLong(b) == b > MaxPayload

\* StreamParser::push: length_, expected_ and whether decode_packet is asked
Scan(b) ==
  LET n == length + 1
      size == IF n = HeaderSize THEN HeaderSize + b + CrcSize ELSE expected
      Keep(l, e, c) == [length |-> l, expected |-> e, complete |-> c]
  IN  IF length = 1 /\ b = Sync2 THEN Keep(2, 0, FALSE)
      ELSE IF length <= 1 THEN Keep(Hunt(b), 0, FALSE)
      ELSE IF length >= MaxFrame \/ (n = HeaderSize /\ TooLong(b)) THEN Keep(0, 0, FALSE)
      ELSE IF size # 0 /\ n = size THEN Keep(0, 0, TRUE)
      ELSE Keep(n, size, FALSE)

\* poll, for a packet the parser returns.  An ordinary one is
\* acknowledged if it asks for that; the results of send_ack and enqueue_rx are ignored.
Accept(k) ==
  IF k \in {"for_another", "control"} THEN UNCHANGED <<queue, dropped>>
  ELSE IF Len(queue) >= QueueSize THEN dropped' = TRUE /\ UNCHANGED queue
  ELSE queue' = Append(queue, k) /\ UNCHANGED dropped

Reject == UNCHANGED <<queue, dropped>>

\* decode_packet, for a complete buffer: the packet, or "bad"
Decoded(whole) ==
  IF ~whole THEN {"bad"} \cup (Kinds \ {"other_version"})
  ELSE IF kind = "other_version" THEN {"bad"}
  ELSE {kind}

\* One round of poll's loop.  "next": b is the frame's next byte, as it was sent.
Push(b, next) ==
  LET scan == Scan(b)
      whole == genuine /\ next
  IN  /\ reading > 0 /\ reading' = reading - 1
      /\ length' = scan.length /\ expected' = scan.expected
      /\ genuine' = (next /\ scan.length = sent + 1 /\ (genuine \/ sent = 0))
      /\ \E k \in IF scan.complete THEN Decoded(whole) ELSE {"bad"} :
           IF k = "bad" THEN Reject ELSE Accept(k)
      /\ missed' = (missed \/ (/\ next /\ due /\ sent + 1 = FrameSize
                               /\ kind # "other_version"
                               /\ ~(scan.complete /\ whole)))

\* The next byte of the frame arrives.  A sync pair in its body can mislead a parser
\* that is not in step.
IntactByte(b) ==
  /\ sent < FrameSize
  /\ b \in FrameBytes(sent + 1)
  /\ Push(b, TRUE)
  /\ sent' = sent + 1
  /\ half' = (b = Sync1 /\ sent >= 2)
  /\ calm' = IF half /\ b = Sync2 THEN 0 ELSE AtMost(CalmAfter, calm + 1)
  /\ UNCHANGED <<kind, payload, due>>

Harm == calm' = 0 /\ half' = FALSE /\ due' = FALSE

\* A byte changes on the line.
SpoiltByte(b) ==
  /\ sent < FrameSize
  /\ Push(b, FALSE)
  /\ sent' = sent + 1
  /\ Harm
  /\ UNCHANGED <<kind, payload>>

\* A byte nobody sent
NoiseByte(b) ==
  /\ Push(b, FALSE)
  /\ Harm
  /\ UNCHANGED line

\* The line loses a byte, or (to the end of the frame) the sender stops.
Lose(n) ==
  /\ sent < n
  /\ sent' = n
  /\ genuine' = FALSE
  /\ Harm
  /\ UNCHANGED <<kind, payload, length, expected, node, missed>>

-----------------------------------------------------------------------------
\* Mutant: poll reads although packets wait in the queue.
ReadAhead(n) ==
  /\ reading = 0
  /\ reading' = n
  /\ UNCHANGED <<line, parser, queue, dropped, ghosts>>

\* poll: a queued packet first; only without one is a chunk read.
Read(n) ==
  /\ reading = 0 /\ queue = << >>
  /\ reading' = n
  /\ UNCHANGED <<line, parser, queue, dropped, ghosts>>

\* dequeue_rx, at the beginning or the end of a poll: the caller has the packet.
Deliver ==
  /\ reading = 0 /\ queue # << >>
  /\ queue' = Tail(queue)
  /\ UNCHANGED <<line, parser, reading, dropped, ghosts>>

Next ==
  \/ \E k \in Kinds, p \in 0 .. MaxPayload : StartFrame(k, p)
  \/ \E b \in Bytes : IntactByte(b) \/ SpoiltByte(b) \/ NoiseByte(b)
  \/ \E n \in {sent + 1, FrameSize} : sent < FrameSize /\ Lose(n)
  \/ \E n \in 1 .. Chunk : Read(n)
  \/ Deliver

Spec == Init /\ [][Next]_vars

-----------------------------------------------------------------------------
(* Properties. *)

\* Whatever the bytes, the parser never fills its buffer: from the length byte of a header
\* on it knows the size it waits for, that size fits, and it is not yet reached.
BufferFits ==
  /\ length \in 0 .. MaxFrame - 1
  /\ expected \in {0} \cup MinFrame .. MaxFrame
  /\ (length >= HeaderSize <=> expected # 0) /\ (expected # 0 => length < expected)

TypeOK ==
  /\ kind \in Kinds /\ payload \in 0 .. MaxPayload /\ sent \in 0 .. FrameSize
  /\ BufferFits
  /\ genuine \in BOOLEAN
  /\ reading \in 0 .. Chunk
  /\ queue \in Seq(Kinds) /\ Len(queue) <= QueueSize
  /\ dropped \in BOOLEAN
  /\ calm \in 0 .. CalmAfter
  /\ half \in BOOLEAN /\ due \in BOOLEAN /\ missed \in BOOLEAN

\* What poll has acknowledged reaches the caller: the ACK goes out before enqueue_rx is
\* tried, and its result is ignored; but no packet is ever dropped, because a chunk
\* cannot complete more frames than the empty queue has places.
AcknowledgedIsServed == ~dropped

\* Damage costs a bounded number of frames: every unharmed frame of this version that
\* begins when MaxFrame - 1 bytes have passed since the last damage, and since the last
\* sync pair inside a frame's body, is received, whatever the parser was doing.
LossIsBounded == ~missed
=============================================================================
