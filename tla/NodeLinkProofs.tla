--------------------------- MODULE NodeLinkProofs ---------------------------
(***************************************************************************)
(* The command link for every set of controllers, any number of commands,  *)
(* sequence numbers and retries, every queue length and timing, and every  *)
(* pattern of frames that are lost.                                        *)
(***************************************************************************)
EXTENDS NodeLink, TLAPS, SequenceTheorems

USE LinkAssumption

Sent(c) == outcome[c] \notin {"new", "refused"}

\* The transaction in progress is the one command that is pending, and no command
\* after it has been sent.
PendingIsTheOne ==
  /\ \A tx \in pending :
       /\ pending = {tx}
       /\ outcome[tx.command] = "pending" /\ dest[tx.command] = tx.to
       /\ tx.seq < sequence
       /\ writes[tx.command] = tx.retries + 1
       /\ latest[tx.to] <= tx.command
  /\ \A c \in Commands : outcome[c] = "pending" => \E tx \in pending : tx.command = c

\* Commands are given in order, and only the accepted ones are written.
InOrder ==
  \A c \in Commands :
    /\ ~Sent(c) => writes[c] = 0
    /\ outcome[c] = "failed" => writes[c] = MaxRetries + 1
    /\ outcome[c] = "new" => \A b \in Commands : c < b => outcome[b] = "new"

\* The frames on their way to a controller are of commands sent to it, none older than
\* one before it or than the command applied last, none newer than the one in progress.
FramesInOrder ==
  \A p \in Peers :
    /\ latest[p] > 0 => outcome[latest[p]] # "new"
    /\ \A i \in 1 .. Len(toPeer[p]) :
         LET c == toPeer[p][i].command
         IN  /\ Sent(c) /\ dest[c] = p /\ latest[p] <= c
             /\ \A j \in i .. Len(toPeer[p]) : c <= toPeer[p][j].command
             /\ \A tx \in pending : c <= tx.command

\* A sequence number on its way is one that has been used, and the pending one's stands
\* for the pending command, both in its frames and in a positive answer.
NumbersAreFresh ==
  \A p \in Peers :
    /\ \A i \in 1 .. Len(toPeer[p]) :
         /\ toPeer[p][i].seq < sequence
         /\ \A tx \in pending : toPeer[p][i].seq = tx.seq => toPeer[p][i].command = tx.command
    /\ \A i \in 1 .. Len(toMain[p]) :
         /\ toMain[p][i].seq < sequence
         /\ \A tx \in pending :
              (tx.to = p /\ toMain[p][i].ok /\ toMain[p][i].seq = tx.seq)
                => tx.command \in applied[p]

LinkInv ==
  /\ TypeOK
  /\ PendingIsTheOne /\ InOrder /\ FramesInOrder
  /\ SlowRestart => NumbersAreFresh

-----------------------------------------------------------------------------
(* Queues. *)

\* A write adds the frame at the end or loses it.
LEMMA PutIs ==
  ASSUME NEW S, NEW q \in Seq(S), NEW x \in S, NEW r \in Put(q, x)
  PROVE  /\ r \in Seq(S)
         /\ \A i \in 1 .. Len(r) : \/ i \in 1 .. Len(q) /\ r[i] = q[i]
                                   \/ i = Len(q) + 1 /\ Len(r) = i /\ r[i] = x
<1>1. CASE r = q
  BY <1>1
<1>2. CASE r = Append(q, x)
  <2>1. /\ r \in Seq(S) /\ Len(r) = Len(q) + 1
        /\ \A i \in 1 .. Len(q) : r[i] = q[i]
        /\ r[Len(q) + 1] = x
    BY <1>2, AppendProperties
  <2>2. Len(q) \in Nat
    BY LenProperties
  <2> QED
    BY <2>1, <2>2
<1> QED
  BY <1>1, <1>2 DEF Put

LEMMA TailIs ==
  ASSUME NEW S, NEW q \in Seq(S), q # << >>
  PROVE  /\ Tail(q) \in Seq(S) /\ Head(q) \in S /\ Head(q) = q[1] /\ 1 \in 1 .. Len(q)
         /\ Len(Tail(q)) = Len(q) - 1 /\ Len(q) \in Nat
         /\ \A i \in 1 .. Len(Tail(q)) : i + 1 \in 1 .. Len(q) /\ Tail(q)[i] = q[i + 1]
<1>1. /\ Head(q) \in S /\ Tail(q) \in Seq(S) /\ Len(Tail(q)) = Len(q) - 1
      /\ \A i \in 1 .. Len(Tail(q)) : Tail(q)[i] = q[i + 1]
  BY HeadTailProperties
<1>2. Len(q) \in Nat /\ Len(q) # 0
  BY EmptySeq, LenProperties
<1>3. Head(q) = q[1]
  OBVIOUS
<1> QED
  BY <1>1, <1>2, <1>3

\* What is on its way is a frame or an answer.
LEMMA Carried ==
  ASSUME TypeOK, NEW p \in Peers
  PROVE  /\ toPeer[p] \in Seq(Frame) /\ toMain[p] \in Seq(Answer)
         /\ Len(toPeer[p]) \in Nat /\ Len(toMain[p]) \in Nat
         /\ \A i \in 1 .. Len(toPeer[p]) :
              /\ toPeer[p][i] \in Frame
              /\ toPeer[p][i].command \in Commands /\ toPeer[p][i].seq \in Sequences
         /\ \A i \in 1 .. Len(toMain[p]) :
              /\ toMain[p][i] \in Answer
              /\ toMain[p][i].seq \in Sequences /\ toMain[p][i].ok \in BOOLEAN
<1>1. toPeer[p] \in Seq(Frame) /\ toMain[p] \in Seq(Answer)
  BY DEF TypeOK
<1>2. Len(toPeer[p]) \in Nat /\ Len(toMain[p]) \in Nat
  BY <1>1, LenProperties
<1>3. \A i \in 1 .. Len(toPeer[p]) : toPeer[p][i] \in Frame
  BY <1>1, ElementOfSeq
<1>4. \A i \in 1 .. Len(toMain[p]) : toMain[p][i] \in Answer
  BY <1>1, ElementOfSeq
<1> QED
  BY <1>1, <1>2, <1>3, <1>4 DEF Frame, Answer

LEMMA PendingTypes ==
  ASSUME TypeOK, NEW tx \in pending
  PROVE  /\ tx \in PendingTx
         /\ tx.command \in Commands /\ tx.seq \in Sequences /\ tx.to \in Peers
         /\ tx.sent_at \in Clock /\ tx.retries \in 0 .. MaxRetries
BY DEF TypeOK, PendingTx

LEMMA InitHolds == ASSUME Init PROVE LinkInv
<1>1. << >> \in Seq(Frame) /\ << >> \in Seq(Answer) /\ Len(<< >>) = 0
  BY EmptySeq
<1>2. 0 \in Clock /\ 1 \in 1 .. MaxSequence + 1
  BY DEF Clock
<1>3. TypeOK
  BY <1>1, <1>2 DEF Init, TypeOK
<1>4. PendingIsTheOne /\ InOrder
  BY DEF Init, PendingIsTheOne, InOrder, Sent
<1>5. \A p \in Peers : latest[p] = 0 /\ 1 .. Len(toPeer[p]) = {} /\ 1 .. Len(toMain[p]) = {}
  <2>1. \A p \in Peers : latest[p] = 0 /\ toPeer[p] = << >> /\ toMain[p] = << >>
    BY DEF Init
  <2>2. 1 .. Len(<< >>) = {}
    BY <1>1
  <2> QED
    BY <2>1, <2>2
<1>6. FramesInOrder /\ NumbersAreFresh
  BY <1>5 DEF FramesInOrder, NumbersAreFresh
<1> QED
  BY <1>3, <1>4, <1>5, <1>6 DEF LinkInv

-----------------------------------------------------------------------------
(* Giving a command. *)

\* Whatever is on its way or was applied is older than the command given next.
LEMMA GivenIsLast ==
  ASSUME LinkInv, NEW c \in Commands, outcome[c] = "new"
  PROVE  \A r \in Peers : /\ latest[r] < c
                          /\ \A i \in 1 .. Len(toPeer[r]) : toPeer[r][i].command < c
<1>1. \A b \in Commands : outcome[b] # "new" => b < c
  BY DEF LinkInv, InOrder, Commands
<1> SUFFICES ASSUME NEW r \in Peers
             PROVE  /\ latest[r] < c
                    /\ \A i \in 1 .. Len(toPeer[r]) : toPeer[r][i].command < c
  OBVIOUS
<1>2. latest[r] \in 0 .. MaxCommands /\ c > 0 /\ c \in Nat
  BY DEF LinkInv, TypeOK, Commands
<1>3. latest[r] < c
  <2>1. CASE latest[r] = 0
    BY <2>1, <1>2
  <2>2. CASE latest[r] > 0
    BY <2>2, <1>1, <1>2 DEF LinkInv, FramesInOrder, Commands
  <2> QED
    BY <2>1, <2>2, <1>2
<1>4. ASSUME NEW i \in 1 .. Len(toPeer[r]) PROVE toPeer[r][i].command < c
  <2>1. toPeer[r][i].command \in Commands
    BY Carried DEF LinkInv
  <2>2. Sent(toPeer[r][i].command)
    BY DEF LinkInv, FramesInOrder
  <2> QED
    BY <2>1, <2>2, <1>1 DEF Sent
<1> QED
  BY <1>3, <1>4

\* The order of commands is kept by giving the next one.
LEMMA GivenInOrder ==
  ASSUME LinkInv, NEW c \in Commands, NEW p \in Peers,
         NEW what \in {"pending", "refused"}, Given(c, p, what),
         writes' = IF what = "pending" THEN [writes EXCEPT ![c] = 1] ELSE writes
  PROVE  /\ InOrder'
         /\ outcome[c] = "new" /\ outcome'[c] = what /\ dest'[c] = p
         /\ \A b \in Commands \ {c} : outcome'[b] = outcome[b] /\ dest'[b] = dest[b]
                                      /\ writes'[b] = writes[b]
         /\ outcome' \in [Commands -> {"new", "pending", "acked", "failed", "refused", "forgotten"}]
         /\ dest' \in [Commands -> Peers \cup {"nobody"}]
<1>1. /\ outcome \in [Commands -> {"new", "pending", "acked", "failed", "refused", "forgotten"}]
      /\ dest \in [Commands -> Peers \cup {"nobody"}]
      /\ writes \in [Commands -> 0 .. MaxRetries + 1]
  BY DEF LinkInv, TypeOK
<1>2. /\ outcome[c] = "new"
      /\ \A b \in Commands : b < c => outcome[b] # "new"
      /\ outcome' = [outcome EXCEPT ![c] = what] /\ dest' = [dest EXCEPT ![c] = p]
  BY DEF Given
<1>3. \A b \in Commands \ {c} : outcome'[b] = outcome[b] /\ dest'[b] = dest[b]
                                /\ writes'[b] = writes[b]
  BY <1>1, <1>2
<1>4. outcome'[c] = what /\ dest'[c] = p /\ (what = "refused" => writes'[c] = writes[c])
  BY <1>1, <1>2
<1>5. \A b \in Commands :
        /\ ~Sent(b)' => writes'[b] = 0
        /\ outcome'[b] = "failed" => writes'[b] = MaxRetries + 1
  BY <1>2, <1>3, <1>4 DEF LinkInv, InOrder, Sent
<1>6. \A a, b \in Commands : outcome'[a] = "new" /\ a < b => outcome'[b] = "new"
  BY <1>2, <1>3, <1>4 DEF LinkInv, InOrder, Commands
<1>7. InOrder'
  BY <1>5, <1>6 DEF InOrder
<1> QED
  BY <1>1, <1>2, <1>3, <1>4, <1>7

\* Writing a frame that is not older than those before it keeps a queue in order.
LEMMA FrameWritten ==
  ASSUME LinkInv, NEW p \in Peers, NEW x \in Frame, NEW q \in Put(toPeer[p], x),
         toPeer' = [toPeer EXCEPT ![p] = q],
         \A i \in 1 .. Len(toPeer[p]) : toPeer[p][i].command <= x.command
  PROVE  /\ toPeer' \in [Peers -> Seq(Frame)]
         /\ \A r \in Peers : \A i \in 1 .. Len(toPeer'[r]) :
              /\ \/ r = p /\ toPeer'[r][i] = x
                 \/ i \in 1 .. Len(toPeer[r]) /\ toPeer'[r][i] = toPeer[r][i]
              /\ \A j \in i .. Len(toPeer'[r]) : toPeer'[r][i].command <= toPeer'[r][j].command
<1>1. /\ q \in Seq(Frame)
      /\ \A i \in 1 .. Len(q) : \/ i \in 1 .. Len(toPeer[p]) /\ q[i] = toPeer[p][i]
                                \/ i = Len(toPeer[p]) + 1 /\ Len(q) = i /\ q[i] = x
  BY PutIs, Carried DEF LinkInv
<1>2. toPeer'[p] = q /\ \A r \in Peers \ {p} : toPeer'[r] = toPeer[r]
  BY DEF LinkInv, TypeOK
<1>3. toPeer' \in [Peers -> Seq(Frame)]
  BY <1>1 DEF LinkInv, TypeOK
<1>4. \A r \in Peers : \A i \in 1 .. Len(toPeer'[r]) :
         \/ r = p /\ i = Len(toPeer'[r]) /\ toPeer'[r][i] = x
         \/ i \in 1 .. Len(toPeer[r]) /\ toPeer'[r][i] = toPeer[r][i]
  BY <1>1, <1>2
<1>5. ASSUME NEW r \in Peers, NEW i \in 1 .. Len(toPeer'[r]), NEW j \in i .. Len(toPeer'[r])
      PROVE  toPeer'[r][i].command <= toPeer'[r][j].command
  <2>1. Len(toPeer'[r]) \in Nat /\ Len(toPeer[r]) \in Nat
    BY <1>3, LenProperties, Carried DEF LinkInv
  <2>2. j \in 1 .. Len(toPeer'[r])
    BY <2>1
  <2>3. x.command \in Commands
    BY DEF Frame
  <2>4. CASE r = p /\ toPeer'[r][j] = x
    BY <2>3, <2>4, <1>4 DEF Commands
  <2>5. CASE j \in 1 .. Len(toPeer[r]) /\ toPeer'[r][j] = toPeer[r][j]
    <3>1. i \in 1 .. Len(toPeer[r]) /\ j \in i .. Len(toPeer[r])
      BY <2>1, <2>5
    <3>2. toPeer'[r][i] = toPeer[r][i]
      BY <2>1, <3>1, <2>5, <1>1, <1>2
    <3>3. toPeer[r][i].command <= toPeer[r][j].command
      BY <3>1 DEF LinkInv, FramesInOrder
    <3> QED
      BY <3>2, <3>3, <2>5
  <2> QED
    BY <2>2, <2>4, <2>5, <1>4
<1> QED
  BY <1>3, <1>4, <1>5

LEMMA SendHolds ==
  ASSUME LinkInv, NEW c \in Commands, NEW p \in Peers, SendCommand(c, p)
  PROVE  LinkInv'
<1> DEFINE x == [seq |-> sequence, command |-> c]
           new == [command |-> c, seq |-> sequence, to |-> p, sent_at |-> now, retries |-> 0]
<1>1. PICK q \in Put(toPeer[p], x) : toPeer' = [toPeer EXCEPT ![p] = q]
  BY DEF SendCommand
<1>2. /\ pending = {} /\ pending' = {new}
      /\ sequence \in Sequences /\ sequence' = sequence + 1
      /\ writes' = [writes EXCEPT ![c] = 1]
      /\ Given(c, p, "pending")
      /\ UNCHANGED <<now, toMain, applied, latest>>
  BY DEF SendCommand, NextSequence, LinkInv, TypeOK, Sequences
<1>3. /\ InOrder'
      /\ outcome[c] = "new" /\ outcome'[c] = "pending" /\ dest'[c] = p
      /\ \A b \in Commands \ {c} : outcome'[b] = outcome[b] /\ dest'[b] = dest[b]
                                   /\ writes'[b] = writes[b]
      /\ outcome' \in [Commands -> {"new", "pending", "acked", "failed", "refused", "forgotten"}]
      /\ dest' \in [Commands -> Peers \cup {"nobody"}]
  BY <1>2, GivenInOrder
<1>4. x \in Frame /\ new \in PendingTx /\ writes'[c] = 1
      /\ writes' \in [Commands -> 0 .. MaxRetries + 1]
  BY <1>2 DEF Frame, PendingTx, LinkInv, TypeOK
<1>5. \A r \in Peers : /\ latest[r] < c
                       /\ \A i \in 1 .. Len(toPeer[r]) : toPeer[r][i].command < c
  BY <1>3, GivenIsLast
<1>6. \A i \in 1 .. Len(toPeer[p]) : toPeer[p][i].command <= x.command
  BY <1>5, Carried DEF LinkInv, Commands
<1>7. TypeOK'
  <2>1. toPeer' \in [Peers -> Seq(Frame)]
    BY <1>1, <1>4, <1>6, FrameWritten
  <2>2. sequence' \in 1 .. MaxSequence + 1 /\ pending' \subseteq PendingTx
    BY <1>2, <1>4 DEF Sequences
  <2> QED
    BY <2>1, <2>2, <1>2, <1>3, <1>4 DEF LinkInv, TypeOK
<1>8. PendingIsTheOne'
  <2>1. \A tx \in pending' : tx = new
    BY <1>2
  <2>2. latest'[p] <= c
    BY <1>2, <1>5 DEF LinkInv, TypeOK, Commands
  <2>3. \A b \in Commands : outcome'[b] = "pending" => b = c
    BY <1>2, <1>3 DEF LinkInv, PendingIsTheOne
  <2>4. sequence < sequence'
    BY <1>2 DEF Sequences
  <2> QED
    BY <2>1, <2>2, <2>3, <2>4, <1>2, <1>3, <1>4 DEF PendingIsTheOne
<1>9. \A r \in Peers : \A i \in 1 .. Len(toPeer'[r]) :
         /\ \/ r = p /\ toPeer'[r][i] = x
            \/ i \in 1 .. Len(toPeer[r]) /\ toPeer'[r][i] = toPeer[r][i]
         /\ \A j \in i .. Len(toPeer'[r]) : toPeer'[r][i].command <= toPeer'[r][j].command
  BY <1>1, <1>4, <1>6, FrameWritten
<1>10. FramesInOrder'
  <2>1. ASSUME NEW r \in Peers PROVE latest'[r] > 0 => outcome'[latest'[r]] # "new"
    BY <1>2, <1>3, <1>5 DEF LinkInv, FramesInOrder, TypeOK, Commands
  <2>2. ASSUME NEW r \in Peers, NEW i \in 1 .. Len(toPeer'[r])
        PROVE  /\ toPeer'[r][i].command \in Commands /\ toPeer'[r][i].command <= c
               /\ outcome'[toPeer'[r][i].command] \notin {"new", "refused"}
               /\ dest'[toPeer'[r][i].command] = r
               /\ latest'[r] <= toPeer'[r][i].command
    <3>1. CASE r = p /\ toPeer'[r][i] = x
      <4>1. toPeer'[r][i].command = c
        BY <3>1
      <4>2. latest'[r] <= c /\ c <= c
        BY <1>2, <1>5 DEF LinkInv, TypeOK, Commands
      <4> QED
        BY <3>1, <4>1, <4>2, <1>3
    <3>2. CASE i \in 1 .. Len(toPeer[r]) /\ toPeer'[r][i] = toPeer[r][i]
      <4> DEFINE k == toPeer[r][i].command
      <4>1. k \in Commands /\ k < c
        BY <3>2, <1>5, Carried DEF LinkInv
      <4>2. Sent(k) /\ dest[k] = r /\ latest[r] <= k
        BY <3>2 DEF LinkInv, FramesInOrder
      <4>3. k <= c /\ k \in Commands \ {c}
        BY <4>1 DEF Commands
      <4>4. outcome'[k] = outcome[k] /\ dest'[k] = dest[k] /\ latest'[r] = latest[r]
        BY <4>3, <1>2, <1>3
      <4> QED
        BY <4>2, <4>3, <4>4, <3>2 DEF Sent
    <3> QED
      BY <3>1, <3>2, <1>9
  <2>3. \A tx \in pending' : tx.command = c
    BY <1>2
  <2> QED
    BY <2>1, <2>2, <2>3, <1>9 DEF FramesInOrder, Sent
<1>11. ASSUME SlowRestart PROVE NumbersAreFresh'
  <2>1. \A tx \in pending' : tx.seq = sequence /\ tx.command = c
    BY <1>2
  <2>2. ASSUME NEW r \in Peers, NEW i \in 1 .. Len(toPeer'[r])
        PROVE  /\ toPeer'[r][i].seq < sequence'
               /\ toPeer'[r][i].seq = sequence => toPeer'[r][i].command = c
    <3>1. CASE toPeer'[r][i] = x
      BY <3>1, <1>2 DEF Sequences
    <3>2. CASE i \in 1 .. Len(toPeer[r]) /\ toPeer'[r][i] = toPeer[r][i]
      <4>1. toPeer[r][i].seq \in Sequences /\ toPeer[r][i].seq < sequence
        BY <3>2, <1>11, Carried DEF LinkInv, NumbersAreFresh
      <4> QED
        BY <4>1, <3>2, <1>2 DEF Sequences
    <3> QED
      BY <3>1, <3>2, <1>9
  <2>3. ASSUME NEW r \in Peers, NEW i \in 1 .. Len(toMain[r])
        PROVE  toMain[r][i].seq < sequence' /\ toMain[r][i].seq # sequence
    <3>1. toMain[r][i].seq \in Sequences /\ toMain[r][i].seq < sequence
      BY <1>11, Carried DEF LinkInv, NumbersAreFresh
    <3> QED
      BY <3>1, <1>2 DEF Sequences
  <2> QED
    BY <2>1, <2>2, <2>3, <1>2 DEF NumbersAreFresh
<1> QED
  BY <1>3, <1>7, <1>8, <1>10, <1>11 DEF LinkInv

\* Using up a sequence number, or time that passes, changes nothing else.
LEMMA NumbersGrow ==
  ASSUME LinkInv, NEW s \in sequence .. MaxSequence + 1, sequence' = s,
         now' \in Clock,
         UNCHANGED <<pending, toPeer, toMain, applied, latest>>
  PROVE  /\ \A tx \in pending : tx.seq < s
         /\ SlowRestart => NumbersAreFresh'
<1>1. sequence \in Nat /\ s \in Nat /\ sequence <= s
  BY DEF LinkInv, TypeOK
<1>2. \A tx \in pending : tx.seq < s
  BY <1>1, PendingTypes DEF LinkInv, PendingIsTheOne, Sequences
<1>3. ASSUME SlowRestart, NEW r \in Peers
      PROVE  /\ \A i \in 1 .. Len(toPeer[r]) : toPeer[r][i].seq < s
             /\ \A i \in 1 .. Len(toMain[r]) : toMain[r][i].seq < s
  BY <1>1, <1>3, Carried DEF LinkInv, NumbersAreFresh, Sequences
<1> QED
  BY <1>2, <1>3 DEF LinkInv, NumbersAreFresh

LEMMA RefuseHolds ==
  ASSUME LinkInv, NEW c \in Commands, NEW p \in Peers, RefuseCommand(c, p)
  PROVE  LinkInv'
<1>1. /\ sequence \in Sequences /\ sequence' = sequence + 1
      /\ Given(c, p, "refused")
      /\ UNCHANGED <<now, pending, toPeer, toMain, writes, applied, latest>>
  BY DEF RefuseCommand, NextSequence, LinkInv, TypeOK, Sequences
<1>2. /\ InOrder'
      /\ outcome[c] = "new" /\ outcome'[c] = "refused" /\ dest'[c] = p
      /\ \A b \in Commands \ {c} : outcome'[b] = outcome[b] /\ dest'[b] = dest[b]
      /\ outcome' \in [Commands -> {"new", "pending", "acked", "failed", "refused", "forgotten"}]
      /\ dest' \in [Commands -> Peers \cup {"nobody"}]
  BY <1>1, GivenInOrder
<1>3. sequence' \in sequence .. MaxSequence + 1
  BY <1>1 DEF Sequences
<1>4. TypeOK'
  BY <1>1, <1>2, <1>3 DEF LinkInv, TypeOK
<1>5. (SlowRestart => NumbersAreFresh') /\ \A tx \in pending : tx.seq < sequence'
  BY <1>1, <1>3, NumbersGrow DEF LinkInv, TypeOK
<1>6. PendingIsTheOne'
  <2>1. \A tx \in pending : tx.command \in Commands \ {c}
    BY <1>2, PendingTypes DEF LinkInv, PendingIsTheOne
  <2>2. \A b \in Commands : outcome'[b] = "pending" => outcome[b] = "pending"
    BY <1>2
  <2> QED
    BY <2>1, <2>2, <1>1, <1>2, <1>5 DEF LinkInv, PendingIsTheOne
<1>7. FramesInOrder'
  <2>1. \A b \in Commands : Sent(b) => Sent(b)' /\ dest'[b] = dest[b]
    BY <1>2 DEF Sent
  <2>2. \A r \in Peers : latest[r] > 0 => outcome'[latest[r]] # "new"
    BY <1>2 DEF LinkInv, FramesInOrder, TypeOK, Commands
  <2>3. \A r \in Peers : \A i \in 1 .. Len(toPeer[r]) : toPeer[r][i].command \in Commands
    BY Carried DEF LinkInv
  <2> QED
    BY <2>1, <2>2, <2>3, <1>1 DEF LinkInv, FramesInOrder
<1> QED
  BY <1>2, <1>4, <1>5, <1>6, <1>7 DEF LinkInv

LEMMA QuietHolds ==
  ASSUME LinkInv, SendPlain \/ \E d \in 1 .. MaxStep : Tick(d)
  PROVE  LinkInv'
<1>1. UNCHANGED <<pending, toPeer, toMain, writes, outcome, dest, applied, latest>>
  BY DEF SendPlain, Tick
<1>2. now' \in Clock /\ sequence' \in sequence .. MaxSequence + 1
  <2>1. CASE SendPlain
    BY <2>1 DEF SendPlain, NextSequence, LinkInv, TypeOK
  <2>2. ASSUME NEW d \in 1 .. MaxStep, Tick(d) PROVE now' \in Clock /\ sequence' = sequence
    BY <2>2 DEF Tick, Later, LinkInv, TypeOK, Clock
  <2> QED
    BY <2>1, <2>2 DEF LinkInv, TypeOK
<1>3. (SlowRestart => NumbersAreFresh') /\ \A tx \in pending : tx.seq < sequence'
  BY <1>1, <1>2, NumbersGrow
<1>4. TypeOK'
  BY <1>1, <1>2 DEF LinkInv, TypeOK
<1>5. PendingIsTheOne'
  BY <1>1, <1>3 DEF LinkInv, PendingIsTheOne
<1>6. InOrder' /\ FramesInOrder'
  BY <1>1 DEF LinkInv, InOrder, FramesInOrder, Sent
<1> QED
  BY <1>3, <1>4, <1>5, <1>6 DEF LinkInv

-----------------------------------------------------------------------------
(* Settling a command. *)

\* A command in progress may end, if it ends in failure only after all its retries.
EndsWell ==
  /\ outcome' \in [Commands -> {"new", "pending", "acked", "failed", "refused", "forgotten"}]
  /\ \A b \in Commands :
       \/ outcome'[b] = outcome[b]
       \/ /\ outcome[b] = "pending" /\ outcome'[b] \in {"acked", "failed", "forgotten"}
          /\ outcome'[b] = "failed" => writes[b] = MaxRetries + 1
  /\ UNCHANGED <<writes, dest, applied, latest>>

LEMMA EndingKeepsOrder ==
  ASSUME LinkInv, EndsWell
  PROVE  /\ InOrder'
         /\ \A b \in Commands : (Sent(b)' <=> Sent(b)) /\ (outcome'[b] = "new" <=> outcome[b] = "new")
<1>1. \A b \in Commands : /\ outcome'[b] \notin {"new", "refused"} <=> outcome[b] \notin {"new", "refused"}
                          /\ outcome'[b] = "new" <=> outcome[b] = "new"
  BY DEF EndsWell
<1>2. \A b \in Commands : outcome'[b] = "failed" => writes[b] = MaxRetries + 1
  BY DEF EndsWell, LinkInv, InOrder
<1>3. UNCHANGED <<writes>>
  BY DEF EndsWell
<1> QED
  BY <1>1, <1>2, <1>3 DEF LinkInv, InOrder, Sent

\* When nothing is in progress any more, or the same as before, the frames stay in order.
LEMMA EndingKeepsFrames ==
  ASSUME LinkInv, EndsWell, toPeer' = toPeer,
         \A tx \in pending' : \E t \in pending : t.command = tx.command
  PROVE  FramesInOrder'
<1>1. \A p \in Peers : \A i \in 1 .. Len(toPeer[p]) : toPeer[p][i].command \in Commands
  BY Carried DEF LinkInv
<1>2. \A p \in Peers : latest[p] > 0 => latest[p] \in Commands
  BY DEF LinkInv, TypeOK, Commands
<1>3. UNCHANGED <<dest, latest>>
  BY DEF EndsWell
<1> QED
  BY <1>1, <1>2, <1>3, EndingKeepsOrder DEF LinkInv, FramesInOrder

LEMMA GiveUpHolds == ASSUME LinkInv, GiveUp PROVE LinkInv'
<1>1. PICK tx \in pending :
        /\ Exhausted(tx) /\ pending' = {}
        /\ outcome' = [outcome EXCEPT ![tx.command] = "failed"]
        /\ UNCHANGED <<now, sequence, toPeer, toMain, writes, dest, applied, latest>>
  BY DEF GiveUp
<1>2. /\ tx.command \in Commands /\ tx.retries \in 0 .. MaxRetries
      /\ outcome[tx.command] = "pending" /\ writes[tx.command] = tx.retries + 1
      /\ \A t \in pending : t = tx
  BY PendingTypes DEF LinkInv, PendingIsTheOne
<1>3. writes[tx.command] = MaxRetries + 1
  BY <1>1, <1>2 DEF Exhausted
<1>4. EndsWell
  BY <1>1, <1>2, <1>3 DEF EndsWell, LinkInv, TypeOK
<1>5. TypeOK'
  BY <1>1, <1>4 DEF LinkInv, TypeOK, EndsWell
<1>6. \A b \in Commands : outcome'[b] # "pending"
  BY <1>1, <1>2 DEF LinkInv, PendingIsTheOne, TypeOK
<1>7. PendingIsTheOne'
  BY <1>1, <1>6 DEF PendingIsTheOne
<1>8. SlowRestart => NumbersAreFresh'
  BY <1>1 DEF LinkInv, NumbersAreFresh
<1> QED
  BY <1>1, <1>4, <1>5, <1>7, <1>8, EndingKeepsOrder, EndingKeepsFrames DEF LinkInv

LEMMA RestartHolds == ASSUME LinkInv, Restart PROVE LinkInv'
<1>1. /\ SlowRestart => \A p \in Peers : toPeer[p] = << >>
      /\ toMain' = [p \in Peers |-> << >>]
      /\ sequence' = 1 /\ pending' = {}
      /\ outcome' = [c \in Commands |->
                       IF outcome[c] = "pending" THEN "forgotten" ELSE outcome[c]]
      /\ UNCHANGED <<now, toPeer, writes, dest, applied, latest>>
  BY DEF Restart
<1>2. EndsWell
  BY <1>1 DEF EndsWell, LinkInv, TypeOK
<1>3. << >> \in Seq(Answer) /\ 1 .. Len(<< >>) = {}
  BY EmptySeq
<1>4. TypeOK'
  BY <1>1, <1>2, <1>3 DEF LinkInv, TypeOK, EndsWell
<1>5. \A b \in Commands : outcome'[b] # "pending"
  BY <1>1
<1>6. PendingIsTheOne'
  BY <1>1, <1>5 DEF PendingIsTheOne
<1>7. ASSUME SlowRestart PROVE NumbersAreFresh'
  <2>1. \A p \in Peers : toPeer'[p] = << >> /\ toMain'[p] = << >>
    BY <1>1, <1>7
  <2>2. \A p \in Peers : 1 .. Len(toPeer'[p]) = {} /\ 1 .. Len(toMain'[p]) = {}
    BY <2>1, <1>3
  <2> QED
    BY <2>2 DEF NumbersAreFresh
<1> QED
  BY <1>1, <1>2, <1>4, <1>6, <1>7, EndingKeepsOrder, EndingKeepsFrames DEF LinkInv

LEMMA AnswerHolds ==
  ASSUME LinkInv, NEW p \in Peers, ReceiveAnswer(p)
  PROVE  LinkInv'
<1> DEFINE answer == Head(toMain[p])
<1>1. /\ toMain[p] # << >> /\ toMain' = [toMain EXCEPT ![p] = Tail(toMain[p])]
      /\ UNCHANGED <<now, sequence, toPeer, writes, dest, applied, latest>>
  BY DEF ReceiveAnswer
<1>2. /\ \A r \in Peers : \A i \in 1 .. Len(toMain'[r]) :
           \E j \in 1 .. Len(toMain[r]) : toMain'[r][i] = toMain[r][j]
      /\ toMain' \in [Peers -> Seq(Answer)]
  <2>1. toMain \in [Peers -> Seq(Answer)]
    BY DEF LinkInv, TypeOK
  <2>2. /\ Tail(toMain[p]) \in Seq(Answer)
        /\ \A i \in 1 .. Len(Tail(toMain[p])) :
             i + 1 \in 1 .. Len(toMain[p]) /\ Tail(toMain[p])[i] = toMain[p][i + 1]
    BY <1>1, <2>1, TailIs
  <2>3. toMain'[p] = Tail(toMain[p]) /\ \A r \in Peers \ {p} : toMain'[r] = toMain[r]
    BY <1>1, <2>1
  <2> QED
    BY <1>1, <2>1, <2>2, <2>3
<1>3. \/ UNCHANGED <<pending, outcome>>
      \/ \E tx \in pending : pending' = {} /\ outcome' = [outcome EXCEPT ![tx.command] = "acked"]
      \/ \E tx \in pending : pending' = {[tx EXCEPT !.sent_at = 0]} /\ UNCHANGED outcome
  BY DEF ReceiveAnswer
<1>4. 0 \in Clock
  BY DEF Clock
<1>5. \A tx \in pending' : \E t \in pending :
        /\ tx.command = t.command /\ tx.seq = t.seq /\ tx.to = t.to /\ tx.retries = t.retries
        /\ tx \in PendingTx /\ pending' = {tx}
  <2>1. CASE UNCHANGED <<pending, outcome>>
    BY <2>1, PendingTypes DEF LinkInv, PendingIsTheOne
  <2>2. ASSUME NEW t \in pending, pending' = {[t EXCEPT !.sent_at = 0]}
        PROVE  \A tx \in pending' :
                 /\ tx.command = t.command /\ tx.seq = t.seq /\ tx.to = t.to
                 /\ tx.retries = t.retries /\ tx \in PendingTx /\ pending' = {tx}
    BY <2>2, <1>4, PendingTypes DEF PendingTx, LinkInv
  <2> QED
    BY <2>1, <2>2, <1>3
<1>6. EndsWell
  <2>1. ASSUME NEW tx \in pending, outcome' = [outcome EXCEPT ![tx.command] = "acked"]
        PROVE  EndsWell
    BY <2>1, <1>1 DEF EndsWell, LinkInv, TypeOK, PendingIsTheOne
  <2>2. CASE UNCHANGED outcome
    BY <2>2, <1>1 DEF EndsWell, LinkInv, TypeOK
  <2> QED
    BY <2>1, <2>2, <1>3
<1>7. TypeOK'
  BY <1>1, <1>2, <1>5, <1>6 DEF LinkInv, TypeOK, EndsWell
<1>8. PendingIsTheOne'
  <2>1. \A tx \in pending' :
          /\ pending' = {tx} /\ dest[tx.command] = tx.to /\ tx.seq < sequence
          /\ writes[tx.command] = tx.retries + 1 /\ latest[tx.to] <= tx.command
    BY <1>5 DEF LinkInv, PendingIsTheOne
  <2>2. /\ \A tx \in pending' : outcome'[tx.command] = "pending"
        /\ \A c \in Commands : outcome'[c] = "pending" => \E tx \in pending' : tx.command = c
    <3>1. ASSUME NEW t \in pending, pending' = {},
                 outcome' = [outcome EXCEPT ![t.command] = "acked"]
          PROVE  \A c \in Commands : outcome'[c] # "pending"
      <4>1. t.command \in Commands /\ \A s \in pending : s = t
        BY PendingTypes DEF LinkInv, PendingIsTheOne
      <4> QED
        BY <3>1, <4>1 DEF LinkInv, PendingIsTheOne, TypeOK
    <3>2. ASSUME NEW t \in pending, pending' = {[t EXCEPT !.sent_at = 0]}, UNCHANGED outcome
          PROVE  /\ \A tx \in pending' : outcome'[tx.command] = "pending"
                 /\ \A c \in Commands : outcome'[c] = "pending" => \E tx \in pending' : tx.command = c
      <4>1. \A tx \in pending' : tx.command = t.command
        BY <3>2, PendingTypes DEF PendingTx, LinkInv
      <4>2. \A s \in pending : s = t
        BY DEF LinkInv, PendingIsTheOne
      <4> QED
        BY <3>2, <4>1, <4>2 DEF LinkInv, PendingIsTheOne
    <3>3. CASE UNCHANGED <<pending, outcome>>
      BY <3>3 DEF LinkInv, PendingIsTheOne
    <3> QED
      BY <3>1, <3>2, <3>3, <1>3
  <2> QED
    BY <2>1, <2>2, <1>1 DEF PendingIsTheOne
<1>9. ASSUME SlowRestart PROVE NumbersAreFresh'
  <2>1. NumbersAreFresh
    BY <1>9 DEF LinkInv
  <2>2. \A r \in Peers : \A i \in 1 .. Len(toPeer[r]) :
          /\ toPeer[r][i].seq < sequence
          /\ \A tx \in pending' : toPeer[r][i].seq = tx.seq => toPeer[r][i].command = tx.command
    BY <2>1, <1>5 DEF NumbersAreFresh
  <2>3. \A r \in Peers : \A i \in 1 .. Len(toMain'[r]) :
          /\ toMain'[r][i].seq < sequence
          /\ \A tx \in pending' :
               (tx.to = r /\ toMain'[r][i].ok /\ toMain'[r][i].seq = tx.seq)
                 => tx.command \in applied[r]
    <3> SUFFICES ASSUME NEW r \in Peers, NEW i \in 1 .. Len(toMain'[r])
                 PROVE  /\ toMain'[r][i].seq < sequence
                        /\ \A tx \in pending' :
                             (tx.to = r /\ toMain'[r][i].ok /\ toMain'[r][i].seq = tx.seq)
                               => tx.command \in applied[r]
      OBVIOUS
    <3>1. PICK j \in 1 .. Len(toMain[r]) : toMain'[r][i] = toMain[r][j]
      BY <1>2
    <3>2. /\ toMain[r][j].seq < sequence
          /\ \A t \in pending : (t.to = r /\ toMain[r][j].ok /\ toMain[r][j].seq = t.seq)
                                => t.command \in applied[r]
      BY <2>1 DEF NumbersAreFresh
    <3> QED
      BY <3>1, <3>2, <1>5
  <2> QED
    BY <2>2, <2>3, <1>1 DEF NumbersAreFresh
<1> QED
  BY <1>1, <1>5, <1>6, <1>7, <1>8, <1>9, EndingKeepsOrder, EndingKeepsFrames DEF LinkInv

-----------------------------------------------------------------------------
(* Retries and the controllers. *)

LEMMA RetransmitHolds == ASSUME LinkInv, Retransmit PROVE LinkInv'
<1> PICK tx \in pending :
      /\ ~Exhausted(tx)
      /\ pending' = {[tx EXCEPT !.retries = @ + 1, !.sent_at = now]}
      /\ \E q \in Put(toPeer[tx.to], [seq |-> tx.seq, command |-> tx.command]) :
           toPeer' = [toPeer EXCEPT ![tx.to] = q]
      /\ writes' = [writes EXCEPT ![tx.command] = @ + 1]
      /\ UNCHANGED <<now, sequence, toMain, outcome, dest, applied, latest>>
  BY DEF Retransmit
<1> DEFINE x == [seq |-> tx.seq, command |-> tx.command]
           new == [tx EXCEPT !.retries = @ + 1, !.sent_at = now]
           c == tx.command
<1>1. PICK q \in Put(toPeer[tx.to], x) : toPeer' = [toPeer EXCEPT ![tx.to] = q]
  OBVIOUS
<1>2. /\ tx \in PendingTx /\ c \in Commands /\ tx.seq \in Sequences /\ tx.to \in Peers
      /\ tx.retries \in 0 .. MaxRetries /\ now \in Clock
      /\ pending = {tx} /\ outcome[c] = "pending" /\ dest[c] = tx.to /\ tx.seq < sequence
      /\ writes[c] = tx.retries + 1 /\ latest[tx.to] <= c
  BY PendingTypes DEF LinkInv, PendingIsTheOne, TypeOK
<1>3. x \in Frame
  BY <1>2 DEF Frame
<1>4. tx.retries + 1 \in 0 .. MaxRetries
  BY <1>2 DEF Exhausted
<1>5. /\ new \in PendingTx /\ new.command = c /\ new.seq = tx.seq /\ new.to = tx.to
      /\ new.retries = tx.retries + 1
  BY <1>2, <1>4 DEF PendingTx
<1>6. /\ writes'[c] = tx.retries + 2 /\ writes'[c] \in 0 .. MaxRetries + 1
      /\ \A b \in Commands \ {c} : writes'[b] = writes[b]
      /\ writes' \in [Commands -> 0 .. MaxRetries + 1]
  <2>1. writes \in [Commands -> 0 .. MaxRetries + 1]
    BY DEF LinkInv, TypeOK
  <2>2. writes[c] + 1 \in 0 .. MaxRetries + 1 /\ writes[c] + 1 = tx.retries + 2
    BY <1>2, <1>4
  <2>3. writes' = [writes EXCEPT ![c] = writes[c] + 1]
    OBVIOUS
  <2> QED
    BY <2>1, <2>2, <2>3, <1>2
<1>7. \A i \in 1 .. Len(toPeer[tx.to]) : toPeer[tx.to][i].command <= x.command
  BY <1>2 DEF LinkInv, FramesInOrder
<1>8. /\ toPeer' \in [Peers -> Seq(Frame)]
      /\ \A r \in Peers : \A i \in 1 .. Len(toPeer'[r]) :
           /\ \/ r = tx.to /\ toPeer'[r][i] = x
              \/ i \in 1 .. Len(toPeer[r]) /\ toPeer'[r][i] = toPeer[r][i]
           /\ \A j \in i .. Len(toPeer'[r]) : toPeer'[r][i].command <= toPeer'[r][j].command
  BY <1>1, <1>2, <1>3, <1>7, FrameWritten
<1>9. TypeOK'
  BY <1>5, <1>6, <1>8 DEF LinkInv, TypeOK
<1>10. PendingIsTheOne'
  <2>1. pending' = {new}
    OBVIOUS
  <2> HIDE DEF new
  <2>2. \A b \in Commands : outcome[b] = "pending" => b = c
    BY <1>2 DEF LinkInv, PendingIsTheOne
  <2>3. writes'[c] = new.retries + 1
    BY <1>2, <1>5, <1>6
  <2> QED
    BY <2>1, <2>2, <2>3, <1>2, <1>5 DEF PendingIsTheOne
<1>11. InOrder'
  BY <1>2, <1>6 DEF LinkInv, InOrder, Sent
<1>12. FramesInOrder'
  <2>1. \A t \in pending' : t.command = c
    BY <1>5
  <2>2. ASSUME NEW r \in Peers, NEW i \in 1 .. Len(toPeer'[r])
        PROVE  /\ Sent(toPeer'[r][i].command) /\ dest[toPeer'[r][i].command] = r
               /\ latest[r] <= toPeer'[r][i].command
               /\ toPeer'[r][i].command <= c
    <3>1. CASE r = tx.to /\ toPeer'[r][i] = x
      BY <3>1, <1>2 DEF Sent, Commands
    <3>2. CASE i \in 1 .. Len(toPeer[r]) /\ toPeer'[r][i] = toPeer[r][i]
      BY <3>2, <1>2 DEF LinkInv, FramesInOrder
    <3> QED
      BY <3>1, <3>2, <1>8
  <2> QED
    BY <2>1, <2>2, <1>8 DEF LinkInv, FramesInOrder, Sent
<1>13. ASSUME SlowRestart PROVE NumbersAreFresh'
  <2>1. NumbersAreFresh
    BY <1>13 DEF LinkInv
  <2>2. \A t \in pending' : t.command = c /\ t.seq = tx.seq /\ t.to = tx.to
    BY <1>5
  <2>3. ASSUME NEW r \in Peers, NEW i \in 1 .. Len(toPeer'[r])
        PROVE  /\ toPeer'[r][i].seq < sequence
               /\ toPeer'[r][i].seq = tx.seq => toPeer'[r][i].command = c
    <3>1. CASE toPeer'[r][i] = x
      BY <3>1, <1>2
    <3>2. CASE i \in 1 .. Len(toPeer[r]) /\ toPeer'[r][i] = toPeer[r][i]
      <4>1. /\ toPeer[r][i].seq < sequence
            /\ toPeer[r][i].seq = tx.seq => toPeer[r][i].command = tx.command
        BY <3>2, <2>1 DEF NumbersAreFresh
      <4> QED
        BY <4>1, <3>2
    <3> QED
      BY <3>1, <3>2, <1>8
  <2> QED
    BY <2>1, <2>2, <2>3 DEF NumbersAreFresh
<1> QED
  BY <1>9, <1>10, <1>11, <1>12, <1>13 DEF LinkInv

\* What a controller does with the next frame.
LEMMA CommandStep ==
  ASSUME LinkInv, NEW p \in Peers, HandleCommand(p)
  PROVE  \E f \in Frame :
           /\ 1 \in 1 .. Len(toPeer[p]) /\ f = toPeer[p][1]
           /\ \/ /\ applied' = [applied EXCEPT ![p] = @ \cup {f.command}]
                 /\ latest' = [latest EXCEPT ![p] = f.command]
              \/ UNCHANGED <<applied, latest>>
           /\ \E ok \in BOOLEAN : /\ ok => applied' = [applied EXCEPT ![p] = @ \cup {f.command}]
                                  /\ \E q \in Put(toMain[p], [seq |-> f.seq, ok |-> ok]) :
                                       toMain' = [toMain EXCEPT ![p] = q]
           /\ toPeer' = [toPeer EXCEPT ![p] = Tail(toPeer[p])]
           /\ UNCHANGED <<now, sequence, pending, writes, outcome, dest>>
<1> DEFINE f == Head(toPeer[p])
<1>1. toPeer[p] # << >> /\ toPeer[p] \in Seq(Frame)
  BY DEF HandleCommand, LinkInv, TypeOK
<1>2. f \in Frame /\ f = toPeer[p][1] /\ 1 \in 1 .. Len(toPeer[p])
  BY <1>1, TailIs
<1>3. /\ toPeer' = [toPeer EXCEPT ![p] = Tail(toPeer[p])]
      /\ UNCHANGED <<now, sequence, pending, writes, outcome, dest>>
  BY DEF HandleCommand
<1>4. \/ /\ applied' = [applied EXCEPT ![p] = @ \cup {f.command}]
         /\ latest' = [latest EXCEPT ![p] = f.command]
         /\ \E q \in Put(toMain[p], [seq |-> f.seq, ok |-> TRUE]) :
              toMain' = [toMain EXCEPT ![p] = q]
      \/ /\ UNCHANGED <<applied, latest>>
         /\ \E q \in Put(toMain[p], [seq |-> f.seq, ok |-> FALSE]) :
              toMain' = [toMain EXCEPT ![p] = q]
  BY DEF HandleCommand, Reply
<1> HIDE DEF f
<1> QED
  BY <1>2, <1>3, <1>4

LEMMA HandleHolds == ASSUME LinkInv, NEW p \in Peers, HandleCommand(p) PROVE LinkInv'
<1>1. PICK f \in Frame :
        /\ 1 \in 1 .. Len(toPeer[p]) /\ f = toPeer[p][1]
        /\ \/ /\ applied' = [applied EXCEPT ![p] = @ \cup {f.command}]
              /\ latest' = [latest EXCEPT ![p] = f.command]
           \/ UNCHANGED <<applied, latest>>
        /\ \E ok \in BOOLEAN : /\ ok => applied' = [applied EXCEPT ![p] = @ \cup {f.command}]
                               /\ \E q \in Put(toMain[p], [seq |-> f.seq, ok |-> ok]) :
                                    toMain' = [toMain EXCEPT ![p] = q]
        /\ toPeer' = [toPeer EXCEPT ![p] = Tail(toPeer[p])]
        /\ UNCHANGED <<now, sequence, pending, writes, outcome, dest>>
  BY CommandStep
<1>2. PICK ok \in BOOLEAN :
        /\ ok => applied' = [applied EXCEPT ![p] = @ \cup {f.command}]
        /\ \E q \in Put(toMain[p], [seq |-> f.seq, ok |-> ok]) : toMain' = [toMain EXCEPT ![p] = q]
  BY <1>1
<1> DEFINE answer == [seq |-> f.seq, ok |-> ok]
           c == f.command
<1>3. /\ c \in Commands /\ f.seq \in Sequences /\ answer \in Answer
      /\ Sent(c) /\ dest[c] = p /\ latest[p] <= c
      /\ \A tx \in pending : c <= tx.command
      /\ \A j \in 1 .. Len(toPeer[p]) : c <= toPeer[p][j].command
  BY <1>1 DEF Frame, Answer, LinkInv, FramesInOrder
<1>4. /\ toPeer' \in [Peers -> Seq(Frame)]
      /\ \A r \in Peers \ {p} : toPeer'[r] = toPeer[r]
      /\ Len(toPeer[p]) \in Nat /\ Len(toPeer'[p]) = Len(toPeer[p]) - 1
      /\ \A i \in 1 .. Len(toPeer'[p]) :
           i + 1 \in 1 .. Len(toPeer[p]) /\ toPeer'[p][i] = toPeer[p][i + 1]
  <2>1. toPeer \in [Peers -> Seq(Frame)] /\ toPeer[p] # << >>
    BY DEF LinkInv, TypeOK, HandleCommand
  <2>2. toPeer'[p] = Tail(toPeer[p])
    BY <2>1, <1>1
  <2> QED
    BY <2>1, <2>2, <1>1, TailIs
<1>5. /\ toMain' \in [Peers -> Seq(Answer)]
      /\ \A r \in Peers : \A i \in 1 .. Len(toMain'[r]) :
           \/ r = p /\ toMain'[r][i] = answer
           \/ i \in 1 .. Len(toMain[r]) /\ toMain'[r][i] = toMain[r][i]
  <2>1. toMain \in [Peers -> Seq(Answer)]
    BY DEF LinkInv, TypeOK
  <2>2. PICK q \in Put(toMain[p], answer) : toMain' = [toMain EXCEPT ![p] = q]
    BY <1>2
  <2>3. /\ q \in Seq(Answer)
        /\ \A i \in 1 .. Len(q) : \/ i \in 1 .. Len(toMain[p]) /\ q[i] = toMain[p][i]
                                  \/ i = Len(toMain[p]) + 1 /\ Len(q) = i /\ q[i] = answer
    BY <2>1, <2>2, <1>3, PutIs
  <2>4. toMain'[p] = q /\ \A r \in Peers \ {p} : toMain'[r] = toMain[r]
    BY <2>1, <2>2
  <2> QED
    BY <2>1, <2>2, <2>3, <2>4
<1>6. /\ applied' \in [Peers -> SUBSET Commands]
      /\ \A r \in Peers : applied[r] \subseteq applied'[r]
      /\ ok => c \in applied'[p]
  <2>1. applied \in [Peers -> SUBSET Commands]
    BY DEF LinkInv, TypeOK
  <2>2. CASE applied' = [applied EXCEPT ![p] = applied[p] \cup {c}]
    BY <2>1, <2>2, <1>3
  <2>3. CASE ~ok /\ applied' = applied
    BY <2>1, <2>3
  <2> QED
    BY <2>2, <2>3, <1>1, <1>2
<1>7. /\ latest' \in [Peers -> 0 .. MaxCommands]
      /\ \A r \in Peers \ {p} : latest'[r] = latest[r]
      /\ latest'[p] \in {c, latest[p]}
  <2>1. latest \in [Peers -> 0 .. MaxCommands] /\ c \in 0 .. MaxCommands
    BY <1>3 DEF LinkInv, TypeOK, Commands
  <2>2. latest' = [latest EXCEPT ![p] = c] \/ latest' = latest
    BY <1>1
  <2> HIDE DEF c
  <2> QED
    BY <2>1, <2>2
<1>8. TypeOK'
  BY <1>1, <1>4, <1>5, <1>6, <1>7 DEF LinkInv, TypeOK
<1>9. PendingIsTheOne' /\ InOrder'
  <2>1. \A tx \in pending : tx.to \in Peers /\ latest'[tx.to] <= tx.command
    BY <1>3, <1>7, PendingTypes DEF LinkInv, PendingIsTheOne
  <2> QED
    BY <2>1, <1>1 DEF LinkInv, PendingIsTheOne, InOrder, Sent
<1>10. FramesInOrder'
  <2>1. ASSUME NEW r \in Peers PROVE latest'[r] > 0 => outcome[latest'[r]] # "new"
    BY <1>3, <1>7 DEF LinkInv, FramesInOrder, Sent
  <2>2. ASSUME NEW r \in Peers, NEW i \in 1 .. Len(toPeer'[r])
        PROVE  /\ Sent(toPeer'[r][i].command) /\ dest[toPeer'[r][i].command] = r
               /\ latest'[r] <= toPeer'[r][i].command
               /\ \A j \in i .. Len(toPeer'[r]) : toPeer'[r][i].command <= toPeer'[r][j].command
               /\ \A tx \in pending : toPeer'[r][i].command <= tx.command
    <3>1. CASE r = p
      <4>1. /\ i \in Nat /\ i + 1 \in 1 .. Len(toPeer[p])
            /\ toPeer'[p][i] = toPeer[p][i + 1]
        BY <3>1, <1>4
      <4>2. \A j \in i .. Len(toPeer'[p]) :
              j + 1 \in i + 1 .. Len(toPeer[p]) /\ toPeer'[p][j] = toPeer[p][j + 1]
        BY <3>1, <4>1, <1>4
      <4>3. /\ Sent(toPeer[p][i + 1].command) /\ dest[toPeer[p][i + 1].command] = p
            /\ latest[p] <= toPeer[p][i + 1].command
            /\ \A j \in i + 1 .. Len(toPeer[p]) : toPeer[p][i + 1].command <= toPeer[p][j].command
            /\ \A tx \in pending : toPeer[p][i + 1].command <= tx.command
        BY <4>1 DEF LinkInv, FramesInOrder
      <4>4. latest'[p] <= toPeer[p][i + 1].command
        BY <4>1, <4>3, <1>3, <1>7
      <4> QED
        BY <3>1, <4>1, <4>2, <4>3, <4>4
    <3>2. CASE r # p
      <4>1. toPeer'[r] = toPeer[r] /\ latest'[r] = latest[r]
        BY <3>2, <1>4, <1>7
      <4> QED
        BY <4>1 DEF LinkInv, FramesInOrder
    <3> QED
      BY <3>1, <3>2
  <2> QED
    BY <2>1, <2>2, <1>1 DEF FramesInOrder, Sent
<1>11. ASSUME SlowRestart PROVE NumbersAreFresh'
  <2>1. NumbersAreFresh
    BY <1>11 DEF LinkInv
  <2>2. ASSUME NEW r \in Peers, NEW i \in 1 .. Len(toPeer'[r])
        PROVE  /\ toPeer'[r][i].seq < sequence
               /\ \A tx \in pending : toPeer'[r][i].seq = tx.seq => toPeer'[r][i].command = tx.command
    <3>1. PICK j \in 1 .. Len(toPeer[r]) : toPeer'[r][i] = toPeer[r][j]
      BY <1>4
    <3>2. /\ toPeer[r][j].seq < sequence
          /\ \A tx \in pending : toPeer[r][j].seq = tx.seq => toPeer[r][j].command = tx.command
      BY <2>1 DEF NumbersAreFresh
    <3> QED
      BY <3>1, <3>2
  <2>3. ASSUME NEW r \in Peers, NEW i \in 1 .. Len(toMain'[r])
        PROVE  /\ toMain'[r][i].seq < sequence
               /\ \A tx \in pending : (tx.to = r /\ toMain'[r][i].ok /\ toMain'[r][i].seq = tx.seq)
                                      => tx.command \in applied'[r]
    <3>1. CASE r = p /\ toMain'[r][i] = answer
      <4>1. /\ f.seq < sequence
            /\ \A tx \in pending : f.seq = tx.seq => c = tx.command
        BY <2>1, <1>1 DEF NumbersAreFresh
      <4> QED
        BY <3>1, <4>1, <1>6
    <3>2. CASE i \in 1 .. Len(toMain[r]) /\ toMain'[r][i] = toMain[r][i]
      BY <3>2, <2>1, <1>6 DEF NumbersAreFresh
    <3> QED
      BY <3>1, <3>2, <1>5
  <2>4. pending' = pending /\ sequence' = sequence
    BY <1>1
  <2> HIDE DEF answer, c
  <2> QED
    BY <2>2, <2>3, <2>4 DEF NumbersAreFresh
<1> QED
  BY <1>8, <1>9, <1>10, <1>11 DEF LinkInv

-----------------------------------------------------------------------------
(* The theorems. *)

LEMMA StepHolds == ASSUME LinkInv, [Next]_vars PROVE LinkInv'
<1>1. CASE UNCHANGED vars
  <2>1. TypeOK' /\ PendingIsTheOne' /\ InOrder'
    BY <1>1 DEF vars, LinkInv, TypeOK, PendingIsTheOne, InOrder, Sent
  <2>2. FramesInOrder' /\ (SlowRestart => NumbersAreFresh')
    BY <1>1 DEF vars, LinkInv, FramesInOrder, NumbersAreFresh, Sent
  <2> QED
    BY <2>1, <2>2 DEF LinkInv
<1> QED
  BY <1>1, SendHolds, RefuseHolds, QuietHolds, AnswerHolds, HandleHolds, RetransmitHolds,
     GiveUpHolds, RestartHolds DEF Next

LEMMA Invariance == Spec => []LinkInv
BY InitHolds, StepHolds, PTL DEF Spec

\* Clock, sequence numbers, retries and all that is on its way keep to their types.
THEOREM Typing == Spec => []TypeOK
<1>1. LinkInv => TypeOK
  BY DEF LinkInv
<1> QED
  BY <1>1, Invariance, PTL

\* A command is given up only after all its retries, and a refused one is never written,
\* even if restarts are quick.
THEOREM Retries == Spec => []GivenUpAfterAllRetries
<1>1. LinkInv => GivenUpAfterAllRetries
  <2> SUFFICES ASSUME LinkInv, NEW c \in Commands
               PROVE  /\ writes[c] <= 1 + MaxRetries
                      /\ outcome[c] = "failed" => writes[c] = 1 + MaxRetries
                      /\ outcome[c] = "refused" => writes[c] = 0
    BY DEF GivenUpAfterAllRetries
  <2>1. writes[c] \in 0 .. MaxRetries + 1
    BY DEF LinkInv, TypeOK
  <2>2. /\ outcome[c] = "failed" => writes[c] = MaxRetries + 1
        /\ outcome[c] = "refused" => writes[c] = 0
    BY DEF LinkInv, InOrder, Sent
  <2> QED
    BY <2>1, <2>2
<1> QED
  BY <1>1, Invariance, PTL

-----------------------------------------------------------------------------
(* The link implements the command service. *)

LEMMA InitImplements == Init => Promise!Init
BY DEF Init, Promise!Init, Promise!NoPeer

LEMMA GivenImplements ==
  ASSUME LinkInv, NEW c \in Commands, NEW p \in Peers,
         SendCommand(c, p) \/ RefuseCommand(c, p)
  PROVE  Promise!Next
<1>1. CASE SendCommand(c, p)
  <2>1. \A b \in Commands : outcome[b] # "pending"
    BY <1>1 DEF SendCommand, LinkInv, PendingIsTheOne
  <2>2. Promise!Accept(c, p)
    BY <1>1, <2>1 DEF SendCommand, Given, Promise!Accept, Promise!Upcoming, Promise!Idle
  <2> QED
    BY <2>2 DEF Promise!Next
<1>2. CASE RefuseCommand(c, p)
  <2>1. Promise!Refuse(c, p)
    BY <1>2 DEF RefuseCommand, Given, Promise!Refuse, Promise!Upcoming
  <2> QED
    BY <2>1 DEF Promise!Next
<1> QED
  BY <1>1, <1>2

\* What acknowledges a command is an answer to one of its own frames.
LEMMA AnswerImplements ==
  ASSUME LinkInv, SlowRestart, NEW p \in Peers, ReceiveAnswer(p)
  PROVE  Promise!Next \/ UNCHANGED Promise!service_vars
<1> DEFINE answer == Head(toMain[p])
<1>1. toMain[p] # << >> /\ toMain[p] \in Seq(Answer) /\ UNCHANGED <<dest, applied, latest>>
  BY DEF ReceiveAnswer, LinkInv, TypeOK
<1>2. answer = toMain[p][1] /\ 1 \in 1 .. Len(toMain[p])
  BY <1>1, TailIs
<1>3. ASSUME NEW tx \in pending, Answers(answer, p, tx), answer.ok,
             outcome' = [outcome EXCEPT ![tx.command] = "acked"]
      PROVE  Promise!Next
  <2>1. /\ tx.command \in Commands /\ outcome[tx.command] = "pending"
        /\ dest[tx.command] = tx.to /\ tx.to = p
    BY <1>3, PendingTypes DEF LinkInv, PendingIsTheOne, Answers
  <2>2. tx.command \in applied[p]
    BY <1>2, <1>3 DEF LinkInv, NumbersAreFresh, Answers
  <2>3. Promise!Acknowledge(tx.command)
    BY <1>1, <1>3, <2>1, <2>2 DEF Promise!Acknowledge
  <2> QED
    BY <2>1, <2>3 DEF Promise!Next
<1>4. \/ UNCHANGED outcome
      \/ \E tx \in pending : /\ Answers(answer, p, tx) /\ answer.ok
                             /\ outcome' = [outcome EXCEPT ![tx.command] = "acked"]
  BY DEF ReceiveAnswer
<1> QED
  BY <1>1, <1>3, <1>4 DEF Promise!service_vars

\* What a controller applies has been sent to it, and is not overtaken.
LEMMA CommandImplements ==
  ASSUME LinkInv, NEW p \in Peers, HandleCommand(p)
  PROVE  Promise!Next \/ UNCHANGED Promise!service_vars
<1> DEFINE f == Head(toPeer[p])
<1>1. toPeer[p] # << >> /\ toPeer[p] \in Seq(Frame) /\ UNCHANGED <<outcome, dest>>
  BY DEF HandleCommand, LinkInv, TypeOK
<1>2. f = toPeer[p][1] /\ 1 \in 1 .. Len(toPeer[p]) /\ f.command \in Commands
  <2>1. f = toPeer[p][1] /\ 1 \in 1 .. Len(toPeer[p])
    BY <1>1, TailIs
  <2>2. toPeer[p][1].command \in Commands
    BY <2>1, Carried DEF LinkInv
  <2> QED
    BY <2>1, <2>2
<1>3. Sent(f.command) /\ dest[f.command] = p /\ latest[p] <= f.command
  BY <1>2 DEF LinkInv, FramesInOrder
<1>4. CASE /\ applied' = [applied EXCEPT ![p] = @ \cup {f.command}]
           /\ latest' = [latest EXCEPT ![p] = f.command]
  <2>1. Promise!Apply(f.command, p)
    BY <1>1, <1>3, <1>4 DEF Promise!Apply, Sent
  <2> QED
    BY <2>1, <1>2 DEF Promise!Next
<1>5. CASE UNCHANGED <<applied, latest>>
  BY <1>1, <1>5 DEF Promise!service_vars
<1> QED
  BY <1>4, <1>5 DEF HandleCommand

LEMMA EndImplements ==
  ASSUME LinkInv, GiveUp \/ Restart
  PROVE  Promise!Next \/ UNCHANGED Promise!service_vars
<1>1. ASSUME NEW tx \in pending,
             \/ outcome' = [outcome EXCEPT ![tx.command] = "failed"]
             \/ outcome' = [outcome EXCEPT ![tx.command] = "forgotten"],
             UNCHANGED <<dest, applied, latest>>
      PROVE  Promise!Next
  <2>1. tx.command \in Commands /\ outcome[tx.command] = "pending"
    BY PendingTypes DEF LinkInv, PendingIsTheOne
  <2>2. Promise!GiveUp(tx.command)
    BY <1>1, <2>1 DEF Promise!GiveUp
  <2> QED
    BY <2>1, <2>2 DEF Promise!Next
<1>2. CASE GiveUp
  BY <1>1, <1>2 DEF GiveUp
<1>3. CASE Restart
  <2>1. /\ outcome \in [Commands -> {"new", "pending", "acked", "failed", "refused", "forgotten"}]
        /\ outcome' = [c \in Commands |->
                         IF outcome[c] = "pending" THEN "forgotten" ELSE outcome[c]]
        /\ UNCHANGED <<dest, applied, latest>>
    BY <1>3 DEF Restart, LinkInv, TypeOK
  <2>2. CASE pending = {}
    <3>1. \A c \in Commands : outcome[c] # "pending"
      BY <2>2 DEF LinkInv, PendingIsTheOne
    <3>2. outcome' = outcome
      BY <2>1, <3>1
    <3> QED
      BY <2>1, <3>2 DEF Promise!service_vars
  <2>3. ASSUME NEW tx \in pending PROVE Promise!Next
    <3>1. \A c \in Commands : outcome[c] = "pending" <=> c = tx.command
      BY PendingTypes DEF LinkInv, PendingIsTheOne
    <3>2. outcome' = [outcome EXCEPT ![tx.command] = "forgotten"]
      BY <2>1, <3>1
    <3> QED
      BY <2>1, <3>2, <1>1
  <2> QED
    BY <2>2, <2>3
<1> QED
  BY <1>2, <1>3

LEMMA StepImplements ==
  ASSUME LinkInv, SlowRestart, [Next]_vars
  PROVE  [Promise!Next]_(Promise!service_vars)
<1>1. CASE UNCHANGED vars \/ SendPlain \/ Retransmit \/ \E d \in 1 .. MaxStep : Tick(d)
  <2>1. UNCHANGED <<outcome, dest, applied, latest>>
    BY <1>1 DEF vars, SendPlain, Retransmit, Tick
  <2> QED
    BY <2>1 DEF Promise!service_vars
<1> QED
  BY <1>1, GivenImplements, AnswerImplements, CommandImplements, EndImplements DEF Next

\* When restarts outlast the frames on their way, the link with its retries, lost frames
\* and late answers keeps the promises of the command service: acknowledged means applied,
\* nothing newer is overtaken by a retry, a refused command has no effect.
THEOREM Refinement == ASSUME SlowRestart PROVE Spec => ImplementsService
<1>1. LinkInv /\ [Next]_vars => [Promise!Next]_(Promise!service_vars)
  BY StepImplements
<1> QED
  BY <1>1, InitImplements, Invariance, PTL DEF Spec, ImplementsService, Promise!Spec
=============================================================================
