------------------------------ MODULE NodeLink ------------------------------
(***************************************************************************)
(* Acknowledged commands over a lossy serial link: the sending side of     *)
(* bike::BikeNode (send, handle_control_packet, service) on the main       *)
(* computer, and the command loops of the southbridge controllers, which   *)
(* apply a command and then answer ACK or NACK.                            *)
(*                                                                         *)
(* The northbridge forwards in order, so each direction between the main   *)
(* computer and one controller is a FIFO of whole frames; a frame is lost  *)
(* when a byte of it is lost or damaged (its CRC fails) or a buffer is     *)
(* full.  Nothing on the way duplicates a frame: only retries do.          *)
(*                                                                         *)
(* outcome, dest, applied and latest are history: they number the commands *)
(* given to send() and remember what became of each.                       *)
(***************************************************************************)
EXTENDS Integers, Sequences

CONSTANTS
  Peers,          \* the controllers that take commands
  MaxCommands,    \* bound: acknowledged commands given in a behaviour
  MaxSequence,    \* bound: sequence numbers used up between two restarts
  QueueBound,     \* frames a direction holds; a frame written to a full one is lost
  MaxRetries,     \* max_retries_
  AckTimeout,     \* ack_timeout_ms_
  ClockMod,       \* the clock wraps to 0 after ClockMod - 1
  MaxStep,        \* the longest clock step between two looks at it
  SlowRestart     \* whether a restart takes longer than frames are on their way

ASSUME LinkAssumption ==
  /\ MaxCommands \in Nat /\ MaxSequence \in Nat /\ QueueBound \in Nat
  /\ MaxRetries \in Nat
  /\ AckTimeout \in Nat /\ ClockMod \in Nat /\ MaxStep \in Nat
  /\ MaxStep < ClockMod /\ AckTimeout + MaxStep < ClockMod
  /\ SlowRestart \in BOOLEAN

VARIABLES
  now,        \* now_ms
  sequence,   \* sequence_
  pending,    \* pending_: the empty set while inactive, else one record
  toPeer,     \* frames on their way to each controller
  toMain,     \* answers on their way back from each controller
  writes,     \* history: how often each command's frame has been written
  outcome, dest, applied, latest

vars == <<now, sequence, pending, toPeer, toMain, writes,
          outcome, dest, applied, latest>>

Commands  == 1 .. MaxCommands
Sequences == 1 .. MaxSequence
Clock     == 0 .. ClockMod - 1
PendingTx == [command : Commands, seq : Sequences, to : Peers,
              sent_at : Clock, retries : 0 .. MaxRetries]
Frame     == [seq : Sequences, command : Commands]
Answer    == [seq : Sequences, ok : BOOLEAN]

\* Mutants of the clock arithmetic: a signed difference, a clock that does not wrap.
SignedElapsed(since) == now - since
UnwrappedLater(d) == now + d

Elapsed(since) == IF now >= since THEN now - since ELSE now - since + ClockMod
Later(d) == IF now + d < ClockMod THEN now + d ELSE now + d - ClockMod

-----------------------------------------------------------------------------
Init ==
  /\ now = 0
  /\ sequence = 1
  /\ pending = {}
  /\ toPeer = [p \in Peers |-> << >>]
  /\ toMain = [p \in Peers |-> << >>]
  /\ writes = [c \in Commands |-> 0]
  /\ outcome = [c \in Commands |-> "new"]
  /\ dest = [c \in Commands |-> "nobody"]
  /\ applied = [p \in Peers |-> {}]
  /\ latest = [p \in Peers |-> 0]

\* What a direction may hold after a frame is written to it: carried or lost.
Put(queue, frame) ==
  {queue} \cup (IF Len(queue) < QueueBound THEN {Append(queue, frame)} ELSE {})

\* next_sequence.  The bound stands for the wrap at 2^16, which skips 0.
NextSequence ==
  /\ sequence <= MaxSequence
  /\ sequence' = sequence + 1

-----------------------------------------------------------------------------
(* The sender. *)

Given(c, p, what) ==
  /\ outcome[c] = "new"
  /\ \A b \in Commands : b < c => outcome[b] # "new"
  /\ outcome' = [outcome EXCEPT ![c] = what]
  /\ dest' = [dest EXCEPT ![c] = p]

\* send(packet, now, require_ack = true), written to the transport
SendCommand(c, p) ==
  /\ pending = {}
  /\ NextSequence
  /\ pending' = {[command |-> c, seq |-> sequence, to |-> p, sent_at |-> now, retries |-> 0]}
  /\ \E q \in Put(toPeer[p], [seq |-> sequence, command |-> c]) :
       toPeer' = [toPeer EXCEPT ![p] = q]
  /\ writes' = [writes EXCEPT ![c] = 1]
  /\ Given(c, p, "pending")
  /\ UNCHANGED <<now, toMain, applied, latest>>

\* send returns false because a command is pending or the write failed; the
\* sequence number is used up all the same.
RefuseCommand(c, p) ==
  /\ NextSequence
  /\ Given(c, p, "refused")
  /\ UNCHANGED <<now, pending, toPeer, toMain, writes, applied, latest>>

\* send(packet, now, require_ack = false): discovery, heartbeats, state requests
SendPlain ==
  /\ NextSequence
  /\ UNCHANGED <<now, pending, toPeer, toMain, writes, outcome, dest, applied, latest>>

\* Mutant: any answer of the controller will do.
AnswersAnything(answer, p, tx) == tx.to = p

\* The answer is to the pending command.
Answers(answer, p, tx) == tx.seq = answer.seq /\ tx.to = p

\* handle_control_packet, for the next answer from p
ReceiveAnswer(p) ==
  /\ toMain[p] # << >>
  /\ toMain' = [toMain EXCEPT ![p] = Tail(@)]
  /\ LET answer  == Head(toMain[p])
         matches == {tx \in pending : Answers(answer, p, tx)}
     IN  \/ /\ matches = {}
            /\ UNCHANGED <<pending, outcome>>
         \/ \E tx \in matches :
              /\ answer.ok
              /\ pending' = {}
              /\ outcome' = [outcome EXCEPT ![tx.command] = "acked"]
         \/ \E tx \in matches :
              /\ ~answer.ok
              /\ pending' = {[tx EXCEPT !.sent_at = 0]}
              /\ UNCHANGED outcome
  /\ UNCHANGED <<now, sequence, toPeer, writes, dest, applied, latest>>

TimedOut(tx) == Elapsed(tx.sent_at) >= AckTimeout

\* Mutant: the last retry is not made.
ExhaustedEarly(tx) == tx.retries + 1 >= MaxRetries

Exhausted(tx) == tx.retries >= MaxRetries

\* service: the next retry; a failed write leaves everything as it is
Retransmit ==
  \E tx \in pending :
    /\ TimedOut(tx) /\ ~Exhausted(tx)
    /\ pending' = {[tx EXCEPT !.retries = @ + 1, !.sent_at = now]}
    /\ \E q \in Put(toPeer[tx.to], [seq |-> tx.seq, command |-> tx.command]) :
         toPeer' = [toPeer EXCEPT ![tx.to] = q]
    /\ writes' = [writes EXCEPT ![tx.command] = @ + 1]
    /\ UNCHANGED <<now, sequence, toMain, outcome, dest, applied, latest>>

\* service: the retries are used up, ++tx_failures_
GiveUp ==
  \E tx \in pending :
    /\ TimedOut(tx) /\ Exhausted(tx)
    /\ pending' = {}
    /\ outcome' = [outcome EXCEPT ![tx.command] = "failed"]
    /\ UNCHANGED <<now, sequence, toPeer, toMain, writes, dest, applied, latest>>

\* The main computer's process starts anew, with sequence 1 again: open_device
\* flushes the answers that have come in.  In a slow restart the frames on their way
\* to the controllers have been handled by then.
Restart ==
  /\ SlowRestart => \A p \in Peers : toPeer[p] = << >>
  /\ toMain' = [p \in Peers |-> << >>]
  /\ sequence' = 1
  /\ pending' = {}
  /\ outcome' = [c \in Commands |->
                   IF outcome[c] = "pending" THEN "forgotten" ELSE outcome[c]]
  /\ UNCHANGED <<now, toPeer, writes, dest, applied, latest>>

Tick(d) ==
  /\ now' = Later(d)
  /\ UNCHANGED <<sequence, pending, toPeer, toMain, writes, outcome, dest, applied, latest>>

-----------------------------------------------------------------------------
(* A controller: handle_packet applies the command, or rejects it, then answers. *)

Reply(p, ok) ==
  \E q \in Put(toMain[p], [seq |-> Head(toPeer[p]).seq, ok |-> ok]) :
    toMain' = [toMain EXCEPT ![p] = q]

HandleCommand(p) ==
  /\ toPeer[p] # << >>
  /\ toPeer' = [toPeer EXCEPT ![p] = Tail(@)]
  /\ \/ /\ applied' = [applied EXCEPT ![p] = @ \cup {Head(toPeer[p]).command}]
        /\ latest' = [latest EXCEPT ![p] = Head(toPeer[p]).command]
        /\ Reply(p, TRUE)
     \/ /\ Reply(p, FALSE)
        /\ UNCHANGED <<applied, latest>>
  /\ UNCHANGED <<now, sequence, pending, writes, outcome, dest>>

Next ==
  \/ \E c \in Commands, p \in Peers : SendCommand(c, p) \/ RefuseCommand(c, p)
  \/ SendPlain
  \/ \E p \in Peers : ReceiveAnswer(p) \/ HandleCommand(p)
  \/ Retransmit
  \/ GiveUp
  \/ Restart
  \/ \E d \in 1 .. MaxStep : Tick(d)

Spec == Init /\ [][Next]_vars

\* The sender's loop calls service() again and again while the clock advances, and
\* the transport does not fail for ever.
LoopRuns ==
  /\ SF_vars(Retransmit)
  /\ SF_vars(GiveUp)
  /\ WF_vars(Tick(1))

FairSpec == Spec /\ LoopRuns

-----------------------------------------------------------------------------
(* Properties. *)

TypeOK ==
  /\ now \in Clock
  /\ sequence \in 1 .. MaxSequence + 1
  /\ pending \subseteq PendingTx
  /\ toPeer \in [Peers -> Seq(Frame)]
  /\ toMain \in [Peers -> Seq(Answer)]
  /\ writes \in [Commands -> 0 .. MaxRetries + 1]
  /\ outcome \in [Commands -> {"new", "pending", "acked", "failed", "refused", "forgotten"}]
  /\ dest \in [Commands -> Peers \cup {"nobody"}]
  /\ applied \in [Peers -> SUBSET Commands]
  /\ latest \in [Peers -> 0 .. MaxCommands]

\* A command is given up only after its frame has been written once and then as
\* often as max_retries says, however NACKs, late answers, clock wrap and failed
\* writes mix; and it is never written more often than that.
GivenUpAfterAllRetries ==
  \A c \in Commands :
    /\ writes[c] <= 1 + MaxRetries
    /\ outcome[c] = "failed" => writes[c] = 1 + MaxRetries
    /\ outcome[c] = "refused" => writes[c] = 0

\* The refinement mapping: the sender's records of its commands and what the controllers
\* have applied are the service's variables; frames, sequence numbers, timers and
\* retries are hidden.
Promise == INSTANCE CommandService
  WITH Peers <- Peers, Commands <- Commands,
       outcome <- outcome, dest <- dest, applied <- applied, latest <- latest

\* The link implements the command service: acknowledged means applied, a newer
\* command is never overtaken by a retry of an older one, a refused one has no
\* effect.
ImplementsService == Promise!Spec

\* Every accepted command is settled: acknowledged or given up, even if every
\* frame is lost.
PendingIsSettled ==
  \A c \in Commands : outcome[c] = "pending" ~> outcome[c] # "pending"
=============================================================================
