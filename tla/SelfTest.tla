------------------------------ MODULE SelfTest ------------------------------
(***************************************************************************)
(* The integrated self test of the main computer: diag::SelfTestRunner fed *)
(* by the packet observer of bike::MotorcycleComputer::dispatch, which     *)
(* runs between the supervisor and the decoders that keep the snapshot.    *)
(*                                                                         *)
(* One pass of the loop reads the clock (Wake), dispatches the packets     *)
(* that have arrived (Dispatch), lets the supervisor and the runner look   *)
(* for timeouts (Service) and then reads one line of the console, at a     *)
(* later time (Begin, Report or NoCommand).                                *)
(*                                                                         *)
(* The runner does not correlate answers with requests and the nodes also  *)
(* send their state unasked, so a packet of any node may be dispatched at  *)
(* any time.  Which nodes time out is the subject of Supervision; here any *)
(* may.                                                                    *)
(***************************************************************************)
EXTENDS Integers, Sequences

CONSTANTS
  Northbridge, Lighting, Security,   \* addresses
  Incompatible,                      \* nodes with another protocol version
  ClockMod, MaxStep,
  Timeout,                           \* ms an answer may take
  Shapes                             \* payloads the nodes send: too "short", "whole",
                                     \* or with more than the decoders expect, "long"

Nodes == {Northbridge, Lighting, Security}

ASSUME SelfTestAssumption ==
  /\ Incompatible \subseteq Nodes
  /\ Northbridge # Lighting /\ Lighting # Security /\ Security # Northbridge
  /\ MaxStep \in Nat \ {0} /\ Timeout \in Nat
  /\ ClockMod \in Nat /\ Timeout + MaxStep < ClockMod
  /\ Shapes \subseteq {"short", "whole", "long"}

VARIABLES
  now, phase,
  active, report_ready,
  index,       \* the item that waits for its answer
  started,     \* when its request was sent
  results,     \* of each item
  online,      \* the nodes the supervisor holds to be online
  run_age,     \* history: ms since the run began
  shown        \* history: nodes whose snapshot was replaced since the run began

vars == <<now, phase, active, report_ready, index, started, results, online,
          run_age, shown>>
runner == <<active, report_ready, index, started, results>>

\* items_: whom is asked, and the type of packet that counts as the answer
items ==
  <<[node |-> Northbridge, response |-> "Diagnostic"],
    [node |-> Lighting,    response |-> "StateUpdate"],
    [node |-> Security,    response |-> "SecurityState"]>>

Items == DOMAIN items

Types == {"Diagnostic", "StateUpdate", "SecurityState", "other"}

Packets == [source : Nodes, type : Types, shape : Shapes]

AgeCap == Len(items) * (Timeout + MaxStep) + 1

\* Mutant: a signed difference.
SignedElapsed(since) == now - since

Elapsed(since) == IF now >= since THEN now - since ELSE now - since + ClockMod
Later(d) == IF now + d < ClockMod THEN now + d ELSE now + d - ClockMod

Ageing(d) == run_age' = IF run_age + d < AgeCap THEN run_age + d ELSE AgeCap

Init ==
  /\ now = 0 /\ phase = "idle"
  /\ active = FALSE /\ report_ready = FALSE
  /\ index = 1 /\ started = 0
  /\ results = [i \in Items |-> "Pending"]
  /\ online = {}
  /\ run_age = 0 /\ shown = {}

\* One pass of the loop begins.
Wake(d) ==
  /\ phase = "idle" /\ phase' = "poll"
  /\ now' = Later(d)
  /\ Ageing(d)
  /\ UNCHANGED <<runner, online, shown>>

-----------------------------------------------------------------------------
(* SelfTestRunner. *)

\* start_next from item `from' on, at time `at', with the verdicts given so far: an
\* item whose node is not online or not compatible, or whose request is not written,
\* fails at once; the first of the others waits for its answer, or the run is over.
StartNext(from, verdicts, at) ==
  \E written \in SUBSET Items, next \in from .. Len(items) + 1 :
    LET Asked(i) == /\ items[i].node \in online' \ Incompatible
                    /\ i \in written
    IN  /\ \A i \in from .. next - 1 : ~Asked(i)
        /\ next \in Items => Asked(next)
        /\ index' = next
        /\ results' = [i \in Items |-> IF i \in from .. next - 1 THEN "Fail" ELSE verdicts[i]]
        /\ active' = (next \in Items)
        /\ report_ready' = (next \notin Items)
        /\ started' = IF next \in Items THEN at ELSE started

\* Mutant: any packet of the node answers.
AnyPacketMatches(p) == p.source = items[index].node

\* The packet counts as the answer the current item waits for.
Matches(p) == p.source = items[index].node /\ p.type = items[index].response

\* The runner asks for a least length; degraded nodes, and a northbridge that has dropped
\* packets, pass with a warning.
Verdicts(p) == IF p.shape = "short" THEN {"Fail"} ELSE {"Pass", "Warn"}

observe(p) ==
  IF active /\ Matches(p)
  THEN \E verdict \in Verdicts(p) :
         StartNext(index + 1, [results EXCEPT ![index] = verdict], now)
  ELSE UNCHANGED runner

TimedOut == active /\ Elapsed(started) > Timeout

service ==
  IF TimedOut
  THEN StartNext(index + 1, [results EXCEPT ![index] = "Fail"], now)
  ELSE UNCHANGED runner

-----------------------------------------------------------------------------
(* MotorcycleComputer. *)

\* The decoders ask for the exact length, and for values in range; an answer that is
\* "whole" has both, as have all that the nodes send.
decode_lighting_state(p) == p.source = Lighting /\ p.type = "StateUpdate" /\ p.shape = "whole"
decode_security_state(p) == p.source = Security /\ p.type = "SecurityState" /\ p.shape = "whole"
decode_northbridge_diagnostics(p) ==
  p.source = Northbridge /\ p.type = "Diagnostic" /\ p.shape = "whole"

\* The packet replaces the node's part of the snapshot.
Decoded(p) ==
  \/ decode_lighting_state(p)
  \/ decode_northbridge_diagnostics(p)
  \/ decode_security_state(p)

\* dispatch: the supervisor, the observer, the decoders
Dispatch(p) ==
  /\ phase = "poll"
  /\ online' = online \cup {p.source}
  /\ observe(p)
  /\ shown' = IF Decoded(p) THEN shown \cup {p.source} ELSE shown
  /\ UNCHANGED <<now, phase, run_age>>

\* The supervisor gives up silent nodes, then the runner looks at its clock.
Service ==
  /\ phase = "poll" /\ phase' = "console"
  /\ online' \in SUBSET online
  /\ service
  /\ UNCHANGED <<now, run_age, shown>>

\* "diag selftest", d after the clock was read for this pass
Begin(d) ==
  /\ phase = "console" /\ phase' = "idle"
  /\ ~active
  /\ now' = Later(d)
  /\ online' = online
  /\ StartNext(1, [i \in Items |-> "Pending"], now')
  /\ run_age' = 0 /\ shown' = {}

\* "diag report" consumes the report.
Report ==
  /\ phase = "console" /\ phase' = "idle"
  /\ ~active /\ report_ready
  /\ report_ready' = FALSE
  /\ UNCHANGED <<now, active, index, started, results, online, run_age, shown>>

NoCommand ==
  /\ phase = "console" /\ phase' = "idle"
  /\ UNCHANGED <<now, runner, online, run_age, shown>>

Next ==
  \/ \E d \in 0 .. MaxStep : Wake(d) \/ Begin(d)
  \/ \E p \in Packets : Dispatch(p)
  \/ Service
  \/ Report
  \/ NoCommand

Spec == Init /\ [][Next]_vars

-----------------------------------------------------------------------------
(* Properties. *)

\* A run never hangs, whatever arrives, goes offline or cannot be written, and across
\* clock wrap: a pass ends with item i waiting only within the time the items before
\* it and its own timeout may take, and with no item waiting once every item is judged.
RunIsBounded ==
  (phase # "poll" /\ active) =>
    /\ index \in Items /\ results[index] = "Pending"
    /\ run_age <= (index - 1) * (Timeout + MaxStep) + Timeout

\* A report leaves no item open, and an item it passes is one whose node's part of the
\* snapshot was replaced during the run: what "diag report" says was heard is also what
\* "status" shows, although runner and decoders judge each packet on their own.  (With
\* answers longer than the decoders expect, which no node of this repository sends, the
\* two disagree.)
ReportIsEarned ==
  report_ready =>
    \A i \in Items :
      /\ results[i] # "Pending"
      /\ results[i] # "Fail" => items[i].node \in shown
=============================================================================
