----------------------------- MODULE Supervision ----------------------------
(***************************************************************************)
(* bike::NetworkSupervisor in the loop of the main computer, over the      *)
(* required nodes and a link that may lose any frame.                      *)
(*                                                                         *)
(* One pass of the loop reads the clock (Wake), observes the packets that  *)
(* have arrived (Observe) and ends with the supervisor's service()         *)
(* (Service).  Nodes lose power and answer at any moment.  A node's        *)
(* controller answers broadcasts; the northbridge runtime forwards a       *)
(* broadcast and answers only what is addressed to it.                     *)
(*                                                                         *)
(* online and last_seen_ms of an entry are one variable here: the          *)
(* timestamp while online, else NotOnline.  Frames on their way form sets: *)
(* a second copy of a request or an answer changes nothing here.           *)
(***************************************************************************)
EXTENDS Integers, FiniteSets

CONSTANTS
  Nodes,               \* the required nodes
  AnswersBroadcast,    \* those whose firmware answers a broadcast
  Compatible,          \* those that speak this protocol version
  ClockMod, MaxStep,
  HeartbeatInterval, OfflineTimeout, RediscoveryInterval,
  WriteResults,        \* {TRUE}, or BOOLEAN when node_.send may fail
  Unasked              \* kinds of packet the nodes send without being asked

ASSUME SupervisionAssumption ==
  /\ AnswersBroadcast \subseteq Nodes /\ Compatible \subseteq Nodes
  /\ ClockMod \in Nat /\ MaxStep \in Nat /\ MaxStep < ClockMod
  /\ \A t \in {HeartbeatInterval, OfflineTimeout, RediscoveryInterval} :
       t \in Nat \ {0} /\ t + MaxStep < ClockMod
  /\ TRUE \in WriteResults /\ WriteResults \subseteq BOOLEAN
  /\ Unasked \subseteq {"fault", "other"}

VARIABLES
  now, phase,
  last_seen,       \* of each entry, or NotOnline
  identified,      \* identity_valid
  faulty,          \* fault_count > 0
  required_fault,  \* required_node_fault_
  heartbeat_tx, discovery_tx,   \* last_heartbeat_tx_ms_ and last_discovery_tx_ms_
  asked,           \* requests on their way to the nodes
  arriving,        \* packets in the receive buffer of the main computer
  powered,         \* the nodes that run
  silence,         \* history: ms since a packet of the node was observed
  idle_tx          \* history: ms since the last try to send a heartbeat, and since a
                   \* discovery was last tried or a pass began with nobody missing

vars == <<now, phase, last_seen, identified, faulty, required_fault, heartbeat_tx,
          discovery_tx, asked, arriving, powered, silence, idle_tx>>
link == <<asked, arriving, powered>>
book == <<last_seen, identified, faulty, required_fault, heartbeat_tx, discovery_tx>>

Clock     == 0 .. ClockMod - 1
NotOnline == -1
Requests  == {"heartbeat", "discovery", "state"}
Packets   == [from : Nodes, kind : {"info", "fault", "other"}]

\* Mutant of the clock arithmetic: a signed difference.
SignedElapsed(since) == now - since

Elapsed(since) == IF now >= since THEN now - since ELSE now - since + ClockMod
Later(d) == IF now + d < ClockMod THEN now + d ELSE now + d - ClockMod
AtMost(cap, n) == IF n < cap THEN n ELSE cap

-----------------------------------------------------------------------------
\* update_health.  Degraded, for a fault ever seen, does not count as missing.
Health(seen, known, faults, n) ==
  IF seen[n] = NotOnline THEN "Offline"
  ELSE IF known[n] /\ n \notin Compatible THEN "Incompatible"
  ELSE IF faults[n] THEN "Degraded"
  ELSE "Online"

Online(n) == last_seen[n] # NotOnline

To(nodes, kind) == {[to |-> n, kind |-> kind] : n \in nodes}

\* request_all_states: unicast, so the northbridge is asked too
AskStates == To(Nodes, "state")

\* The constructor and begin(): everything is asked once.
Init ==
  /\ now = 0 /\ phase = "idle"
  /\ last_seen = [n \in Nodes |-> NotOnline]
  /\ identified = [n \in Nodes |-> FALSE]
  /\ faulty = [n \in Nodes |-> FALSE]
  /\ required_fault = FALSE
  /\ heartbeat_tx = 0 /\ discovery_tx = 0
  /\ asked = To(Nodes, "discovery") \cup To(Nodes, "heartbeat") \cup AskStates
  /\ arriving = {}
  /\ powered = Nodes
  /\ silence = [n \in Nodes |-> OfflineTimeout]
  /\ idle_tx = [heartbeat |-> 0, discovery |-> 0]

\* The next pass begins, d ms after the last and "undiscovered" ms after a discovery.
NextPass(d, undiscovered) ==
  /\ phase = "idle" /\ phase' = "poll"
  /\ now' = Later(d)
  /\ silence' = [n \in Nodes |-> AtMost(OfflineTimeout, silence[n] + d)]
  /\ idle_tx' = [heartbeat |-> AtMost(HeartbeatInterval + MaxStep, idle_tx.heartbeat + d),
                 discovery |-> AtMost(RediscoveryInterval + MaxStep, undiscovered)]

Wake(d) == NextPass(d, idle_tx.discovery + d) /\ UNCHANGED <<book, link>>

\* "diag scan" on the console, e ms after a pass, and the next pass: send_discovery,
\* whatever is missing.  One that cannot be written changes nothing.
Scan(e, d) ==
  /\ NextPass(d, d - e)
  /\ discovery_tx' = Later(e)
  /\ asked' = asked \cup To(Nodes, "discovery")
  /\ UNCHANGED <<last_seen, identified, faulty, required_fault, heartbeat_tx, arriving, powered>>

\* dispatch: observe
Observe(p) ==
  /\ phase = "poll"
  /\ p \in arriving
  /\ arriving' = arriving \ {p}
  /\ last_seen' = [last_seen EXCEPT ![p.from] = now]
  /\ identified' = [identified EXCEPT ![p.from] = @ \/ p.kind = "info"]
  /\ faulty' = [faulty EXCEPT ![p.from] = @ \/ p.kind = "fault"]
  /\ silence' = [silence EXCEPT ![p.from] = 0]
  /\ UNCHANGED <<now, phase, required_fault, heartbeat_tx, discovery_tx, asked,
                 powered, idle_tx>>

\* Mutant: one tick late.
DueLate(since, interval) == Elapsed(since) > interval

Due(since, interval) == Elapsed(since) >= interval

\* Mutant: an entry once online stays so.
OnlineForEver(n) == Online(n)

StillOnline(n) == Online(n) /\ ~Due(last_seen[n], OfflineTimeout)

\* service(): the heartbeat first, then every entry, then the rediscovery
Service ==
  /\ phase = "poll" /\ phase' = "idle"
  /\ last_seen' = [n \in Nodes |-> IF StillOnline(n) THEN last_seen[n] ELSE NotOnline]
  /\ required_fault' = (\E n \in Nodes :
       Health(last_seen', identified, faulty, n) \in {"Offline", "Incompatible"})
  /\ \E beat, find \in WriteResults :
       LET beats == Due(heartbeat_tx, HeartbeatInterval)
           finds == required_fault' /\ Due(discovery_tx, RediscoveryInterval)
       IN  /\ heartbeat_tx' = IF beats /\ beat THEN now ELSE heartbeat_tx
           /\ discovery_tx' = IF finds /\ find THEN now ELSE discovery_tx
           /\ asked' = asked \cup (IF beats /\ beat THEN To(Nodes, "heartbeat") ELSE {})
                             \cup (IF finds /\ find THEN To(Nodes, "discovery") ELSE {})
           /\ idle_tx' = [heartbeat |-> IF beats THEN 0 ELSE idle_tx.heartbeat,
                          discovery |-> IF finds \/ ~required_fault THEN 0
                                        ELSE idle_tx.discovery]
  /\ UNCHANGED <<now, identified, faulty, arriving, powered, silence>>

\* "refresh" on the console
Refresh ==
  /\ phase = "idle"
  /\ asked' = asked \cup AskStates
  /\ UNCHANGED <<now, phase, book, arriving, powered, silence, idle_tx>>

-----------------------------------------------------------------------------
(* The nodes and the link. *)

\* handle_system_packet of a controller, handle_local_packet of the northbridge
Answered(r) == r.kind = "state" \/ r.to \in AnswersBroadcast

Answer(r) == [from |-> r.to, kind |-> IF r.kind = "discovery" THEN "info" ELSE "other"]

\* "delivered": the answer, if there is one, is not lost
NodeHandles(r, delivered) ==
  /\ r \in asked /\ r.to \in powered
  /\ asked' = asked \ {r}
  /\ arriving' = IF delivered /\ Answered(r) THEN arriving \cup {Answer(r)} ELSE arriving
  /\ UNCHANGED <<now, phase, book, powered, silence, idle_tx>>

NodeSends(n, kind) ==
  /\ n \in powered
  /\ arriving' = arriving \cup {[from |-> n, kind |-> kind]}
  /\ UNCHANGED <<now, phase, book, asked, powered, silence, idle_tx>>

FrameLost(r) ==
  /\ r \in asked
  /\ asked' = asked \ {r}
  /\ UNCHANGED <<now, phase, book, arriving, powered, silence, idle_tx>>

PowerChanges(n) ==
  /\ powered' = IF n \in powered THEN powered \ {n} ELSE powered \cup {n}
  /\ UNCHANGED <<now, phase, book, asked, arriving, silence, idle_tx>>

Next ==
  \/ \E d \in 0 .. MaxStep : Wake(d) \/ \E e \in 0 .. d : Scan(e, d)
  \/ \E p \in arriving : Observe(p)
  \/ Service
  \/ Refresh
  \/ \E r \in asked, delivered \in BOOLEAN : NodeHandles(r, delivered)
  \/ \E n \in Nodes, kind \in Unasked : NodeSends(n, kind)
  \/ \E r \in asked : FrameLost(r)
  \/ \E n \in Nodes : PowerChanges(n)

Spec == Init /\ [][Next]_vars

Beat(n) == [to |-> n, kind |-> "heartbeat"]

\* A pass whose heartbeat was due and written.
BeatWritten == Service /\ Due(heartbeat_tx, HeartbeatInterval) /\ heartbeat_tx' = now

\* The clock has advanced by the next pass.
TimePasses == \E d \in 1 .. MaxStep : Wake(d) \/ \E e \in 0 .. d : Scan(e, d)

\* The main computer's loop runs, reads what has arrived, and its clock advances.  The
\* transport and the link are lossy but not dead: of the heartbeats tried again and
\* again some are written, of those to a node that runs some get through, and their
\* answers come back.
FairSpec ==
  /\ Spec
  /\ WF_vars(Service)
  /\ SF_vars(BeatWritten)
  /\ SF_vars(TimePasses)
  /\ \A n \in Nodes :
       /\ SF_vars(NodeHandles(Beat(n), TRUE))
       /\ SF_vars(\E p \in arriving : p.from = n /\ Observe(p))

-----------------------------------------------------------------------------
(* Properties. *)

TypeOK ==
  /\ now \in Clock /\ phase \in {"idle", "poll"}
  /\ last_seen \in [Nodes -> Clock \cup {NotOnline}]
  /\ identified \in [Nodes -> BOOLEAN] /\ faulty \in [Nodes -> BOOLEAN]
  /\ required_fault \in BOOLEAN
  /\ heartbeat_tx \in Clock /\ discovery_tx \in Clock
  /\ asked \subseteq [to : Nodes, kind : Requests]
  /\ arriving \subseteq Packets
  /\ powered \subseteq Nodes
  /\ silence \in [Nodes -> 0 .. OfflineTimeout]
  /\ idle_tx \in [heartbeat : 0 .. HeartbeatInterval + MaxStep,
                 discovery : 0 .. RediscoveryInterval + MaxStep]

\* After every pass a node is online exactly if a packet of it was observed within
\* the offline timeout, clock wrap and late frames included.
OnlineMeansHeard ==
  phase = "idle" => \A n \in Nodes : Online(n) <=> silence[n] < OfflineTimeout

\* The supervisor never stops asking, whatever writes have failed: no pass ends with
\* the last try to send a heartbeat an interval ago, nor with a required node missing
\* for an interval and no discovery tried.  Only where the age of a last success wraps,
\* after writes have failed for a whole turn of the clock, may a try be a step late.
NeverStopsAsking ==
  phase = "idle" =>
    /\ idle_tx.heartbeat < HeartbeatInterval + MaxStep
    /\ required_fault => idle_tx.discovery < RediscoveryInterval + MaxStep

\* A node that has lost power for good is noticed for good, whatever it had sent.
DeadNodeIsNoticed ==
  \A n \in Nodes : <>[](n \notin powered) => <>[]required_fault

\* A controller that runs, or runs again after a failure, is seen again and again.
LiveNodeIsSeen ==
  \A n \in AnswersBroadcast : <>[](n \in powered) => []<>Online(n)

\* What the main computer's README says it does for the northbridge, too.
NorthbridgeIsSeen ==
  \A n \in Nodes \ AnswersBroadcast : <>[](n \in powered) => []<>Online(n)
=============================================================================
