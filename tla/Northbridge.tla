----------------------------- MODULE Northbridge ----------------------------
(***************************************************************************)
(* The ESP32-S3 northbridge: bike::NorthbridgeRuntime over                 *)
(* bike::NorthbridgeRouter, after the setup() of the firmware has attached *)
(* the ports and bound the nodes.                                          *)
(*                                                                         *)
(* Each action is one pass of service_port's loop body for one complete    *)
(* packet.  Any attached port may deliver any packet at any moment, from   *)
(* the node that belongs there, from one that does not, or from a          *)
(* stranger, and writes to some ports may fail meanwhile.  The time a      *)
(* route was last seen and the byte and malformed-frame counters, which no *)
(* decision here reads, are left out.                                      *)
(***************************************************************************)
EXTENDS Integers, FiniteSets, FiniteSetsExt

CONSTANTS
  Ports,         \* the attached ports
  TableSize,     \* kMaxRouterPorts, the number of entries in the route table
  Sources,       \* the addresses packets may carry as their source
  MainComputer, SelfAddress, Broadcast,   \* NodeAddress values
  Bindings,      \* bind_node: the nodes bound to a port, and that port
  Enforced,      \* topology_enforced_
  Kinds,         \* message types told apart below; "other" stands for the rest
  Outages,       \* the sets of ports writes to which may fail during a packet
  NoRoute,       \* an inactive entry of the route table
  MaxPackets     \* bound: packets received in a behaviour

Addresses == Sources \cup {SelfAddress, Broadcast}
Slots     == 1 .. TableSize
Entry     == [address : Addresses, port : Ports]

ASSUME NetworkAssumption ==
  /\ IsFiniteSet(Ports) /\ Ports \subseteq Nat
  /\ TableSize \in Nat /\ MaxPackets \in Nat
  /\ MainComputer \in Sources
  /\ SelfAddress # Broadcast
  /\ Broadcast \notin DOMAIN Bindings
  /\ DOMAIN Bindings \subseteq Sources /\ Bindings \in [DOMAIN Bindings -> Ports]
  /\ IsFiniteSet(DOMAIN Bindings) /\ Cardinality(DOMAIN Bindings) <= TableSize
  /\ Enforced \in BOOLEAN
  /\ {} \in Outages /\ Outages \subseteq SUBSET Ports
  /\ NoRoute \notin Entry

VARIABLES
  routes,         \* the router's table
  rx, tx,         \* rx_packets and tx_packets of each port
  port_dropped,   \* dropped_packets of each port
  forwarded, dropped, movements, faults,   \* the runtime's event counters
  handled,        \* history: packets handled locally
  written,        \* history: packets really written to each port
  copies          \* history: where the last packet was forwarded to, or {}

vars == <<routes, rx, tx, port_dropped, forwarded, dropped, movements, faults,
          handled, written, copies>>

\* kind and ACK_REQUIRED are looked at only here, in packets for this node
Packets ==
  [source : Sources, destination : {SelfAddress}, kind : Kinds, ack : BOOLEAN]
    \cup [source : Sources, destination : Addresses \ {SelfAddress},
          kind : {"other"}, ack : {FALSE}]
NoPort  == -1

-----------------------------------------------------------------------------
(* NorthbridgeRouter: the route table. *)

Holding(table, a) == {i \in Slots : table[i] # NoRoute /\ table[i].address = a}
Free(table)       == {i \in Slots : table[i] = NoRoute}
First(slots)      == CHOOSE i \in slots : \A j \in slots : i <= j

\* route_for
RouteFor(table, a) ==
  IF Holding(table, a) = {} THEN NoPort ELSE table[First(Holding(table, a))].port

\* Mutants of MarkSeen: it writes behind the table, or makes room for a new address.
MarkBeyond(table, a, port) ==
  LET i == IF Free(table) # {} THEN First(Free(table)) ELSE TableSize + 1
  IN  IF Holding(table, a) # {} THEN table
      ELSE [j \in Slots \cup {i} |-> IF j = i THEN [address |-> a, port |-> port] ELSE table[j]]
MarkEvicting(table, a, port) ==
  LET candidates == IF Holding(table, a) # {} THEN Holding(table, a)
                    ELSE IF Free(table) # {} THEN Free(table) ELSE Slots
  IN  [table EXCEPT ![First(candidates)] = [address |-> a, port |-> port]]

\* set_route, and mark_seen without its timestamp: the entry of the address moves
\* to the port; a new address takes the first free entry, if there is one.
MarkSeen(table, a, port) ==
  IF Holding(table, a) # {} THEN [table EXCEPT ![First(Holding(table, a))].port = port]
  ELSE IF Free(table) # {}
       THEN [table EXCEPT ![First(Free(table))] = [address |-> a, port |-> port]]
       ELSE table

-----------------------------------------------------------------------------
\* setup(): some order of bind_node calls has filled the first entries.
Init ==
  /\ routes \in [Slots -> Entry \cup {NoRoute}]
  /\ \A i \in Slots : routes[i] # NoRoute =>
       routes[i].address \in DOMAIN Bindings /\ routes[i].port = Bindings[routes[i].address]
  /\ \A a \in DOMAIN Bindings : \E i \in Slots : Holding(routes, a) = {i}
  /\ \A i \in Slots : routes[i] # NoRoute <=> i <= Cardinality(DOMAIN Bindings)
  /\ rx = [p \in Ports |-> 0]
  /\ tx = [p \in Ports |-> 0]
  /\ port_dropped = [p \in Ports |-> 0]
  /\ forwarded = 0 /\ dropped = 0 /\ movements = 0 /\ faults = 0
  /\ handled = 0
  /\ written = [p \in Ports |-> 0]
  /\ copies = {}

Total(f) == FoldSet(LAMBDA p, sum : f[p] + sum, 0, Ports)

Received(port) ==
  /\ Total(rx) < MaxPackets
  /\ rx' = [rx EXCEPT ![port] = @ + 1]

\* Mutant: nothing is ever misplaced.
NeverMisplaced(packet, port) == FALSE

\* expected_port_for: a bound node heard on a port that is not its own
Misplaced(packet, port) ==
  packet.source \in DOMAIN Bindings /\ Bindings[packet.source] # port

CountMovement(packet, port) ==
  movements' = IF Misplaced(packet, port) THEN movements + 1 ELSE movements

\* What of n packets is written to a port.
Written(n, port, out) == IF port \in out THEN 0 .. n ELSE {n}

\* Mutant: an acknowledgement with its reply counts once.
SendCountedOnce(n, port, out) ==
  \E sent \in Written(n, port, out) :
    /\ tx' = IF sent > 0 THEN [tx EXCEPT ![port] = @ + 1] ELSE tx
    /\ written' = [written EXCEPT ![port] = @ + sent]

\* send_local, n times to one port: counted only if written
SendLocal(n, port, out) ==
  \E sent \in Written(n, port, out) :
    /\ tx' = [tx EXCEPT ![port] = @ + sent]
    /\ written' = [written EXCEPT ![port] = @ + sent]

\* A misplaced packet is dropped and reported to the main computer.
Reject(packet, port, out) ==
  /\ Received(port)
  /\ Misplaced(packet, port) /\ Enforced
  /\ movements' = movements + 1
  /\ faults' = faults + 1
  /\ dropped' = dropped + 1
  /\ port_dropped' = [port_dropped EXCEPT ![port] = @ + 1]
  /\ LET pi_port == RouteFor(routes, MainComputer)
     IN  IF pi_port = NoPort THEN UNCHANGED <<tx, written>>
         ELSE SendLocal(1, pi_port, out)
  /\ copies' = {}
  /\ UNCHANGED <<routes, forwarded, handled>>

\* handle_local_packet: the acknowledgement and the reply
Replies(packet) ==
  (IF packet.ack THEN 1 ELSE 0)
    + (IF packet.kind \in {"discovery", "heartbeat", "diagnostic", "getstate"} THEN 1 ELSE 0)

HandleLocal(packet, port, out) ==
  /\ Received(port)
  /\ ~(Misplaced(packet, port) /\ Enforced)
  /\ packet.destination = SelfAddress
  /\ CountMovement(packet, port)
  /\ routes' = MarkSeen(routes, packet.source, port)
  /\ SendLocal(Replies(packet), port, out)
  /\ handled' = handled + 1
  /\ copies' = {}
  /\ UNCHANGED <<port_dropped, forwarded, dropped, faults>>

\* router_.forward: the ports it writes the packet to, in the table as it is after
\* mark_seen of the source
Targets(table, packet, port) ==
  IF packet.destination = Broadcast THEN Ports \ {port}
  ELSE {RouteFor(table, packet.destination)} \ {NoPort, port}

\* forward and account_forward: the packet counts as forwarded if one write
\* succeeded, and then tx_packets counts every target.
Forward(packet, port, out) ==
  /\ Received(port)
  /\ ~(Misplaced(packet, port) /\ Enforced)
  /\ packet.destination # SelfAddress
  /\ CountMovement(packet, port)
  /\ routes' = MarkSeen(routes, packet.source, port)
  /\ LET targets == Targets(routes', packet, port)
         reached == targets \ out
     IN  /\ written' = [p \in Ports |-> IF p \in reached THEN written[p] + 1 ELSE written[p]]
         /\ copies' = {[destination |-> packet.destination, ingress |-> port, egress |-> p] : p \in reached}
         /\ \/ /\ reached # {}
               /\ forwarded' = forwarded + 1
               /\ tx' = [p \in Ports |-> IF p \in targets THEN tx[p] + 1 ELSE tx[p]]
               /\ UNCHANGED <<dropped, port_dropped>>
            \/ /\ reached = {}
               /\ dropped' = dropped + 1
               /\ port_dropped' = [port_dropped EXCEPT ![port] = @ + 1]
               /\ UNCHANGED <<forwarded, tx>>
  /\ UNCHANGED <<faults, handled>>

Next ==
  \E port \in Ports, packet \in Packets, out \in Outages :
    \/ Reject(packet, port, out)
    \/ HandleLocal(packet, port, out)
    \/ Forward(packet, port, out)

Spec == Init /\ [][Next]_vars

-----------------------------------------------------------------------------
(* Properties. *)

TypeOK ==
  /\ routes \in [Slots -> Entry \cup {NoRoute}]
  /\ rx \in [Ports -> Nat] /\ tx \in [Ports -> Nat] /\ written \in [Ports -> Nat]
  /\ port_dropped \in [Ports -> Nat]
  /\ forwarded \in Nat /\ dropped \in Nat /\ movements \in Nat /\ faults \in Nat
  /\ handled \in Nat
  /\ copies \subseteq [destination : Addresses, ingress : Ports, egress : Ports]

\* No address ever has two entries in the table, whatever arrives and however full
\* the table is: otherwise a lookup would follow a route that learning no longer
\* updates.
RoutesAreUnique ==
  \A i, j \in Slots :
    (routes[i] # NoRoute /\ routes[j] # NoRoute /\ routes[i].address = routes[j].address)
      => i = j

\* With the topology enforced, no traffic moves the route of a bound node or pushes
\* it out of the table.
BoundRoutesHold ==
  Enforced => \A a \in DOMAIN Bindings : RouteFor(routes, a) = Bindings[a]

\* The route table, whatever arrives and however full it is: a lookup follows the one
\* entry that learning updates, and a bound node's entry never moves.
RoutesHold == RoutesAreUnique /\ BoundRoutesHold

\* A packet for a bound node reaches that node's port or none, whatever was learnt
\* before, and nothing is sent back where it came from.
OnlyToItsOwner ==
  Enforced =>
    \A copy \in copies :
      /\ copy.egress # copy.ingress
      /\ copy.destination \in DOMAIN Bindings
           => copy.egress = Bindings[copy.destination]

\* The counters the diagnostics report balance: every received packet was forwarded,
\* dropped or handled here, the drops of the ports add up to the total, and tx_packets
\* never misses a packet written to a port and is exact while no write fails.  (A
\* broadcast that fails on one port is counted there all the same.)
CountersBalance ==
  /\ Total(rx) = forwarded + dropped + handled
  /\ Total(port_dropped) = dropped
  /\ Enforced => movements = faults
  /\ \A p \in Ports :
       /\ written[p] <= tx[p]
       /\ Outages = {{}} => written[p] = tx[p]
=============================================================================
