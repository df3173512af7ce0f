-------------------------- MODULE NorthbridgeProofs -------------------------
(***************************************************************************)
(* The route table of Northbridge for every set of ports, bindings and     *)
(* strangers, every table size and every pattern of failing writes.        *)
(***************************************************************************)
EXTENDS Northbridge, TLAPS, WellFoundedInduction, FiniteSetTheorems

(* Every set of numbers has a least one. *)
LEMMA LeastNumber ==
  ASSUME NEW T, T \subseteq Nat, T # {}
  PROVE  \E x \in T : \A y \in T : x <= y
<1> DEFINE Less == OpToRel(<, Nat)
<1>1. IsWellFoundedOn(Less, Nat)
  BY NatLessThanWellFounded
<1> HIDE DEF Less
<1>3. PICK x \in T : \A y \in T : ~(<<y, x>> \in Less)
  BY <1>1, WFMin, ZenonT(60)
<1>4. ASSUME NEW y \in T PROVE x <= y
  <2>1. x \in Nat /\ y \in Nat
    OBVIOUS
  <2>2. ~(y < x)
    <3> SUFFICES ASSUME y < x PROVE FALSE
      OBVIOUS
    <3>1. <<y, x>> \in Less
      BY <2>1 DEF Less, OpToRel
    <3> QED
      BY <3>1, <1>3
  <2> QED
    BY <2>1, <2>2
<1> QED
  BY <1>4

USE NetworkAssumption

(* First(slots) is one of them. *)
LEMMA LeastSlot ==
  ASSUME NEW slots \in SUBSET Slots, slots # {}
  PROVE  First(slots) \in slots
<1>1. slots \subseteq Nat
  BY DEF Slots
<1> QED
  BY <1>1, LeastNumber DEF First

Table        == [Slots -> Entry \cup {NoRoute}]
Unique(t)    == \A i, j \in Slots :
                  (t[i] # NoRoute /\ t[j] # NoRoute /\ t[i].address = t[j].address) => i = j
Bound(t)     == \A a \in DOMAIN Bindings : \E i \in Slots :
                  t[i] = [address |-> a, port |-> Bindings[a]]

(* mark_seen writes the address and the port to one entry at most: that of the
   address, or a free one if the address has none. *)
LEMMA MarkSeenWrites ==
  ASSUME NEW t \in Table, NEW a \in Addresses, NEW port \in Ports
  PROVE  \/ /\ MarkSeen(t, a, port) = t
            /\ Holding(t, a) = {}
         \/ \E i \in Slots :
              /\ MarkSeen(t, a, port) = [t EXCEPT ![i] = [address |-> a, port |-> port]]
              /\ IF Holding(t, a) # {} THEN i \in Holding(t, a) ELSE t[i] = NoRoute
<1>1. CASE Holding(t, a) # {}
  <2> DEFINE i == First(Holding(t, a))
  <2>1. i \in Holding(t, a)
    BY <1>1, LeastSlot DEF Holding
  <2>2. i \in Slots /\ t[i] # NoRoute /\ t[i].address = a
    BY <2>1 DEF Holding
  <2>3. t[i] \in Entry
    BY <2>2 DEF Table
  <2>4. [t[i] EXCEPT !.port = port] = [address |-> a, port |-> port]
    BY <2>2, <2>3 DEF Entry
  <2>5. MarkSeen(t, a, port) = [t EXCEPT ![i] = [t[i] EXCEPT !.port = port]]
    BY <1>1 DEF MarkSeen
  <2> HIDE DEF i
  <2> QED
    BY <1>1, <2>1, <2>2, <2>4, <2>5
<1>2. CASE Holding(t, a) = {} /\ Free(t) # {}
  <2> DEFINE i == First(Free(t))
  <2>1. i \in Free(t)
    BY <1>2, LeastSlot DEF Free
  <2>2. i \in Slots /\ t[i] = NoRoute
    BY <2>1 DEF Free
  <2>3. MarkSeen(t, a, port) = [t EXCEPT ![i] = [address |-> a, port |-> port]]
    BY <1>2 DEF MarkSeen
  <2> HIDE DEF i
  <2> QED
    BY <1>2, <2>2, <2>3
<1>3. CASE Holding(t, a) = {} /\ Free(t) = {}
  BY <1>3 DEF MarkSeen
<1> QED
  BY <1>1, <1>2, <1>3

(* Learning keeps a table typed and its addresses unique, and moves no entry of a bound
   node as long as that node is heard on its own port. *)
LEMMA MarkSeenKeeps ==
  ASSUME NEW t \in Table, Unique(t), Enforced => Bound(t),
         NEW a \in Addresses, NEW port \in Ports,
         ~(a \in DOMAIN Bindings /\ Bindings[a] # port /\ Enforced)
  PROVE  /\ MarkSeen(t, a, port) \in Table
         /\ Unique(MarkSeen(t, a, port))
         /\ Enforced => Bound(MarkSeen(t, a, port))
<1>1. CASE MarkSeen(t, a, port) = t
  BY <1>1
<1>2. ASSUME NEW i \in Slots,
             MarkSeen(t, a, port) = [t EXCEPT ![i] = [address |-> a, port |-> port]],
             IF Holding(t, a) # {} THEN i \in Holding(t, a) ELSE t[i] = NoRoute
      PROVE  /\ MarkSeen(t, a, port) \in Table
             /\ Unique(MarkSeen(t, a, port))
             /\ Enforced => Bound(MarkSeen(t, a, port))
  <2> DEFINE e == [address |-> a, port |-> port]
             u == [t EXCEPT ![i] = e]
  <2>1. e \in Entry /\ e # NoRoute /\ e.address = a
    BY DEF Entry
  <2>2. u \in Table
    BY <2>1 DEF Table
  <2>3. u[i] = e /\ \A j \in Slots : j # i => u[j] = t[j]
    BY DEF Table
  <2>4. \A j \in Slots : (t[j] # NoRoute /\ t[j].address = a) => j = i
    BY <1>2 DEF Holding, Unique
  <2> HIDE DEF u
  <2>5. Unique(u)
    <3> SUFFICES ASSUME NEW j \in Slots, NEW k \in Slots, u[j] # NoRoute, u[k] # NoRoute,
                        u[j].address = u[k].address
                 PROVE  j = k
      BY DEF Unique
    <3>1. CASE j # i /\ k # i
      BY <3>1, <2>3 DEF Unique
    <3>2. CASE j = i
      BY <3>2, <2>1, <2>3, <2>4
    <3>3. CASE k = i
      BY <3>3, <2>1, <2>3, <2>4
    <3> QED
      BY <3>1, <3>2, <3>3
  <2>6. ASSUME Enforced PROVE Bound(u)
    <3> SUFFICES ASSUME NEW b \in DOMAIN Bindings
                 PROVE  \E k \in Slots : u[k] = [address |-> b, port |-> Bindings[b]]
      BY DEF Bound
    <3>1. CASE b = a
      BY <3>1, <2>3, <2>6
    <3>2. CASE b # a
      <4>1. PICK k \in Slots : t[k] = [address |-> b, port |-> Bindings[b]]
        BY <2>6 DEF Bound
      <4>2. t[k] # NoRoute /\ t[k].address # a
        BY <4>1, <3>2 DEF Entry, Addresses
      <4>3. k # i
        BY <4>2, <1>2 DEF Holding
      <4> QED
        BY <4>1, <4>3, <2>3
    <3> QED
      BY <3>1, <3>2
  <2> QED
    BY <1>2, <2>2, <2>5, <2>6 DEF u
<1> QED
  BY <1>1, <1>2, MarkSeenWrites

(* In a table with unique addresses, a lookup finds the one entry there is. *)
LEMMA LookupIsExact ==
  ASSUME NEW t \in Table, Unique(t), NEW i \in Slots, t[i] # NoRoute
  PROVE  RouteFor(t, t[i].address) = t[i].port
<1>1. i \in Holding(t, t[i].address)
  BY DEF Holding
<1>2. Holding(t, t[i].address) = {i}
  BY <1>1 DEF Holding, Unique
<1>3. First({i}) = i
  BY LeastSlot
<1> QED
  BY <1>1, <1>2, <1>3 DEF RouteFor

-----------------------------------------------------------------------------
(* The invariant: what holds of the table, and of the copies just written. *)

TableInv  == routes \in Table /\ Unique(routes) /\ (Enforced => Bound(routes))
RouteInv  == TableInv /\ OnlyToItsOwner

(* With the bound nodes' entries in place, lookups of them are exact. *)
LEMMA BoundLookup ==
  ASSUME NEW t \in Table, Unique(t), Bound(t), NEW a \in DOMAIN Bindings
  PROVE  RouteFor(t, a) = Bindings[a]
<1>1. PICK i \in Slots : t[i] = [address |-> a, port |-> Bindings[a]]
  BY DEF Bound
<1>2. t[i] # NoRoute /\ t[i].address = a /\ t[i].port = Bindings[a]
  BY <1>1 DEF Entry, Addresses
<1> QED
  BY <1>2, LookupIsExact

(* setup() leaves a table with each bound node once, and nothing else. *)
LEMMA SetupIsSafe == Init => RouteInv
<1> SUFFICES ASSUME Init PROVE RouteInv
  OBVIOUS
<1>1. routes \in Table
  BY DEF Init, Table
<1>2. Unique(routes)
  <2> SUFFICES ASSUME NEW i \in Slots, NEW j \in Slots, routes[i] # NoRoute,
                      routes[j] # NoRoute, routes[i].address = routes[j].address
               PROVE  i = j
    BY DEF Unique
  <2>1. routes[i].address \in DOMAIN Bindings
    BY DEF Init
  <2>2. PICK k \in Slots : Holding(routes, routes[i].address) = {k}
    BY <2>1 DEF Init
  <2>3. i \in {k} /\ j \in {k}
    BY <2>2 DEF Holding
  <2> QED
    BY <2>3
<1>3. Bound(routes)
  <2> SUFFICES ASSUME NEW a \in DOMAIN Bindings
               PROVE  \E i \in Slots : routes[i] = [address |-> a, port |-> Bindings[a]]
    BY DEF Bound
  <2>1. PICK i \in Slots : Holding(routes, a) = {i}
    BY DEF Init
  <2>2. routes[i] # NoRoute /\ routes[i].address = a
    BY <2>1 DEF Holding
  <2>3. routes[i] \in Entry /\ routes[i].port = Bindings[a]
    BY <2>2 DEF Init
  <2> QED
    BY <2>2, <2>3 DEF Entry
<1>4. OnlyToItsOwner
  BY DEF Init, OnlyToItsOwner
<1> QED
  BY <1>1, <1>2, <1>3, <1>4 DEF RouteInv, TableInv

(* What the router writes a packet to: never its ingress, and for a bound node its own
   port or none. *)
LEMMA TargetsAreRight ==
  ASSUME NEW t \in Table, Unique(t), Bound(t), NEW packet \in Packets, NEW port \in Ports,
         NEW egress \in Targets(t, packet, port)
  PROVE  /\ egress # port
         /\ packet.destination \in DOMAIN Bindings => egress = Bindings[packet.destination]
<1>1. CASE packet.destination = Broadcast
  BY <1>1 DEF Targets
<1>2. CASE packet.destination # Broadcast
  <2>1. egress = RouteFor(t, packet.destination) /\ egress # port
    BY <1>2 DEF Targets
  <2> QED
    BY <2>1, BoundLookup
<1> QED
  BY <1>1, <1>2

(* Every packet, from whomever and wherever it arrives, keeps the invariant. *)
LEMMA PacketKeeps == RouteInv /\ [Next]_vars => RouteInv'
<1> SUFFICES ASSUME RouteInv, [Next]_vars PROVE RouteInv'
  OBVIOUS
<1>1. ASSUME NEW port \in Ports, NEW packet \in Packets, NEW out \in Outages,
             Reject(packet, port, out)
      PROVE  RouteInv'
  BY <1>1 DEF Reject, RouteInv, TableInv, OnlyToItsOwner
<1>2. ASSUME NEW port \in Ports, NEW packet \in Packets,
             ~(Misplaced(packet, port) /\ Enforced),
             routes' = MarkSeen(routes, packet.source, port)
      PROVE  TableInv'
  <2>1. packet.source \in Addresses
    BY DEF Packets, Addresses
  <2>2. ~(packet.source \in DOMAIN Bindings /\ Bindings[packet.source] # port /\ Enforced)
    BY <1>2 DEF Misplaced
  <2> QED
    BY <1>2, <2>1, <2>2, MarkSeenKeeps DEF RouteInv, TableInv
<1>3. ASSUME NEW port \in Ports, NEW packet \in Packets, NEW out \in Outages,
             HandleLocal(packet, port, out)
      PROVE  RouteInv'
  <2>1. TableInv'
    BY <1>2, <1>3 DEF HandleLocal
  <2>2. OnlyToItsOwner'
    BY <1>3 DEF HandleLocal, OnlyToItsOwner
  <2> QED
    BY <2>1, <2>2 DEF RouteInv
<1>4. ASSUME NEW port \in Ports, NEW packet \in Packets, NEW out \in Outages,
             Forward(packet, port, out)
      PROVE  RouteInv'
  <2>1. TableInv'
    BY <1>2, <1>4 DEF Forward
  <2>2. ASSUME Enforced, NEW copy \in copies'
        PROVE  /\ copy.egress # copy.ingress
               /\ copy.destination \in DOMAIN Bindings
                    => copy.egress = Bindings[copy.destination]
    <3>1. PICK p \in Targets(routes', packet, port) :
            copy = [destination |-> packet.destination, ingress |-> port, egress |-> p]
      BY <1>4, <2>2 DEF Forward
    <3>2. routes' \in Table /\ Unique(routes') /\ Bound(routes')
      BY <2>1, <2>2 DEF TableInv
    <3> QED
      BY <3>1, <3>2, TargetsAreRight
  <2> QED
    BY <2>1, <2>2 DEF RouteInv, OnlyToItsOwner
<1>5. CASE UNCHANGED vars
  BY <1>5 DEF vars, RouteInv, TableInv, OnlyToItsOwner
<1> QED
  BY <1>1, <1>3, <1>4, <1>5 DEF Next

-----------------------------------------------------------------------------
(* Every reachable table is typed, with each address once and, under enforcement, each
   bound node on its port. *)
THEOREM Learning == Spec => []RouteInv
<1> QED
  BY SetupIsSafe, PacketKeeps, PTL DEF Spec

(* The invariant read as the property about the router's lookups. *)
LEMMA TableRoutes == RouteInv => RoutesHold
<1> SUFFICES ASSUME RouteInv PROVE RoutesHold
  OBVIOUS
<1>1. RoutesAreUnique
  BY DEF RouteInv, TableInv, Unique, RoutesAreUnique
<1>2. BoundRoutesHold
  BY BoundLookup DEF RouteInv, TableInv, BoundRoutesHold
<1> QED
  BY <1>1, <1>2 DEF RoutesHold

(* NorthbridgeRouter: no address ever has two entries, and no traffic moves the route of
   a bound node or pushes it out of a table of any size. *)
THEOREM Routing == Spec => []RoutesHold
<1> QED
  BY Learning, TableRoutes, PTL

(* forward(): a packet for a bound node is written to that node's port or to none, and
   nothing goes back where it came from. *)
THEOREM Delivery == Spec => []OnlyToItsOwner
<1>1. RouteInv => OnlyToItsOwner
  BY DEF RouteInv
<1> QED
  BY Learning, <1>1, PTL

-----------------------------------------------------------------------------
(***************************************************************************)
(* Sums over the ports.  The library's induction theorems take a predicate *)
(* as a parameter; with a set in its place they need none.  Total folds by *)
(* picking one port after the other: it is the sum that a recursive        *)
(* function on the sets of ports computes, and such a function exists      *)
(* because there are finitely many ports.                                  *)
(***************************************************************************)
LEMMA NatSetInduction ==
  ASSUME NEW T, 0 \in T, \A n \in Nat : n \in T => n + 1 \in T
  PROVE  Nat \subseteq T
<1> DEFINE bad == Nat \ T
<1> SUFFICES ASSUME bad # {} PROVE FALSE
  OBVIOUS
<1>1. PICK n \in bad : \A m \in bad : n <= m
  BY LeastNumber
<1>2. n # 0 /\ n - 1 \in Nat
  BY <1>1
<1>3. n - 1 \notin bad
  BY <1>1, <1>2
<1>4. (n - 1) + 1 = n
  BY <1>1
<1> QED
  BY <1>1, <1>2, <1>3, <1>4

Pick(s) == CHOOSE p \in s : TRUE

LEMMA PickIsFewer ==
  ASSUME NEW s \in SUBSET Ports, s # {}
  PROVE  /\ Pick(s) \in s /\ s \ {Pick(s)} \in SUBSET Ports
         /\ Cardinality(s) \in Nat /\ Cardinality(s \ {Pick(s)}) = Cardinality(s) - 1
<1>1. IsFiniteSet(s)
  BY FS_Subset
<1>2. Pick(s) \in s
  BY DEF Pick
<1> QED
  BY <1>1, <1>2, FS_RemoveElement, FS_CardinalityType

LEMMA PortInduction ==
  ASSUME NEW T, {} \in T,
         \A s \in SUBSET Ports : (s # {} /\ s \ {Pick(s)} \in T) => s \in T
  PROVE  SUBSET Ports \subseteq T
<1> DEFINE sizes == {n \in Nat : \A s \in SUBSET Ports : Cardinality(s) <= n => s \in T}
<1>1. 0 \in sizes
  <2> SUFFICES ASSUME NEW s \in SUBSET Ports, Cardinality(s) <= 0 PROVE s \in T
    OBVIOUS
  <2>1. s = {}
    <3>1. IsFiniteSet(s)
      BY FS_Subset
    <3> QED
      BY <3>1, FS_CardinalityType, FS_EmptySet
  <2> QED
    BY <2>1
<1>2. ASSUME NEW n \in Nat, n \in sizes PROVE n + 1 \in sizes
  <2>1. ASSUME NEW s \in SUBSET Ports, Cardinality(s) <= n + 1, s # {} PROVE s \in T
    <3>1. s \ {Pick(s)} \in SUBSET Ports /\ Cardinality(s \ {Pick(s)}) <= n
      BY <2>1, PickIsFewer
    <3>2. s \ {Pick(s)} \in T
      BY <1>2, <3>1
    <3> QED
      BY <2>1, <3>2
  <2>2. \A s \in SUBSET Ports : Cardinality(s) <= n + 1 => s \in T
    BY <2>1
  <2> QED
    BY <2>2
<1> HIDE DEF sizes
<1>3. Nat \subseteq sizes
  BY <1>1, <1>2, NatSetInduction
<1>4. ASSUME NEW s \in SUBSET Ports PROVE s \in T
  <2>1. Cardinality(s) \in Nat
    BY FS_Subset, FS_CardinalityType
  <2> QED
    BY <1>3, <2>1 DEF sizes
<1> QED
  BY <1>4

\* g is the sum of f over each set of at most n ports.
Adds(g, f, n) ==
  \A s \in SUBSET Ports : Cardinality(s) <= n =>
    g[s] = IF s = {} THEN 0 ELSE f[Pick(s)] + g[s \ {Pick(s)}]

IsSum(g, f) ==
  g = [s \in SUBSET Ports |-> IF s = {} THEN 0 ELSE f[Pick(s)] + g[s \ {Pick(s)}]]

LEMMA SumsExist ==
  ASSUME NEW f \in [Ports -> Nat]
  PROVE  \E g \in [SUBSET Ports -> Nat] : IsSum(g, f)
<1> DEFINE sizes == {n \in Nat : \E g \in [SUBSET Ports -> Nat] : Adds(g, f, n)}
<1>1. 0 \in sizes
  <2> DEFINE g == [s \in SUBSET Ports |-> 0]
  <2>1. g \in [SUBSET Ports -> Nat]
    OBVIOUS
  <2>2. ASSUME NEW s \in SUBSET Ports, Cardinality(s) <= 0 PROVE s = {}
    <3>1. IsFiniteSet(s)
      BY FS_Subset
    <3> QED
      BY <2>2, <3>1, FS_CardinalityType, FS_EmptySet
  <2>3. Adds(g, f, 0)
    BY <2>2 DEF Adds
  <2> QED
    BY <2>1, <2>3
<1>2. ASSUME NEW n \in Nat, n \in sizes PROVE n + 1 \in sizes
  <2>1. PICK g \in [SUBSET Ports -> Nat] : Adds(g, f, n)
    BY <1>2
  <2> DEFINE h == [s \in SUBSET Ports |-> IF s = {} THEN 0 ELSE f[Pick(s)] + g[s \ {Pick(s)}]]
  <2>2. h \in [SUBSET Ports -> Nat]
    <3> SUFFICES ASSUME NEW s \in SUBSET Ports, s # {}
                 PROVE  f[Pick(s)] + g[s \ {Pick(s)}] \in Nat
      OBVIOUS
    <3>1. Pick(s) \in Ports /\ s \ {Pick(s)} \in SUBSET Ports
      BY PickIsFewer
    <3> QED
      BY <3>1
  <2>3. \A s \in SUBSET Ports : Cardinality(s) <= n => h[s] = g[s]
    BY <2>1 DEF Adds
  <2>4. Adds(h, f, n + 1)
    <3> SUFFICES ASSUME NEW s \in SUBSET Ports, Cardinality(s) <= n + 1, s # {}
                 PROVE  h[s] = f[Pick(s)] + h[s \ {Pick(s)}]
      BY DEF Adds
    <3>1. s \ {Pick(s)} \in SUBSET Ports /\ Cardinality(s \ {Pick(s)}) <= n
      BY PickIsFewer
    <3>2. h[s \ {Pick(s)}] = g[s \ {Pick(s)}]
      BY <2>3, <3>1
    <3> QED
      BY <3>2
  <2> HIDE DEF h
  <2> QED
    BY <2>2, <2>4
<1> HIDE DEF sizes
<1>3. Nat \subseteq sizes
  BY <1>1, <1>2, NatSetInduction
<1>4. Cardinality(Ports) \in sizes
  BY <1>3, FS_CardinalityType
<1>5. PICK g \in [SUBSET Ports -> Nat] : Adds(g, f, Cardinality(Ports))
  BY <1>4 DEF sizes
<1>6. \A s \in SUBSET Ports : Cardinality(s) <= Cardinality(Ports)
  BY FS_Subset
<1>7. \A s \in SUBSET Ports : g[s] = IF s = {} THEN 0 ELSE f[Pick(s)] + g[s \ {Pick(s)}]
  BY <1>5, <1>6 DEF Adds
<1>8. g = [s \in SUBSET Ports |-> g[s]]
  OBVIOUS
<1>9. IsSum(g, f)
  BY <1>7, <1>8 DEF IsSum
<1> QED
  BY <1>9

LEMMA SumIsUnique ==
  ASSUME NEW f, NEW g, IsSum(g, f), NEW h, IsSum(h, f)
  PROVE  g[Ports] = h[Ports]
<1> DEFINE T == {s \in SUBSET Ports : g[s] = h[s]}
<1>1. /\ \A s \in SUBSET Ports : g[s] = IF s = {} THEN 0 ELSE f[Pick(s)] + g[s \ {Pick(s)}]
      /\ \A s \in SUBSET Ports : h[s] = IF s = {} THEN 0 ELSE f[Pick(s)] + h[s \ {Pick(s)}]
  BY DEF IsSum
<1>2. {} \in T
  BY <1>1
<1>3. \A s \in SUBSET Ports : (s # {} /\ s \ {Pick(s)} \in T) => s \in T
  BY <1>1
<1> HIDE DEF T
<1>4. SUBSET Ports \subseteq T
  BY <1>2, <1>3, PortInduction
<1> QED
  BY <1>4 DEF T

\* Total is the sum.
LEMMA TotalIsSum ==
  ASSUME NEW f \in [Ports -> Nat]
  PROVE  \E g \in [SUBSET Ports -> Nat] : IsSum(g, f) /\ Total(f) = g[Ports]
<1>1. PICK g \in [SUBSET Ports -> Nat] : IsSum(g, f)
  BY SumsExist
<1> DEFINE h == CHOOSE it : IsSum(it, f)
<1>2. Total(f) = h[Ports]
  BY DEF Total, FoldSet, MapThenFoldSet, IsSum, Pick
<1>3. IsSum(h, f)
  BY <1>1
<1> HIDE DEF h
<1> QED
  BY <1>1, <1>2, <1>3, SumIsUnique

LEMMA TotalOfNone == Total([p \in Ports |-> 0]) = 0
<1> DEFINE f == [p \in Ports |-> 0]
<1>1. f \in [Ports -> Nat]
  OBVIOUS
<1>2. PICK g \in [SUBSET Ports -> Nat] : IsSum(g, f) /\ Total(f) = g[Ports]
  BY <1>1, TotalIsSum
<1> DEFINE T == {s \in SUBSET Ports : g[s] = 0}
<1>3. \A s \in SUBSET Ports : g[s] = IF s = {} THEN 0 ELSE f[Pick(s)] + g[s \ {Pick(s)}]
  BY <1>2 DEF IsSum
<1>4. {} \in T
  BY <1>3
<1>5. \A s \in SUBSET Ports : (s # {} /\ s \ {Pick(s)} \in T) => s \in T
  BY <1>3, PickIsFewer
<1> HIDE DEF T
<1>6. SUBSET Ports \subseteq T
  BY <1>4, <1>5, PortInduction
<1> QED
  BY <1>2, <1>6 DEF T

LEMMA TotalOfOneMore ==
  ASSUME NEW f \in [Ports -> Nat], NEW port \in Ports
  PROVE  Total([f EXCEPT ![port] = @ + 1]) = Total(f) + 1
<1> DEFINE e == [f EXCEPT ![port] = @ + 1]
<1>1. /\ e \in [Ports -> Nat] /\ e[port] = f[port] + 1
      /\ \A p \in Ports : p # port => e[p] = f[p]
  OBVIOUS
<1> HIDE DEF e
<1>2. PICK g \in [SUBSET Ports -> Nat] : IsSum(g, f) /\ Total(f) = g[Ports]
  BY TotalIsSum
<1>3. PICK h \in [SUBSET Ports -> Nat] : IsSum(h, e) /\ Total(e) = h[Ports]
  BY <1>1, TotalIsSum
<1> DEFINE T == {s \in SUBSET Ports : h[s] = g[s] + (IF port \in s THEN 1 ELSE 0)}
<1>4. /\ \A s \in SUBSET Ports : g[s] = IF s = {} THEN 0 ELSE f[Pick(s)] + g[s \ {Pick(s)}]
      /\ \A s \in SUBSET Ports : h[s] = IF s = {} THEN 0 ELSE e[Pick(s)] + h[s \ {Pick(s)}]
  BY <1>2, <1>3 DEF IsSum
<1>5. {} \in T
  <2>1. {} \in SUBSET Ports /\ g[{}] = 0 /\ h[{}] = 0
    BY <1>4
  <2> QED
    BY <2>1
<1>6. ASSUME NEW s \in SUBSET Ports, s # {}, s \ {Pick(s)} \in T PROVE s \in T
  <2> DEFINE q == Pick(s)
             t == s \ {q}
  <2>1. q \in s /\ q \in Ports /\ t \in SUBSET Ports
    BY <1>6, PickIsFewer
  <2>2. g[s] = f[q] + g[t] /\ h[s] = e[q] + h[t]
    BY <1>4, <1>6
  <2>3. h[t] = g[t] + (IF port \in t THEN 1 ELSE 0)
    BY <1>6
  <2>4. f[q] \in Nat /\ g[t] \in Nat
    BY <2>1
  <2> HIDE DEF q
  <2>5. CASE q = port
    <3>1. port \notin t /\ port \in s /\ e[q] = f[q] + 1
      BY <1>1, <2>1, <2>5
    <3> QED
      BY <2>2, <2>3, <2>4, <3>1
  <2>6. CASE q # port
    <3>1. (port \in t <=> port \in s) /\ e[q] = f[q]
      BY <1>1, <2>1, <2>6
    <3> QED
      BY <2>2, <2>3, <2>4, <3>1
  <2> QED
    BY <2>5, <2>6
<1> HIDE DEF T
<1>7. SUBSET Ports \subseteq T
  BY <1>5, <1>6, PortInduction
<1> QED
  BY <1>2, <1>3, <1>7 DEF T, e

-----------------------------------------------------------------------------
(* The counters. *)

LEMMA RouteIsPort ==
  ASSUME NEW t \in Table, NEW a
  PROVE  RouteFor(t, a) \in Ports \cup {NoPort}
<1>1. CASE Holding(t, a) = {}
  BY <1>1 DEF RouteFor
<1>2. CASE Holding(t, a) # {}
  <2> DEFINE i == First(Holding(t, a))
  <2>1. i \in Slots /\ t[i] # NoRoute
    BY <1>2, LeastSlot DEF Holding
  <2>2. t[i] \in Entry
    BY <2>1 DEF Table
  <2>3. RouteFor(t, a) = t[i].port
    BY <1>2 DEF RouteFor
  <2> HIDE DEF i
  <2> QED
    BY <2>2, <2>3 DEF Entry
<1> QED
  BY <1>1, <1>2

LEMMA TargetsArePorts ==
  ASSUME NEW t \in Table, NEW packet \in Packets, NEW port \in Ports
  PROVE  Targets(t, packet, port) \subseteq Ports
BY RouteIsPort DEF Targets

Counters == /\ rx \in [Ports -> Nat] /\ tx \in [Ports -> Nat] /\ written \in [Ports -> Nat]
            /\ port_dropped \in [Ports -> Nat]
            /\ forwarded \in Nat /\ dropped \in Nat /\ movements \in Nat /\ faults \in Nat
            /\ handled \in Nat

\* tx_packets of a port is at least what was written to it, or exactly that.
Covers == \A p \in Ports : /\ written[p] <= tx[p]
                           /\ Outages = {{}} => written[p] = tx[p]

LEMMA LocalSend ==
  ASSUME Counters, Covers, NEW n \in Nat, NEW port \in Ports, NEW out \in Outages,
         SendLocal(n, port, out)
  PROVE  tx' \in [Ports -> Nat] /\ written' \in [Ports -> Nat] /\ Covers'
<1>1. PICK sent \in Written(n, port, out) :
        /\ tx' = [tx EXCEPT ![port] = @ + sent]
        /\ written' = [written EXCEPT ![port] = @ + sent]
  BY DEF SendLocal
<1>2. sent \in Nat
  BY DEF Written
<1>3. tx \in [Ports -> Nat] /\ written \in [Ports -> Nat]
  BY DEF Counters
<1>4. ASSUME NEW p \in Ports
      PROVE  /\ tx[p] \in Nat /\ written[p] \in Nat
             /\ tx'[p] = IF p = port THEN tx[p] + sent ELSE tx[p]
             /\ written'[p] = IF p = port THEN written[p] + sent ELSE written[p]
  BY <1>1, <1>3
<1>5. tx' \in [Ports -> Nat] /\ written' \in [Ports -> Nat]
  BY <1>1, <1>2, <1>3
<1> QED
  BY <1>2, <1>4, <1>5 DEF Covers

Balance == /\ Total(rx) = forwarded + dropped + handled
           /\ Total(port_dropped) = dropped
           /\ Enforced => movements = faults

LEMMA OneMore ==
  ASSUME NEW f \in [Ports -> Nat], NEW g, NEW port \in Ports, g = [f EXCEPT ![port] = @ + 1]
  PROVE  g \in [Ports -> Nat] /\ Total(g) = Total(f) + 1
<1>1. g \in [Ports -> Nat]
  OBVIOUS
<1>2. Total([f EXCEPT ![port] = @ + 1]) = Total(f) + 1
  BY TotalOfOneMore
<1> QED
  BY <1>1, <1>2

LEMMA OneMoreReceived ==
  ASSUME rx \in [Ports -> Nat], NEW port \in Ports, rx' = [rx EXCEPT ![port] = @ + 1]
  PROVE  rx' \in [Ports -> Nat] /\ Total(rx') = Total(rx) + 1
<1>1. Total([rx EXCEPT ![port] = @ + 1]) = Total(rx) + 1
  BY TotalOfOneMore
<1>2. rx' \in [Ports -> Nat]
  OBVIOUS
<1>3. Total(rx') = Total([rx EXCEPT ![port] = @ + 1])
  OBVIOUS
<1> QED
  BY <1>1, <1>2, <1>3

CounterInv == Counters /\ Covers /\ Balance

LEMMA CountersStart == ASSUME Init PROVE CounterInv
<1>1. /\ rx = [p \in Ports |-> 0] /\ tx = [p \in Ports |-> 0]
      /\ written = [p \in Ports |-> 0] /\ port_dropped = [p \in Ports |-> 0]
      /\ forwarded = 0 /\ dropped = 0 /\ movements = 0 /\ faults = 0 /\ handled = 0
  BY DEF Init
<1>2. Total(rx) = 0 /\ Total(port_dropped) = 0
  BY <1>1, TotalOfNone
<1>3. Counters /\ Covers
  BY <1>1 DEF Counters, Covers
<1> QED
  BY <1>1, <1>2, <1>3 DEF CounterInv, Balance

LEMMA PacketCounts ==
  ASSUME RouteInv, RouteInv', CounterInv, NEW port \in Ports, NEW packet \in Packets,
         NEW out \in Outages,
         Reject(packet, port, out) \/ HandleLocal(packet, port, out) \/ Forward(packet, port, out)
  PROVE  CounterInv'
<1> USE DEF CounterInv
<1>1. /\ rx' = [rx EXCEPT ![port] = @ + 1]
      /\ rx \in [Ports -> Nat] /\ port_dropped \in [Ports -> Nat]
      /\ tx \in [Ports -> Nat] /\ written \in [Ports -> Nat]
  BY DEF Reject, HandleLocal, Forward, Received, Counters
<1>2. rx' \in [Ports -> Nat] /\ Total(rx') = Total(rx) + 1
  BY <1>1, OneMoreReceived
<1>3. /\ forwarded \in Nat /\ dropped \in Nat /\ movements \in Nat /\ faults \in Nat
      /\ handled \in Nat
      /\ Total(rx) = forwarded + dropped + handled /\ Total(port_dropped) = dropped
      /\ Enforced => movements = faults
  BY DEF Counters, Balance
<1>4. port_dropped' = [port_dropped EXCEPT ![port] = @ + 1]
        => port_dropped' \in [Ports -> Nat] /\ Total(port_dropped') = Total(port_dropped) + 1
  BY <1>1, OneMore
<1>5. CASE Reject(packet, port, out)
  <2>1. /\ movements' = movements + 1 /\ faults' = faults + 1 /\ dropped' = dropped + 1
        /\ port_dropped' = [port_dropped EXCEPT ![port] = @ + 1]
        /\ UNCHANGED <<forwarded, handled>>
    BY <1>5 DEF Reject
  <2>2. tx' \in [Ports -> Nat] /\ written' \in [Ports -> Nat] /\ Covers'
    <3> DEFINE pi_port == RouteFor(routes, MainComputer)
    <3>1. CASE pi_port = NoPort
      BY <1>1, <1>5, <3>1 DEF Reject, Covers
    <3>2. CASE pi_port # NoPort
      <4>1. SendLocal(1, pi_port, out)
        BY <1>5, <3>2 DEF Reject
      <4>2. pi_port \in Ports
        BY <3>2, RouteIsPort DEF RouteInv, TableInv
      <4> HIDE DEF pi_port
      <4> QED
        BY <4>1, <4>2, LocalSend
    <3> QED
      BY <3>1, <3>2
  <2>3. Counters'
    <3>1. port_dropped' \in [Ports -> Nat]
      BY <1>4, <2>1
    <3> QED
      BY <1>2, <1>3, <2>1, <2>2, <3>1 DEF Counters
  <2>4. Balance'
    BY <1>2, <1>3, <1>4, <2>1 DEF Balance
  <2> QED
    BY <2>2, <2>3, <2>4
<1>6. ASSUME ~(Misplaced(packet, port) /\ Enforced), CountMovement(packet, port)
      PROVE  movements' \in Nat /\ (Enforced => movements' = movements)
  BY <1>3, <1>6 DEF CountMovement
<1>7. CASE HandleLocal(packet, port, out)
  <2>1. /\ handled' = handled + 1 /\ UNCHANGED <<port_dropped, forwarded, dropped, faults>>
        /\ movements' \in Nat /\ (Enforced => movements' = movements)
        /\ SendLocal(Replies(packet), port, out)
    BY <1>6, <1>7 DEF HandleLocal
  <2>2. Replies(packet) \in Nat
    BY DEF Replies
  <2>3. tx' \in [Ports -> Nat] /\ written' \in [Ports -> Nat] /\ Covers'
    BY <2>1, <2>2, LocalSend
  <2>4. Counters'
    BY <1>1, <1>2, <1>3, <2>1, <2>3 DEF Counters
  <2>5. Balance'
    BY <1>2, <1>3, <2>1 DEF Balance
  <2> QED
    BY <2>3, <2>4, <2>5
<1>8. CASE Forward(packet, port, out)
  <2> DEFINE targets == Targets(routes', packet, port)
             reached == targets \ out
  <2>1. /\ UNCHANGED <<faults, handled>>
        /\ movements' \in Nat /\ (Enforced => movements' = movements)
        /\ written' = [p \in Ports |-> IF p \in reached THEN written[p] + 1 ELSE written[p]]
        /\ \/ /\ reached # {}
              /\ forwarded' = forwarded + 1
              /\ tx' = [p \in Ports |-> IF p \in targets THEN tx[p] + 1 ELSE tx[p]]
              /\ UNCHANGED <<dropped, port_dropped>>
           \/ /\ reached = {}
              /\ dropped' = dropped + 1
              /\ port_dropped' = [port_dropped EXCEPT ![port] = @ + 1]
              /\ UNCHANGED <<forwarded, tx>>
    BY <1>6, <1>8 DEF Forward
  <2>2. reached \subseteq targets /\ (out = {} => reached = targets)
    OBVIOUS
  <2>3. Outages = {{}} => out = {}
    OBVIOUS
  <2> HIDE DEF targets, reached
  <2>4. tx' \in [Ports -> Nat] /\ written' \in [Ports -> Nat]
    BY <1>1, <2>1
  <2>5. Covers'
    <3> SUFFICES ASSUME NEW p \in Ports
                 PROVE  /\ written'[p] <= tx'[p]
                        /\ Outages = {{}} => written'[p] = tx'[p]
      BY DEF Covers
    <3>1. /\ tx[p] \in Nat /\ written[p] \in Nat
          /\ written[p] <= tx[p] /\ (Outages = {{}} => written[p] = tx[p])
      BY <1>1 DEF Covers
    <3>2. written'[p] = IF p \in reached THEN written[p] + 1 ELSE written[p]
      BY <2>1
    <3>3. CASE reached # {}
      <4>1. tx'[p] = IF p \in targets THEN tx[p] + 1 ELSE tx[p]
        BY <2>1, <3>3
      <4> QED
        BY <2>2, <2>3, <3>1, <3>2, <4>1
    <3>4. CASE reached = {}
      <4>1. tx'[p] = tx[p]
        BY <2>1, <3>4
      <4> QED
        BY <3>1, <3>2, <3>4, <4>1
    <3> QED
      BY <3>3, <3>4
  <2>6. Counters'
    BY <1>1, <1>2, <1>3, <1>4, <2>1, <2>4 DEF Counters
  <2>7. Balance'
    BY <1>2, <1>3, <1>4, <2>1 DEF Balance
  <2> QED
    BY <2>5, <2>6, <2>7
<1> QED
  BY <1>5, <1>7, <1>8

LEMMA CountersStep == RouteInv /\ RouteInv' /\ CounterInv /\ [Next]_vars => CounterInv'
<1> SUFFICES ASSUME RouteInv, RouteInv', CounterInv, [Next]_vars PROVE CounterInv'
  OBVIOUS
<1>1. CASE UNCHANGED vars
  BY <1>1 DEF vars, CounterInv, Counters, Covers, Balance
<1> QED
  BY <1>1, PacketCounts DEF Next

LEMMA CopiesStep ==
  ASSUME RouteInv', NEW port \in Ports, NEW packet \in Packets, NEW out \in Outages,
         Reject(packet, port, out) \/ HandleLocal(packet, port, out) \/ Forward(packet, port, out)
  PROVE  copies' \subseteq [destination : Addresses, ingress : Ports, egress : Ports]
<1>1. CASE copies' = {}
  BY <1>1
<1>2. CASE Forward(packet, port, out)
  <2> SUFFICES ASSUME NEW copy \in copies'
               PROVE  copy \in [destination : Addresses, ingress : Ports, egress : Ports]
    OBVIOUS
  <2>1. PICK p \in Targets(routes', packet, port) :
          copy = [destination |-> packet.destination, ingress |-> port, egress |-> p]
    BY <1>2 DEF Forward
  <2>2. p \in Ports
    BY TargetsArePorts DEF RouteInv, TableInv
  <2>3. packet.destination \in Addresses
    BY DEF Packets, Addresses
  <2> QED
    BY <2>1, <2>2, <2>3
<1> QED
  BY <1>1, <1>2 DEF Reject, HandleLocal

-----------------------------------------------------------------------------
LEMMA Counting == Spec => [](RouteInv /\ CounterInv)
<1>1. Init => CounterInv
  BY CountersStart
<1> QED
  BY <1>1, CountersStep, Learning, PTL DEF Spec

(* The table, the counters and the copies keep to their types. *)
THEOREM Typing == Spec => []TypeOK
<1> DEFINE Copied == copies \subseteq [destination : Addresses, ingress : Ports, egress : Ports]
<1>1. Init => Copied
  BY DEF Init
<1>2. Copied /\ RouteInv' /\ [Next]_vars => Copied'
  <2> SUFFICES ASSUME Copied, RouteInv', [Next]_vars PROVE Copied'
    OBVIOUS
  <2>1. CASE UNCHANGED vars
    BY <2>1 DEF vars
  <2> QED
    BY <2>1, CopiesStep DEF Next
<1>3. Copied /\ RouteInv /\ CounterInv => TypeOK
  BY DEF RouteInv, TableInv, Table, CounterInv, Counters, TypeOK
<1> HIDE DEF Copied
<1> QED
  BY <1>1, <1>2, <1>3, Counting, PTL DEF Spec

(* CountersBalance, for any number of ports and packets and any failing writes: no
   received packet is missing from the diagnostics or counted twice. *)
THEOREM Balancing == Spec => []CountersBalance
<1>1. CounterInv => CountersBalance
  BY DEF CounterInv, Balance, Covers, CountersBalance
<1> QED
  BY <1>1, Counting, PTL
=============================================================================
