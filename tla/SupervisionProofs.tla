-------------------------- MODULE SupervisionProofs -------------------------
(***************************************************************************)
(* The supervisor for every set of nodes, every interval, step and clock   *)
(* width, and every pattern of writes that fail and frames that are lost.  *)
(***************************************************************************)
EXTENDS Supervision, TLAPS

USE SupervisionAssumption

\* The age at time t of a timestamp: Elapsed, at any time
Age(t, since) == IF t >= since THEN t - since ELSE t - since + ClockMod

(* A step makes a timestamp older by its length, unless that completes a turn: then it
   looks younger than the step. *)
LEMMA ClockSteps ==
  ASSUME NEW t \in Clock, NEW u \in Clock, NEW since \in Clock, NEW d \in 0 .. MaxStep,
         u = IF t + d < ClockMod THEN t + d ELSE t + d - ClockMod
  PROVE  /\ Age(t, since) \in Clock /\ Age(u, since) \in Clock
         /\ Age(t, since) + d < ClockMod => Age(u, since) = Age(t, since) + d
         /\ Age(t, since) + d >= ClockMod => Age(u, since) = Age(t, since) + d - ClockMod
BY DEF Clock, Age

LEMMA AgesAreTimes ==
  ASSUME NEW t \in Clock, NEW since \in Clock
  PROVE  Age(t, since) \in Clock
BY DEF Clock, Age

LEMMA JustNow ==
  ASSUME NEW t \in Clock
  PROVE  Age(t, t) = 0
BY DEF Clock, Age

LEMMA LaterIsTime ==
  ASSUME NEW d \in 0 .. MaxStep, now \in Clock
  PROVE  /\ Later(d) \in Clock
         /\ Later(d) = IF now + d < ClockMod THEN now + d ELSE now + d - ClockMod
BY DEF Clock, Later

-----------------------------------------------------------------------------
(* Types. *)

\* Requests and packets are of the kinds the model has, for nodes it has.
LEMMA RequestTypes ==
  /\ \A kind \in Requests : To(Nodes, kind) \subseteq [to : Nodes, kind : Requests]
  /\ AskStates \subseteq [to : Nodes, kind : Requests]
  /\ \A r \in [to : Nodes, kind : Requests] : Answer(r) \in Packets
BY DEF To, Requests, AskStates, Answer, Packets

LEMMA InitTypes == Init => TypeOK
<1> SUFFICES ASSUME Init PROVE TypeOK
  OBVIOUS
<1>1. 0 \in Clock
  BY DEF Clock
<1>2. asked \subseteq [to : Nodes, kind : Requests]
  BY RequestTypes DEF Init, Requests
<1>3. last_seen \in [Nodes -> Clock \cup {NotOnline}]
  BY DEF Init
<1>4. silence \in [Nodes -> 0 .. OfflineTimeout]
  BY DEF Init
<1>5. idle_tx \in [heartbeat : 0 .. HeartbeatInterval + MaxStep,
                    discovery : 0 .. RediscoveryInterval + MaxStep]
  BY DEF Init
<1> QED
  BY <1>1, <1>2, <1>3, <1>4, <1>5 DEF Init, TypeOK

LEMMA StepTypes == TypeOK /\ [Next]_vars => TypeOK'
<1> SUFFICES ASSUME TypeOK, [Next]_vars PROVE TypeOK'
  OBVIOUS
<1> USE DEF TypeOK
<1>1. ASSUME NEW d \in 0 .. MaxStep, Wake(d) \/ \E e \in 0 .. d : Scan(e, d) PROVE TypeOK'
  <2>1. PICK k \in Nat : NextPass(d, k)
    BY <1>1 DEF Wake, Scan
  <2>2. now' \in Clock
    BY <2>1, LaterIsTime DEF NextPass
  <2>3. silence' \in [Nodes -> 0 .. OfflineTimeout]
    BY <2>1 DEF NextPass, AtMost
  <2>4. idle_tx' \in [heartbeat : 0 .. HeartbeatInterval + MaxStep,
                      discovery : 0 .. RediscoveryInterval + MaxStep]
    BY <2>1 DEF NextPass, AtMost
  <2>5. /\ UNCHANGED <<last_seen, identified, faulty, required_fault, heartbeat_tx, arriving, powered>>
        /\ discovery_tx' \in Clock /\ asked' \subseteq [to : Nodes, kind : Requests]
    <3>1. CASE Wake(d)
      BY <3>1 DEF Wake, book, link
    <3>2. ASSUME NEW e \in 0 .. d, Scan(e, d)
          PROVE  /\ UNCHANGED <<last_seen, identified, faulty, required_fault, heartbeat_tx,
                               arriving, powered>>
                 /\ discovery_tx' \in Clock /\ asked' \subseteq [to : Nodes, kind : Requests]
      <4>1. Later(e) \in Clock
        BY LaterIsTime
      <4>2. To(Nodes, "discovery") \subseteq [to : Nodes, kind : Requests]
        BY RequestTypes DEF Requests
      <4> QED
        BY <3>2, <4>1, <4>2 DEF Scan
    <3> QED
      BY <1>1, <3>1, <3>2
  <2> QED
    BY <2>1, <2>2, <2>3, <2>4, <2>5 DEF NextPass
<1>2. ASSUME NEW p \in arriving, Observe(p) PROVE TypeOK'
  <2>1. p.from \in Nodes
    BY DEF Packets
  <2>2. silence' \in [Nodes -> 0 .. OfflineTimeout]
    BY <1>2, <2>1 DEF Observe
  <2>3. last_seen' \in [Nodes -> Clock \cup {NotOnline}]
    BY <1>2, <2>1 DEF Observe
  <2>4. identified' \in [Nodes -> BOOLEAN] /\ faulty' \in [Nodes -> BOOLEAN]
    BY <1>2, <2>1 DEF Observe
  <2> QED
    BY <1>2, <2>2, <2>3, <2>4 DEF Observe
<1>3. CASE Service
  <2>1. last_seen' \in [Nodes -> Clock \cup {NotOnline}]
    BY <1>3 DEF Service
  <2>2. required_fault' \in BOOLEAN
    BY <1>3, Zenon DEF Service
  <2>3. heartbeat_tx' \in Clock /\ discovery_tx' \in Clock
    BY <1>3 DEF Service
  <2>4. asked' \subseteq [to : Nodes, kind : Requests]
    BY <1>3, RequestTypes DEF Service, Requests
  <2>5. idle_tx' \in [heartbeat : 0 .. HeartbeatInterval + MaxStep,
                      discovery : 0 .. RediscoveryInterval + MaxStep]
    BY <1>3 DEF Service
  <2> QED
    BY <1>3, <2>1, <2>2, <2>3, <2>4, <2>5 DEF Service
<1>4. CASE Refresh
  BY <1>4, RequestTypes DEF Refresh, book
<1>5. ASSUME NEW r \in asked, NEW delivered \in BOOLEAN, NodeHandles(r, delivered)
      PROVE  TypeOK'
  BY <1>5, RequestTypes DEF NodeHandles, book
<1>6. ASSUME NEW n \in Nodes, NEW kind \in Unasked, NodeSends(n, kind) PROVE TypeOK'
  <2>1. [from |-> n, kind |-> kind] \in Packets
    BY DEF Packets
  <2> QED
    BY <1>6, <2>1 DEF NodeSends, book
<1>7. ASSUME NEW r \in asked, FrameLost(r) PROVE TypeOK'
  BY <1>7 DEF FrameLost, book
<1>8. ASSUME NEW n \in Nodes, PowerChanges(n) PROVE TypeOK'
  BY <1>8 DEF PowerChanges, book
<1>9. CASE UNCHANGED vars
  BY <1>9 DEF vars
<1> QED
  BY <1>1, <1>2, <1>3, <1>4, <1>5, <1>6, <1>7, <1>8, <1>9 DEF Next

(* TypeOK, for any number of nodes: every entry, timestamp and frame is in range. *)
THEOREM Typing == Spec => []TypeOK
<1>1. Init => TypeOK
  BY InitTypes
<1>2. TypeOK /\ [Next]_vars => TypeOK'
  BY StepTypes
<1> QED
  BY <1>1, <1>2, PTL DEF Spec

-----------------------------------------------------------------------------
(* Online means heard. *)

\* A node is online for as long as its silence, capped, is the age of its timestamp.
\* No pass adds more than a step to an age below the timeout, so no age wraps.
HeardInv ==
  \A n \in Nodes :
    IF last_seen[n] = NotOnline THEN silence[n] = OfflineTimeout
    ELSE /\ Age(now, last_seen[n]) < OfflineTimeout + (IF phase = "poll" THEN MaxStep ELSE 0)
         /\ silence[n] = AtMost(OfflineTimeout, Age(now, last_seen[n]))

\* A timestamp is not the mark of an entry that is not online.
LEMMA StampsAreTimes ==
  ASSUME NEW s \in Clock
  PROVE  s # NotOnline
BY DEF Clock, NotOnline

LEMMA StepHears == TypeOK /\ TypeOK' /\ HeardInv /\ [Next]_vars => HeardInv'
<1> SUFFICES ASSUME TypeOK, TypeOK', HeardInv, [Next]_vars PROVE HeardInv'
  OBVIOUS
<1>1. ASSUME NEW d \in 0 .. MaxStep, NEW k, NextPass(d, k), UNCHANGED last_seen
      PROVE  HeardInv'
  <2> SUFFICES ASSUME NEW n \in Nodes
               PROVE  IF last_seen[n] = NotOnline THEN silence'[n] = OfflineTimeout
                      ELSE /\ Age(now', last_seen[n]) < OfflineTimeout + MaxStep
                           /\ silence'[n] = AtMost(OfflineTimeout, Age(now', last_seen[n]))
    BY <1>1 DEF NextPass, HeardInv
  <2> DEFINE t == last_seen[n]
             u == now'
  <2>1. now \in Clock /\ u \in Clock /\ u = IF now + d < ClockMod THEN now + d ELSE now + d - ClockMod
    BY <1>1, LaterIsTime DEF NextPass, TypeOK
  <2>2. silence'[n] = AtMost(OfflineTimeout, silence[n] + d) /\ silence[n] \in 0 .. OfflineTimeout
    BY <1>1 DEF NextPass, TypeOK
  <2>3. IF t = NotOnline THEN silence[n] = OfflineTimeout
        ELSE /\ Age(now, t) < OfflineTimeout
             /\ silence[n] = AtMost(OfflineTimeout, Age(now, t))
    BY <1>1 DEF NextPass, HeardInv
  <2>4. t \in Clock \cup {NotOnline}
    BY DEF TypeOK
  <2> HIDE DEF t, u
  <2>5. CASE t = NotOnline
    BY <2>2, <2>3, <2>5 DEF AtMost, t
  <2>6. CASE t # NotOnline
    <3>1. Age(now, t) \in 0 .. OfflineTimeout - 1 /\ Age(u, t) = Age(now, t) + d
      <4>1. t \in Clock
        BY <2>4, <2>6
      <4>2. /\ Age(now, t) \in Clock
            /\ Age(now, t) + d < ClockMod => Age(u, t) = Age(now, t) + d
        BY <2>1, <4>1, ClockSteps
      <4>3. Age(now, t) < OfflineTimeout
        BY <2>3, <2>6
      <4> QED
        BY <4>2, <4>3 DEF Clock
    <3>2. silence[n] = Age(now, t)
      BY <2>3, <2>6, <3>1 DEF AtMost
    <3> QED
      BY <2>2, <2>6, <3>1, <3>2 DEF AtMost, t, u
  <2> QED
    BY <2>5, <2>6
<1>2. ASSUME NEW p \in arriving, Observe(p) PROVE HeardInv'
  <2> SUFFICES ASSUME NEW n \in Nodes
               PROVE  IF last_seen'[n] = NotOnline THEN silence'[n] = OfflineTimeout
                      ELSE /\ Age(now, last_seen'[n]) < OfflineTimeout + MaxStep
                           /\ silence'[n] = AtMost(OfflineTimeout, Age(now, last_seen'[n]))
    BY <1>2 DEF Observe, HeardInv
  <2>1. CASE n = p.from
    <3>1. last_seen'[n] = now /\ silence'[n] = 0 /\ now \in Clock
      BY <1>2, <2>1 DEF Observe, TypeOK
    <3> QED
      BY <3>1, JustNow, StampsAreTimes DEF AtMost
  <2>2. CASE n # p.from
    <3>1. last_seen'[n] = last_seen[n] /\ silence'[n] = silence[n]
      BY <1>2, <2>2 DEF Observe, TypeOK
    <3> QED
      BY <1>2, <3>1 DEF Observe, HeardInv
  <2> QED
    BY <2>1, <2>2
<1>3. CASE Service
  <2> SUFFICES ASSUME NEW n \in Nodes
               PROVE  IF last_seen'[n] = NotOnline THEN silence[n] = OfflineTimeout
                      ELSE /\ Age(now, last_seen'[n]) < OfflineTimeout + 0
                           /\ silence[n] = AtMost(OfflineTimeout, Age(now, last_seen'[n]))
    BY <1>3 DEF Service, HeardInv
  <2> DEFINE t == last_seen[n]
  <2>1. last_seen'[n] = IF StillOnline(n) THEN t ELSE NotOnline
    BY <1>3 DEF Service
  <2>2. StillOnline(n) <=> t # NotOnline /\ ~(Age(now, t) >= OfflineTimeout)
    BY DEF StillOnline, Online, Due, Elapsed, Age
  <2>3. IF t = NotOnline THEN silence[n] = OfflineTimeout
        ELSE silence[n] = AtMost(OfflineTimeout, Age(now, t))
    BY DEF HeardInv
  <2>4. t # NotOnline => Age(now, t) \in Nat
    BY DEF TypeOK, Clock, Age
  <2> HIDE DEF t
  <2> QED
    BY <2>1, <2>2, <2>3, <2>4 DEF AtMost
<1>4. CASE UNCHANGED <<now, phase, last_seen, silence>>
  BY <1>4 DEF HeardInv
<1>5. \/ \E d \in 0 .. MaxStep : (\E k : NextPass(d, k)) /\ UNCHANGED last_seen
      \/ \E p \in arriving : Observe(p)
      \/ Service
      \/ UNCHANGED <<now, phase, last_seen, silence>>
  BY DEF Next, Wake, Scan, vars, book, Refresh, NodeHandles, NodeSends, FrameLost, PowerChanges
<1> QED
  BY <1>1, <1>2, <1>3, <1>4, <1>5

(* OnlineMeansHeard, for any number of nodes and all timings: across clock wrap and
   with late frames, a pass ends with a node online exactly if it was heard in time. *)
THEOREM Hearing == Spec => []OnlineMeansHeard
<1>1. Init => TypeOK /\ HeardInv
  BY InitTypes DEF Init, HeardInv
<1>2. TypeOK /\ HeardInv /\ [Next]_vars => (TypeOK /\ HeardInv)'
  BY StepTypes, StepHears
<1>3. TypeOK /\ HeardInv => OnlineMeansHeard
  <2> SUFFICES ASSUME TypeOK, HeardInv, phase = "idle", NEW n \in Nodes
               PROVE  Online(n) <=> silence[n] < OfflineTimeout
    BY DEF OnlineMeansHeard
  <2> DEFINE t == last_seen[n]
  <2>1. t # NotOnline => Age(now, t) \in Nat
    BY DEF TypeOK, Clock, Age
  <2>2. IF t = NotOnline THEN silence[n] = OfflineTimeout
        ELSE /\ Age(now, t) < OfflineTimeout + 0
             /\ silence[n] = AtMost(OfflineTimeout, Age(now, t))
    BY DEF HeardInv
  <2> HIDE DEF t
  <2> QED
    BY <2>1, <2>2 DEF AtMost, Online, t
<1> QED
  BY <1>1, <1>2, <1>3, PTL DEF Spec

-----------------------------------------------------------------------------
(* Asking goes on. *)

\* The time since the last try exceeds the age of the last success by a step at most:
\* more would take a pass in which the age says due, and that pass tries again.
OnTime(tx, idle, interval) ==
  LET age == Age(now, tx)
  IN  \/ phase = "idle" /\ idle = 0
      \/ idle <= age + MaxStep /\ (phase = "idle" => age < interval)

AskInv ==
  /\ OnTime(heartbeat_tx, idle_tx.heartbeat, HeartbeatInterval)
  /\ required_fault => OnTime(discovery_tx, idle_tx.discovery, RediscoveryInterval)

LEMMA StepAsks == TypeOK /\ TypeOK' /\ AskInv /\ [Next]_vars => AskInv'
<1> SUFFICES ASSUME TypeOK, TypeOK', AskInv, [Next]_vars PROVE AskInv'
  OBVIOUS
<1>1. ASSUME NEW d \in 0 .. MaxStep, Wake(d) \/ \E e \in 0 .. d : Scan(e, d) PROVE AskInv'
  <2> DEFINE u == now'
             beat == idle_tx'.heartbeat
             find == idle_tx'.discovery
  <2>1. now \in Clock /\ u \in Clock /\ u = IF now + d < ClockMod THEN now + d ELSE now + d - ClockMod
    BY <1>1, LaterIsTime DEF Wake, Scan, NextPass, TypeOK
  <2>2. heartbeat_tx \in Clock /\ discovery_tx \in Clock
    BY DEF TypeOK
  <2>3. /\ idle_tx.heartbeat \in Nat /\ idle_tx.discovery \in Nat
        /\ beat \in Nat /\ find \in Nat
    BY DEF TypeOK
  <2>4. /\ beat = AtMost(HeartbeatInterval + MaxStep, idle_tx.heartbeat + d)
        /\ Wake(d) => find = AtMost(RediscoveryInterval + MaxStep, idle_tx.discovery + d)
        /\ phase = "idle" /\ phase' = "poll" /\ UNCHANGED <<required_fault, heartbeat_tx>>
    BY <1>1 DEF Wake, Scan, NextPass, book
  <2>5. /\ HeartbeatInterval \in Nat /\ HeartbeatInterval + MaxStep < ClockMod
        /\ RediscoveryInterval \in Nat /\ RediscoveryInterval + MaxStep < ClockMod
    OBVIOUS
  <2> HIDE DEF u, beat, find
  <2>6. beat <= Age(u, heartbeat_tx) + MaxStep
    <3> DEFINE a == Age(now, heartbeat_tx)
               b == Age(u, heartbeat_tx)
    <3>1. idle_tx.heartbeat = 0 \/ (a < HeartbeatInterval /\ idle_tx.heartbeat <= a + MaxStep)
      BY <2>4 DEF AskInv, OnTime
    <3>2. a \in Clock /\ b \in Clock /\ (a + d < ClockMod => b = a + d)
      BY <2>1, <2>2, ClockSteps
    <3>3. beat <= idle_tx.heartbeat + d
      BY <2>3, <2>4 DEF AtMost
    <3> HIDE DEF a, b
    <3>4. beat <= b + MaxStep
      BY <2>3, <2>5, <3>1, <3>2, <3>3 DEF Clock
    <3> QED
      BY <3>4 DEF b
  <2>7. ASSUME required_fault, Wake(d)
        PROVE  find <= Age(u, discovery_tx) + MaxStep
    <3> DEFINE a == Age(now, discovery_tx)
               b == Age(u, discovery_tx)
    <3>1. idle_tx.discovery = 0 \/ (a < RediscoveryInterval /\ idle_tx.discovery <= a + MaxStep)
      BY <2>4, <2>7 DEF AskInv, OnTime
    <3>2. a \in Clock /\ b \in Clock /\ (a + d < ClockMod => b = a + d)
      BY <2>1, <2>2, ClockSteps
    <3>3. find <= idle_tx.discovery + d
      BY <2>3, <2>4, <2>7 DEF AtMost
    <3> HIDE DEF a, b
    <3>4. find <= b + MaxStep
      BY <2>3, <2>5, <3>1, <3>2, <3>3 DEF Clock
    <3> QED
      BY <3>4 DEF b
  <2>8. ASSUME NEW e \in 0 .. d, Scan(e, d)
        PROVE  find <= Age(u, discovery_tx') + MaxStep
    <3>1. find <= d - e
      BY <2>8 DEF Scan, NextPass, AtMost, find
    <3>2. discovery_tx' \in Clock
      BY DEF TypeOK
    <3>3. Age(u, discovery_tx') \in Clock
      BY <2>1, <3>2, AgesAreTimes
    <3> HIDE DEF Age
    <3> QED
      BY <2>3, <3>1, <3>3 DEF Clock
  <2>9. OnTime(heartbeat_tx, idle_tx.heartbeat, HeartbeatInterval)'
    BY <2>4, <2>6 DEF OnTime, u, beat
  <2>10. ASSUME required_fault
         PROVE  OnTime(discovery_tx, idle_tx.discovery, RediscoveryInterval)'
    <3>1. find <= Age(u, discovery_tx') + MaxStep
      <4>1. CASE Wake(d)
        BY <2>7, <2>10, <4>1 DEF Wake, book
      <4> QED
        BY <1>1, <2>8, <4>1
    <3> QED
      BY <2>4, <3>1 DEF OnTime, u, find
  <2> QED
    BY <2>4, <2>9, <2>10 DEF AskInv
<1>2. CASE Service
  <2>1. phase = "poll" /\ phase' = "idle" /\ now' = now
    BY <1>2 DEF Service
  <2> DEFINE beats == Due(heartbeat_tx, HeartbeatInterval)
             finds == required_fault' /\ Due(discovery_tx, RediscoveryInterval)
  <2>2. /\ beats <=> Age(now, heartbeat_tx) >= HeartbeatInterval
        /\ finds <=> required_fault' /\ Age(now, discovery_tx) >= RediscoveryInterval
    BY DEF Due, Elapsed, Age
  <2>6. /\ ~beats => heartbeat_tx' = heartbeat_tx
        /\ ~finds => discovery_tx' = discovery_tx
        /\ idle_tx'.heartbeat = IF beats THEN 0 ELSE idle_tx.heartbeat
        /\ idle_tx'.discovery = IF finds \/ ~required_fault THEN 0 ELSE idle_tx.discovery
    BY <1>2 DEF Service
  <2> HIDE DEF beats, finds
  <2>3. /\ Age(now, heartbeat_tx) \in Nat /\ Age(now, discovery_tx) \in Nat
        /\ required_fault \in BOOLEAN
    BY DEF TypeOK, Clock, Age
  <2>4. OnTime(heartbeat_tx, idle_tx.heartbeat, HeartbeatInterval)'
    <3>1. idle_tx.heartbeat <= Age(now, heartbeat_tx) + MaxStep
      BY <2>1 DEF AskInv, OnTime
    <3> QED
      BY <2>1, <2>2, <2>3, <2>6, <3>1 DEF OnTime
  <2>5. ASSUME required_fault'
        PROVE  OnTime(discovery_tx, idle_tx.discovery, RediscoveryInterval)'
    <3>1. required_fault => idle_tx.discovery <= Age(now, discovery_tx) + MaxStep
      BY <2>1 DEF AskInv, OnTime
    <3> QED
      BY <2>1, <2>2, <2>3, <2>5, <2>6, <3>1 DEF OnTime
  <2> QED
    BY <2>4, <2>5 DEF AskInv
<1>3. CASE UNCHANGED <<now, phase, required_fault, heartbeat_tx, discovery_tx, idle_tx>>
  BY <1>3 DEF AskInv, OnTime
<1>4. \/ \E d \in 0 .. MaxStep : Wake(d) \/ \E e \in 0 .. d : Scan(e, d)
      \/ Service
      \/ UNCHANGED <<now, phase, required_fault, heartbeat_tx, discovery_tx, idle_tx>>
  BY DEF Next, vars, book, Observe, Refresh, NodeHandles, NodeSends, FrameLost, PowerChanges
<1> QED
  BY <1>1, <1>2, <1>3, <1>4

(* NeverStopsAsking, for all intervals and any pattern of failing writes: also where the
   age of the last success wraps, heartbeats and discoveries are a step late at most. *)
THEOREM Asking == Spec => []NeverStopsAsking
<1>1. Init => TypeOK /\ AskInv
  BY InitTypes DEF Init, AskInv, OnTime
<1>2. TypeOK /\ AskInv /\ [Next]_vars => (TypeOK /\ AskInv)'
  BY StepTypes, StepAsks
<1>3. TypeOK /\ AskInv => NeverStopsAsking
  <2> SUFFICES ASSUME TypeOK, AskInv, phase = "idle"
               PROVE  /\ idle_tx.heartbeat < HeartbeatInterval + MaxStep
                      /\ required_fault => idle_tx.discovery < RediscoveryInterval + MaxStep
    BY DEF NeverStopsAsking
  <2>1. Age(now, heartbeat_tx) \in Nat /\ Age(now, discovery_tx) \in Nat
    BY DEF TypeOK, Clock, Age
  <2>2. idle_tx.heartbeat \in Nat /\ idle_tx.discovery \in Nat
    BY DEF TypeOK
  <2> QED
    BY <2>1, <2>2 DEF AskInv, OnTime
<1> QED
  BY <1>1, <1>2, <1>3, PTL DEF Spec
=============================================================================
