------------------------ MODULE SecurityMonitorProofs ------------------------
(***************************************************************************)
(* The server's timing rules in real time, its promises across restarts    *)
(* and its reports, for every confirmation time and alarm duration, every  *)
(* clock width and step, all controllers and every failure of the driver   *)
(* and the store.                                                          *)
(*                                                                         *)
(* MonitorInv is inductive together with SafetyInv, which holds because    *)
(* the watched server is the server (MonitorWatches).  What it adds ties   *)
(* each age of the history to the timestamp that the code keeps for it.    *)
(***************************************************************************)
EXTENDS SecurityMonitor, SecurityServerProofs

USE TimingAssumption, EnvironmentAssumption

-----------------------------------------------------------------------------
(* The server, watched, is the server: what holds of Spec holds of MonitorSpec. *)

LEMMA MonitorWatches == MonitorSpec => Spec
<1>1. MonitorInit => Init
  BY DEF MonitorInit
<1>2. [MonitorNext]_monitor_vars => [Next]_vars
  BY DEF MonitorNext, MonitorCommand, Next, Command, monitor_vars
<1> QED
  BY <1>1, <1>2, PTL DEF MonitorSpec, Spec

LEMMA WatchedSafety == MonitorSpec => [](TypeOK /\ SafetyInv)
BY MonitorWatches, Safety, PTL

-----------------------------------------------------------------------------
(* What the timestamps are to the ages that the history remembers. *)

\* The age at time t of a timestamp: Elapsed, at any time
Age(t, since) == IF t >= since THEN t - since ELSE t - since + ClockMod

\* How much longer than a deadline a pass may find something overdue.
Slack == IF phase = "poll" THEN MaxStep ELSE 0

\* The engine filter lets go of "running" only after the confirmation time, which its
\* timestamp never overstates.
StopIs ==
  IF engine = "running"
  THEN stop_started # NotPending =>
         /\ Age(now, stop_started) < StopConfirm + Slack
         /\ stop_age >= AtMost(StopConfirm, Age(now, stop_started))
  ELSE stop_age = StopConfirm /\ stop_started = NotPending

\* A trigger that is believed has been held for the confirmation time; if it has already
\* started the siren, the last pass has seen it too.
TriggerIs ==
  LET f == filter["trigger"]
  IN  IF f.since # NotPending
      THEN /\ ~f.stable
           /\ Age(now, f.since) < TriggerConfirm + Slack
           /\ trigger_age = AtMost(TriggerConfirm, Age(now, f.since))
      ELSE IF ~f.stable THEN trigger_age = NotPending
      ELSE trigger_age = TriggerConfirm \/ (trigger_age = Spent /\ previous["trigger"])

\* With a driver that obeys, no pass leaves an alarm running at its full duration.
SirenIs ==
  (DriverOutcomes = {TRUE} /\ AlarmDuration > 0 /\ alarm_started # NotPending) =>
    /\ Age(now, alarm_started) < AlarmDuration + Slack
    /\ siren_age = AtMost(AlarmDuration, Age(now, alarm_started))

AgesInv ==
  /\ stop_age \in 0 .. StopConfirm /\ siren_age \in 0 .. AlarmDuration
  /\ trigger_age \in {NotPending, Spent} \cup 0 .. TriggerConfirm
  /\ StopIs /\ TriggerIs /\ SirenIs

MonitorInv == AgesInv /\ AcknowledgedIntentSurvives /\ ModeIsReported

-----------------------------------------------------------------------------
(* The clock. *)

LEMMA LaterIsTime ==
  ASSUME NEW d \in 0 .. MaxStep, now \in Clock
  PROVE  /\ Later(d) \in Clock
         /\ Later(d) = IF now + d < ClockMod THEN now + d ELSE now + d - ClockMod
BY DEF Clock, Later

LEMMA JustNow == ASSUME NEW t \in Clock PROVE Age(t, t) = 0 /\ t # NotPending
BY DEF Clock, Age, NotPending

LEMMA AgeIsTime ==
  ASSUME NEW t \in Clock, NEW since \in Stamp, since # NotPending
  PROVE  Age(t, since) \in Nat /\ since \in Clock
BY DEF Clock, Age, Stamp

\* Something younger than its deadline is d older after a step of d, and not wrapped.
LEMMA AgesTogether ==
  ASSUME NEW t \in Clock, NEW u \in Clock, NEW since \in Clock, NEW d \in 0 .. MaxStep,
         u = IF t + d < ClockMod THEN t + d ELSE t + d - ClockMod,
         NEW limit \in Nat, limit + MaxStep < ClockMod,
         Age(t, since) < limit
  PROVE  /\ Age(u, since) < limit + MaxStep
         /\ Age(u, since) = Age(t, since) + d
         /\ Age(t, since) \in Nat
BY DEF Clock, Age

LEMMA Capped ==
  ASSUME NEW cap \in Nat, NEW n \in Nat
  PROVE  AtMost(cap, n) \in 0 .. cap /\ AtMost(cap, n) <= n
BY DEF AtMost

LEMMA CappedSum ==
  ASSUME NEW cap \in Nat, NEW n \in Nat, NEW m \in Nat, NEW d \in Nat,
         m >= AtMost(cap, n)
  PROVE  AtMost(cap, m + d) >= AtMost(cap, n + d)
BY DEF AtMost

LEMMA CappedTwice ==
  ASSUME NEW cap \in Nat, NEW n \in Nat, NEW d \in Nat
  PROVE  AtMost(cap, AtMost(cap, n) + d) = AtMost(cap, n + d)
BY DEF AtMost

\* In a step of the clock a stamp younger than its limit ages by d.
LEMMA WakeAges ==
  ASSUME TypeOK, NEW d \in 0 .. MaxStep, Wake(d), NEW since \in Stamp, since # NotPending,
         NEW limit \in {StopConfirm, TriggerConfirm, AlarmDuration},
         Age(now, since) < limit + Slack
  PROVE  /\ Age(now, since) \in Nat /\ limit \in Nat
         /\ Age(now', since) < limit + Slack'
         /\ Age(now', since) = Age(now, since) + d
<1> DEFINE u == now'
<1>1. /\ now \in Clock /\ u \in Clock /\ since \in Clock
      /\ u = IF now + d < ClockMod THEN now + d ELSE now + d - ClockMod
  BY LaterIsTime, AgeIsTime DEF TypeOK, Wake
<1>2. limit \in Nat /\ limit + MaxStep < ClockMod
  OBVIOUS
<1>3. Age(now, since) < limit /\ Slack' = MaxStep
  BY <1>1, AgeIsTime DEF Wake, Slack
<1> HIDE DEF u
<1>4. /\ Age(u, since) < limit + MaxStep
      /\ Age(u, since) = Age(now, since) + d
      /\ Age(now, since) \in Nat
  BY <1>1, <1>2, <1>3, AgesTogether
<1> QED
  BY <1>2, <1>3, <1>4 DEF u

-----------------------------------------------------------------------------
(* A sample, which takes no time, and what is seen of it. *)

LEMMA ElapsedIsAge ==
  ASSUME TypeOK, NEW since \in Stamp, since # NotPending
  PROVE  Elapsed(since) = Age(now, since)
BY AgeIsTime DEF Elapsed, Age, TypeOK

LEMMA EngineSampled ==
  ASSUME TypeOK, AgesInv, SampleInputs, Observing, phase = "poll", now' = now
  PROVE  stop_age' \in 0 .. StopConfirm /\ StopIs'
<1>1. /\ now \in Clock /\ now \in Stamp /\ stop_started \in Stamp /\ stop_age \in 0 .. StopConfirm
      /\ engine \in {"unknown", "running", "stopped"}
      /\ Age(now, now) = 0 /\ now # NotPending
  BY JustNow DEF TypeOK, AgesInv, Stamp
<1>2. stop_age' = IF raw["engine"] THEN 0 ELSE stop_age
  BY DEF Observing
<1>3. CASE raw["engine"]
  <2>1. engine' = "running" /\ stop_started' = NotPending
    BY <1>3 DEF SampleInputs, SampleEngine
  <2> QED
    BY <1>2, <1>3, <2>1 DEF StopIs
<1>4. CASE ~raw["engine"] /\ StopConfirmed
  <2>1. engine' = "stopped" /\ stop_started' = NotPending
    BY <1>4 DEF SampleInputs, SampleEngine
  <2>2. stop_age = StopConfirm
    <3>1. CASE engine # "running"
      BY <3>1 DEF AgesInv, StopIs
    <3>2. CASE engine = "running" /\ stop_started = NotPending
      <4>1. Elapsed(now) = 0
        BY <1>1, ElapsedIsAge
      <4>2. StopConfirm = 0
        BY <1>4, <3>2, <4>1 DEF StopConfirmed, StopSince
      <4> QED
        BY <1>1, <4>2
    <3>3. CASE engine = "running" /\ stop_started # NotPending
      <4>1. Age(now, stop_started) \in Nat /\ Age(now, stop_started) >= StopConfirm
        BY <1>1, <1>4, <3>3, ElapsedIsAge, AgeIsTime DEF StopConfirmed, StopSince
      <4>2. stop_age >= AtMost(StopConfirm, Age(now, stop_started))
        BY <3>3 DEF AgesInv, StopIs
      <4> QED
        BY <1>1, <4>1, <4>2 DEF AtMost
    <3> QED
      BY <3>1, <3>2, <3>3
  <2> QED
    BY <1>1, <1>2, <1>4, <2>1, <2>2 DEF StopIs
<1>5. CASE ~raw["engine"] /\ ~StopConfirmed
  <2>1. /\ engine' = "running" /\ engine = "running" /\ stop_started' = StopSince
        /\ ~(Elapsed(StopSince) >= StopConfirm) /\ stop_age' = stop_age
    BY <1>2, <1>5 DEF SampleInputs, SampleEngine, StopConfirmed
  <2>2. CASE stop_started = NotPending
    <3>1. StopSince = now /\ Elapsed(now) = 0
      BY <1>1, <2>2, ElapsedIsAge DEF StopSince
    <3>2. AtMost(StopConfirm, 0) = 0 /\ 0 < StopConfirm + Slack'
      BY <2>1, <3>1 DEF AtMost, Slack
    <3> HIDE DEF Slack, Age
    <3> QED
      BY <1>1, <2>1, <3>1, <3>2 DEF StopIs
  <2>3. CASE stop_started # NotPending
    <3>1. stop_started' = stop_started
      BY <2>1, <2>3 DEF StopSince
    <3>2. Age(now, stop_started) \in Nat /\ Age(now, stop_started) < StopConfirm
      BY <1>1, <2>1, <2>3, ElapsedIsAge, AgeIsTime DEF StopSince
    <3>3. Age(now, stop_started)' = Age(now, stop_started)
      BY <3>1 DEF Age
    <3>4. Slack' \in Nat
      BY DEF Slack
    <3> QED
      BY <1>1, <2>1, <2>3, <3>1, <3>2, <3>3, <3>4 DEF AgesInv, StopIs
  <2> QED
    BY <1>1, <2>1, <2>2, <2>3
<1> QED
  BY <1>3, <1>4, <1>5

\* The trigger's part, for a step in which the siren starts only on a trigger that the
\* filter believes and that the last pass did not.
LEMMA TriggerSampled ==
  ASSUME TypeOK, AgesInv, SampleInputs, Observing, phase = "poll", now' = now,
         SirenStarts => /\ filter'["trigger"].stable /\ ~previous["trigger"]
                        /\ previous'["trigger"],
         \/ previous' = previous
         \/ filter'["trigger"].stable => previous'["trigger"]
  PROVE  /\ trigger_age' \in {NotPending, Spent} \cup 0 .. TriggerConfirm
         /\ TriggerIs'
         /\ SirenStarts => TriggerHeld >= TriggerConfirm
<1> DEFINE f == filter["trigger"]
           g == filter'["trigger"]
           on == raw["trigger"]
           since == IF f.since = NotPending THEN now ELSE f.since
           held == f.stable \/ Elapsed(since) >= TriggerConfirm
<1>1. /\ now \in Clock /\ now \in Stamp /\ f \in [stable : BOOLEAN, since : Stamp]
      /\ on \in BOOLEAN /\ Age(now, now) = 0 /\ now # NotPending
      /\ trigger_age \in {NotPending, Spent} \cup 0 .. TriggerConfirm
  BY JustNow DEF TypeOK, AgesInv, Shocks, Inputs, Stamp
<1>2. g = [stable |-> on /\ held, since |-> IF on /\ ~held THEN since ELSE NotPending]
  BY DEF SampleInputs, SampleShocks, FilteredAssert, Shocks, Confirm
<1>2a. /\ g.stable <=> on /\ held
       /\ g.since = IF on /\ ~held THEN since ELSE NotPending
  <2> DEFINE b == on /\ held
             t == IF on /\ ~held THEN since ELSE NotPending
  <2>1. g = [stable |-> b, since |-> t]
    BY <1>2
  <2> HIDE DEF b, t
  <2>2. g.stable = b /\ g.since = t
    BY <2>1
  <2> QED
    BY <2>2 DEF b, t
<1>3. trigger_age' = IF ~on THEN NotPending ELSE IF SirenStarts THEN Spent ELSE TriggerHeld
  BY DEF Observing
<1>4. f.since \in Stamp /\ f.stable \in BOOLEAN /\ since \in Stamp /\ since # NotPending
  BY <1>1
<1>5. Elapsed(since) = Age(now, since) /\ Age(now, since) \in Nat
  BY <1>1, <1>4, ElapsedIsAge, AgeIsTime
<1>6. IF f.since # NotPending
      THEN ~f.stable /\ trigger_age = AtMost(TriggerConfirm, Age(now, since))
      ELSE IF ~f.stable THEN trigger_age = NotPending
      ELSE trigger_age = TriggerConfirm \/ (trigger_age = Spent /\ previous["trigger"])
  BY DEF AgesInv, TriggerIs
<1>7. TriggerHeld \in {Spent} \cup 0 .. TriggerConfirm
  BY <1>1 DEF TriggerHeld
<1>8. trigger_age' \in {NotPending, Spent} \cup 0 .. TriggerConfirm
  BY <1>3, <1>7
<1>9. held => \/ TriggerHeld = TriggerConfirm
              \/ TriggerHeld = Spent /\ f.stable /\ previous["trigger"]
  <2> SUFFICES ASSUME held
               PROVE  \/ TriggerHeld = TriggerConfirm
                      \/ TriggerHeld = Spent /\ f.stable /\ previous["trigger"]
    OBVIOUS
  <2>1. CASE f.stable
    BY <1>6, <2>1 DEF TriggerHeld, NotPending, Spent
  <2>2. CASE ~f.stable /\ f.since = NotPending
    <3>1. Elapsed(since) = 0
      BY <1>1, <1>5, <2>2
    <3>2. TriggerConfirm = 0
      BY <2>2, <3>1
    <3> QED
      BY <1>6, <2>2, <3>2 DEF TriggerHeld
  <2>3. CASE ~f.stable /\ f.since # NotPending
    <3>1. Age(now, since) >= TriggerConfirm
      BY <1>5, <2>3
    <3> HIDE DEF since
    <3>2. trigger_age = TriggerConfirm
      BY <1>5, <1>6, <2>3, <3>1 DEF AtMost
    <3> QED
      BY <3>2 DEF TriggerHeld, NotPending
  <2> QED
    BY <2>1, <2>2, <2>3
<1>10. ~held => /\ ~f.stable /\ Age(now, since) < TriggerConfirm
                /\ TriggerHeld = AtMost(TriggerConfirm, Age(now, since))
  <2> SUFFICES ASSUME ~held
               PROVE  /\ ~f.stable /\ Age(now, since) < TriggerConfirm
                      /\ TriggerHeld = AtMost(TriggerConfirm, Age(now, since))
    OBVIOUS
  <2>1. ~f.stable /\ Age(now, since) < TriggerConfirm
    BY <1>5
  <2>2. CASE f.since = NotPending
    <3>1. Age(now, since) = 0
      BY <1>1, <2>2
    <3>2. TriggerHeld = 0
      BY <1>6, <2>1, <2>2 DEF TriggerHeld
    <3> QED
      BY <2>1, <3>1, <3>2 DEF AtMost
  <2>3. CASE f.since # NotPending
    <3> HIDE DEF since
    <3>1. trigger_age = AtMost(TriggerConfirm, Age(now, since))
      BY <1>6, <2>3
    <3>2. trigger_age # NotPending
      BY <1>5, <3>1, Capped DEF NotPending
    <3> QED
      BY <2>1, <3>1, <3>2 DEF TriggerHeld
  <2> QED
    BY <2>1, <2>2, <2>3
<1>11. SirenStarts => on /\ held /\ ~previous["trigger"]
  BY <1>2a
<1>12. Slack' \in Nat
  BY DEF Slack
<1>13. TriggerIs' <=>
         IF g.since # NotPending
         THEN /\ ~g.stable
              /\ Age(now, g.since) < TriggerConfirm + Slack'
              /\ trigger_age' = AtMost(TriggerConfirm, Age(now, g.since))
         ELSE IF ~g.stable THEN trigger_age' = NotPending
         ELSE trigger_age' = TriggerConfirm \/ (trigger_age' = Spent /\ previous'["trigger"])
  BY DEF TriggerIs, Age
<1> HIDE DEF held, since
<1>14. CASE ~on
  <2>1. g.since = NotPending /\ ~g.stable /\ trigger_age' = NotPending
    BY <1>2a, <1>3, <1>14
  <2> QED
    BY <1>8, <1>11, <1>13, <1>14, <2>1
<1>15. CASE on /\ ~held
  <2>1. g.since = since /\ ~g.stable /\ ~SirenStarts
    BY <1>2a, <1>11, <1>15
  <2>2. trigger_age' = TriggerHeld
    BY <1>3, <1>15, <2>1
  <2> QED
    BY <1>4, <1>5, <1>8, <1>10, <1>12, <1>13, <1>15, <2>1, <2>2
<1>16. CASE on /\ held
  <2>1. g.since = NotPending /\ g.stable
    BY <1>2a, <1>16
  <2>2. CASE SirenStarts
    <3>1. trigger_age' = Spent /\ previous'["trigger"]
      BY <1>3, <1>16, <2>2
    <3>2. TriggerHeld = TriggerConfirm
      BY <1>9, <1>11, <1>16, <2>2
    <3> QED
      BY <1>8, <1>13, <2>1, <3>1, <3>2
  <2>3. CASE ~SirenStarts
    <3>1. trigger_age' = TriggerHeld
      BY <1>3, <1>16, <2>3
    <3>2. previous["trigger"] => previous'["trigger"]
      BY <2>1
    <3> QED
      BY <1>8, <1>9, <1>13, <1>16, <2>1, <2>3, <3>1, <3>2
  <2> QED
    BY <2>2, <2>3
<1> QED
  BY <1>14, <1>15, <1>16

\* What service() does with the siren: it starts only in a pass that has just come to
\* believe the trigger, and then with a new timer.
LEMMA SirenServed ==
  ASSUME TypeOK, SafetyInv, Service
  PROVE  /\ SirenStarts => /\ filter'["trigger"].stable /\ ~previous["trigger"]
                           /\ previous'["trigger"] /\ alarm_started' = now
         /\ (DriverOutcomes = {TRUE} /\ alarm_started' # NotPending /\ ~SirenStarts)
              => \/ AlarmDuration = 0
                 \/ alarm_started' = alarm_started /\ ~(Elapsed(alarm_started) >= AlarmDuration)
<1>1. PICK stop \in DriverOutcomes : \E start \in DriverOutcomes : ServiceEffect(stop, start)
  BY DEF Service, ServiceEffect
<1>2. PICK start \in DriverOutcomes : ServiceEffect(stop, start)
  BY <1>1
<1> DEFINE arms     == mode = "LockPending" /\ engine' # "running"
           expires  == /\ mode = "Alarm" /\ alarm_started # NotPending
                       /\ Elapsed(alarm_started) >= AlarmDuration
           stops    == expires /\ stop
           locked   == mode = "Locked" \/ arms \/ stops
           triggers == locked /\ filter'["trigger"].stable /\ ~previous["trigger"]
           starts   == triggers /\ start
<1>3. /\ alarm_output' = (starts \/ (alarm_output /\ ~stops))
      /\ alarm_started' = IF starts THEN now ELSE IF stops THEN NotPending ELSE alarm_started
  BY <1>2 DEF ServiceEffect
<1>4. previous'["trigger"] = filter'["trigger"].stable
  BY DEF Service, Shocks
<1>5. SirenStarts => starts
  BY <1>3 DEF SirenStarts
<1>6. ASSUME SirenStarts
      PROVE  /\ filter'["trigger"].stable /\ ~previous["trigger"]
             /\ previous'["trigger"] /\ alarm_started' = now
  BY <1>3, <1>4, <1>5, <1>6
<1>7. ASSUME DriverOutcomes = {TRUE}, alarm_started' # NotPending, ~SirenStarts, AlarmDuration # 0
      PROVE  alarm_started' = alarm_started /\ ~(Elapsed(alarm_started) >= AlarmDuration)
  <2>1. stop = TRUE /\ start = TRUE
    BY <1>7, <1>1, <1>2
  <2>2. /\ (alarm_output <=> mode = "Alarm") /\ (alarm_output <=> alarm_started # NotPending)
    BY <1>7 DEF SafetyInv, SirenHasTimer
  <2>3. now # NotPending /\ Elapsed(now) = 0
    BY DEF TypeOK, Clock, NotPending, Elapsed
  <2>4. ~starts
    <3> SUFFICES ASSUME starts PROVE FALSE
      OBVIOUS
    <3>1. alarm_started' = now /\ alarm_output'
      BY <1>3
    <3>2. alarm_output /\ now \in {alarm_started, NotPending}
      BY <1>7, <3>1 DEF SirenStarts
    <3>3. alarm_started = now /\ mode = "Alarm"
      BY <2>2, <2>3, <3>2
    <3>4. Elapsed(alarm_started) >= AlarmDuration
      BY <3>3
    <3> QED
      BY <1>7, <2>3, <3>3, <3>4
  <2>5. ~stops /\ alarm_started' = alarm_started
    BY <1>3, <1>7, <2>4
  <2>6. ~expires
    BY <2>1, <2>5
  <2>7. mode = "Alarm"
    BY <1>7, <2>2, <2>5
  <2> QED
    BY <1>7, <2>5, <2>6, <2>7
<1> QED
  BY <1>6, <1>7

\* In a step that does not start the siren, nothing does.
LEMMA NoStart ==
  ASSUME alarm_output' \in {FALSE, alarm_output}, alarm_started' \in {alarm_started, NotPending}
  PROVE  ~SirenStarts
BY DEF SirenStarts

-----------------------------------------------------------------------------
(* Each step keeps the ages; what is promised and reported is looked at below. *)

LEMMA WakeKeepsAges ==
  ASSUME TypeOK, AgesInv, NEW d \in 0 .. MaxStep, Wake(d), Ageing(d)
  PROVE  AgesInv'
<1> USE DEF AgesInv
<1>1. /\ d \in Nat
      /\ stop_age' = AtMost(StopConfirm, stop_age + d)
      /\ siren_age' = AtMost(AlarmDuration, siren_age + d)
      /\ trigger_age' = IF trigger_age < 0 THEN trigger_age
                        ELSE AtMost(TriggerConfirm, trigger_age + d)
  BY DEF Ageing
<1>2. UNCHANGED <<engine, stop_started, filter, previous, alarm_started>>
  BY DEF Wake
<1>3. stop_age' \in 0 .. StopConfirm /\ siren_age' \in 0 .. AlarmDuration
  BY <1>1 DEF AtMost
<1>4. trigger_age' \in {NotPending, Spent} \cup 0 .. TriggerConfirm
  BY <1>1 DEF AtMost, NotPending, Spent
<1>5. StopIs'
  <2>1. CASE engine # "running"
    <3>1. stop_age' = StopConfirm
      BY <1>1, <2>1 DEF StopIs, AtMost
    <3> QED
      BY <1>2, <2>1, <3>1 DEF StopIs
  <2>2. CASE engine = "running" /\ stop_started = NotPending
    BY <1>2, <2>2 DEF StopIs
  <2>3. CASE engine = "running" /\ stop_started # NotPending
    <3> DEFINE a == Age(now, stop_started)
               b == Age(now', stop_started)
    <3>1. stop_started \in Stamp /\ a < StopConfirm + Slack /\ stop_age >= AtMost(StopConfirm, a)
      BY <2>3 DEF TypeOK, StopIs
    <3>2. a \in Nat /\ b < StopConfirm + Slack' /\ b = a + d
      BY <2>3, <3>1, WakeAges
    <3>3. StopIs' <=> (b < StopConfirm + Slack' /\ stop_age' >= AtMost(StopConfirm, b))
      BY <1>2, <2>3 DEF StopIs, Age
    <3> HIDE DEF a, b
    <3>4. AtMost(StopConfirm, stop_age + d) >= AtMost(StopConfirm, a + d)
      BY <1>1, <3>1, <3>2, CappedSum
    <3> QED
      BY <1>1, <3>2, <3>3, <3>4
  <2> QED
    BY <2>1, <2>2, <2>3
<1>6. TriggerIs'
  <2> DEFINE f == filter["trigger"]
             g == filter'["trigger"]
  <2>1. f \in [stable : BOOLEAN, since : Stamp] /\ g = f
    BY <1>2 DEF TypeOK, Shocks
  <2>2. CASE f.since = NotPending /\ ~f.stable
    <3>1. trigger_age' = NotPending
      BY <1>1, <2>2 DEF TriggerIs, NotPending
    <3> QED
      BY <2>1, <2>2, <3>1 DEF TriggerIs
  <2>3. CASE f.since = NotPending /\ f.stable
    <3>1. trigger_age' = trigger_age
      BY <1>1, <2>3 DEF TriggerIs, Spent, AtMost
    <3> QED
      BY <1>2, <2>1, <2>3, <3>1 DEF TriggerIs
  <2>4. CASE f.since # NotPending
    <3> DEFINE a == Age(now, f.since)
               b == Age(now', f.since)
    <3>1. /\ f.since \in Stamp /\ a < TriggerConfirm + Slack
          /\ ~f.stable /\ trigger_age = AtMost(TriggerConfirm, a)
      BY <2>1, <2>4 DEF TriggerIs
    <3>2. a \in Nat /\ b < TriggerConfirm + Slack' /\ b = a + d
      <4> HIDE DEF f
      <4> QED
        BY <2>4, <3>1, WakeAges
    <3>3. TriggerIs' <=> /\ ~g.stable /\ b < TriggerConfirm + Slack'
                         /\ trigger_age' = AtMost(TriggerConfirm, b)
      BY <2>1, <2>4 DEF TriggerIs, Age
    <3> HIDE DEF a, b
    <3>4. ~(trigger_age < 0)
      BY <3>1, <3>2 DEF AtMost
    <3>5. AtMost(TriggerConfirm, AtMost(TriggerConfirm, a) + d) = AtMost(TriggerConfirm, a + d)
      BY <1>1, <3>2, CappedTwice
    <3>6. trigger_age' = AtMost(TriggerConfirm, b)
      BY <1>1, <3>1, <3>2, <3>4, <3>5
    <3> QED
      BY <2>1, <3>1, <3>2, <3>3, <3>6
  <2> QED
    BY <2>2, <2>3, <2>4
<1>7. SirenIs'
  <2> SUFFICES ASSUME DriverOutcomes = {TRUE}, AlarmDuration > 0, alarm_started # NotPending
               PROVE  /\ Age(now', alarm_started) < AlarmDuration + Slack'
                      /\ siren_age' = AtMost(AlarmDuration, Age(now', alarm_started))
    BY <1>2 DEF SirenIs, Age
  <2> DEFINE a == Age(now, alarm_started)
             b == Age(now', alarm_started)
  <2>1. /\ alarm_started \in Stamp /\ a < AlarmDuration + Slack
        /\ siren_age = AtMost(AlarmDuration, a)
    BY DEF TypeOK, SirenIs
  <2>2. a \in Nat /\ b < AlarmDuration + Slack' /\ b = a + d
    BY <2>1, WakeAges
  <2> HIDE DEF a, b
  <2>3. AtMost(AlarmDuration, AtMost(AlarmDuration, a) + d) = AtMost(AlarmDuration, a + d)
    BY <1>1, <2>2, CappedTwice
  <2>4. siren_age' = AtMost(AlarmDuration, b)
    BY <1>1, <2>1, <2>2, <2>3
  <2> QED
    BY <2>2, <2>4 DEF b
<1> QED
  BY <1>3, <1>4, <1>5, <1>6, <1>7

\* A handler that samples the pins; it stops the siren or leaves it alone.
LEMMA SampleKeepsAges ==
  ASSUME TypeOK, AgesInv, SampleInputs, Observing, phase = "poll",
         UNCHANGED <<now, phase, previous>>,
         alarm_output' \in {FALSE, alarm_output}, alarm_started' \in {alarm_started, NotPending}
  PROVE  AgesInv'
<1> USE DEF AgesInv
<1>1. ~SirenStarts
  BY NoStart
<1>2. siren_age' = siren_age
  BY <1>1 DEF Observing
<1>3. SirenIs'
  BY <1>2 DEF SirenIs, Slack, Age
<1>4. stop_age' \in 0 .. StopConfirm /\ StopIs'
  BY EngineSampled
<1> QED
  BY <1>1, <1>2, <1>3, <1>4, TriggerSampled

LEMMA ServiceKeepsAges ==
  ASSUME TypeOK, SafetyInv, AgesInv, Service, Observing
  PROVE  AgesInv' /\ (SirenStarts => TriggerHeld >= TriggerConfirm)
<1>1. SampleInputs /\ phase = "poll" /\ phase' = "idle" /\ now' = now
  BY DEF Service
<1>2. SirenStarts => /\ filter'["trigger"].stable /\ ~previous["trigger"]
                     /\ previous'["trigger"] /\ alarm_started' = now
  BY SirenServed
<1>3. filter'["trigger"].stable => previous'["trigger"]
  BY DEF Service, Shocks
<1>4. /\ trigger_age' \in {NotPending, Spent} \cup 0 .. TriggerConfirm
      /\ TriggerIs'
      /\ SirenStarts => TriggerHeld >= TriggerConfirm
  BY <1>1, <1>2, <1>3, TriggerSampled
<1>5. stop_age' \in 0 .. StopConfirm /\ StopIs'
  BY <1>1, EngineSampled
<1>6. siren_age' = IF SirenStarts THEN 0 ELSE siren_age
  BY DEF Observing
<1>7. SirenIs'
  <2> SUFFICES ASSUME DriverOutcomes = {TRUE}, AlarmDuration > 0, alarm_started' # NotPending
               PROVE  /\ Age(now, alarm_started') < AlarmDuration
                      /\ siren_age' = AtMost(AlarmDuration, Age(now, alarm_started'))
    BY <1>1 DEF SirenIs, Slack, Age
  <2>1. CASE SirenStarts
    <3>1. Age(now, now) = 0
      BY JustNow DEF TypeOK
    <3> QED
      BY <1>2, <1>6, <2>1, <3>1 DEF AtMost
  <2>2. CASE ~SirenStarts
    <3>1. alarm_started' = alarm_started /\ ~(Elapsed(alarm_started) >= AlarmDuration)
      BY <2>2, SirenServed
    <3>2. alarm_started \in Stamp /\ alarm_started # NotPending
      BY <3>1 DEF TypeOK
    <3>3. Age(now, alarm_started) \in Nat /\ ~(Age(now, alarm_started) >= AlarmDuration)
      BY <3>1, <3>2, ElapsedIsAge, AgeIsTime DEF TypeOK
    <3>4. siren_age = AtMost(AlarmDuration, Age(now, alarm_started))
      BY <3>2 DEF AgesInv, SirenIs
    <3> QED
      BY <1>6, <2>2, <3>1, <3>3, <3>4
  <2> QED
    BY <2>1, <2>2
<1> QED
  BY <1>4, <1>5, <1>6, <1>7 DEF AgesInv

\* A step that samples nothing and leaves the clock and the filters alone.
LEMMA QuietKeepsAges ==
  ASSUME AgesInv, UNCHANGED <<now, phase, engine, stop_started, filter, previous,
                              stop_age, trigger_age, siren_age>>,
         alarm_started' \in {alarm_started, NotPending}
  PROVE  AgesInv'
BY DEF AgesInv, StopIs, TriggerIs, SirenIs, Slack, Age

LEMMA BootKeepsAges ==
  ASSUME NEW stored \in BOOLEAN, NEW armed \in BOOLEAN, Boot(stored, armed), Restarting
  PROVE  AgesInv'
<1>1. /\ engine' = RestoredEngine(armed) /\ mode' = RestoredMode(armed)
      /\ stop_started' = NotPending /\ alarm_started' = NotPending
      /\ filter'["trigger"] = [stable |-> FALSE, since |-> NotPending]
  BY DEF Boot, Released, Shocks
<1>2. /\ stop_age' = IF mode' = "LockPending" THEN 0 ELSE StopConfirm
      /\ trigger_age' = NotPending /\ siren_age' = 0
  BY DEF Restarting
<1>3. engine' # "running" => stop_age' = StopConfirm
  BY <1>1, <1>2 DEF RestoredEngine, RestoredMode
<1>4. StopIs' /\ TriggerIs' /\ SirenIs'
  BY <1>1, <1>2, <1>3 DEF StopIs, TriggerIs, SirenIs
<1> QED
  BY <1>2, <1>4 DEF AgesInv

LEMMA AgesInit == ASSUME MonitorInit PROVE AgesInv
<1>1. /\ filter["trigger"] = [stable |-> FALSE, since |-> NotPending]
      /\ stop_started = NotPending /\ alarm_started = NotPending
      /\ trigger_age = NotPending /\ siren_age = 0
  BY DEF MonitorInit, Init, Released, Shocks
<1>2. stop_age \in 0 .. StopConfirm /\ (engine # "running" => stop_age = StopConfirm)
  BY DEF MonitorInit, Init, RestoredEngine
<1>3. StopIs /\ TriggerIs /\ SirenIs
  BY <1>1, <1>2 DEF StopIs, TriggerIs, SirenIs
<1> QED
  BY <1>1, <1>2, <1>3 DEF AgesInv

\* Only a pass of the loop starts the siren.
LEMMA AgesStep ==
  ASSUME TypeOK, SafetyInv, AgesInv, [MonitorNext]_monitor_vars
  PROVE  AgesInv' /\ (SirenStarts => TriggerHeld >= TriggerConfirm)
<1> DEFINE Goal == AgesInv' /\ (SirenStarts => TriggerHeld >= TriggerConfirm)
<1>1. ASSUME NEW d \in 0 .. MaxStep, Wake(d), Ageing(d) PROVE Goal
  <2>1. ~SirenStarts
    BY <1>1, NoStart DEF Wake
  <2> QED
    BY <1>1, <2>1, WakeKeepsAges
<1>2. ASSUME UNCHANGED <<now, phase, engine, stop_started, filter, previous,
                         stop_age, trigger_age, siren_age>>,
             alarm_output' \in {FALSE, alarm_output},
             alarm_started' \in {alarm_started, NotPending}
      PROVE  Goal
  BY <1>2, QuietKeepsAges, NoStart
<1>3. ASSUME InputsMove \/ (\E source \in Controllers : SystemRequest(source)),
             UNCHANGED history
      PROVE  Goal
  BY <1>2, <1>3 DEF InputsMove, SystemRequest, history
<1>4. ASSUME NEW source \in Controllers, NEW ack \in BOOLEAN, MonitorCommand(source, ack)
      PROVE  Goal
  <2>1. ASSUME SampleInputs, Observing, phase = "poll", UNCHANGED <<now, phase, previous>>,
               alarm_output' \in {FALSE, alarm_output},
               alarm_started' \in {alarm_started, NotPending}
        PROVE  Goal
    BY <2>1, SampleKeepsAges, NoStart
  <2>2. CASE (Lock(source, ack) \/ Unlock(source, ack)) /\ Observing
    <3>1. alarm_output' \in Driven(FALSE)
      BY <2>2 DEF Lock, Unlock
    <3>2. alarm_output' \in {FALSE, alarm_output}
      BY <3>1 DEF Driven
    <3> QED
      BY <2>1, <2>2, <3>2 DEF Lock, Unlock
  <2>3. CASE RequestState(source, ack) /\ Observing
    BY <2>1, <2>3 DEF RequestState
  <2>4. CASE /\ SilenceAlarm(source, ack) \/ BadCommand(source, ack)
             /\ UNCHANGED <<stop_age, trigger_age, siren_age, promised>>
    BY <1>2, <2>4 DEF SilenceAlarm, BadCommand
  <2> QED
    BY <1>4, <2>2, <2>3, <2>4 DEF MonitorCommand
<1>5. ASSUME Service, Observing PROVE Goal
  BY <1>5, ServiceKeepsAges
<1>6. ASSUME NEW stored \in BOOLEAN, NEW armed \in BOOLEAN, Boot(stored, armed), Restarting
      PROVE  Goal
  <2>1. ~SirenStarts
    BY <1>6 DEF Boot, SirenStarts
  <2> QED
    BY <1>6, <2>1, BootKeepsAges
<1>7. ASSUME Reboot, Restarting PROVE Goal
  BY <1>6, <1>7 DEF Reboot, TypeOK
<1>8. ASSUME RebootWhileSaving, Restarting PROVE Goal
  BY <1>6, <1>8 DEF RebootWhileSaving
<1>9. CASE UNCHANGED monitor_vars
  BY <1>2, <1>9 DEF monitor_vars, vars, history
<1> QED
  BY <1>1, <1>3, <1>4, <1>5, <1>7, <1>8, <1>9 DEF MonitorNext

-----------------------------------------------------------------------------
(***************************************************************************)
(* What is reported.  A handler's packets are lists joined end to end, and *)
(* the last state among them counts: if s takes the report from `a' to `b' *)
(* and t from `b' to `c', then s \o t takes it from `a' to `c'.            *)
(***************************************************************************)
Reports(s, a, b) ==
  \/ b = a /\ \A j \in 1 .. Len(s) : s[j].kind # "State"
  \/ \E i \in 1 .. Len(s) : /\ s[i].kind = "State" /\ s[i].mode = b
                            /\ \A j \in 1 .. Len(s) : s[j].kind = "State" => j <= i

LEMMA ReportIsTheLast ==
  ASSUME NEW s \in Seq(Messages), NEW a, NEW b, Reports(s, a, b)
  PROVE  ReportedAfter(a, s) = b
<1> DEFINE states == {i \in 1 .. Len(s) : s[i].kind = "State"}
<1>1. Len(s) \in Nat
  OBVIOUS
<1>2. ReportedAfter(a, s)
        = IF states = {} THEN a ELSE s[CHOOSE i \in states : \A j \in states : j <= i].mode
  BY DEF ReportedAfter
<1>3. CASE b = a /\ \A j \in 1 .. Len(s) : s[j].kind # "State"
  BY <1>2, <1>3
<1>4. CASE \E i \in 1 .. Len(s) : /\ s[i].kind = "State" /\ s[i].mode = b
                                  /\ \A j \in 1 .. Len(s) : s[j].kind = "State" => j <= i
  <2>1. PICK i \in 1 .. Len(s) : /\ s[i].kind = "State" /\ s[i].mode = b
                                 /\ \A j \in 1 .. Len(s) : s[j].kind = "State" => j <= i
    BY <1>4
  <2>2. i \in states /\ (\A j \in states : j <= i) /\ states \subseteq Int
    BY <1>1, <2>1
  <2>3. \A k \in states : (\A j \in states : j <= k) => k = i
    BY <2>2
  <2> HIDE DEF states
  <2>4. (CHOOSE k \in states : \A j \in states : j <= k) = i
    BY <2>2, <2>3
  <2> QED
    BY <1>2, <2>1, <2>2, <2>4
<1> QED
  BY <1>3, <1>4 DEF Reports

LEMMA ReportsInTurn ==
  ASSUME NEW s \in Seq(Messages), NEW t \in Seq(Messages), NEW a, NEW b, NEW c,
         Reports(s, a, b), Reports(t, b, c)
  PROVE  s \o t \in Seq(Messages) /\ Reports(s \o t, a, c)
<1> DEFINE u == s \o t
<1>1. /\ u \in Seq(Messages) /\ Len(s) \in Nat /\ Len(t) \in Nat
      /\ Len(u) = Len(s) + Len(t)
      /\ \A j \in 1 .. Len(s) : u[j] = s[j]
      /\ \A j \in Len(s) + 1 .. Len(u) : u[j] = t[j - Len(s)]
  BY ConcatProperties
<1>2. \A j \in 1 .. Len(u) : j \in 1 .. Len(s) \/ (j > Len(s) /\ j - Len(s) \in 1 .. Len(t)
                                                   /\ u[j] = t[j - Len(s)])
  BY <1>1
<1>3. \A j \in 1 .. Len(t) : Len(s) + j \in 1 .. Len(u) /\ u[Len(s) + j] = t[j]
  <2> SUFFICES ASSUME NEW j \in 1 .. Len(t)
               PROVE  Len(s) + j \in 1 .. Len(u) /\ u[Len(s) + j] = t[j]
    OBVIOUS
  <2>1. Len(s) + j \in Len(s) + 1 .. Len(u) /\ (Len(s) + j) - Len(s) = j
    BY <1>1
  <2> QED
    BY <1>1, <2>1
<1> HIDE DEF u
<1>4. CASE \E i \in 1 .. Len(t) : /\ t[i].kind = "State" /\ t[i].mode = c
                                  /\ \A j \in 1 .. Len(t) : t[j].kind = "State" => j <= i
  <2>1. PICK i \in 1 .. Len(t) : /\ t[i].kind = "State" /\ t[i].mode = c
                                 /\ \A j \in 1 .. Len(t) : t[j].kind = "State" => j <= i
    BY <1>4
  <2> DEFINE k == Len(s) + i
  <2>2. k \in 1 .. Len(u) /\ u[k].kind = "State" /\ u[k].mode = c
    BY <1>3, <2>1
  <2>3. ASSUME NEW j \in 1 .. Len(u), u[j].kind = "State" PROVE j <= k
    <3>1. CASE j \in 1 .. Len(s)
      BY <1>1, <2>1, <3>1
    <3>2. CASE j > Len(s) /\ j - Len(s) \in 1 .. Len(t) /\ u[j] = t[j - Len(s)]
      <4>1. j - Len(s) <= i
        BY <2>1, <2>3, <3>2
      <4> QED
        BY <1>1, <2>1, <4>1
    <3> QED
      BY <1>2, <3>1, <3>2
  <2> QED
    BY <1>1, <2>2, <2>3 DEF Reports, u
<1>5. CASE c = b /\ \A j \in 1 .. Len(t) : t[j].kind # "State"
  <2>1. \A j \in 1 .. Len(u) : u[j].kind = "State" => j \in 1 .. Len(s)
    BY <1>2, <1>5
  <2>2. CASE b = a /\ \A j \in 1 .. Len(s) : s[j].kind # "State"
    <3>1. \A j \in 1 .. Len(u) : u[j].kind # "State"
      BY <1>1, <2>1, <2>2
    <3> QED
      BY <1>1, <1>5, <2>2, <3>1 DEF Reports, u
  <2>3. CASE \E i \in 1 .. Len(s) : /\ s[i].kind = "State" /\ s[i].mode = b
                                    /\ \A j \in 1 .. Len(s) : s[j].kind = "State" => j <= i
    <3>1. PICK i \in 1 .. Len(s) : /\ s[i].kind = "State" /\ s[i].mode = b
                                   /\ \A j \in 1 .. Len(s) : s[j].kind = "State" => j <= i
      BY <2>3
    <3>2. i \in 1 .. Len(u) /\ u[i].kind = "State" /\ u[i].mode = c
      BY <1>1, <1>5, <3>1
    <3>3. ASSUME NEW j \in 1 .. Len(u), u[j].kind = "State" PROVE j <= i
      BY <1>1, <2>1, <3>1, <3>3
    <3> QED
      BY <1>1, <3>2, <3>3 DEF Reports, u
  <2> QED
    BY <2>2, <2>3 DEF Reports
<1> QED
  BY <1>4, <1>5 DEF Reports

\* The lists that the handlers are made of
LEMMA ReportsOfPieces ==
  ASSUME NEW to \in Controllers, NEW a, NEW cond \in BOOLEAN,
         NEW m \in Modes, NEW inhibit \in BOOLEAN, NEW alarm \in BOOLEAN
  PROVE  /\ \A code : Reports(<<Event(code, to)>>, a, a)
         /\ \A code : Reports(When(cond, <<Event(code, to)>>), a, a)
         /\ Reports(When(cond, <<Ack(to)>>), a, a) /\ Reports(When(cond, <<Nack(to)>>), a, a)
         /\ Reports(<<State(m, inhibit, alarm, to)>>, a, m)
         /\ Reports(When(cond, <<State(m, inhibit, alarm, to)>>), a, IF cond THEN m ELSE a)
         /\ \A code : Reports(When(cond, <<Event(code, to), State(m, inhibit, alarm, to)>>), a,
                              IF cond THEN m ELSE a)
BY DEF Reports, When, Event, State, Ack, Nack

LEMMA CommandReports ==
  ASSUME TypeOK, TypeOK', NEW source \in Controllers, NEW ack \in BOOLEAN,
         MonitorCommand(source, ack), ModeIsReported
  PROVE  ModeIsReported'
<1>1. reported' = ReportedAfter(reported, out') /\ out' \in Seq(Messages)
  BY DEF MonitorCommand, Reporting, TypeOK
<1>2. mode' \in Modes /\ start_inhibit' \in BOOLEAN /\ alarm_output' \in BOOLEAN
  BY DEF TypeOK
<1>3. ASSUME NEW m, Reports(out', reported, m), m \in {"none", mode'} PROVE ModeIsReported'
  BY <1>1, <1>3, ReportIsTheLast DEF ModeIsReported
<1> DEFINE answer == When(ack, <<Ack(source)>>)
           state  == <<State(mode', start_inhibit', alarm_output', source)>>
<1>4. /\ answer \in Seq(Messages) /\ state \in Seq(Messages)
      /\ When(ack, <<Nack(source)>>) \in Seq(Messages)
  BY <1>2, PacketTypes, PacketLists
<1>5. \A a : Reports(answer, a, a) /\ Reports(state, a, mode')
             /\ Reports(When(ack, <<Nack(source)>>), a, a)
  BY <1>2, ReportsOfPieces
<1>6. ASSUME NEW code, Event(code, source) \in Messages,
             out' = <<Event(code, source)>> \o answer \o state
      PROVE  ModeIsReported'
  <2>1. <<Event(code, source)>> \in Seq(Messages)
    BY <1>6, PacketLists
  <2>2. Reports(<<Event(code, source)>>, reported, reported)
    BY <1>2, ReportsOfPieces
  <2> HIDE DEF answer, state
  <2>3. /\ <<Event(code, source)>> \o answer \in Seq(Messages)
        /\ Reports(<<Event(code, source)>> \o answer, reported, reported)
    BY <1>4, <1>5, <2>1, <2>2, ReportsInTurn
  <2>4. Reports(out', reported, mode')
    BY <1>4, <1>5, <1>6, <2>3, ReportsInTurn
  <2> QED
    BY <1>3, <2>4
<1>7. ASSUME Reports(out', reported, reported), mode' = mode PROVE ModeIsReported'
  BY <1>3, <1>7 DEF ModeIsReported
<1>8. CASE Lock(source, ack)
  <2>1. Event(mode', source) \in Messages
    <3>1. mode' \in {"LockPending", "Locked"}
      BY <1>8 DEF Lock
    <3> QED
      BY <3>1, PacketTypes
  <2> QED
    BY <1>6, <1>8, <2>1 DEF Lock, StateNow
<1>9. CASE Unlock(source, ack)
  <2>1. Event("Unlocked", source) \in Messages
    BY PacketTypes
  <2> QED
    BY <1>6, <1>9, <2>1 DEF Unlock, StateNow
<1>10. CASE RequestState(source, ack)
  <2>1. out' = state \o answer
    BY <1>10 DEF RequestState, StateNow
  <2> HIDE DEF answer, state
  <2>2. Reports(out', reported, mode')
    BY <1>4, <1>5, <2>1, ReportsInTurn
  <2> QED
    BY <1>3, <2>2
<1>11. CASE SilenceAlarm(source, ack)
  <2>1. Event("AlarmStopped", source) \in Messages
    BY PacketTypes
  <2>2. \/ out' = <<Event("AlarmStopped", source)>> \o answer \o state
        \/ out' = When(ack, <<Nack(source)>>) /\ mode' = mode
    BY <1>11 DEF SilenceAlarm, StateNow
  <2> HIDE DEF answer, state
  <2> QED
    BY <1>5, <1>6, <1>7, <2>1, <2>2
<1>12. CASE BadCommand(source, ack)
  BY <1>5, <1>7, <1>12 DEF BadCommand
<1> QED
  BY <1>8, <1>9, <1>10, <1>11, <1>12 DEF MonitorCommand

LEMMA ServiceReports ==
  ASSUME TypeOK, TypeOK', SafetyInv, Service, Reporting, ModeIsReported
  PROVE  ModeIsReported'
<1>1. PICK stop \in DriverOutcomes : \E start \in DriverOutcomes : ServiceEffect(stop, start)
  BY DEF Service, ServiceEffect
<1>2. PICK start \in DriverOutcomes : ServiceEffect(stop, start)
  BY <1>1
<1> DEFINE arms     == mode = "LockPending" /\ engine' # "running"
           expires  == /\ mode = "Alarm" /\ alarm_started # NotPending
                       /\ Elapsed(alarm_started) >= AlarmDuration
           stops    == expires /\ stop
           locked   == mode = "Locked" \/ arms \/ stops
           warns    == locked /\ filter'["warning"].stable /\ ~previous["warning"]
           triggers == locked /\ filter'["trigger"].stable /\ ~previous["trigger"]
           starts   == triggers /\ start
           m        == IF stops THEN "Locked" ELSE "Alarm"
           b        == alarm_output /\ ~stops
           to       == last_controller
           p1 == When(arms, <<Event("Locked", to),
                              State("Locked", start_inhibit, alarm_output, to)>>)
           p2 == When(stops, <<Event("AlarmStopped", to)>>)
           p3 == When(expires, <<State(m, start_inhibit', b, to)>>)
           p4 == When(warns, <<Event("ShockWarning", to)>>)
           p5 == When(triggers, <<Event("ShockTrigger", to)>>)
           p6 == When(starts, <<Event("AlarmStarted", to),
                                State("Alarm", start_inhibit', TRUE, to)>>)
           r1 == IF arms THEN "Locked" ELSE reported
           r3 == IF expires THEN m ELSE r1
           r6 == IF starts THEN "Alarm" ELSE r3
<1>3. out' = p1 \o p2 \o p3 \o p4 \o p5 \o p6
  BY <1>2 DEF ServiceEffect
<1>4. mode' = IF starts THEN "Alarm" ELSE IF locked THEN "Locked" ELSE mode
  BY <1>2 DEF ServiceEffect
<1>5. r6 \in {"none", mode'}
  <2>1. CASE starts
    BY <1>4, <2>1
  <2>2. CASE ~starts /\ expires
    BY <1>4, <2>2
  <2>3. CASE ~starts /\ ~expires /\ arms
    BY <1>4, <2>3
  <2>4. CASE ~starts /\ ~expires /\ ~arms
    BY <1>4, <2>4 DEF ModeIsReported
  <2> QED
    BY <2>1, <2>2, <2>3, <2>4
<1>6. /\ m \in Modes /\ "Locked" \in Modes /\ "Alarm" \in Modes /\ to \in Controllers
      /\ TRUE \in BOOLEAN
  BY DEF Modes, TypeOK
<1>7. /\ b \in BOOLEAN /\ start_inhibit' \in BOOLEAN
      /\ start_inhibit \in BOOLEAN /\ alarm_output \in BOOLEAN
  BY DEF TypeOK
<1>8. /\ arms \in BOOLEAN /\ stops \in BOOLEAN /\ expires \in BOOLEAN
      /\ warns \in BOOLEAN /\ triggers \in BOOLEAN /\ starts \in BOOLEAN
  <2>1. stop \in BOOLEAN /\ start \in BOOLEAN
    OBVIOUS
  <2> QED
    BY <2>1
<1> HIDE DEF arms, expires, stops, locked, warns, triggers, starts, m, b, to
<1>9. /\ Event("Locked", to) \in Messages /\ Event("AlarmStopped", to) \in Messages
      /\ Event("ShockWarning", to) \in Messages /\ Event("ShockTrigger", to) \in Messages
      /\ Event("AlarmStarted", to) \in Messages
      /\ State("Locked", start_inhibit, alarm_output, to) \in Messages
      /\ State(m, start_inhibit', b, to) \in Messages
      /\ State("Alarm", start_inhibit', TRUE, to) \in Messages
  BY <1>6, <1>7, PacketTypes
<1>10. /\ p1 \in Seq(Messages) /\ p2 \in Seq(Messages) /\ p3 \in Seq(Messages)
       /\ p4 \in Seq(Messages) /\ p5 \in Seq(Messages) /\ p6 \in Seq(Messages)
  BY <1>8, <1>9, PacketLists
<1>11. Reports(p1, reported, r1)
  BY <1>6, <1>7, <1>8, ReportsOfPieces
<1>12. Reports(p2, r1, r1)
  BY <1>6, <1>7, <1>8, ReportsOfPieces
<1>13. Reports(p3, r1, r3)
  BY <1>6, <1>7, <1>8, ReportsOfPieces
<1>14. Reports(p4, r3, r3) /\ Reports(p5, r3, r3)
  BY <1>6, <1>7, <1>8, ReportsOfPieces
<1>15. Reports(p6, r3, r6)
  BY <1>6, <1>7, <1>8, ReportsOfPieces
<1> HIDE DEF p1, p2, p3, p4, p5, p6, r1, r3, r6
<1>16. p1 \o p2 \in Seq(Messages) /\ Reports(p1 \o p2, reported, r1)
  BY <1>10, <1>11, <1>12, ReportsInTurn
<1>17. p1 \o p2 \o p3 \in Seq(Messages) /\ Reports(p1 \o p2 \o p3, reported, r3)
  BY <1>10, <1>13, <1>16, ReportsInTurn
<1>18. p1 \o p2 \o p3 \o p4 \in Seq(Messages) /\ Reports(p1 \o p2 \o p3 \o p4, reported, r3)
  BY <1>10, <1>14, <1>17, ReportsInTurn
<1>19. /\ p1 \o p2 \o p3 \o p4 \o p5 \in Seq(Messages)
       /\ Reports(p1 \o p2 \o p3 \o p4 \o p5, reported, r3)
  BY <1>10, <1>14, <1>18, ReportsInTurn
<1>20. out' \in Seq(Messages) /\ Reports(out', reported, r6)
  BY <1>3, <1>10, <1>15, <1>19, ReportsInTurn
<1>21. reported' = r6
  BY <1>20, ReportIsTheLast DEF Reporting
<1> QED
  BY <1>5, <1>21 DEF ModeIsReported

LEMMA ReportStep ==
  ASSUME TypeOK, TypeOK', SafetyInv, ModeIsReported, [MonitorNext]_monitor_vars
  PROVE  ModeIsReported'
<1>1. ASSUME UNCHANGED <<mode, reported>> PROVE ModeIsReported'
  BY <1>1 DEF ModeIsReported
<1>2. ASSUME reported' = "none" PROVE ModeIsReported'
  BY <1>2 DEF ModeIsReported
<1>3. CASE \E d \in 0 .. MaxStep : Wake(d) /\ Ageing(d) /\ UNCHANGED <<promised, reported>>
  BY <1>1, <1>3 DEF Wake
<1>4. CASE InputsMove /\ UNCHANGED history
  BY <1>1, <1>4 DEF InputsMove, history
<1>5. CASE \E source \in Controllers : SystemRequest(source) /\ UNCHANGED history
  BY <1>1, <1>5 DEF SystemRequest, history
<1>6. CASE (Reboot \/ RebootWhileSaving) /\ Restarting
  BY <1>2, <1>6 DEF Restarting
<1>7. CASE UNCHANGED monitor_vars
  BY <1>1, <1>7 DEF monitor_vars, vars, history
<1> QED
  BY <1>3, <1>4, <1>5, <1>6, <1>7, CommandReports, ServiceReports DEF MonitorNext

-----------------------------------------------------------------------------
(* What is promised: each handler keeps or replaces it together with the mode, and a
   restart restores the mode from the flag, which SafetyInv says agrees with it. *)
LEMMA IntentStep ==
  ASSUME TypeOK, SafetyInv, AcknowledgedIntentSurvives, [MonitorNext]_monitor_vars
  PROVE  AcknowledgedIntentSurvives'
<1> DEFINE On == mode # "Unlocked"
<1>1. ASSUME mode' # "Unlocked" <=> mode # "Unlocked", promised' = promised
      PROVE  AcknowledgedIntentSurvives'
  BY <1>1 DEF AcknowledgedIntentSurvives
<1>2. CASE \E d \in 0 .. MaxStep : Wake(d) /\ Ageing(d) /\ UNCHANGED <<promised, reported>>
  BY <1>1, <1>2 DEF Wake
<1>3. CASE InputsMove /\ UNCHANGED history
  BY <1>1, <1>3 DEF InputsMove, history
<1>4. CASE \E source \in Controllers : SystemRequest(source) /\ UNCHANGED history
  BY <1>1, <1>4 DEF SystemRequest, history
<1>5. ASSUME NEW source \in Controllers, NEW ack \in BOOLEAN, MonitorCommand(source, ack)
      PROVE  AcknowledgedIntentSurvives'
  <2>1. CASE Lock(source, ack) /\ Promising(ack, "armed")
    <3>1. mode' # "Unlocked" /\ promised' \in {"armed", "none"}
      BY <2>1 DEF Lock, Promising
    <3> QED
      BY <3>1 DEF AcknowledgedIntentSurvives
  <2>2. CASE Unlock(source, ack) /\ Promising(ack, "disarmed")
    <3>1. mode' = "Unlocked" /\ promised' \in {"disarmed", "none"}
      BY <2>2 DEF Unlock, Promising
    <3> QED
      BY <3>1 DEF AcknowledgedIntentSurvives
  <2>3. CASE RequestState(source, ack) /\ UNCHANGED promised
    BY <1>1, <2>3 DEF RequestState
  <2>4. CASE SilenceAlarm(source, ack) /\ UNCHANGED promised
    BY <1>1, <2>4 DEF SilenceAlarm
  <2>5. CASE BadCommand(source, ack) /\ UNCHANGED promised
    BY <1>1, <2>5 DEF BadCommand
  <2> QED
    BY <1>5, <2>1, <2>2, <2>3, <2>4, <2>5 DEF MonitorCommand
<1>6. CASE Service /\ UNCHANGED promised
  <2>1. mode' # "Unlocked" <=> mode # "Unlocked"
    BY <1>6 DEF Service, ServiceEffect
  <2> QED
    BY <1>1, <1>6, <2>1
<1>7. CASE Reboot /\ UNCHANGED promised
  <2> SUFFICES ASSUME StoreOutcomes = {TRUE}, promised # "none"
               PROVE  mode' # "Unlocked" <=> promised = "armed"
    BY <1>7 DEF AcknowledgedIntentSurvives
  <2>1. mode' = RestoredMode(nvs)
    BY <1>7 DEF Reboot, Boot, TypeOK
  <2>2. nvs <=> mode # "Unlocked"
    BY DEF SafetyInv, PersistedIntent, TypeOK
  <2> QED
    BY <2>1, <2>2 DEF RestoredMode, AcknowledgedIntentSurvives
<1>8. CASE RebootWhileSaving /\ promised' = "none"
  BY <1>8 DEF AcknowledgedIntentSurvives
<1>9. CASE UNCHANGED monitor_vars
  BY <1>1, <1>9 DEF monitor_vars, vars, history
<1> QED
  BY <1>2, <1>3, <1>4, <1>5, <1>6, <1>7, <1>8, <1>9 DEF MonitorNext

-----------------------------------------------------------------------------
(* The theorems. *)

LEMMA MonitorSafety == MonitorSpec => [](TypeOK /\ SafetyInv /\ MonitorInv)
<1>1. MonitorInit => MonitorInv
  BY AgesInit DEF MonitorInit, MonitorInv, AcknowledgedIntentSurvives, ModeIsReported
<1>2. TypeOK /\ SafetyInv /\ TypeOK' /\ MonitorInv /\ [MonitorNext]_monitor_vars => MonitorInv'
  BY AgesStep, IntentStep, ReportStep DEF MonitorInv
<1> QED
  BY <1>1, <1>2, WatchedSafety, PTL DEF MonitorSpec

(* Start prevention is never on before the samples have shown the engine stopped for the
   whole confirmation time, for all timings, any mix of commands, clock wrap and
   restarts. *)
THEOREM ConfirmedInhibit == MonitorSpec => []InhibitAfterConfirmedStop
<1>1. SafetyInv /\ MonitorInv => InhibitAfterConfirmedStop
  <2> SUFFICES ASSUME SafetyInv, MonitorInv, start_inhibit PROVE stop_age >= StopConfirm
    BY DEF InhibitAfterConfirmedStop
  <2>1. engine = "stopped"
    BY DEF SafetyInv, InhibitOnlyWhenStopped
  <2>2. stop_age = StopConfirm
    BY <2>1 DEF MonitorInv, AgesInv, StopIs
  <2> QED
    BY <2>2
<1> QED
  BY <1>1, MonitorSafety, PTL

(* The siren starts only on a trigger that was seen held for the confirmation time and
   released since the last alarm, whatever the driver does. *)
THEOREM FreshTriggers == MonitorSpec => SirenNeedsFreshTrigger
<1>1. TypeOK /\ SafetyInv /\ MonitorInv /\ [MonitorNext]_monitor_vars
        => [SirenStarts => TriggerHeld >= TriggerConfirm]_monitor_vars
  BY AgesStep DEF MonitorInv
<1> QED
  BY <1>1, MonitorSafety, PTL DEF MonitorSpec, SirenNeedsFreshTrigger

(* With a driver that obeys, no pass leaves the siren on at its full duration. *)
THEOREM BoundedSiren == MonitorSpec => []SirenIsBounded
<1>1. TypeOK /\ SafetyInv /\ MonitorInv => SirenIsBounded
  <2> SUFFICES ASSUME TypeOK, SafetyInv, MonitorInv, DriverOutcomes = {TRUE},
                      AlarmDuration > 0, phase = "idle", alarm_output
               PROVE  siren_age < AlarmDuration
    BY DEF SirenIsBounded
  <2>1. alarm_started # NotPending /\ alarm_started \in Stamp /\ now \in Clock
    BY DEF SafetyInv, SirenHasTimer, TypeOK
  <2>2. /\ Age(now, alarm_started) \in Nat
        /\ Age(now, alarm_started) < AlarmDuration + Slack
        /\ siren_age = AtMost(AlarmDuration, Age(now, alarm_started))
    BY <2>1, AgeIsTime DEF MonitorInv, AgesInv, SirenIs
  <2> QED
    BY <2>2 DEF Slack, AtMost
<1> QED
  BY <1>1, MonitorSafety, PTL

(* An acknowledged lock or unlock survives any number of restarts. *)
THEOREM SurvivingIntent == MonitorSpec => []AcknowledgedIntentSurvives
<1>1. MonitorInv => AcknowledgedIntentSurvives
  BY DEF MonitorInv
<1> QED
  BY <1>1, MonitorSafety, PTL

(* Every handler that changes the mode has sent it before it returns. *)
THEOREM ReportedMode == MonitorSpec => []ModeIsReported
<1>1. MonitorInv => ModeIsReported
  BY DEF MonitorInv
<1> QED
  BY <1>1, MonitorSafety, PTL
=============================================================================
