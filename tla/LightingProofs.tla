--------------------------- MODULE LightingProofs ---------------------------
(***************************************************************************)
(* The local control for every debounce time, half period, clock width and *)
(* step, all switches and outputs, and any writes that fail; then, in the  *)
(* second half, the loop with the fault manager and the diagnostics.       *)
(***************************************************************************)
EXTENDS LightingFaults, TLAPS

USE LightingAssumption

\* The age at time t of a timestamp: Elapsed, at any time
Age(t, since) == IF t >= since THEN t - since ELSE t - since + ClockMod

\* How much longer than a deadline a pass may find something overdue.
Slack == IF phase = "poll" THEN MaxStep ELSE 0

\* A debouncer that is pending has seen the other value for the age of its timestamp,
\* which a pass never leaves at the debounce time or above; one that is not pending
\* believes the last sample.
DebouncerIs(i) ==
  LET d == debounced[i]
  IN  IF d.since = NotPending THEN sampled => d.stable = seen[i].on
      ELSE /\ sampled /\ d.stable # seen[i].on
           /\ Age(now, d.since) < Debounce + Slack
           /\ seen[i].age = AtMost(Debounce, Age(now, d.since))

\* The flasher, lit while nothing is requested, is never overdue at the end of a pass.
FlasherIs ==
  IF flasher.since = NotPending THEN flasher.on
  ELSE /\ Age(now, flasher.since) < HalfPeriod + Slack
       /\ flash_age = AtMost(HalfPeriod, Age(now, flasher.since))

\* A pass leaves the outputs as decided.
OutputsAreDecided ==
  PassEnded => \A o \in Outputs \ Flaky :
                 driven[o] = Effective(commanded, debounced, flasher.on)[o]

MainKnows == Controllers = {MainComputer} => told \subseteq {driven}

\* What depends on no output: whatever else drives the outputs leaves it alone.
ControlInv ==
  /\ TypeOK
  /\ \A i \in Inputs : DebouncerIs(i)
  /\ FlasherIs

OutputsInv == OutputsAreDecided /\ MainKnows

LightingInv == ControlInv /\ OutputsInv

-----------------------------------------------------------------------------
(* The clock. *)

LEMMA ClockSteps ==
  ASSUME NEW t \in Clock, NEW u \in Clock, NEW since \in Clock, NEW d \in 0 .. MaxStep,
         u = IF t + d < ClockMod THEN t + d ELSE t + d - ClockMod
  PROVE  /\ Age(t, since) \in Clock /\ Age(u, since) \in Clock
         /\ Age(t, since) + d < ClockMod => Age(u, since) = Age(t, since) + d
BY DEF Clock, Age

LEMMA LaterIsTime ==
  ASSUME NEW d \in 0 .. MaxStep, now \in Clock
  PROVE  /\ Later(d) \in Clock
         /\ Later(d) = IF now + d < ClockMod THEN now + d ELSE now + d - ClockMod
BY DEF Clock, Later

LEMMA AgesAreTimes ==
  ASSUME NEW t \in Clock, NEW since \in Clock PROVE Age(t, since) \in Clock
BY DEF Clock, Age

LEMMA JustNow == ASSUME NEW t \in Clock PROVE Age(t, t) = 0 /\ t # NotPending
BY DEF Clock, Age, NotPending

\* Something younger than its deadline before the step is as old as its measured age
\* after it, and overdue by less than the step.
LEMMA AgesTogether ==
  ASSUME NEW t \in Clock, NEW u \in Clock, NEW since \in Clock, NEW d \in 0 .. MaxStep,
         u = IF t + d < ClockMod THEN t + d ELSE t + d - ClockMod,
         NEW limit \in Nat, limit + MaxStep < ClockMod,
         Age(t, since) < limit
  PROVE  /\ Age(u, since) < limit + MaxStep
         /\ AtMost(limit, AtMost(limit, Age(t, since)) + d) = AtMost(limit, Age(u, since))
<1> DEFINE a == Age(t, since)
           b == Age(u, since)
<1>1. a \in Clock /\ b \in Clock /\ (a + d < ClockMod => b = a + d) /\ a < limit
  BY ClockSteps
<1> HIDE DEF a, b
<1>2. a \in Nat /\ b = a + d
  BY <1>1 DEF Clock
<1>3. b < limit + MaxStep /\ AtMost(limit, AtMost(limit, a) + d) = AtMost(limit, b)
  BY <1>1, <1>2 DEF AtMost
<1> QED
  BY <1>3 DEF a, b

-----------------------------------------------------------------------------
(* Types. *)

LEMMA BlankTypes ==
  /\ AllOff \in [Outputs -> BOOLEAN] /\ Blank \in [Inputs -> Debouncer]
  /\ NothingSeen \in [Inputs -> [on : BOOLEAN, age : 0 .. Debounce]]
  /\ [on |-> TRUE, since |-> NotPending] \in [on : BOOLEAN, since : Stamp]
  /\ 0 \in Clock
BY DEF AllOff, Blank, Debouncer, Stamp, NothingSeen, Clock

LEMMA DecisionTypes ==
  ASSUME TypeOK, NEW inputs \in [Inputs -> Debouncer], NEW lit \in BOOLEAN
  PROVE  Effective(commanded, inputs, lit) \in [Outputs -> BOOLEAN]
<1>1. \A i \in Inputs : inputs[i].stable \in BOOLEAN
  BY DEF Debouncer
<1>2. \A o \in Outputs : commanded[o] \in BOOLEAN
  BY DEF TypeOK
<1>3. ASSUME NEW o \in Outputs PROVE Effective(commanded, inputs, lit)[o] \in BOOLEAN
  BY <1>1, <1>2, <1>3, Zenon DEF Effective, Outputs, Inputs
<1> QED
  BY <1>3 DEF Effective

-----------------------------------------------------------------------------
(* The parts of a pass. *)

\* A pass leaves each debouncer as described, and changes what it believes only after
\* the debounce time.
LEMMA DebouncerServed ==
  ASSUME ControlInv, Service, NEW i \in Inputs
  PROVE  /\ debounced'[i] \in Debouncer
         /\ seen'[i] \in [on : BOOLEAN, age : 0 .. Debounce]
         /\ DebouncerIs(i)'
         /\ (sampled /\ debounced'[i].stable # debounced[i].stable)
              => seen'[i].on = debounced'[i].stable /\ seen'[i].age >= Debounce
<1> DEFINE d == debounced[i]
           e == debounced'[i]
           s == seen[i]
           z == seen'[i]
           on == raw[i]
<1>1. /\ now \in Clock /\ sampled \in BOOLEAN /\ on \in BOOLEAN
      /\ d \in Debouncer /\ s \in [on : BOOLEAN, age : 0 .. Debounce]
      /\ phase = "poll" /\ phase' = "idle" /\ now' = now /\ sampled' = TRUE
      /\ DebouncerIs(i)
  BY DEF ControlInv, TypeOK, Service, Switches
<1>2. e = Update(d, on)
  BY DEF Service
<1>3. z = IF ~sampled THEN [on |-> on, age |-> Debounce]
          ELSE IF on = s.on THEN s ELSE [on |-> on, age |-> 0]
  BY DEF Service
<1>4. d.since \in Stamp /\ d.stable \in BOOLEAN /\ s.on \in BOOLEAN /\ s.age \in 0 .. Debounce
  BY <1>1 DEF Debouncer
<1>5. Age(now, now) = 0 /\ now # NotPending
  BY <1>1, JustNow
<1>6. d.since # NotPending => d.since \in Clock /\ Elapsed(d.since) = Age(now, d.since)
                              /\ Age(now, d.since) \in Nat
  BY <1>1, <1>4 DEF Stamp, Elapsed, Age, Clock
<1>7. Elapsed(now) = 0
  BY <1>1 DEF Elapsed, Clock
<1>8. z.on = on /\ z \in [on : BOOLEAN, age : 0 .. Debounce]
  BY <1>1, <1>3, <1>4
<1>9. DebouncerIs(i)' <=> IF e.since = NotPending THEN e.stable = z.on
                          ELSE /\ e.stable # z.on
                               /\ Age(now, e.since) < Debounce
                               /\ z.age = AtMost(Debounce, Age(now, e.since))
  BY <1>1 DEF DebouncerIs, Slack, Age
<1>10. DebouncerIs(i) <=> IF d.since = NotPending THEN sampled => d.stable = s.on
                          ELSE /\ sampled /\ d.stable # s.on
                               /\ Age(now, d.since) < Debounce + MaxStep
                               /\ s.age = AtMost(Debounce, Age(now, d.since))
  BY <1>1 DEF DebouncerIs, Slack
<1> DEFINE Goal == /\ e \in Debouncer /\ z \in [on : BOOLEAN, age : 0 .. Debounce]
                   /\ DebouncerIs(i)'
                   /\ (sampled /\ e.stable # d.stable) => z.on = e.stable /\ z.age >= Debounce
<1>11. CASE on = d.stable \/ ~sampled
  <2>1. e = [stable |-> on, since |-> NotPending]
    BY <1>2, <1>11, <1>4, <1>1 DEF Update
  <2>2. e \in Debouncer /\ e.since = NotPending /\ e.stable = z.on
    BY <2>1, <1>8, <1>1 DEF Debouncer, Stamp
  <2> QED
    BY <2>1, <2>2, <1>8, <1>9, <1>11, <1>1
<1>12. CASE on # d.stable /\ sampled /\ d.since = NotPending
  <2>1. z = [on |-> on, age |-> 0]
    BY <1>3, <1>1, <1>4, <1>10, <1>12
  <2>2. CASE Debounce = 0
    <3>1. e = [stable |-> on, since |-> NotPending]
      BY <1>2, <1>7, <1>12, <2>2, <1>1 DEF Update
    <3> QED
      BY <3>1, <2>1, <2>2, <1>8, <1>9, <1>1 DEF Debouncer, Stamp
  <2>3. CASE Debounce # 0
    <3>1. e = [stable |-> d.stable, since |-> now]
      BY <1>2, <1>7, <1>12, <2>3, <1>1 DEF Update
    <3>2. AtMost(Debounce, 0) = 0 /\ 0 < Debounce
      BY <2>3 DEF AtMost
    <3>3. e \in Debouncer
      BY <3>1, <1>1, <1>4 DEF Debouncer, Stamp
    <3> QED
      BY <3>1, <3>2, <3>3, <2>1, <1>5, <1>8, <1>9, <1>12
  <2> QED
    BY <2>2, <2>3
<1>13. CASE on # d.stable /\ sampled /\ d.since # NotPending
  <2>1. s.on = on
    BY <1>1, <1>4, <1>10, <1>13
  <2>2. z = s
    BY <2>1, <1>3, <1>13
  <2>3. CASE Elapsed(d.since) >= Debounce
    <3>1. e = [stable |-> on, since |-> NotPending]
      BY <1>2, <1>13, <2>3, <1>1 DEF Update
    <3>2. s.age = Debounce
      BY <1>1, <1>6, <1>10, <1>13, <2>3 DEF AtMost
    <3>3. e \in Debouncer
      BY <3>1, <1>1 DEF Debouncer, Stamp
    <3> QED
      BY <3>1, <3>2, <3>3, <2>1, <2>2, <1>8, <1>9
  <2>4. CASE ~(Elapsed(d.since) >= Debounce)
    <3>1. e = [stable |-> d.stable, since |-> d.since]
      BY <1>2, <1>13, <2>4, <1>1 DEF Update
    <3>2. Age(now, d.since) < Debounce
      BY <1>6, <1>13, <2>4
    <3>3. e \in Debouncer
      BY <3>1, <1>4 DEF Debouncer
    <3> QED
      BY <3>1, <3>2, <3>3, <2>2, <1>1, <1>8, <1>9, <1>10, <1>13
  <2> QED
    BY <2>3, <2>4
<1>14. Goal
  BY <1>11, <1>12, <1>13
<1> QED
  BY <1>14

\* A pass leaves the flasher as described, and toggles it only after the half period.
LEMMA FlasherServed ==
  ASSUME ControlInv, Service
  PROVE  /\ flasher' \in [on : BOOLEAN, since : Stamp]
         /\ flash_age' \in 0 .. HalfPeriod
         /\ FlasherIs'
         /\ (flasher'.on # flasher.on /\ flasher'.since # NotPending) => flash_age >= HalfPeriod
<1> DEFINE f == flasher
           g == flasher'
           active == IndicatorActive(debounced')
<1>1. /\ now \in Clock /\ f \in [on : BOOLEAN, since : Stamp] /\ flash_age \in 0 .. HalfPeriod
      /\ phase = "poll" /\ phase' = "idle" /\ now' = now
      /\ FlasherIs
  BY DEF ControlInv, TypeOK, Service
<1>2. g = Flash(f, active)
  BY DEF Service
<1>3. flash_age' = IF g.on # f.on \/ f.since = NotPending THEN 0 ELSE flash_age
  BY DEF Service
<1>4. f.on \in BOOLEAN /\ f.since \in Stamp
  BY <1>1
<1>5. Age(now, now) = 0 /\ now # NotPending /\ now \in Stamp /\ NotPending \in Stamp
  BY <1>1, JustNow DEF Stamp
<1>6. f.since # NotPending => Elapsed(f.since) = Age(now, f.since) /\ Age(now, f.since) \in Nat
  BY <1>1, <1>4 DEF Stamp, Elapsed, Age, Clock
<1>7. FlasherIs' <=> IF g.since = NotPending THEN g.on
                     ELSE /\ Age(now, g.since) < HalfPeriod
                          /\ flash_age' = AtMost(HalfPeriod, Age(now, g.since))
  BY <1>1 DEF FlasherIs, Slack, Age
<1>8. FlasherIs <=> IF f.since = NotPending THEN f.on
                    ELSE /\ Age(now, f.since) < HalfPeriod + MaxStep
                         /\ flash_age = AtMost(HalfPeriod, Age(now, f.since))
  BY <1>1 DEF FlasherIs, Slack
<1>9. flash_age' \in 0 .. HalfPeriod
  BY <1>1, <1>3
<1>10. AtMost(HalfPeriod, 0) = 0 /\ 0 < HalfPeriod
  BY DEF AtMost
<1> HIDE DEF active
<1>11. CASE ~active
  <2>1. g = [on |-> TRUE, since |-> NotPending]
    BY <1>2, <1>11 DEF Flash
  <2> QED
    BY <2>1, <1>5, <1>7, <1>9
<1>12. CASE active /\ f.since = NotPending
  <2>1. g = [on |-> TRUE, since |-> now]
    BY <1>2, <1>12 DEF Flash
  <2>2. flash_age' = 0 /\ f.on
    BY <1>1, <1>3, <1>8, <1>12
  <2>3. g \in [on : BOOLEAN, since : Stamp] /\ g.on <=> f.on
    BY <2>1, <2>2, <1>5
  <2> QED
    BY <2>1, <2>2, <2>3, <1>4, <1>5, <1>7, <1>9, <1>10
<1>13. CASE active /\ f.since # NotPending /\ Elapsed(f.since) >= HalfPeriod
  <2>1. g = [on |-> ~f.on, since |-> now]
    BY <1>2, <1>13 DEF Flash
  <2>2. flash_age' = 0
    BY <2>1, <1>3, <1>4
  <2>3. flash_age >= HalfPeriod
    BY <1>1, <1>6, <1>8, <1>13 DEF AtMost
  <2>4. g \in [on : BOOLEAN, since : Stamp]
    BY <2>1, <1>4, <1>5
  <2> QED
    BY <2>1, <2>2, <2>3, <2>4, <1>5, <1>7, <1>9, <1>10
<1>14. CASE active /\ f.since # NotPending /\ ~(Elapsed(f.since) >= HalfPeriod)
  <2>1. g = f
    BY <1>2, <1>14 DEF Flash
  <2>2. flash_age' = flash_age /\ Age(now, f.since) < HalfPeriod
    BY <2>1, <1>3, <1>6, <1>14
  <2> QED
    BY <2>1, <2>2, <1>1, <1>7, <1>8, <1>9, <1>14
<1> QED
  BY <1>11, <1>12, <1>13, <1>14

-----------------------------------------------------------------------------
(* Each step keeps LightingInv, and ControlInv by itself. *)

LEMMA InitHolds == ASSUME Init PROVE LightingInv
<1>1. flash_age \in 0 .. HalfPeriod /\ told \subseteq [Outputs -> BOOLEAN]
  BY DEF Init
<1>2. TypeOK
  BY <1>1, BlankTypes, Zenon DEF Init, TypeOK
<1>3. \A i \in Inputs : DebouncerIs(i)
  BY DEF Init, DebouncerIs, Blank
<1>4. FlasherIs /\ OutputsAreDecided /\ MainKnows
  BY DEF Init, FlasherIs, OutputsAreDecided, PassEnded, MainKnows
<1> QED
  BY <1>2, <1>3, <1>4 DEF LightingInv, ControlInv, OutputsInv

LEMMA RebootHolds ==
  ASSUME ControlInv, Reboot PROVE ControlInv' /\ (OutputsInv => OutputsInv')
<1>1. flash_age' \in 0 .. HalfPeriod /\ told' \subseteq [Outputs -> BOOLEAN]
      /\ raw' \in Switches
  BY DEF Reboot, ControlInv, TypeOK
<1>2. TypeOK'
  BY <1>1, BlankTypes, Zenon DEF Reboot, TypeOK
<1>3. \A i \in Inputs : DebouncerIs(i)'
  BY DEF Reboot, DebouncerIs, Blank
<1>4. FlasherIs' /\ OutputsAreDecided' /\ MainKnows'
  BY DEF Reboot, FlasherIs, OutputsAreDecided, PassEnded, MainKnows
<1> QED
  BY <1>2, <1>3, <1>4 DEF ControlInv, OutputsInv

LEMMA WakeHolds ==
  ASSUME ControlInv, NEW d \in 0 .. MaxStep, Wake(d)
  PROVE  ControlInv' /\ (OutputsInv => OutputsInv')
<1> DEFINE u == now'
<1>1. /\ now \in Clock /\ u \in Clock
      /\ u = IF now + d < ClockMod THEN now + d ELSE now + d - ClockMod
  BY LaterIsTime DEF ControlInv, TypeOK, Wake
<1>2. /\ phase = "idle" /\ phase' = "poll"
      /\ UNCHANGED <<raw, commanded, driven, sampled, debounced, flasher, told>>
  BY DEF Wake
<1>3. ASSUME NEW i \in Inputs
      PROVE  /\ seen'[i] \in [on : BOOLEAN, age : 0 .. Debounce]
             /\ DebouncerIs(i)'
  <2> DEFINE s == seen[i]
             z == seen'[i]
             since == debounced[i].since
  <2>1. s \in [on : BOOLEAN, age : 0 .. Debounce] /\ since \in Stamp
    BY DEF ControlInv, TypeOK, Debouncer
  <2>2. z = [s EXCEPT !.age = AtMost(Debounce, s.age + d)]
    BY DEF Wake
  <2>3. AtMost(Debounce, s.age + d) \in 0 .. Debounce
    BY <2>1 DEF AtMost
  <2>4. z \in [on : BOOLEAN, age : 0 .. Debounce] /\ z.on = s.on
        /\ z.age = AtMost(Debounce, s.age + d)
    BY <2>1, <2>2, <2>3
  <2>5. CASE since = NotPending
    BY <2>4, <2>5, <1>2 DEF ControlInv, DebouncerIs
  <2>6. CASE since # NotPending
    <3>1. /\ since \in Clock /\ sampled /\ debounced[i].stable # s.on
          /\ Age(now, since) < Debounce /\ s.age = AtMost(Debounce, Age(now, since))
      <4>1. Slack = 0 /\ since \in Clock
        BY <2>1, <2>6, <1>2 DEF Slack, Stamp
      <4>2. /\ sampled /\ debounced[i].stable # s.on /\ Age(now, since) < Debounce + Slack
            /\ s.age = AtMost(Debounce, Age(now, since))
        BY <2>6 DEF ControlInv, DebouncerIs
      <4>3. Age(now, since) \in Nat
        BY <1>1, <4>1, ClockSteps DEF Age, Clock
      <4> QED
        BY <4>1, <4>2, <4>3, ClockSteps
    <3>2. /\ Age(u, since) < Debounce + MaxStep
          /\ AtMost(Debounce, AtMost(Debounce, Age(now, since)) + d)
               = AtMost(Debounce, Age(u, since))
      <4> HIDE DEF u, since
      <4> QED
        BY <3>1, <1>1, AgesTogether
    <3>3. z.age = AtMost(Debounce, Age(u, since))
      BY <3>1, <3>2, <2>4
    <3>4. DebouncerIs(i)'
      BY <3>1, <3>2, <3>3, <2>4, <2>6, <1>2 DEF DebouncerIs, Slack, Age
    <3> QED
      BY <3>4, <2>4
  <2> QED
    BY <2>4, <2>5, <2>6
<1>4. FlasherIs' /\ flash_age' \in 0 .. HalfPeriod
  <2> DEFINE since == flasher.since
  <2>1. since \in Stamp /\ flash_age \in 0 .. HalfPeriod
    BY DEF ControlInv, TypeOK
  <2>2. flash_age' = AtMost(HalfPeriod, flash_age + d)
    BY DEF Wake
  <2>3. flash_age' \in 0 .. HalfPeriod
    BY <2>1, <2>2 DEF AtMost
  <2>4. CASE since = NotPending
    BY <2>3, <2>4, <1>2 DEF ControlInv, FlasherIs
  <2>5. CASE since # NotPending
    <3>1. /\ since \in Clock /\ Age(now, since) < HalfPeriod
          /\ flash_age = AtMost(HalfPeriod, Age(now, since))
      BY <2>1, <2>5, <1>2 DEF ControlInv, FlasherIs, Slack, Stamp
    <3>2. /\ Age(u, since) < HalfPeriod + MaxStep
          /\ AtMost(HalfPeriod, AtMost(HalfPeriod, Age(now, since)) + d)
               = AtMost(HalfPeriod, Age(u, since))
      <4> HIDE DEF u, since
      <4> QED
        BY <3>1, <1>1, AgesTogether
    <3>3. FlasherIs'
      BY <3>1, <3>2, <2>2, <2>5, <1>2 DEF FlasherIs, Slack, Age
    <3> QED
      BY <3>3, <2>3
  <2> QED
    BY <2>4, <2>5
<1>5. seen' \in [Inputs -> [on : BOOLEAN, age : 0 .. Debounce]]
  BY <1>3 DEF Wake
<1>6. TypeOK'
  BY <1>1, <1>2, <1>4, <1>5 DEF ControlInv, TypeOK
<1>7. OutputsInv => OutputsInv'
  BY <1>2 DEF OutputsInv, OutputsAreDecided, PassEnded, MainKnows
<1> QED
  BY <1>3, <1>4, <1>6, <1>7 DEF ControlInv

\* A step that leaves the clock, the samples and the decisions alone
LEMMA AtRest ==
  ASSUME ControlInv,
         UNCHANGED <<now, phase, sampled, debounced, flasher, seen, flash_age>>
  PROVE  /\ \A i \in Inputs : DebouncerIs(i)'
         /\ FlasherIs'
BY DEF ControlInv, DebouncerIs, FlasherIs, Slack

LEMMA HandlersHold ==
  ASSUME ControlInv,
         NEW source \in Controllers,
         \/ \E o \in Commanded, on \in BOOLEAN : SetOutput(source, o, on)
         \/ GetState(source)
  PROVE  ControlInv' /\ (OutputsInv => OutputsInv')
<1>1. UNCHANGED <<now, phase, raw, sampled, debounced, flasher, seen, flash_age>>
      /\ phase = "poll"
  BY DEF SetOutput, GetState
<1>2. driven' \in [Outputs -> BOOLEAN] /\ commanded' \in [Outputs -> BOOLEAN]
  BY DEF ControlInv, TypeOK, SetOutput, GetState
<1>3. told' = IF source = MainComputer THEN {driven'} ELSE told
  BY DEF SetOutput, GetState, Publish
<1>4. TypeOK'
  BY <1>1, <1>2, <1>3 DEF ControlInv, TypeOK
<1>5. OutputsAreDecided'
  BY <1>1 DEF OutputsAreDecided, PassEnded
<1>6. MainKnows'
  BY <1>3 DEF MainKnows
<1> QED
  BY <1>1, <1>4, <1>5, <1>6, AtRest DEF ControlInv, OutputsInv

LEMMA SwitchesHold ==
  ASSUME ControlInv, SwitchesMove PROVE ControlInv' /\ (OutputsInv => OutputsInv')
<1>1. UNCHANGED <<now, phase, commanded, driven, sampled, debounced, flasher, seen,
                  flash_age, told>> /\ raw' \in Switches
  BY DEF SwitchesMove
<1>2. TypeOK'
  BY <1>1 DEF ControlInv, TypeOK
<1>3. OutputsInv => OutputsInv'
  BY <1>1 DEF OutputsInv, OutputsAreDecided, PassEnded, MainKnows
<1> QED
  BY <1>1, <1>2, <1>3, AtRest DEF ControlInv

\* A pass ends with the outputs as decided, whatever they were.
LEMMA ServiceHolds ==
  ASSUME ControlInv, Service
  PROVE  ControlInv' /\ OutputsAreDecided' /\ (OutputsInv => OutputsInv')
<1> DEFINE effective == Effective(commanded, debounced', flasher'.on)
<1>1. debounced' \in [Inputs -> Debouncer]
  BY DebouncerServed DEF Service
<1>2. seen' \in [Inputs -> [on : BOOLEAN, age : 0 .. Debounce]]
  BY DebouncerServed DEF Service
<1>3. flasher'.on \in BOOLEAN
  BY FlasherServed
<1>4. effective \in [Outputs -> BOOLEAN]
  BY <1>1, <1>3, DecisionTypes DEF ControlInv
<1>5. PICK failed \in SUBSET Flaky :
        driven' = [o \in Outputs |-> IF o \in failed THEN driven[o] ELSE effective[o]]
  BY DEF Service
<1>6. driven \in [Outputs -> BOOLEAN] /\ told \subseteq [Outputs -> BOOLEAN]
  BY DEF ControlInv, TypeOK
<1>7. told' = IF effective # driven /\ MainComputer = MainComputer THEN {driven'} ELSE told
  BY DEF Service, Publish
<1>8. phase' = "idle" /\ sampled' = TRUE /\ UNCHANGED <<now, raw, commanded>>
  BY DEF Service
<1> HIDE DEF effective
<1>9. driven' \in [Outputs -> BOOLEAN]
  BY <1>4, <1>5, <1>6
<1>10. TypeOK'
  BY <1>1, <1>2, <1>6, <1>7, <1>8, <1>9, FlasherServed DEF ControlInv, TypeOK
<1>11. \A i \in Inputs : DebouncerIs(i)'
  BY DebouncerServed
<1>12. OutputsAreDecided'
  <2>1. \A o \in Outputs \ Flaky : driven'[o] = effective[o]
    BY <1>5
  <2> QED
    BY <2>1, <1>8 DEF OutputsAreDecided, effective
<1>13. MainKnows => MainKnows'
  <2>1. CASE effective # driven
    BY <2>1, <1>7 DEF MainKnows
  <2>2. CASE effective = driven
    <3>1. driven' = driven
      BY <2>2, <1>5, <1>6
    <3> QED
      BY <3>1, <2>2, <1>7 DEF MainKnows
  <2> QED
    BY <2>1, <2>2
<1> QED
  BY <1>10, <1>11, <1>12, <1>13, FlasherServed DEF ControlInv, OutputsInv

\* The rest of the state, of which a step may drive the outputs as it likes
LEMMA QuietHolds ==
  ASSUME ControlInv, driven' \in [Outputs -> BOOLEAN],
         UNCHANGED <<now, phase, raw, commanded, sampled, debounced, flasher, seen, flash_age,
                     told>>
  PROVE  ControlInv'
<1>1. TypeOK'
  BY DEF ControlInv, TypeOK
<1> QED
  BY <1>1, AtRest DEF ControlInv

LEMMA StepHolds ==
  ASSUME ControlInv, [Next]_vars PROVE ControlInv' /\ (OutputsInv => OutputsInv')
<1>1. CASE UNCHANGED vars
  <2>1. OutputsInv => OutputsInv'
    BY <1>1 DEF vars, OutputsInv, OutputsAreDecided, PassEnded, MainKnows
  <2>2. ControlInv'
    BY <1>1, QuietHolds DEF vars, ControlInv, TypeOK
  <2> QED
    BY <2>1, <2>2
<1> QED
  BY <1>1, WakeHolds, SwitchesHold, HandlersHold, ServiceHolds, RebootHolds DEF Next

LEMMA Invariance == Spec => []LightingInv
<1>1. LightingInv /\ [Next]_vars => LightingInv'
  BY StepHolds DEF LightingInv
<1> QED
  BY <1>1, InitHolds, PTL DEF Spec

-----------------------------------------------------------------------------
(* The theorems. *)

\* Between passes a switch that was the same for the debounce time is believed.
LEMMA HeldIsBelieved ==
  ASSUME ControlInv, PassEnded, NEW i \in Inputs
  PROVE  /\ Held(i) => debounced[i].stable = TRUE
         /\ Released(i) => debounced[i].stable = FALSE
<1> DEFINE since == debounced[i].since
<1>1. /\ since \in Stamp /\ debounced[i].stable \in BOOLEAN /\ seen[i].on \in BOOLEAN
      /\ DebouncerIs(i) /\ sampled /\ phase = "idle" /\ now \in Clock
  BY DEF ControlInv, TypeOK, PassEnded, Debouncer
<1>2. CASE seen[i].age >= Debounce
  <2>1. since = NotPending
    <3> SUFFICES ASSUME since # NotPending PROVE FALSE
      OBVIOUS
    <3>1. /\ Age(now, since) \in Clock /\ Age(now, since) < Debounce
          /\ seen[i].age = AtMost(Debounce, Age(now, since))
      BY <1>1, ClockSteps DEF DebouncerIs, Slack, Stamp, Age, Clock
    <3> QED
      BY <3>1, <1>2 DEF AtMost, Clock
  <2>2. debounced[i].stable = seen[i].on
    BY <2>1, <1>1 DEF DebouncerIs
  <2> QED
    BY <2>2, <1>1 DEF Held, Released
<1> QED
  BY <1>2 DEF Held, Released

\* A lamp that is driven as decided is as the rider's controls ask.
LEMMA DecidedIsAsked ==
  ASSUME ControlInv, PassEnded, NEW o \in Outputs,
         driven[o] = Effective(commanded, debounced, flasher.on)[o]
  PROVE  ControlsDecide(o)
<1>1. driven[o] = Effective(commanded, debounced, flasher.on)[o]
  OBVIOUS
<1>2. \A i \in Inputs : /\ Held(i) => debounced[i].stable = TRUE
                        /\ Released(i) => debounced[i].stable = FALSE
  BY HeldIsBelieved
<1>3. {"left", "right", "front", "rear", "high"} \subseteq Inputs
  BY DEF Inputs
<1>4. commanded[o] \in BOOLEAN /\ driven[o] \in BOOLEAN
  BY DEF ControlInv, TypeOK
<1>5. CASE o = "brake_bright"
  <2>1. driven[o] = (debounced["front"].stable \/ debounced["rear"].stable \/ commanded[o])
    BY <1>1, <1>5 DEF Effective
  <2> QED
    BY <2>1, <1>2, <1>3, <1>4, <1>5 DEF ControlsDecide
<1>6. CASE o = "high_beam"
  <2>1. driven[o] = (debounced["high"].stable \/ commanded[o])
    BY <1>1, <1>6 DEF Effective
  <2> QED
    BY <2>1, <1>2, <1>3, <1>4, <1>6 DEF ControlsDecide
<1>7. CASE o = "left_indicator"
  <2>1. driven[o] = IF debounced["left"].stable THEN flasher.on ELSE commanded[o]
    BY <1>1, <1>7 DEF Effective
  <2> QED
    BY <2>1, <1>2, <1>3, <1>7 DEF ControlsDecide
<1>8. CASE o = "right_indicator"
  <2>1. driven[o] = IF debounced["right"].stable THEN flasher.on ELSE commanded[o]
    BY <1>1, <1>8 DEF Effective
  <2> QED
    BY <2>1, <1>2, <1>3, <1>8 DEF ControlsDecide
<1> QED
  BY <1>5, <1>6, <1>7, <1>8 DEF Outputs

\* No step but a pass changes what a debouncer believes, the flasher or its age, save
\* the loss of power.
LEMMA OnlyService ==
  ASSUME [Next]_vars, ~Service
  PROVE  \/ UNCHANGED <<debounced, flasher>>
         \/ sampled' = FALSE /\ flasher'.since = NotPending
<1> USE DEF NotPending
<1>1. CASE UNCHANGED vars
  BY <1>1 DEF vars
<1>2. CASE Reboot
  BY <1>2 DEF Reboot
<1> QED
  BY <1>1, <1>2 DEF Next, Wake, SwitchesMove, SetOutput, GetState

\* What a debouncer believes changes in a pass, after the debounce time.
LEMMA DebouncedStep ==
  ASSUME ControlInv, [Next]_vars, NEW i \in Inputs,
         sampled, sampled', debounced'[i].stable # debounced[i].stable
  PROVE  seen'[i].on = debounced'[i].stable /\ seen'[i].age >= Debounce
BY DebouncerServed, OnlyService

\* The flasher toggles in a pass, after the half period.
LEMMA FlashStep ==
  ASSUME ControlInv, [Next]_vars, flasher'.on # flasher.on, flasher'.since # NotPending
  PROVE  flash_age >= HalfPeriod
BY FlasherServed, OnlyService

LEMMA FlashIsDue ==
  ASSUME ControlInv, phase = "idle", flasher.since # NotPending
  PROVE  flash_age < HalfPeriod
<1>1. flasher.since \in Clock /\ now \in Clock
  BY DEF ControlInv, TypeOK, Stamp
<1>2. /\ Age(now, flasher.since) \in Clock
      /\ Age(now, flasher.since) < HalfPeriod
      /\ flash_age = AtMost(HalfPeriod, Age(now, flasher.since))
  BY <1>1, ClockSteps DEF ControlInv, FlasherIs, Slack, Clock, Age
<1> QED
  BY <1>2 DEF AtMost, Clock

\* The outputs, the debouncers, the flasher and the history keep to their types.
THEOREM Typing == Spec => []TypeOK
<1>1. LightingInv => TypeOK
  BY DEF LightingInv, ControlInv
<1> QED
  BY <1>1, Invariance, PTL

\* The rider's controls are authoritative, for all debounce times, writes that fail and
\* losses of power.
THEOREM Authority == Spec => []PhysicalControlsWin
<1>1. LightingInv => PhysicalControlsWin
  BY DecidedIsAsked DEF LightingInv, OutputsInv, OutputsAreDecided, PhysicalControlsWin
<1> QED
  BY <1>1, Invariance, PTL

\* The main computer's picture of the outputs is current whenever it is the only commander.
THEOREM Reporting == Spec => []MainIsTold
<1>1. LightingInv => MainIsTold
  BY DEF LightingInv, OutputsInv, MainKnows, MainIsTold
<1> QED
  BY <1>1, Invariance, PTL

\* No bounce is believed, however the clock wraps and however long a pass takes.
THEOREM Debouncing == Spec => BouncesIgnored
<1>1. LightingInv /\ [Next]_vars =>
        [\A i \in Inputs :
           (sampled /\ sampled' /\ debounced'[i].stable # debounced[i].stable)
             => seen'[i].on = debounced'[i].stable /\ seen'[i].age >= Debounce]_vars
  BY DebouncedStep DEF LightingInv
<1> QED
  BY <1>1, Invariance, PTL DEF Spec, BouncesIgnored

\* Each flash and each gap lasts the half period, and none is overdue after a pass.
THEOREM Flashing == Spec => FlashesOnTime
<1>1. LightingInv /\ [Next]_vars =>
        [(flasher'.on # flasher.on /\ flasher'.since # NotPending)
           => flash_age >= HalfPeriod]_vars
  BY FlashStep DEF LightingInv
<1>2. LightingInv => (phase = "idle" /\ flasher.since # NotPending => flash_age < HalfPeriod)
  BY FlashIsDue DEF LightingInv
<1> QED
  BY <1>1, <1>2, Invariance, PTL DEF Spec, FlashesOnTime

-----------------------------------------------------------------------------
(***************************************************************************)
(* The fault manager in the controller's loop, for every set of monitored  *)
(* and shut-down outputs, every confirmation count, and every fate of what *)
(* is sent.                                                                *)
(***************************************************************************)

USE FaultsAssumption

Runs == [Monitored -> 0 .. Confirm]

FaultTypes ==
  /\ load \in [Monitored -> {"ok"} \cup Faults]
  /\ count \in Runs /\ bad_run \in Runs /\ over_run \in Runs
  /\ record \in [Monitored -> Records] /\ shown \in [Monitored -> Records]
  /\ informed \in [Monitored -> BOOLEAN]

\* The code's count is the run of passes that it stands for.
CountIsRun == count = bad_run /\ \A o \in Monitored : over_run[o] <= count[o]

\* Nothing is shut down without a latch, and what the main computer was told of a latched
\* over-current is the shutdown that its policy asks for, or that it failed.
LatchesAreConsistent ==
  \A o \in Monitored :
    /\ record[o].status = "off" => record[o] = NoFault
    /\ (o \in CutOff /\ record[o].status = "over" /\ informed[o])
         => record[o].shutdown \/ o \in late

FaultInv ==
  /\ FaultTypes /\ CountIsRun /\ LatchesAreConsistent
  /\ ShutdownHolds /\ MainShowsFaults

\* The fault manager and what is known of it stay as they are.
Untouched == UNCHANGED <<count, bad_run, over_run, record, shown, informed, late>>

-----------------------------------------------------------------------------
LEMMA RecordsAre ==
  /\ NoFault \in Records /\ ~NoFault.shutdown
  /\ \A r \in Records :
       /\ r.status \in {"off", "open", "over"} /\ r.shutdown \in BOOLEAN
       /\ ~r.shutdown => [r EXCEPT !.shutdown = FALSE] = r
       /\ decode_lighting_fault(publish_fault(r, "Fault")) = r
       /\ decode_lighting_fault(publish_fault(r, "FaultClear")) = NoFault
BY DEF NoFault, Records, Faults, decode_lighting_fault, publish_fault

LEMMA FaultInitHolds == FaultInit => FaultInv
<1> SUFFICES ASSUME FaultInit PROVE FaultInv
  OBVIOUS
<1>1. FaultTypes
  BY RecordsAre DEF FaultInit, FaultTypes, Runs, ForgetFaults, Faults
<1>2. \A o \in Monitored :
        count[o] = 0 /\ over_run[o] = 0 /\ record[o] = NoFault /\ shown[o] = NoFault
  BY DEF FaultInit, ForgetFaults
<1>3. count = bad_run
  BY DEF FaultInit
<1>4. NoFault.status = "off"
  BY DEF NoFault
<1> QED
  BY <1>1, <1>2, <1>3, <1>4
     DEF FaultInv, CountIsRun, LatchesAreConsistent, ShutdownHolds, MainShowsFaults

\* The runs go on as the count does.
LEMMA CountsGoOn ==
  ASSUME FaultTypes, CountIsRun, CheckOutputs
  PROVE  /\ count' \in Runs /\ bad_run' \in Runs /\ over_run' \in Runs
         /\ CountIsRun'
         /\ \A o \in Monitored :
              /\ Confirmed(o) => count'[o] = Confirm
              /\ (over_run'[o] >= Confirm) => Confirmed(o) /\ Status(o, driven) = "over"
<1>1. /\ count' = [o \in Monitored |-> Samples(o)]
      /\ bad_run' = RunsOn(bad_run, Faults) /\ over_run' = RunsOn(over_run, {"over"})
  BY DEF CheckOutputs, ManageFaults
<1>2. ASSUME NEW o \in Monitored
      PROVE  /\ count[o] \in 0 .. Confirm /\ over_run[o] \in 0 .. Confirm
             /\ bad_run[o] = count[o] /\ over_run[o] <= count[o]
  BY DEF FaultTypes, Runs, CountIsRun
<1>3. ASSUME NEW o \in Monitored
      PROVE  /\ count'[o] = Samples(o) /\ bad_run'[o] = Samples(o)
             /\ Samples(o) \in 0 .. Confirm
             /\ over_run'[o] \in 0 .. Confirm /\ over_run'[o] <= Samples(o)
             /\ Confirmed(o) => Samples(o) = Confirm
             /\ over_run'[o] >= Confirm => Confirmed(o) /\ Status(o, driven) = "over"
  <2>1. /\ Samples(o) = IF Status(o, driven) \in Faults
                        THEN AtMost(Confirm, count[o] + 1) ELSE 0
        /\ bad_run'[o] = IF Status(o, driven) \in Faults
                         THEN AtMost(Confirm, bad_run[o] + 1) ELSE 0
        /\ over_run'[o] = IF Status(o, driven) = "over"
                          THEN AtMost(Confirm, over_run[o] + 1) ELSE 0
    BY <1>1 DEF Samples, RunsOn
  <2>2. "over" \in Faults
    BY DEF Faults
  <2>3. Confirmed(o) <=> Status(o, driven) \in Faults /\ Samples(o) >= Confirm
    BY DEF Confirmed
  <2>4. count'[o] = Samples(o)
    BY <1>1
  <2> QED
    BY <1>2, <2>1, <2>2, <2>3, <2>4 DEF AtMost
<1> QED
  BY <1>1, <1>3 DEF Runs, CountIsRun, RunsOn

\* What a check makes of each record and of what is shown of it, for reports with
\* some fate and some failing writes.
LEMMA RecordsGoOn ==
  ASSUME FaultTypes, LatchesAreConsistent, MainShowsFaults, CheckOutputs
  PROVE  /\ record' \in [Monitored -> Records] /\ shown' \in [Monitored -> Records]
         /\ informed' \in [Monitored -> BOOLEAN]
         /\ LatchesAreConsistent' /\ MainShowsFaults'
         /\ \A o \in Monitored : record'[o].status # record[o].status => Confirmed(o)
         /\ \A o \in CutOff \ resisted' : Cut(o) => ~driven'[o]
<1>1. PICK fate \in [Monitored -> Fates] : ManageFaults(fate)
  BY DEF CheckOutputs
<1>2. PICK failed \in SUBSET Resisting :
        LET off == {o \in Monitored : Cut(o) /\ o \notin failed}
        IN  /\ resisted' = {o \in failed : Cut(o)}
            /\ driven' = [o \in Outputs |-> driven[o] /\ o \notin off]
            /\ record' = [o \in Monitored |->
                 IF Confirmed(o)
                 THEN [status |-> Status(o, driven), shutdown |-> record[o].shutdown \/ o \in off]
                 ELSE record[o]]
  BY <1>1 DEF ManageFaults
<1> DEFINE off == {o \in Monitored : Cut(o) /\ o \notin failed}
           After(o) == IF Confirmed(o)
                       THEN [status |-> Status(o, driven),
                             shutdown |-> record[o].shutdown \/ o \in off]
                       ELSE record[o]
<1>3. /\ driven' = [o \in Outputs |-> driven[o] /\ o \notin off]
      /\ record' = [o \in Monitored |-> After(o)]
      /\ resisted' = {o \in failed : Cut(o)}
  BY <1>2
<1>4. /\ shown' = [o \in Monitored |->
                     IF NewlyLatched(o) /\ fate[o] = "arrives"
                     THEN decode_lighting_fault(Reported(o)) ELSE shown[o]]
      /\ informed' = [o \in Monitored |->
                        IF NewlyLatched(o) THEN fate[o] = "arrives" ELSE informed[o]]
      /\ late' = {o \in Monitored : IF NewlyLatched(o) THEN informed'[o] /\ o \in resisted'
                                    ELSE o \in late}
  BY <1>1 DEF ManageFaults
<1>5. ASSUME NEW o \in Monitored
      PROVE  /\ record'[o] = After(o) /\ record'[o] \in Records
             /\ shown'[o] \in Records /\ informed'[o] \in BOOLEAN
             /\ NewlyLatched(o) /\ fate[o] = "arrives" => shown'[o] = record'[o]
             /\ ~(NewlyLatched(o) /\ fate[o] = "arrives") => shown'[o] = shown[o]
             /\ informed'[o] <=> IF NewlyLatched(o) THEN fate[o] = "arrives" ELSE informed[o]
  <2>1. record[o] \in Records /\ shown[o] \in Records /\ informed[o] \in BOOLEAN
    BY DEF FaultTypes
  <2>2. record'[o] = After(o)
    BY <1>3
  <2>3. Confirmed(o) => Status(o, driven) \in Faults
    BY DEF Confirmed
  <2>4. record'[o] \in Records
    BY <2>1, <2>2, <2>3 DEF Records
  <2>5. decode_lighting_fault(Reported(o)) = record'[o]
    BY <2>4, RecordsAre DEF Reported
  <2>6. shown'[o] = IF NewlyLatched(o) /\ fate[o] = "arrives" THEN record'[o] ELSE shown[o]
    BY <1>4, <2>5
  <2>7. informed'[o] <=> IF NewlyLatched(o) THEN fate[o] = "arrives" ELSE informed[o]
    BY <1>4
  <2>8. informed'[o] \in BOOLEAN
    <3>1. informed'[o] = IF NewlyLatched(o) THEN fate[o] = "arrives" ELSE informed[o]
      BY <1>4
    <3> QED
      BY <2>1, <3>1
  <2> QED
    BY <2>1, <2>2, <2>4, <2>6, <2>7, <2>8
<1>6. ASSUME NEW o \in Monitored
      PROVE  /\ record'[o].status = "off" => record'[o] = NoFault
             /\ (o \in CutOff /\ record'[o].status = "over" /\ informed'[o])
                  => record'[o].shutdown \/ o \in late'
             /\ informed'[o] => \/ shown'[o] = record'[o]
                               \/ /\ o \in late'
                                  /\ shown'[o] = [record'[o] EXCEPT !.shutdown = FALSE]
  <2>1. /\ record[o] \in Records
        /\ record[o].status = "off" => record[o] = NoFault
        /\ (o \in CutOff /\ record[o].status = "over" /\ informed[o])
             => record[o].shutdown \/ o \in late
    BY DEF FaultTypes, LatchesAreConsistent
  <2>2. informed[o] => \/ shown[o] = record[o]
                       \/ o \in late /\ shown[o] = [record[o] EXCEPT !.shutdown = FALSE]
    BY DEF MainShowsFaults
  <2>3. o \in late' <=> IF NewlyLatched(o) THEN informed'[o] /\ o \in resisted' ELSE o \in late
    BY <1>4
  <2>4. CASE ~Confirmed(o)
    <3>1. ~NewlyLatched(o)
      BY <2>4 DEF NewlyLatched
    <3> QED
      BY <1>5, <2>1, <2>2, <2>3, <2>4, <3>1
  <2>5. CASE Confirmed(o)
    <3>1. record'[o] = [status |-> Status(o, driven), shutdown |-> record[o].shutdown \/ o \in off]
      BY <1>5, <2>5
    <3>2. Status(o, driven) \in {"open", "over"}
      BY <2>5 DEF Confirmed, Faults
    <3>3. o \in CutOff /\ Status(o, driven) = "over" => o \in off \/ o \in resisted'
      BY <1>3, <2>5 DEF Cut
    <3>4. o \in off => o \in CutOff /\ Status(o, driven) = "over"
      BY DEF Cut
    <3>5. NewlyLatched(o) <=> record[o].status # Status(o, driven)
      BY <2>5 DEF NewlyLatched
    <3>6. record'[o].status = Status(o, driven)
          /\ record'[o].shutdown = (record[o].shutdown \/ o \in off)
      BY <3>1
    <3> HIDE DEF off
    <3>7. CASE NewlyLatched(o)
      BY <1>5, <2>3, <3>2, <3>3, <3>6, <3>7
    <3>8. CASE ~NewlyLatched(o)
      <4>1. /\ record[o] = [status |-> Status(o, driven), shutdown |-> record[o].shutdown]
            /\ record[o].shutdown \in BOOLEAN
        BY <2>1, <3>5, <3>8, RecordsAre DEF Records
      <4>2. (informed'[o] <=> informed[o]) /\ (o \in late' <=> o \in late) /\ shown'[o] = shown[o]
        BY <1>5, <2>3, <3>8
      <4>3. o \notin off \/ record[o].shutdown => record'[o] = record[o]
        BY <3>1, <4>1
      <4>4. [record'[o] EXCEPT !.shutdown = FALSE] = [record[o] EXCEPT !.shutdown = FALSE]
        <5>1. /\ record'[o] \in [status : {"off"} \cup Faults, shutdown : BOOLEAN]
              /\ record[o] \in [status : {"off"} \cup Faults, shutdown : BOOLEAN]
              /\ record'[o].status = record[o].status
          BY <1>5, <2>1, <3>5, <3>6, <3>8 DEF Records
        <5> QED
          BY <5>1
      <4>5. ~record[o].shutdown => record[o] = [record[o] EXCEPT !.shutdown = FALSE]
        BY <2>1, <4>1 DEF Records
      <4>6. informed[o] /\ o \in off /\ ~record[o].shutdown => o \in late
        BY <2>1, <3>4, <3>5, <3>8
      <4>7. record'[o].status = record[o].status
        BY <3>5, <3>6, <3>8
      <4> QED
        BY <2>1, <2>2, <3>2, <3>6, <4>2, <4>3, <4>4, <4>5, <4>6, <4>7
    <3> QED
      BY <3>7, <3>8
  <2> QED
    BY <2>4, <2>5
<1>7. LatchesAreConsistent'
  BY <1>6 DEF LatchesAreConsistent
<1>8. MainShowsFaults'
  BY <1>6 DEF MainShowsFaults
<1>9. ASSUME NEW o \in Monitored, record'[o].status # record[o].status PROVE Confirmed(o)
  BY <1>5, <1>9
<1>10. ASSUME NEW o \in CutOff \ resisted', Cut(o) PROVE ~driven'[o]
  <2>1. o \in off /\ o \in Outputs
    BY <1>3, <1>10
  <2> QED
    BY <1>3, <2>1
<1>11. /\ record' \in [Monitored -> Records] /\ shown' \in [Monitored -> Records]
       /\ informed' \in [Monitored -> BOOLEAN]
  <2>1. /\ record' = [o \in Monitored |-> record'[o]] /\ shown' = [o \in Monitored |-> shown'[o]]
        /\ informed' = [o \in Monitored |-> informed'[o]]
    BY <1>3, <1>4
  <2> QED
    BY <1>5, <2>1
<1> QED
  BY <1>7, <1>8, <1>9, <1>10, <1>11

LEMMA CheckStep == FaultInv /\ CheckOutputs => FaultInv'
<1> SUFFICES ASSUME FaultInv, CheckOutputs PROVE FaultInv'
  OBVIOUS
<1> USE DEF FaultInv
<1>1. FaultTypes'
  BY CountsGoOn, RecordsGoOn DEF CheckOutputs, FaultTypes
<1>2. ShutdownHolds'
  <2> SUFFICES ASSUME NEW o \in CutOff \ resisted', driven'[o] PROVE over_run'[o] < Confirm
    BY DEF ShutdownHolds
  <2>1. ~Cut(o)
    BY RecordsGoOn
  <2>2. ~(over_run'[o] >= Confirm)
    BY <2>1, CountsGoOn DEF Cut
  <2>3. over_run'[o] \in 0 .. Confirm
    BY <1>1 DEF FaultTypes, Runs
  <2> QED
    BY <2>2, <2>3
<1> QED
  BY <1>1, <1>2, CountsGoOn, RecordsGoOn

LEMMA ClearStep == \A o \in Monitored : FaultInv /\ ClearLatch(o) => FaultInv'
<1> SUFFICES ASSUME NEW o \in Monitored, FaultInv, ClearLatch(o) PROVE FaultInv'
  OBVIOUS
<1> USE DEF FaultInv
<1>1. PICK fate \in Fates :
        IF record[o].status = "off" THEN UNCHANGED <<shown, informed>>
        ELSE /\ shown' = IF fate = "arrives"
                         THEN [shown EXCEPT ![o] =
                                 decode_lighting_fault(publish_fault(record[o], "FaultClear"))]
                         ELSE shown
             /\ informed' = [informed EXCEPT ![o] = (fate = "arrives")]
  BY DEF ClearLatch
<1>2. decode_lighting_fault(publish_fault(record[o], "FaultClear")) = NoFault
  BY RecordsAre DEF FaultTypes
<1>3. /\ count' = [count EXCEPT ![o] = 0] /\ record' = [record EXCEPT ![o] = NoFault]
      /\ bad_run' = [bad_run EXCEPT ![o] = 0] /\ over_run' = [over_run EXCEPT ![o] = 0]
      /\ UNCHANGED <<load, phase, driven, checking, resisted>> /\ phase = "poll"
      /\ late' = late \ {o}
  BY DEF ClearLatch, vars
<1>4. FaultTypes'
  <2>1. NoFault \in Records
    BY RecordsAre
  <2>2. /\ shown \in [Monitored -> Records] /\ informed \in [Monitored -> BOOLEAN]
        /\ record \in [Monitored -> Records]
    BY DEF FaultTypes
  <2>3. shown' = shown \/ shown' = [shown EXCEPT ![o] = NoFault]
    BY <1>1, <1>2
  <2>4. shown' \in [Monitored -> Records] /\ record' \in [Monitored -> Records]
    BY <1>3, <2>1, <2>2, <2>3
  <2>5. informed' \in [Monitored -> BOOLEAN]
    BY <1>1, <2>2
  <2>6. count' \in Runs /\ bad_run' \in Runs /\ over_run' \in Runs
    BY <1>3 DEF FaultTypes, Runs
  <2> QED
    BY <1>3, <2>4, <2>5, <2>6 DEF FaultTypes
<1>5. CountIsRun'
  BY <1>3 DEF CountIsRun, FaultTypes, Runs
<1>6. LatchesAreConsistent'
  BY <1>1, <1>3 DEF LatchesAreConsistent, FaultTypes, NoFault
<1>7. ShutdownHolds'
  BY <1>3 DEF ShutdownHolds, PassOver
<1>8. MainShowsFaults'
  <2> SUFFICES ASSUME NEW p \in Monitored, informed'[p]
               PROVE  \/ shown'[p] = record'[p]
                      \/ p \in late' /\ shown'[p] = [record'[p] EXCEPT !.shutdown = FALSE]
    BY DEF MainShowsFaults
  <2>1. CASE p # o
    BY <1>1, <1>3, <2>1 DEF MainShowsFaults, FaultTypes
  <2>2. CASE p = o /\ record[o].status = "off"
    <3>1. informed[o] /\ shown'[o] = shown[o] /\ record[o] = NoFault /\ record'[o] = NoFault
      BY <1>1, <1>3, <2>2 DEF LatchesAreConsistent, FaultTypes
    <3>2. [NoFault EXCEPT !.shutdown = FALSE] = NoFault
      BY RecordsAre
    <3> QED
      BY <2>2, <3>1, <3>2 DEF MainShowsFaults
  <2>3. CASE p = o /\ record[o].status # "off"
    BY <1>1, <1>2, <1>3, <2>3 DEF FaultTypes
  <2> QED
    BY <2>1, <2>2, <2>3
<1> QED
  BY <1>4, <1>5, <1>6, <1>7, <1>8

\* Restarts, of one computer or the other
LEMMA RestartStep == FaultInv /\ (LightingReboot \/ MainRestarts) => FaultInv'
<1> SUFFICES ASSUME FaultInv, LightingReboot \/ MainRestarts PROVE FaultInv'
  OBVIOUS
<1> USE DEF FaultInv
<1>1. NoFault \in Records /\ NoFault.status = "off"
  BY RecordsAre DEF NoFault
<1>2. CASE LightingReboot
  <2>1. /\ \A o \in Monitored : /\ count'[o] = 0 /\ over_run'[o] = 0 /\ record'[o] = NoFault
                                /\ informed'[o] <=> shown[o] = NoFault
        /\ count' = bad_run' /\ UNCHANGED <<load, shown>>
        /\ late' = {} /\ resisted' = {}
    BY <1>2 DEF LightingReboot, ForgetFaults
  <2>2. FaultTypes'
    BY <1>1, <1>2 DEF LightingReboot, ForgetFaults, FaultTypes, Runs
  <2>3. \A o \in Outputs : ~driven'[o]
    BY <1>2 DEF LightingReboot, Reboot, AllOff
  <2> QED
    BY <1>1, <2>1, <2>2, <2>3
       DEF CountIsRun, LatchesAreConsistent, ShutdownHolds, MainShowsFaults
<1>3. CASE MainRestarts
  <2>1. /\ \A o \in Monitored : shown'[o] = NoFault /\ (informed'[o] <=> record[o] = NoFault)
        /\ UNCHANGED <<load, count, record, bad_run, over_run, phase, driven, checking, resisted>>
        /\ late' = {}
    BY <1>3 DEF MainRestarts, ForgetFaults, vars, manager
  <2>2. FaultTypes'
    BY <1>1, <1>3 DEF MainRestarts, manager, ForgetFaults, FaultTypes, Runs
  <2>3. CountIsRun' /\ ShutdownHolds'
    BY <2>1 DEF CountIsRun, ShutdownHolds, PassOver
  <2>4. LatchesAreConsistent'
    <3>1. NoFault.status # "over"
      BY <1>1
    <3> QED
      BY <2>1, <3>1 DEF LatchesAreConsistent
  <2>5. MainShowsFaults'
    BY <2>1 DEF MainShowsFaults
  <2> QED
    BY <2>2, <2>3, <2>4, <2>5
<1> QED
  BY <1>2, <1>3

\* The other steps do not touch the fault manager, and none of them ends a pass.
LEMMA OtherStep ==
  FaultInv /\ [FaultNext]_allVars
    => \/ CheckOutputs \/ (\E o \in Monitored : ClearLatch(o)) \/ LightingReboot \/ MainRestarts
       \/ FaultInv'
<1> SUFFICES ASSUME FaultInv, Untouched, load' \in [Monitored -> {"ok"} \cup Faults],
                    \/ UNCHANGED <<driven, phase, checking, resisted>>
                    \/ phase' # "idle" \/ checking'
             PROVE  FaultInv'
  <2>1. ASSUME FaultInv, NEW d \in 0 .. MaxStep, FaultWake(d)
        PROVE  Untouched /\ load' = load /\ phase' # "idle"
    BY <2>1 DEF FaultWake, Wake, Untouched, manager, monitor
  <2>2. ASSUME FaultInv, LocalControl PROVE Untouched /\ load' = load /\ checking'
    BY <2>2 DEF LocalControl, Untouched, manager, monitor
  <2>3. ASSUME FaultInv, PacketOrSwitch
        PROVE  /\ Untouched /\ load' = load
               /\ UNCHANGED <<driven, phase, checking, resisted>> \/ phase' # "idle"
    BY <2>3 DEF PacketOrSwitch, SwitchesMove, SetOutput, GetState, faultVars, Untouched, manager, monitor
  <2>4. ASSUME FaultInv, NEW o \in Monitored, NEW to \in {"ok"} \cup Faults, LoadChanges(o, to)
        PROVE  /\ Untouched /\ load' \in [Monitored -> {"ok"} \cup Faults]
               /\ UNCHANGED <<driven, phase, checking, resisted>>
    BY <2>4 DEF LoadChanges, vars, Untouched, manager, monitor, FaultInv, FaultTypes
  <2>5. ASSUME FaultInv, UNCHANGED allVars
        PROVE  Untouched /\ load' = load /\ UNCHANGED <<driven, phase, checking, resisted>>
    BY <2>5 DEF allVars, vars, faultVars, Untouched, manager, monitor
  <2> QED
    BY <2>1, <2>2, <2>3, <2>4, <2>5 DEF FaultNext, FaultInv, FaultTypes
<1>1. FaultTypes' /\ CountIsRun' /\ LatchesAreConsistent' /\ MainShowsFaults'
  BY DEF FaultInv, Untouched, FaultTypes, CountIsRun, LatchesAreConsistent, MainShowsFaults
<1>2. ShutdownHolds'
  BY DEF FaultInv, Untouched, ShutdownHolds, PassOver
<1> QED
  BY <1>1, <1>2 DEF FaultInv

(* The fault manager's inductive invariant. *)
THEOREM FaultSafety == FaultSpec => []FaultInv
<1>1. FaultInv /\ [FaultNext]_allVars => FaultInv'
  BY CheckStep, ClearStep, RestartStep, OtherStep
<1> QED
  BY <1>1, FaultInitHolds, PTL DEF FaultSpec

(* ShutdownHolds, for any policy and confirmation count: although the local control
   drives the output again in every pass, no pass ends with it on, unless the shutdown
   write failed in that very pass. *)
THEOREM Shutdown == FaultSpec => []ShutdownHolds
<1>1. FaultInv => ShutdownHolds
  BY DEF FaultInv
<1> QED
  BY <1>1, FaultSafety, PTL

(* MainShowsFaults, for every monitored output, those with writes that fail included, for
   any loads, restarts and reports that are refused or lost.  Its one exception is a
   shutdown that failed when its fault was reported and succeeded later. *)
THEOREM FaultReporting == FaultSpec => []MainShowsFaults
<1>1. FaultInv => MainShowsFaults
  BY DEF FaultInv
<1> QED
  BY <1>1, FaultSafety, PTL

(* LatchedAreConfirmed, for every step: a latch is the end of a run of Confirm passes
   that found the output on and faulty. *)
THEOREM Confirmation == FaultSpec => LatchedAreConfirmed
<1> DEFINE Good == \A o \in Monitored :
                     (record'[o].status \notin {"off", record[o].status}) => bad_run'[o] >= Confirm
<1>1. FaultInv /\ FaultInv' /\ [FaultNext]_allVars => [Good]_allVars
  <2> SUFFICES ASSUME FaultInv, FaultInv', FaultNext, NEW o \in Monitored,
                      record'[o].status \notin {"off", record[o].status}
               PROVE  bad_run'[o] >= Confirm
    OBVIOUS
  <2>1. CASE CheckOutputs
    <3>1. Confirmed(o) /\ count'[o] = Confirm
      BY <2>1, CountsGoOn, RecordsGoOn DEF FaultInv
    <3> QED
      BY <3>1 DEF FaultInv, CountIsRun
  <2>2. ASSUME NEW p \in Monitored, ClearLatch(p) PROVE FALSE
    BY <2>2 DEF ClearLatch, NoFault, FaultInv, FaultTypes
  <2>3. CASE LightingReboot
    BY <2>3 DEF LightingReboot, ForgetFaults, NoFault
  <2>4. CASE record' = record
    BY <2>4
  <2> QED
    BY <2>1, <2>2, <2>3, <2>4
       DEF FaultNext, FaultWake, LocalControl, PacketOrSwitch, MainRestarts, LoadChanges,
           faultVars, manager
<1> QED
  BY <1>1, FaultSafety, PTL DEF FaultSpec, LatchedAreConfirmed

-----------------------------------------------------------------------------
(* The local control in the loop with the fault manager. *)

\* A pass leaves the outputs as decided, and the check of the outputs changes only what
\* it shuts down.
LoopIsDecided ==
  PassEnded => \A o \in Outputs \ Flaky :
                 \/ driven[o] = Effective(commanded, debounced, flasher.on)[o]
                 \/ ~checking /\ ShutDown(o)

LoopInv == ControlInv /\ FaultInv /\ LoopIsDecided

LEMMA OnlyShutDown ==
  ASSUME ControlInv, FaultInv, CheckOutputs, NEW o \in Outputs \ Flaky
  PROVE  driven'[o] = driven[o] \/ ShutDown(o)'
<1>1. PICK fate \in [Monitored -> Fates] : ManageFaults(fate)
  BY DEF CheckOutputs
<1>2. PICK failed \in SUBSET Resisting :
        LET off == {q \in Monitored : Cut(q) /\ q \notin failed}
        IN  /\ resisted' = {q \in failed : Cut(q)}
            /\ driven' = [q \in Outputs |-> driven[q] /\ q \notin off]
            /\ record' = [q \in Monitored |->
                 IF Confirmed(q)
                 THEN [status |-> Status(q, driven), shutdown |-> record[q].shutdown \/ q \in off]
                 ELSE record[q]]
  BY <1>1 DEF ManageFaults
<1> DEFINE off == {q \in Monitored : Cut(q) /\ q \notin failed}
<1>3. driven[o] \in BOOLEAN /\ driven'[o] = (driven[o] /\ o \notin off)
  BY <1>2 DEF ControlInv, TypeOK
<1>4. CASE o \notin off
  BY <1>3, <1>4
<1>5. CASE o \in off
  <2>1. o \in Monitored /\ Cut(o) /\ Confirmed(o) /\ o \in CutOff /\ Status(o, driven) = "over"
    BY <1>5 DEF Cut
  <2>2. record'[o] = [status |-> "over", shutdown |-> record[o].shutdown \/ o \in off]
    BY <1>2, <2>1
  <2>3. record[o].shutdown \in BOOLEAN
    BY <2>1, RecordsAre DEF FaultInv, FaultTypes
  <2>4. bad_run'[o] >= Confirm
    <3>1. count'[o] = Confirm /\ count' = bad_run'
      BY <2>1, CountsGoOn DEF FaultInv, CountIsRun
    <3> QED
      BY <3>1
  <2>5. ~driven'[o]
    BY <1>3, <1>5
  <2>6. record'[o] = [status |-> "over", shutdown |-> TRUE]
    <3> HIDE DEF off
    <3> QED
      BY <1>5, <2>2, <2>3
  <2> QED
    BY <2>1, <2>4, <2>5, <2>6 DEF ShutDown
<1> QED
  BY <1>4, <1>5

\* A step of the loop is a step of the local control, or checks the outputs.
LEMMA LoopSteps ==
  ASSUME [FaultNext]_allVars
  PROVE  \/ [Next]_vars
         \/ CheckOutputs /\ UNCHANGED <<now, phase, raw, commanded, sampled, debounced,
                                       flasher, seen, flash_age, told>>
<1>1. ASSUME PacketOrSwitch PROVE Next
  BY <1>1 DEF PacketOrSwitch, Next
<1>2. ASSUME NEW o \in Monitored, ClearLatch(o) PROVE UNCHANGED vars
  BY <1>2 DEF ClearLatch
<1>3. ASSUME MainRestarts PROVE UNCHANGED vars
  BY <1>3 DEF MainRestarts
<1>4. ASSUME NEW o \in Monitored, NEW to, LoadChanges(o, to) PROVE UNCHANGED vars
  BY <1>4 DEF LoadChanges
<1>5. ASSUME CheckOutputs
      PROVE  UNCHANGED <<now, phase, raw, commanded, sampled, debounced, flasher, seen,
                         flash_age, told>>
  BY <1>5 DEF CheckOutputs
<1>6. ASSUME UNCHANGED allVars PROVE UNCHANGED vars
  BY <1>6 DEF allVars
<1>7. ASSUME LocalControl \/ LightingReboot PROVE Next
  BY <1>7 DEF LocalControl, LightingReboot, Next
<1>8. ASSUME NEW d \in 0 .. MaxStep, FaultWake(d) PROVE Next
  BY <1>8 DEF FaultWake, Next
<1> QED
  BY <1>1, <1>2, <1>3, <1>4, <1>5, <1>6, <1>7, <1>8 DEF FaultNext

LEMMA LoopKeepsControl == ASSUME ControlInv, [FaultNext]_allVars PROVE ControlInv'
<1>1. CASE [Next]_vars
  BY <1>1, StepHolds
<1>2. CASE CheckOutputs /\ UNCHANGED <<now, phase, raw, commanded, sampled, debounced,
                                      flasher, seen, flash_age, told>>
  <2>1. driven' \in [Outputs -> BOOLEAN]
    BY <1>2 DEF CheckOutputs, ManageFaults
  <2> QED
    BY <1>2, <2>1, QuietHolds
<1> QED
  BY <1>1, <1>2, LoopSteps

LEMMA LoopKeepsDecisions ==
  ASSUME LoopInv, [FaultNext]_allVars PROVE LoopIsDecided'
<1>1. CASE CheckOutputs
  <2> SUFFICES ASSUME PassEnded', NEW o \in Outputs \ Flaky
               PROVE  \/ driven'[o] = Effective(commanded', debounced', flasher'.on)[o]
                      \/ ~checking' /\ ShutDown(o)'
    BY DEF LoopIsDecided
  <2>1. /\ UNCHANGED <<phase, sampled, commanded, debounced, flasher>>
        /\ checking /\ ~checking'
    BY <1>1 DEF CheckOutputs
  <2>2. driven[o] = Effective(commanded, debounced, flasher.on)[o]
    BY <2>1 DEF LoopInv, LoopIsDecided, PassEnded
  <2>3. driven'[o] = driven[o] \/ ShutDown(o)'
    BY <1>1, OnlyShutDown DEF LoopInv
  <2> QED
    BY <2>1, <2>2, <2>3
<1>2. CASE LocalControl
  BY <1>2, ServiceHolds DEF LocalControl, LoopInv, LoopIsDecided, OutputsAreDecided
<1>3. ASSUME phase' = "poll" \/ ~sampled' PROVE LoopIsDecided'
  BY <1>3 DEF LoopIsDecided, PassEnded
<1>4. ASSUME UNCHANGED <<phase, sampled, commanded, debounced, flasher, driven, checking,
                         record, bad_run>>
      PROVE  LoopIsDecided'
  BY <1>4 DEF LoopInv, LoopIsDecided, PassEnded, ShutDown
<1>5. ASSUME NEW d \in 0 .. MaxStep, FaultWake(d) PROVE phase' = "poll"
  BY <1>5 DEF FaultWake, Wake
<1>6. ASSUME PacketOrSwitch
      PROVE  \/ phase' = "poll"
             \/ UNCHANGED <<phase, sampled, commanded, debounced, flasher, driven, checking,
                            record, bad_run>>
  BY <1>6 DEF PacketOrSwitch, SwitchesMove, SetOutput, GetState, faultVars, manager, monitor
<1>7. ASSUME NEW o \in Monitored, ClearLatch(o) PROVE phase' = "poll"
  BY <1>7 DEF ClearLatch, vars
<1>8. ASSUME LightingReboot PROVE ~sampled'
  BY <1>8 DEF LightingReboot, Reboot
<1>9. ASSUME \/ MainRestarts
             \/ \E o \in Monitored, to \in {"ok"} \cup Faults : LoadChanges(o, to)
             \/ UNCHANGED allVars
      PROVE  UNCHANGED <<phase, sampled, commanded, debounced, flasher, driven, checking,
                         record, bad_run>>
  BY <1>9 DEF MainRestarts, LoadChanges, allVars, vars, faultVars, manager, monitor
<1> QED
  BY <1>1, <1>2, <1>3, <1>4, <1>5, <1>6, <1>7, <1>8, <1>9 DEF FaultNext

LEMMA LoopSafety == FaultSpec => []LoopInv
<1>1. FaultInit => LoopInv
  <2>1. FaultInit => ControlInv
    BY InitHolds DEF FaultInit, LightingInv
  <2>2. FaultInit => LoopIsDecided
    BY DEF FaultInit, Init, LoopIsDecided, PassEnded
  <2> QED
    BY <2>1, <2>2, FaultInitHolds DEF LoopInv
<1>2. LoopInv /\ FaultInv' /\ [FaultNext]_allVars => LoopInv'
  BY LoopKeepsControl, LoopKeepsDecisions DEF LoopInv
<1> QED
  BY <1>1, <1>2, FaultSafety, PTL DEF FaultSpec

(* OnlyShutdownsOverride, for any timings, policies, loads and restarts: the fault
   manager darkens no lamp the rider's controls ask for, except one it has shut down. *)
THEOREM RiderInTheLoop == FaultSpec => []OnlyShutdownsOverride
<1>1. LoopInv => OnlyShutdownsOverride
  <2> SUFFICES ASSUME LoopInv, PassOver, sampled, NEW o \in Outputs \ Flaky
               PROVE  ControlsDecide(o) \/ ShutDown(o)
    BY DEF OnlyShutdownsOverride
  <2>1. PassEnded
    BY DEF PassOver, PassEnded
  <2>2. driven[o] = Effective(commanded, debounced, flasher.on)[o] \/ ShutDown(o)
    BY <2>1 DEF LoopInv, LoopIsDecided
  <2> QED
    BY <2>1, <2>2, DecidedIsAsked DEF LoopInv
<1> QED
  BY <1>1, LoopSafety, PTL

(* BouncesIgnored, for the whole loop: no check of the outputs and no restart of the main
   computer makes a bounce believed. *)
THEOREM LoopDebouncing == FaultSpec => BouncesIgnored
<1> DEFINE Settled == \A i \in Inputs :
                        (sampled /\ sampled' /\ debounced'[i].stable # debounced[i].stable)
                          => seen'[i].on = debounced'[i].stable /\ seen'[i].age >= Debounce
<1>1. LoopInv /\ [FaultNext]_allVars => [Settled]_vars
  <2> SUFFICES ASSUME LoopInv, [FaultNext]_allVars PROVE [Settled]_vars
    OBVIOUS
  <2>1. ASSUME [Next]_vars PROVE Settled
    BY <2>1, DebouncedStep DEF LoopInv
  <2>2. ASSUME UNCHANGED debounced PROVE Settled
    BY <2>2
  <2> HIDE DEF Settled
  <2> QED
    BY <2>1, <2>2, LoopSteps
<1> QED
  BY <1>1, LoopSafety, PTL DEF FaultSpec, BouncesIgnored

(* FlashesOnTime, for the whole loop: an indicator that is shut down does not stop or
   hurry the flasher, which the other one follows. *)
THEOREM LoopFlashing == FaultSpec => FlashesOnTime
<1> DEFINE OnTime == (flasher'.on # flasher.on /\ flasher'.since # NotPending)
                       => flash_age >= HalfPeriod
<1>1. LoopInv /\ [FaultNext]_allVars => [OnTime]_vars
  <2> SUFFICES ASSUME LoopInv, [FaultNext]_allVars PROVE [OnTime]_vars
    OBVIOUS
  <2>1. ASSUME [Next]_vars PROVE OnTime
    BY <2>1, FlashStep DEF LoopInv
  <2>2. ASSUME UNCHANGED flasher PROVE OnTime
    BY <2>2
  <2> HIDE DEF OnTime
  <2> QED
    BY <2>1, <2>2, LoopSteps
<1>2. LoopInv => (phase = "idle" /\ flasher.since # NotPending => flash_age < HalfPeriod)
  BY FlashIsDue DEF LoopInv
<1> QED
  BY <1>1, <1>2, LoopSafety, PTL DEF FaultSpec, FlashesOnTime

-----------------------------------------------------------------------------
(* The snapshots of the diagnostics. *)

\* While snapshots are published on time, the main computer has not been wrong for longer
\* than a step more than the age of the last: its timestamp may wrap while snapshots are
\* refused, which excuses the passes until then.  No pass ends with one due that neither
\* went wrong nor was right.
SnapshotsAreOnTime ==
  /\ last_publish \in Stamp /\ wrong_for \in 0 .. PublishInterval + MaxStep
  /\ last_publish # NotPending =>
       /\ wrong_for <= Age(now, last_publish) + MaxStep
       /\ PassOver => Age(now, last_publish) < PublishInterval \/ wrong_for = 0
  /\ (PassOver /\ sampled /\ last_publish = NotPending) => wrong_for = 0

LEMMA CheckPublishes ==
  ASSUME ControlInv, SnapshotsAreOnTime, CheckOutputs PROVE SnapshotsAreOnTime'
<1>1. PICK fate \in [Monitored -> Fates], diag_fate \in Fates :
        /\ PublishDiagnostics(diag_fate)
        /\ UNCHANGED load
        /\ wrong_for' = IF PictureIsRight' \/ (PublishDue /\ diag_fate # "arrives")
                        THEN 0 ELSE wrong_for
  BY DEF CheckOutputs
<1>2. now \in Clock /\ now' = now /\ Age(now, now) = 0 /\ now # NotPending
  BY JustNow DEF CheckOutputs, ControlInv, TypeOK
<1>3. last_publish' = IF PublishDue /\ diag_fate # "refused" THEN now ELSE last_publish
  BY <1>1 DEF PublishDiagnostics
<1>4. CASE PublishDue
  <2>1. diag_fate = "arrives" => PictureIsRight'
    <3> SUFFICES ASSUME diag_fate = "arrives" PROVE PictureIsRight'
      OBVIOUS
    <3>1. channels' = {Published}
      BY <1>1, <1>4 DEF PublishDiagnostics, decode_lighting_diagnostics
    <3>2. \A o \in Monitored :
            Published[o].driven = driven'[o] /\ Published[o].status = Status(o, driven)'
      BY <1>1 DEF Published, Status
    <3> QED
      BY <3>1, <3>2 DEF PictureIsRight
  <2>2. wrong_for' = 0
    BY <1>1, <1>4, <2>1
  <2>3. last_publish' \in Stamp
    BY <1>2, <1>3 DEF SnapshotsAreOnTime, Stamp
  <2>4. last_publish' # NotPending => 0 <= Age(now, last_publish') + MaxStep
    <3>1. last_publish' \in Clock => Age(now, last_publish') \in Nat
      BY <1>2, AgesAreTimes DEF Clock
    <3> QED
      BY <2>3, <3>1 DEF Stamp
  <2> QED
    BY <1>2, <2>2, <2>3, <2>4 DEF SnapshotsAreOnTime
<1>5. CASE ~PublishDue
  <2>1. /\ last_publish # NotPending /\ last_publish \in Clock /\ last_publish' = last_publish
        /\ ~(Elapsed(last_publish) >= PublishInterval)
    BY <1>3, <1>5 DEF PublishDue, SnapshotsAreOnTime, Stamp
  <2>2. Age(now, last_publish) < PublishInterval /\ Age(now, last_publish) \in Nat
    BY <1>2, <2>1 DEF Age, Elapsed, Clock
  <2>3. wrong_for' = 0 \/ wrong_for' = wrong_for
    BY <1>1
  <2> QED
    BY <1>2, <2>1, <2>2, <2>3 DEF SnapshotsAreOnTime
<1> QED
  BY <1>4, <1>5

LEMMA WakeAges ==
  ASSUME ControlInv, SnapshotsAreOnTime, NEW d \in 0 .. MaxStep, FaultWake(d)
  PROVE  SnapshotsAreOnTime'
<1>1. /\ now \in Clock /\ now' \in Clock
      /\ now' = IF now + d < ClockMod THEN now + d ELSE now + d - ClockMod
  BY LaterIsTime DEF ControlInv, TypeOK, FaultWake, Wake
<1>2. /\ PassOver /\ ~PassOver' /\ last_publish' = last_publish
      /\ wrong_for' = AtMost(PublishInterval + MaxStep, wrong_for + d)
  BY DEF FaultWake, Wake, PassOver, manager
<1>3. wrong_for' \in 0 .. PublishInterval + MaxStep /\ wrong_for' <= wrong_for + d
  BY <1>2 DEF AtMost, SnapshotsAreOnTime
<1>4. ASSUME last_publish # NotPending
      PROVE  wrong_for' <= Age(now', last_publish) + MaxStep
  <2>1. last_publish \in Clock
    BY <1>4 DEF SnapshotsAreOnTime, Stamp
  <2>2. /\ Age(now, last_publish) \in Clock /\ Age(now', last_publish) \in Clock
        /\ Age(now, last_publish) + d < ClockMod
             => Age(now', last_publish) = Age(now, last_publish) + d
    BY <1>1, <2>1, ClockSteps
  <2>3. CASE wrong_for = 0
    BY <1>3, <2>2, <2>3 DEF Clock
  <2>4. CASE Age(now, last_publish) < PublishInterval
    BY <1>3, <1>4, <2>2, <2>4 DEF Clock, SnapshotsAreOnTime
  <2> QED
    BY <1>2, <1>4, <2>3, <2>4 DEF SnapshotsAreOnTime
<1> QED
  BY <1>2, <1>3, <1>4 DEF SnapshotsAreOnTime

(* DiagnosticsCatchUp, for any timings, loads, restarts and fates of the snapshots: the
   interval is kept across the wrap of the clock, and a snapshot is of the outputs as the
   fault manager leaves them, not as it found them. *)
THEOREM CatchingUp == FaultSpec => []DiagnosticsCatchUp
<1>1. FaultInit => SnapshotsAreOnTime
  BY DEF FaultInit, Init, SnapshotsAreOnTime, Stamp
<1>2. LoopInv /\ SnapshotsAreOnTime /\ [FaultNext]_allVars => SnapshotsAreOnTime'
  <2> SUFFICES ASSUME ControlInv, SnapshotsAreOnTime, [FaultNext]_allVars
               PROVE  SnapshotsAreOnTime'
    BY DEF LoopInv
  <2>1. ASSUME UNCHANGED <<now, last_publish, wrong_for>>,
               ~PassOver' \/ UNCHANGED <<phase, checking, sampled>>
        PROVE  SnapshotsAreOnTime'
    BY <2>1 DEF SnapshotsAreOnTime, PassOver, Age
  <2>2. CASE LocalControl
    BY <2>1, <2>2 DEF LocalControl, Service, manager, PassOver
  <2>3. CASE PacketOrSwitch
    BY <2>1, <2>3
       DEF PacketOrSwitch, SwitchesMove, SetOutput, GetState, faultVars, manager, PassOver
  <2>4. ASSUME NEW o \in Monitored, ClearLatch(o) PROVE SnapshotsAreOnTime'
    BY <2>1, <2>4 DEF ClearLatch, vars
  <2>5. CASE LightingReboot
    BY <2>5 DEF LightingReboot, Reboot, SnapshotsAreOnTime, Stamp
  <2>6. CASE MainRestarts
    BY <2>1, <2>6 DEF MainRestarts, vars, manager
  <2>7. ASSUME NEW o \in Monitored, NEW to, LoadChanges(o, to) PROVE SnapshotsAreOnTime'
    BY <2>1, <2>7 DEF LoadChanges, vars, manager
  <2>8. CASE UNCHANGED allVars
    BY <2>1, <2>8 DEF allVars, vars, faultVars, manager
  <2> QED
    BY <2>2, <2>3, <2>4, <2>5, <2>6, <2>7, <2>8, CheckPublishes, WakeAges DEF FaultNext
<1>3. LoopInv /\ SnapshotsAreOnTime => DiagnosticsCatchUp
  <2> SUFFICES ASSUME now \in Clock, SnapshotsAreOnTime, PassOver, sampled
               PROVE  wrong_for < PublishInterval + MaxStep
    BY DEF DiagnosticsCatchUp, LoopInv, ControlInv, TypeOK
  <2>1. CASE wrong_for = 0
    BY <2>1
  <2>2. CASE last_publish # NotPending /\ Age(now, last_publish) < PublishInterval
    <3>1. last_publish \in Clock /\ Age(now, last_publish) \in Int
      BY <2>2 DEF SnapshotsAreOnTime, Stamp, Age, Clock
    <3> QED
      BY <2>2, <3>1 DEF SnapshotsAreOnTime
  <2> QED
    BY <2>1, <2>2 DEF SnapshotsAreOnTime
<1> QED
  BY <1>1, <1>2, <1>3, LoopSafety, PTL DEF FaultSpec
=============================================================================
