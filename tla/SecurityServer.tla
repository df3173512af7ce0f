--------------------------- MODULE SecurityServer ---------------------------
(***************************************************************************)
(* The security southbridge: bike::SecurityServer driven by the loop of    *)
(* bike::SecurityController and by the firmware's setup().                 *)
(*                                                                         *)
(* One pass of the loop reads the clock once (Wake), handles the packets   *)
(* that have arrived (the command actions), and ends with service()        *)
(* (Service).  The input pins move at any moment (InputsMove); power is    *)
(* lost at any moment, also between the NVS write and the rest of a        *)
(* command handler (Reboot, RebootWhileSaving).                            *)
(*                                                                         *)
(* The uint32 millisecond clock is 0..ClockMod-1 and wraps.  A "pending"   *)
(* or "active" flag and the timestamp it guards are one variable here:     *)
(* the timestamp, or NotPending.                                           *)
(***************************************************************************)
EXTENDS Integers, Sequences

CONSTANTS
  ClockMod,         \* the clock wraps to 0 after ClockMod - 1
  MaxStep,          \* the longest time between two passes of the loop
  StopConfirm,      \* engine_stop_confirm_ms_
  WarningConfirm,   \* warning_confirm_ms_
  TriggerConfirm,   \* trigger_confirm_ms_
  AlarmDuration,    \* alarm_duration_ms_
  Controllers,      \* the nodes that send commands, MainComputer first of all
  MainComputer,     \* initial last_controller_
  StoreOutcomes,    \* {TRUE}, or BOOLEAN when an NVS access may fail
  DriverOutcomes,   \* {TRUE}, or BOOLEAN when set_alarm_output may fail
  MayReboot         \* whether power may be lost

ASSUME TimingAssumption ==
  /\ ClockMod \in Nat /\ MaxStep \in Nat
  /\ StopConfirm \in Nat /\ WarningConfirm \in Nat
  /\ TriggerConfirm \in Nat /\ AlarmDuration \in Nat
  /\ MaxStep < ClockMod
  /\ \A t \in {StopConfirm, WarningConfirm, TriggerConfirm, AlarmDuration} :
        t + MaxStep < ClockMod

ASSUME EnvironmentAssumption ==
  /\ MainComputer \in Controllers
  /\ TRUE \in StoreOutcomes /\ StoreOutcomes \subseteq BOOLEAN
  /\ TRUE \in DriverOutcomes /\ DriverOutcomes \subseteq BOOLEAN
  /\ MayReboot \in BOOLEAN

VARIABLES
  now,              \* now_ms of the current pass of the loop
  phase,            \* "poll" while packets are handled, "idle" between passes
  raw,              \* the three input pins
  mode,             \* mode_
  engine,           \* filtered_engine_running_ with engine_filter_initialized_
  stop_started,     \* engine_stop_started_ms_ while engine_stop_pending_
  filter,           \* the two shock filters: the stable bit and the timestamp
  previous,         \* previous_warning_ and previous_trigger_
  alarm_started,    \* alarm_started_ms_ while alarm_timer_active_
  alarm_output,     \* the siren pin
  start_inhibit,    \* the start-inhibit pin
  last_controller,  \* last_controller_
  nvs,              \* the armed flag in flash
  out               \* the packets handed to the node by the last step, in order

vars == <<now, phase, raw, mode, engine, stop_started, filter, previous,
          alarm_started, alarm_output, start_inhibit, last_controller, nvs, out>>

Clock      == 0 .. ClockMod - 1
NotPending == -1
Stamp      == Clock \cup {NotPending}
Modes      == {"Unlocked", "Locked", "Alarm", "LockPending"}
Shocks     == {"warning", "trigger"}
Inputs     == Shocks \cup {"engine"}

-----------------------------------------------------------------------------
(* Unsigned clock arithmetic. *)

\* Mutants of the clock arithmetic: a signed difference, a clock that does not wrap.
SignedElapsed(since) == now - since
UnwrappedLater(d) == now + d

\* static_cast<uint32_t>(now - since)
Elapsed(since) == IF now >= since THEN now - since ELSE now - since + ClockMod

Later(d) == IF now + d < ClockMod THEN now + d ELSE now + d - ClockMod

-----------------------------------------------------------------------------
(* sample_inputs *)

Confirm(s) == IF s = "warning" THEN WarningConfirm ELSE TriggerConfirm

\* Mutant: an assertion counts at once.
InstantAssert(f, on, confirm) == [stable |-> on, since |-> NotPending]

\* update_filtered_assert: a release counts at once, an assertion only after it
\* has been seen for the confirmation time.
FilteredAssert(f, on, confirm) ==
  LET since == IF f.since = NotPending THEN now ELSE f.since
      held  == f.stable \/ Elapsed(since) >= confirm
  IN  [stable |-> on /\ held,
       since  |-> IF on /\ ~held THEN since ELSE NotPending]

\* Mutant: each sample restarts the confirmation.
RestartedStopSince == now

StopSince     == IF stop_started = NotPending THEN now ELSE stop_started
StopConfirmed == engine = "running" => Elapsed(StopSince) >= StopConfirm

\* Running is believed at once, stopped only after StopConfirm; the very first
\* sample after a boot that restored nothing is believed either way.
SampleEngine ==
  \/ /\ raw["engine"]
     /\ engine' = "running"
     /\ stop_started' = NotPending
  \/ /\ ~raw["engine"] /\ StopConfirmed
     /\ engine' = "stopped"
     /\ stop_started' = NotPending
  \/ /\ ~raw["engine"] /\ ~StopConfirmed
     /\ stop_started' = StopSince
     /\ UNCHANGED engine

SampleShocks ==
  filter' = [s \in Shocks |-> FilteredAssert(filter[s], raw[s], Confirm(s))]

SampleInputs == SampleEngine /\ SampleShocks

-----------------------------------------------------------------------------
(* Outputs and the packets the server sends. *)

\* Mutants: the engine is forgotten; the alarm is.
InhibitAnyLock(m, e) == m # "Unlocked"
InhibitOnlyLocked(m, e) == m = "Locked" /\ e = "stopped"

\* update_start_inhibit, for the mode and the engine filter it is called with
ShouldInhibit(m, e) ==
  /\ m \in {"Locked", "Alarm"}
  /\ IF e = "unknown" THEN ~raw["engine"] ELSE e = "stopped"

\* Mutants: the siren is left as it is; the flag is.
NotDriven(on) == {alarm_output}
NotSaved(armed) == {nvs}

\* What the siren pin and the armed flag may be after an attempt to set them.
Driven(on) == {IF ok THEN on ELSE alarm_output : ok \in DriverOutcomes}
Saved(armed) == {IF ok THEN armed ELSE nvs : ok \in StoreOutcomes}

Event(code, to) == [kind |-> "Event", code |-> code, to |-> to]
State(m, inhibit, alarm, to) ==
  [kind |-> "State", mode |-> m, inhibit |-> inhibit, alarm |-> alarm, to |-> to]
Ack(to)  == [kind |-> "Ack", to |-> to]
Nack(to) == [kind |-> "Nack", to |-> to]

When(cond, messages) == IF cond THEN messages ELSE << >>

\* Mutant: a pending lock is reported as a lock.
StateTooSoon(to) ==
  State(IF mode = "LockPending" THEN "Locked" ELSE mode, start_inhibit, alarm_output, to)

\* publish_state at the end of a step
StateNow(to) == State(mode, start_inhibit, alarm_output, to)

-----------------------------------------------------------------------------
(* Boot. *)

\* Mutants: the flag is not restored; the engine is not presumed to run.
ForgottenMode(armed) == "Unlocked"
TrustedEngine(armed) == "unknown"

\* What restore_persisted_state makes of the flag it loads: a restored lock is
\* never trusted, the engine counts as running until seen stopped.
RestoredMode(armed)   == IF armed THEN "LockPending" ELSE "Unlocked"
RestoredEngine(armed) == IF armed THEN "running" ELSE "unknown"

Released == [s \in Shocks |-> [stable |-> FALSE, since |-> NotPending]]
NoneSeen == [s \in Shocks |-> FALSE]

Init ==
  /\ now = 0
  /\ phase = "idle"
  /\ raw \in [Inputs -> BOOLEAN]
  /\ nvs \in BOOLEAN
  /\ mode = RestoredMode(nvs)
  /\ engine = RestoredEngine(nvs)
  /\ stop_started = NotPending
  /\ filter = Released
  /\ previous = NoneSeen
  /\ alarm_started = NotPending
  /\ alarm_output = FALSE
  /\ start_inhibit = FALSE
  /\ last_controller = MainComputer
  /\ out = << >>

\* setup(): hardware.begin() drops the outputs, then the stored flag is restored
\* if it can be loaded; millis() starts again from 0.
Boot(stored, armed) ==
  /\ MayReboot
  /\ now' = 0
  /\ phase' = "idle"
  /\ nvs' = stored
  /\ mode' = RestoredMode(armed)
  /\ engine' = RestoredEngine(armed)
  /\ stop_started' = NotPending
  /\ filter' = Released
  /\ previous' = NoneSeen
  /\ alarm_started' = NotPending
  /\ alarm_output' = FALSE
  /\ start_inhibit' = FALSE
  /\ last_controller' = MainComputer
  /\ out' = << >>
  /\ UNCHANGED raw

Reboot == \E loaded \in StoreOutcomes : Boot(nvs, loaded /\ nvs)

\* Power fails inside set_locked, after persist_armed and before the answer.
RebootWhileSaving ==
  /\ phase = "poll"
  /\ \E armed \in BOOLEAN, loaded \in StoreOutcomes : Boot(armed, loaded /\ armed)

-----------------------------------------------------------------------------
(* The loop: the clock, then packets, then service(). *)

Wake(d) ==
  /\ phase = "idle"
  /\ phase' = "poll"
  /\ now' = Later(d)
  /\ out' = << >>
  /\ UNCHANGED <<raw, mode, engine, stop_started, filter, previous,
                 alarm_started, alarm_output, start_inhibit, last_controller, nvs>>

InputsMove ==
  /\ raw' \in [Inputs -> BOOLEAN] \ {raw}
  /\ out' = << >>
  /\ UNCHANGED <<now, phase, mode, engine, stop_started, filter, previous,
                 alarm_started, alarm_output, start_inhibit, last_controller, nvs>>

\* handle_command: Lock, that is set_locked(true)
Lock(source, ack) ==
  /\ phase = "poll"
  /\ SampleInputs
  /\ alarm_output' \in Driven(FALSE)
  /\ alarm_started' = NotPending
  /\ nvs' \in Saved(TRUE)
  /\ mode' = IF engine' = "running" THEN "LockPending" ELSE "Locked"
  /\ start_inhibit' = ShouldInhibit(mode', engine')
  /\ last_controller' = source
  /\ out' = <<Event(mode', source)>> \o When(ack, <<Ack(source)>>)
              \o <<StateNow(source)'>>
  /\ UNCHANGED <<now, phase, raw, previous>>

\* handle_command: Unlock, that is set_locked(false)
Unlock(source, ack) ==
  /\ phase = "poll"
  /\ SampleInputs
  /\ mode' = "Unlocked"
  /\ alarm_output' \in Driven(FALSE)
  /\ start_inhibit' = FALSE
  /\ alarm_started' = NotPending
  /\ nvs' \in Saved(FALSE)
  /\ last_controller' = source
  /\ out' = <<Event("Unlocked", source)>> \o When(ack, <<Ack(source)>>)
              \o <<StateNow(source)'>>
  /\ UNCHANGED <<now, phase, raw, previous>>

\* handle_command: SilenceAlarm, that is stop_alarm; it takes no sample
SilenceAlarm(source, ack) ==
  /\ phase = "poll"
  /\ last_controller' = source
  /\ \E ok \in DriverOutcomes :
       \/ /\ ok
          /\ alarm_output' = FALSE
          /\ alarm_started' = NotPending
          /\ mode' = IF mode = "Alarm" THEN "Locked" ELSE mode
          /\ start_inhibit' = ShouldInhibit(mode', engine)
          /\ out' = <<Event("AlarmStopped", source)>>
                      \o When(ack, <<Ack(source)>>) \o <<StateNow(source)'>>
       \/ /\ ~ok
          /\ out' = When(ack, <<Nack(source)>>)
          /\ UNCHANGED <<mode, alarm_started, alarm_output, start_inhibit>>
  /\ UNCHANGED <<now, phase, raw, engine, stop_started, filter, previous, nvs>>

\* handle_command: RequestState.  It would refuse if publish_state failed, but a write to
\* the controller's serial port takes every byte of a frame, or waits.
RequestState(source, ack) ==
  /\ phase = "poll"
  /\ SampleInputs
  /\ start_inhibit' = ShouldInhibit(mode, engine')
  /\ last_controller' = source
  /\ UNCHANGED <<now, phase, raw, mode, previous, alarm_started, alarm_output, nvs>>
  /\ out' = <<StateNow(source)'>> \o When(ack, <<Ack(source)>>)

\* A command of the wrong length, or a code handle_command does not know; only
\* the second gets as far as last_controller_.
BadCommand(source, ack) ==
  /\ phase = "poll"
  /\ last_controller' \in {source, last_controller}
  /\ out' = When(ack, <<Nack(source)>>)
  /\ UNCHANGED <<now, phase, raw, mode, engine, stop_started, filter, previous,
                 alarm_started, alarm_output, start_inhibit, nvs>>

\* handle_system_packet: discovery, heartbeat and GetState change nothing
SystemRequest(source) ==
  /\ phase = "poll"
  /\ \/ out' = <<[kind |-> "DeviceInfo", to |-> source]>>
     \/ out' = <<[kind |-> "Heartbeat", to |-> source]>>
     \/ out' = <<StateNow(source)>>
  /\ UNCHANGED <<now, phase, raw, mode, engine, stop_started, filter, previous,
                 alarm_started, alarm_output, start_inhibit, last_controller, nvs>>

\* service() after the sample; `stop' and `start' are the results of the calls of
\* set_alarm_output that stop_alarm and start_alarm make.
ServiceEffect(stop, start) ==
  LET arms     == mode = "LockPending" /\ engine' # "running"
      expires  == /\ mode = "Alarm" /\ alarm_started # NotPending
                  /\ Elapsed(alarm_started) >= AlarmDuration
      stops    == expires /\ stop
      locked   == mode = "Locked" \/ arms \/ stops
      rises(s) == locked /\ filter'[s].stable /\ ~previous[s]
      starts   == rises("trigger") /\ start
      to       == last_controller
  IN  /\ mode' = IF starts THEN "Alarm" ELSE IF locked THEN "Locked" ELSE mode
      /\ alarm_output' = (starts \/ (alarm_output /\ ~stops))
      /\ alarm_started' = IF starts THEN now
                          ELSE IF stops THEN NotPending ELSE alarm_started
      /\ start_inhibit' = ShouldInhibit(mode', engine')
      /\ out' = When(arms, <<Event("Locked", to),
                             State("Locked", start_inhibit, alarm_output, to)>>)
           \o When(stops, <<Event("AlarmStopped", to)>>)
           \o When(expires, <<State(IF stops THEN "Locked" ELSE "Alarm",
                                    start_inhibit', alarm_output /\ ~stops, to)>>)
           \o When(rises("warning"), <<Event("ShockWarning", to)>>)
           \o When(rises("trigger"), <<Event("ShockTrigger", to)>>)
           \o When(starts, <<Event("AlarmStarted", to),
                             State("Alarm", start_inhibit', TRUE, to)>>)

Service ==
  /\ phase = "poll"
  /\ phase' = "idle"
  /\ SampleInputs
  /\ \E stop, start \in DriverOutcomes : ServiceEffect(stop, start)
  /\ previous' = [s \in Shocks |-> filter'[s].stable]
  /\ UNCHANGED <<now, raw, last_controller, nvs>>

Command(source, ack) ==
  \/ Lock(source, ack)
  \/ Unlock(source, ack)
  \/ SilenceAlarm(source, ack)
  \/ RequestState(source, ack)
  \/ BadCommand(source, ack)

Next ==
  \/ \E d \in 0 .. MaxStep : Wake(d)
  \/ InputsMove
  \/ \E source \in Controllers, ack \in BOOLEAN : Command(source, ack)
  \/ \E source \in Controllers : SystemRequest(source)
  \/ Service
  \/ Reboot
  \/ RebootWhileSaving

Spec == Init /\ [][Next]_vars

\* loop() is called for ever and millis() keeps advancing.
LoopRuns ==
  /\ WF_vars(Service)
  /\ SF_vars(\E d \in 1 .. MaxStep : Wake(d))

\* A siren driver that fails is tried again in each pass once the alarm is over; it does
\* not fail for ever.
SirenObeys ==
  SF_vars(/\ mode = "Alarm" /\ Elapsed(alarm_started) >= AlarmDuration
          /\ Service
          /\ ~alarm_output')

FairSpec == Spec /\ LoopRuns /\ SirenObeys
-----------------------------------------------------------------------------
(* Properties. *)

Messages ==
  [kind : {"Event"}, to : Controllers,
   code : {"Locked", "Unlocked", "LockPending", "AlarmStarted", "AlarmStopped",
           "ShockWarning", "ShockTrigger"}]
  \cup [kind : {"State"}, mode : Modes, inhibit : BOOLEAN, alarm : BOOLEAN,
        to : Controllers]
  \cup [kind : {"Ack", "Nack", "DeviceInfo", "Heartbeat"}, to : Controllers]

\* Every variable stays in its range.
TypeOK ==
  /\ now \in Clock
  /\ phase \in {"poll", "idle"}
  /\ raw \in [Inputs -> BOOLEAN]
  /\ mode \in Modes
  /\ engine \in {"unknown", "running", "stopped"}
  /\ stop_started \in Stamp
  /\ filter \in [Shocks -> [stable : BOOLEAN, since : Stamp]]
  /\ previous \in [Shocks -> BOOLEAN]
  /\ alarm_started \in Stamp
  /\ alarm_output \in BOOLEAN
  /\ start_inhibit \in BOOLEAN
  /\ last_controller \in Controllers
  /\ nvs \in BOOLEAN
  /\ out \in Seq(Messages)

\* The safety rule of the firmware: the start-inhibit output is on only while the
\* bike is locked (or sounding) and the filtered engine input says stopped,
\* after every handler and not only at the end of a pass.
InhibitOnlyWhenStopped ==
  start_inhibit => mode \in {"Locked", "Alarm"} /\ engine = "stopped"

\* The other direction: no handler ever leaves a locked bike with a stopped engine
\* startable.
LockedMeansInhibited ==
  (mode \in {"Locked", "Alarm"} /\ engine = "stopped") => start_inhibit

\* The safety rule of esp32/security/README.md: the inhibit is not asserted while the
\* engine-running input is active.  No handler switches the pin on while the engine
\* pin is active, not even SilenceAlarm, which decides on the sample of an earlier
\* pass.
NeverAssertedWhileRunning ==
  [][(~start_inhibit /\ start_inhibit') => ~raw["engine"]]_vars

\* The siren is on exactly in mode Alarm, and exactly then a timer is running
\* that will stop it; a siren without a timer would sound for ever.
SirenHasTimer ==
  DriverOutcomes = {TRUE} =>
    /\ alarm_output = (mode = "Alarm")
    /\ alarm_output = (alarm_started # NotPending)

\* The mode and the flag in flash agree, whatever the order of commands, power
\* losses inside a command, and restores: what a restart will do is what the
\* rider last asked for.  (A failing store is excused: its result is ignored.)
PersistedIntent ==
  StoreOutcomes = {TRUE} => nvs = (mode # "Unlocked")

\* The refinement mapping: the mode is the lock and the alarm; the clock, the filters,
\* the flag in flash and the packets are hidden.
LockState == CASE mode = "Unlocked" -> "off"
               [] mode = "LockPending" -> "pending"
               [] mode \in {"Locked", "Alarm"} -> "on"

Promise == INSTANCE Immobiliser
  WITH lock <- LockState, stopped <- engine = "stopped", inhibited <- start_inhibit,
       alarm <- mode = "Alarm", listening <- phase = "poll"

\* The server keeps the promises of the immobiliser, also with a siren driver that fails:
\* the starter is cut with the lock and freed with it, only a stopped engine lets a
\* pending lock take effect, only a lock that is on sounds the alarm, and no loss of
\* power undoes what was asked for, unless the store fails.
ImplementsImmobiliser == Promise!Spec

\* What tests/security_server_test.cpp says of the arm transition: a trigger that
\* was already active while the lock was pending does not start the alarm when
\* the lock takes effect.
NoAlarmAtArmTransition ==
  [][(mode = "LockPending" /\ filter["trigger"].since # NotPending)
       => mode' # "Alarm"]_vars

\* The siren does not sound for ever once the trigger input settles, stuck active
\* or released, whatever commands keep coming.  (A trigger that keeps moving can
\* start the next alarm in the very pass that ends the one before.)
AlarmEnds ==
  (<>[](raw["trigger"]) \/ <>[](~raw["trigger"]))
    => (mode = "Alarm" ~> mode # "Alarm")

\* A pending lock takes effect, also after power losses, unless the engine runs, the
\* rider unlocks, or power is lost again and again.
PendingLocks ==
  \/ mode = "LockPending" ~> (mode # "LockPending" \/ raw["engine"])
  \/ []<><<Reboot \/ RebootWhileSaving>>_vars
=============================================================================
