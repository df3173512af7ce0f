------------------------ MODULE SecurityServerProofs ------------------------
(***************************************************************************)
(* What holds of SecurityServer for every choice of the timings, the       *)
(* controllers and the failures of the store and the siren driver.         *)
(***************************************************************************)
EXTENDS SecurityServer, TLAPS, SequenceTheorems

USE TimingAssumption, EnvironmentAssumption

(* Clock arithmetic stays on the clock, and a sample keeps the filters typed. *)
LEMMA LaterInClock ==
  ASSUME now \in Clock, NEW d \in 0 .. MaxStep
  PROVE  Later(d) \in Clock
BY DEF Later, Clock

LEMMA FilteredAssertType ==
  ASSUME now \in Clock, NEW f \in [stable : BOOLEAN, since : Stamp],
         NEW on \in BOOLEAN, NEW confirm \in Nat
  PROVE  FilteredAssert(f, on, confirm) \in [stable : BOOLEAN, since : Stamp]
<1> DEFINE since == IF f.since = NotPending THEN now ELSE f.since
           held  == f.stable \/ Elapsed(since) >= confirm
<1>1. since \in Stamp
  BY DEF Stamp
<1>2. FilteredAssert(f, on, confirm)
        = [stable |-> on /\ held, since |-> IF on /\ ~held THEN since ELSE NotPending]
  BY DEF FilteredAssert
<1>3. (on /\ held) \in BOOLEAN
  OBVIOUS
<1>4. (IF on /\ ~held THEN since ELSE NotPending) \in Stamp
  BY <1>1 DEF Stamp
<1> QED
  BY <1>2, <1>3, <1>4

(* A sample leaves the filters typed and the engine filter decided. *)
LEMMA SampleDecides ==
  ASSUME TypeOK, SampleInputs
  PROVE  /\ engine' \in {"running", "stopped"}
         /\ stop_started' \in Stamp
         /\ filter' \in [Shocks -> [stable : BOOLEAN, since : Stamp]]
<1>1. engine' \in {"running", "stopped"} /\ stop_started' \in Stamp
  BY DEF TypeOK, SampleInputs, SampleEngine, StopConfirmed, StopSince, Stamp
<1>2. ASSUME NEW s \in Shocks
      PROVE  FilteredAssert(filter[s], raw[s], Confirm(s))
               \in [stable : BOOLEAN, since : Stamp]
  <2>1. filter[s] \in [stable : BOOLEAN, since : Stamp] /\ raw[s] \in BOOLEAN
    BY DEF TypeOK, Inputs
  <2>2. Confirm(s) \in Nat
    BY DEF Confirm
  <2> QED
    BY <2>1, <2>2, FilteredAssertType DEF TypeOK
<1>3. filter' \in [Shocks -> [stable : BOOLEAN, since : Stamp]]
  BY <1>2 DEF SampleInputs, SampleShocks
<1> QED
  BY <1>1, <1>3

(* Packets stay packets. *)
LEMMA PacketTypes ==
  ASSUME NEW to \in Controllers
  PROVE  /\ \A m \in Modes, i \in BOOLEAN, a \in BOOLEAN : State(m, i, a, to) \in Messages
         /\ \A code \in {"Locked", "Unlocked", "LockPending", "AlarmStarted",
                         "AlarmStopped", "ShockWarning", "ShockTrigger"} :
              Event(code, to) \in Messages
         /\ Ack(to) \in Messages /\ Nack(to) \in Messages
BY DEF State, Event, Ack, Nack, Messages

LEMMA PacketLists ==
  /\ << >> \in Seq(Messages)
  /\ \A x \in Messages : <<x>> \in Seq(Messages)
  /\ \A x \in Messages, y \in Messages : <<x, y>> \in Seq(Messages)
  /\ \A cond \in BOOLEAN, s \in Seq(Messages) : When(cond, s) \in Seq(Messages)
<1>1. << >> \in Seq(Messages)
  OBVIOUS
<1>2. ASSUME NEW x \in Messages PROVE <<x>> \in Seq(Messages)
  OBVIOUS
<1>3. ASSUME NEW x \in Messages, NEW y \in Messages PROVE <<x, y>> \in Seq(Messages)
  OBVIOUS
<1> QED
  BY <1>1, <1>2, <1>3 DEF When

-----------------------------------------------------------------------------
(* Type correctness. *)

LEMMA BlankFilters ==
  /\ Released \in [Shocks -> [stable : BOOLEAN, since : Stamp]]
  /\ NoneSeen \in [Shocks -> BOOLEAN]
<1>1. [stable |-> FALSE, since |-> NotPending] \in [stable : BOOLEAN, since : Stamp]
  BY DEF Stamp
<1> QED
  BY <1>1 DEF Released, NoneSeen

LEMMA TypeInit == Init => TypeOK
<1> SUFFICES ASSUME Init PROVE TypeOK
  OBVIOUS
<1>1. now \in Clock /\ NotPending \in Stamp
  BY DEF Init, Clock, Stamp
<1>2. mode \in Modes /\ engine \in {"unknown", "running", "stopped"}
  BY DEF Init, RestoredMode, RestoredEngine, Modes
<1>3. /\ filter \in [Shocks -> [stable : BOOLEAN, since : Stamp]]
      /\ previous \in [Shocks -> BOOLEAN]
  BY BlankFilters DEF Init
<1>4. out \in Seq(Messages)
  BY PacketLists DEF Init
<1> QED
  BY <1>1, <1>2, <1>3, <1>4 DEF Init, TypeOK

LEMMA TypeStep == TypeOK /\ [Next]_vars => TypeOK'
<1> SUFFICES ASSUME TypeOK, [Next]_vars PROVE TypeOK'
  OBVIOUS
<1>1. ASSUME NEW d \in 0 .. MaxStep, Wake(d) PROVE TypeOK'
  BY <1>1, LaterInClock DEF TypeOK, Wake
<1>2. CASE InputsMove
  BY <1>2 DEF TypeOK, InputsMove
<1>3. ASSUME NEW source \in Controllers, NEW ack \in BOOLEAN, Lock(source, ack)
      PROVE  TypeOK'
  <2>1. /\ engine' \in {"running", "stopped"} /\ stop_started' \in Stamp
        /\ filter' \in [Shocks -> [stable : BOOLEAN, since : Stamp]]
    BY <1>3, SampleDecides DEF Lock
  <2>2. /\ alarm_output' \in BOOLEAN /\ nvs' \in BOOLEAN /\ mode' \in {"LockPending", "Locked"}
        /\ start_inhibit' \in BOOLEAN
    BY <1>3, <2>1 DEF TypeOK, Lock, Driven, Saved, ShouldInhibit
  <2>3. out' \in Seq(Messages)
    <3>1. out' = <<Event(mode', source)>> \o When(ack, <<Ack(source)>>)
                   \o <<State(mode', start_inhibit', alarm_output', source)>>
      BY <1>3 DEF Lock, StateNow
    <3>2. /\ <<Event(mode', source)>> \in Seq(Messages)
          /\ When(ack, <<Ack(source)>>) \in Seq(Messages)
          /\ <<State(mode', start_inhibit', alarm_output', source)>> \in Seq(Messages)
      <4>1. /\ Event(mode', source) \in Messages
            /\ State(mode', start_inhibit', alarm_output', source) \in Messages
        BY <2>2, PacketTypes DEF Modes
      <4> QED
        BY <4>1, PacketTypes, PacketLists
    <3> QED
      BY <3>1, <3>2, ConcatProperties
  <2> QED
    BY <1>3, <2>1, <2>2, <2>3 DEF TypeOK, Lock, Stamp, Modes
<1>4. ASSUME NEW source \in Controllers, NEW ack \in BOOLEAN, Unlock(source, ack)
      PROVE  TypeOK'
  <2>1. /\ engine' \in {"running", "stopped"} /\ stop_started' \in Stamp
        /\ filter' \in [Shocks -> [stable : BOOLEAN, since : Stamp]]
    BY <1>4, SampleDecides DEF Unlock
  <2>2. /\ alarm_output' \in BOOLEAN /\ nvs' \in BOOLEAN
        /\ mode' = "Unlocked" /\ start_inhibit' = FALSE
    BY <1>4 DEF TypeOK, Unlock, Driven, Saved
  <2>3. out' \in Seq(Messages)
    <3>1. out' = <<Event("Unlocked", source)>> \o When(ack, <<Ack(source)>>)
                   \o <<State(mode', start_inhibit', alarm_output', source)>>
      BY <1>4 DEF Unlock, StateNow
    <3>2. /\ <<Event("Unlocked", source)>> \in Seq(Messages)
          /\ When(ack, <<Ack(source)>>) \in Seq(Messages)
          /\ <<State(mode', start_inhibit', alarm_output', source)>> \in Seq(Messages)
      <4>1. /\ Event("Unlocked", source) \in Messages
            /\ State(mode', start_inhibit', alarm_output', source) \in Messages
        BY <2>2, PacketTypes DEF Modes
      <4> QED
        BY <4>1, PacketTypes, PacketLists
    <3> QED
      BY <3>1, <3>2, ConcatProperties
  <2> QED
    BY <1>4, <2>1, <2>2, <2>3 DEF TypeOK, Unlock, Stamp, Modes
<1>5. ASSUME NEW source \in Controllers, NEW ack \in BOOLEAN, SilenceAlarm(source, ack)
      PROVE  TypeOK'
  <2>1. /\ alarm_output' \in BOOLEAN /\ mode' \in Modes /\ start_inhibit' \in BOOLEAN
        /\ alarm_started' \in Stamp
    BY <1>5 DEF TypeOK, SilenceAlarm, ShouldInhibit, Stamp, Modes, Inputs
  <2>2. out' \in Seq(Messages)
    <3>1. \/ out' = When(ack, <<Nack(source)>>)
          \/ out' = <<Event("AlarmStopped", source)>> \o When(ack, <<Ack(source)>>)
                      \o <<State(mode', start_inhibit', alarm_output', source)>>
      BY <1>5 DEF SilenceAlarm, StateNow
    <3>2. /\ <<Event("AlarmStopped", source)>> \in Seq(Messages)
          /\ When(ack, <<Ack(source)>>) \in Seq(Messages)
          /\ When(ack, <<Nack(source)>>) \in Seq(Messages)
          /\ <<State(mode', start_inhibit', alarm_output', source)>> \in Seq(Messages)
      BY <2>1, PacketTypes, PacketLists
    <3> QED
      BY <3>1, <3>2, ConcatProperties
  <2> QED
    BY <1>5, <2>1, <2>2 DEF TypeOK, SilenceAlarm
<1>6. ASSUME NEW source \in Controllers, NEW ack \in BOOLEAN, RequestState(source, ack)
      PROVE  TypeOK'
  <2>1. /\ engine' \in {"running", "stopped"} /\ stop_started' \in Stamp
        /\ filter' \in [Shocks -> [stable : BOOLEAN, since : Stamp]]
    BY <1>6, SampleDecides DEF RequestState
  <2>2. start_inhibit' \in BOOLEAN /\ mode' \in Modes /\ alarm_output' \in BOOLEAN
    BY <1>6, <2>1 DEF TypeOK, RequestState, ShouldInhibit
  <2>3. out' \in Seq(Messages)
    <3>1. out' = <<State(mode', start_inhibit', alarm_output', source)>>
                   \o When(ack, <<Ack(source)>>)
      BY <1>6 DEF RequestState, StateNow
    <3>2. /\ When(ack, <<Ack(source)>>) \in Seq(Messages)
          /\ <<State(mode', start_inhibit', alarm_output', source)>> \in Seq(Messages)
      BY <2>2, PacketTypes, PacketLists
    <3> QED
      BY <3>1, <3>2, ConcatProperties
  <2> QED
    BY <1>6, <2>1, <2>2, <2>3 DEF TypeOK, RequestState
<1>7. ASSUME NEW source \in Controllers, NEW ack \in BOOLEAN, BadCommand(source, ack)
      PROVE  TypeOK'
  BY <1>7, PacketTypes, PacketLists DEF TypeOK, BadCommand
<1>8. ASSUME NEW source \in Controllers, SystemRequest(source)
      PROVE  TypeOK'
  <2>1. /\ StateNow(source) \in Messages
        /\ [kind |-> "DeviceInfo", to |-> source] \in Messages
        /\ [kind |-> "Heartbeat", to |-> source] \in Messages
    BY PacketTypes DEF StateNow, TypeOK, Messages
  <2>2. out' \in Seq(Messages)
    BY <1>8, <2>1, PacketLists DEF SystemRequest
  <2> QED
    BY <1>8, <2>2 DEF TypeOK, SystemRequest
<1>9. CASE Service
  <2>1. /\ engine' \in {"running", "stopped"} /\ stop_started' \in Stamp
        /\ filter' \in [Shocks -> [stable : BOOLEAN, since : Stamp]]
    BY <1>9, SampleDecides DEF Service
  <2>2. /\ alarm_output' \in BOOLEAN /\ mode' \in Modes /\ start_inhibit' \in BOOLEAN
        /\ alarm_started' \in Stamp /\ previous' \in [Shocks -> BOOLEAN]
    BY <1>9, <2>1 DEF TypeOK, Service, ServiceEffect, ShouldInhibit, Stamp, Modes
  <2>3. out' \in Seq(Messages)
    <3>1. PICK stop \in DriverOutcomes : \E start \in DriverOutcomes :
            ServiceEffect(stop, start)
      BY <1>9 DEF Service, ServiceEffect
    <3>2. PICK start \in DriverOutcomes : ServiceEffect(stop, start)
      BY <3>1
    <3> DEFINE arms     == mode = "LockPending" /\ engine' # "running"
               expires  == /\ mode = "Alarm" /\ alarm_started # NotPending
                           /\ Elapsed(alarm_started) >= AlarmDuration
               stops    == expires /\ stop
               locked   == mode = "Locked" \/ arms \/ stops
               warns    == locked /\ filter'["warning"].stable /\ ~previous["warning"]
               triggers == locked /\ filter'["trigger"].stable /\ ~previous["trigger"]
               starts   == triggers /\ start
               m        == IF stops THEN "Locked" ELSE "Alarm"
               b        == alarm_output /\ ~stops
    <3>3. out' = When(arms, <<Event("Locked", last_controller),
                              State("Locked", start_inhibit, alarm_output, last_controller)>>)
            \o When(stops, <<Event("AlarmStopped", last_controller)>>)
            \o When(expires, <<State(m, start_inhibit', b, last_controller)>>)
            \o When(warns, <<Event("ShockWarning", last_controller)>>)
            \o When(triggers, <<Event("ShockTrigger", last_controller)>>)
            \o When(starts, <<Event("AlarmStarted", last_controller),
                              State("Alarm", start_inhibit', TRUE, last_controller)>>)
      BY <3>2 DEF ServiceEffect
    <3>4. m \in Modes /\ last_controller \in Controllers
      BY DEF Modes, TypeOK
    <3>5. b \in BOOLEAN /\ start_inhibit' \in BOOLEAN
          /\ start_inhibit \in BOOLEAN /\ alarm_output \in BOOLEAN
      BY <2>2 DEF TypeOK
    <3>6. arms \in BOOLEAN /\ stops \in BOOLEAN /\ expires \in BOOLEAN
          /\ warns \in BOOLEAN /\ triggers \in BOOLEAN
          /\ starts \in BOOLEAN
      OBVIOUS
    <3> HIDE DEF arms, expires, stops, locked, warns, triggers, starts, m, b
    <3> DEFINE to == last_controller
    <3>7. /\ Event("Locked", to) \in Messages /\ Event("AlarmStopped", to) \in Messages
          /\ Event("ShockWarning", to) \in Messages /\ Event("ShockTrigger", to) \in Messages
          /\ Event("AlarmStarted", to) \in Messages
          /\ State("Locked", start_inhibit, alarm_output, to) \in Messages
          /\ State(m, start_inhibit', b, to) \in Messages
          /\ State("Alarm", start_inhibit', TRUE, to) \in Messages
      BY <3>4, <3>5, PacketTypes DEF Modes
    <3>8. /\ When(arms, <<Event("Locked", to),
                          State("Locked", start_inhibit, alarm_output, to)>>) \in Seq(Messages)
          /\ When(stops, <<Event("AlarmStopped", to)>>) \in Seq(Messages)
          /\ When(expires, <<State(m, start_inhibit', b, to)>>) \in Seq(Messages)
          /\ When(warns, <<Event("ShockWarning", to)>>) \in Seq(Messages)
          /\ When(triggers, <<Event("ShockTrigger", to)>>) \in Seq(Messages)
          /\ When(starts, <<Event("AlarmStarted", to),
                           State("Alarm", start_inhibit', TRUE, to)>>) \in Seq(Messages)
      BY <3>6, <3>7, PacketLists
    <3> QED
      BY <3>3, <3>8, ConcatProperties
  <2> QED
    BY <1>9, <2>1, <2>2, <2>3 DEF TypeOK, Service
<1>10. ASSUME NEW stored \in BOOLEAN, NEW armed \in BOOLEAN, Boot(stored, armed)
       PROVE  TypeOK'
  <2>1. now' \in Clock /\ NotPending \in Stamp
    BY <1>10 DEF Boot, Clock, Stamp
  <2>2. mode' \in Modes /\ engine' \in {"unknown", "running", "stopped"}
    BY <1>10 DEF Boot, RestoredMode, RestoredEngine, Modes
  <2>3. /\ filter' \in [Shocks -> [stable : BOOLEAN, since : Stamp]]
        /\ previous' \in [Shocks -> BOOLEAN]
    BY <1>10, BlankFilters DEF Boot
  <2>4. out' \in Seq(Messages)
    BY <1>10, PacketLists DEF Boot
  <2> QED
    BY <1>10, <2>1, <2>2, <2>3, <2>4 DEF Boot, TypeOK
<1>11. CASE Reboot
  BY <1>10, <1>11 DEF Reboot, TypeOK
<1>12. CASE RebootWhileSaving
  BY <1>10, <1>12 DEF RebootWhileSaving
<1>13. CASE UNCHANGED vars
  BY <1>13 DEF TypeOK, vars
<1> QED
  BY <1>1, <1>2, <1>3, <1>4, <1>5, <1>6, <1>7, <1>8, <1>9, <1>11, <1>12, <1>13
     DEF Next, Command

(* TypeOK is an invariant of the server. *)
THEOREM Typing == Spec => []TypeOK
BY TypeInit, TypeStep, PTL DEF Spec

-----------------------------------------------------------------------------
(***************************************************************************)
(* The safety invariants.  Alone, InhibitOnlyWhenStopped is not inductive: *)
(* SilenceAlarm takes no sample, and with an undecided engine filter       *)
(* update_start_inhibit would read the pin.  What rules that out is that   *)
(* the filter is undecided only before the first sample of a boot that     *)
(* restored nothing, when the mode is Unlocked.                            *)
(***************************************************************************)
UndecidedOnlyUnlocked == engine = "unknown" => mode = "Unlocked"

SafetyInv ==
  /\ UndecidedOnlyUnlocked
  /\ InhibitOnlyWhenStopped
  /\ LockedMeansInhibited
  /\ SirenHasTimer
  /\ PersistedIntent

LEMMA SafetyInit == Init => SafetyInv
BY DEF Init, SafetyInv, UndecidedOnlyUnlocked, InhibitOnlyWhenStopped,
       LockedMeansInhibited, SirenHasTimer, PersistedIntent, RestoredMode, RestoredEngine

LEMMA SafetyStep == TypeOK /\ SafetyInv /\ [Next]_vars => SafetyInv'
<1> SUFFICES ASSUME TypeOK, SafetyInv, [Next]_vars PROVE SafetyInv'
  OBVIOUS
<1> USE DEF SafetyInv, UndecidedOnlyUnlocked, InhibitOnlyWhenStopped,
            LockedMeansInhibited, SirenHasTimer, PersistedIntent
<1>1. ASSUME NEW d \in 0 .. MaxStep, Wake(d) PROVE SafetyInv'
  BY <1>1 DEF Wake
<1>2. CASE InputsMove
  BY <1>2 DEF InputsMove
<1>3. ASSUME NEW source \in Controllers, NEW ack \in BOOLEAN, Lock(source, ack)
      PROVE  SafetyInv'
  <2>1. engine' \in {"running", "stopped"}
    BY <1>3, SampleDecides DEF Lock
  <2> QED
    BY <1>3, <2>1 DEF Lock, ShouldInhibit, Driven, Saved
<1>4. ASSUME NEW source \in Controllers, NEW ack \in BOOLEAN, Unlock(source, ack)
      PROVE  SafetyInv'
  BY <1>4 DEF Unlock, Driven, Saved
<1>5. ASSUME NEW source \in Controllers, NEW ack \in BOOLEAN, SilenceAlarm(source, ack)
      PROVE  SafetyInv'
  <2>1. engine' = engine /\ nvs' = nvs
    BY <1>5 DEF SilenceAlarm
  <2>2. CASE UNCHANGED <<mode, alarm_started, alarm_output, start_inhibit>>
    BY <2>1, <2>2
  <2>3. CASE /\ alarm_output' = FALSE /\ alarm_started' = NotPending
             /\ mode' = (IF mode = "Alarm" THEN "Locked" ELSE mode)
             /\ start_inhibit' = ShouldInhibit(mode', engine)
    <3>1. mode' # "Alarm" /\ (mode' = "Unlocked" <=> mode = "Unlocked")
      BY <2>3
    <3>2. SirenHasTimer' /\ PersistedIntent' /\ UndecidedOnlyUnlocked'
      BY <2>1, <2>3, <3>1
    <3>3. engine = "unknown" => mode' = "Unlocked"
      BY <3>1
    <3>4. InhibitOnlyWhenStopped' /\ LockedMeansInhibited'
      BY <2>1, <2>3, <3>3 DEF ShouldInhibit
    <3> QED
      BY <3>2, <3>4
  <2> QED
    BY <1>5, <2>2, <2>3 DEF SilenceAlarm
<1>6. ASSUME NEW source \in Controllers, NEW ack \in BOOLEAN, RequestState(source, ack)
      PROVE  SafetyInv'
  <2>1. engine' \in {"running", "stopped"}
    BY <1>6, SampleDecides DEF RequestState
  <2> QED
    BY <1>6, <2>1 DEF RequestState, ShouldInhibit
<1>7. ASSUME NEW source \in Controllers, NEW ack \in BOOLEAN, BadCommand(source, ack)
      PROVE  SafetyInv'
  BY <1>7 DEF BadCommand
<1>8. ASSUME NEW source \in Controllers, SystemRequest(source)
      PROVE  SafetyInv'
  BY <1>8 DEF SystemRequest
<1>9. CASE Service
  <2>1. engine' \in {"running", "stopped"}
    BY <1>9, SampleDecides DEF Service
  <2>2. now # NotPending
    BY DEF TypeOK, Clock, NotPending
  <2>3. UndecidedOnlyUnlocked' /\ InhibitOnlyWhenStopped' /\ LockedMeansInhibited'
    BY <1>9, <2>1 DEF Service, ServiceEffect, ShouldInhibit
  <2>4. SirenHasTimer'
    BY <1>9, <2>2 DEF Service, ServiceEffect, TypeOK
  <2>5. PersistedIntent'
    BY <1>9 DEF Service, ServiceEffect
  <2> QED
    BY <2>3, <2>4, <2>5
<1>10. ASSUME NEW stored \in BOOLEAN, NEW armed \in BOOLEAN, Boot(stored, armed),
              StoreOutcomes = {TRUE} => armed = stored
       PROVE  SafetyInv'
  BY <1>10 DEF Boot, RestoredMode, RestoredEngine
<1>11. CASE Reboot
  BY <1>10, <1>11 DEF Reboot, TypeOK
<1>12. CASE RebootWhileSaving
  BY <1>10, <1>12 DEF RebootWhileSaving
<1>13. CASE UNCHANGED vars
  BY <1>13 DEF vars
<1> QED
  BY <1>1, <1>2, <1>3, <1>4, <1>5, <1>6, <1>7, <1>8, <1>9, <1>11, <1>12, <1>13
     DEF Next, Command

LEMMA Safety == Spec => [](TypeOK /\ SafetyInv)
BY TypeInit, TypeStep, SafetyInit, SafetyStep, PTL DEF Spec

(* The firmware's safety rule: whatever the timings, the commands, the resets and
   the failures, start prevention is never on while the filtered engine input
   says running or while the bike is not locked. *)
THEOREM InhibitSafety == Spec => []InhibitOnlyWhenStopped
BY Safety, PTL DEF SafetyInv

(* With a driver that obeys, a sounding siren always has a running timer. *)
THEOREM SirenSafety == Spec => []SirenHasTimer
BY Safety, PTL DEF SafetyInv

(* With a store that obeys, flash and mode agree after every step and restart. *)
THEOREM IntentSafety == Spec => []PersistedIntent
BY Safety, PTL DEF SafetyInv

(* A locked bike whose engine is known to have stopped is never startable. *)
THEOREM LockSafety == Spec => []LockedMeansInhibited
BY Safety, PTL DEF SafetyInv

(* One step never switches the inhibit on while the engine pin is active.  The
   handlers that decide on a fresh sample see the pin; SilenceAlarm does not, but a
   mode and a filter that let it inhibit have the inhibit on already. *)
LEMMA AssertStep ==
  ASSUME TypeOK, SafetyInv, [Next]_vars, ~start_inhibit, start_inhibit'
  PROVE  ~raw["engine"]
<1> USE DEF SafetyInv, UndecidedOnlyUnlocked, LockedMeansInhibited
<1>1. ASSUME SampleInputs, ShouldInhibit(mode', engine') PROVE ~raw["engine"]
  <2>1. engine' = "stopped"
    BY <1>1, SampleDecides DEF ShouldInhibit
  <2> QED
    BY <1>1, <2>1 DEF SampleInputs, SampleEngine
<1>2. ASSUME NEW d \in 0 .. MaxStep, Wake(d) PROVE FALSE
  BY <1>2 DEF Wake
<1>3. CASE InputsMove
  BY <1>3 DEF InputsMove
<1>4. ASSUME NEW source \in Controllers, NEW ack \in BOOLEAN, Command(source, ack)
      PROVE  ~raw["engine"]
  <2>1. CASE Lock(source, ack)
    BY <1>1, <2>1 DEF Lock
  <2>2. CASE Unlock(source, ack)
    BY <2>2 DEF Unlock
  <2>3. CASE SilenceAlarm(source, ack)
    BY <2>3 DEF SilenceAlarm, ShouldInhibit, TypeOK
  <2>4. CASE RequestState(source, ack)
    <3>1. mode' = mode
      BY <2>4 DEF RequestState
    <3> QED
      BY <1>1, <2>4, <3>1 DEF RequestState
  <2>5. CASE BadCommand(source, ack)
    BY <2>5 DEF BadCommand
  <2> QED
    BY <1>4, <2>1, <2>2, <2>3, <2>4, <2>5 DEF Command
<1>5. ASSUME NEW source \in Controllers, SystemRequest(source) PROVE FALSE
  BY <1>5 DEF SystemRequest
<1>6. CASE Service
  BY <1>1, <1>6 DEF Service, ServiceEffect
<1>7. CASE Reboot \/ RebootWhileSaving
  BY <1>7 DEF Reboot, RebootWhileSaving, Boot
<1>8. CASE UNCHANGED vars
  BY <1>8 DEF vars
<1> QED
  BY <1>2, <1>3, <1>4, <1>5, <1>6, <1>7, <1>8 DEF Next

(* The README's rule for the inhibit and the engine input, for every step. *)
THEOREM AssertSafety == Spec => NeverAssertedWhileRunning
<1>1. TypeOK /\ SafetyInv /\ [Next]_vars
        => [(~start_inhibit /\ start_inhibit') => ~raw["engine"]]_vars
  BY AssertStep
<1> QED
  BY <1>1, Safety, PTL DEF Spec, NeverAssertedWhileRunning

-----------------------------------------------------------------------------
(***************************************************************************)
(* The server keeps the promises of the immobiliser.  SilenceAlarm, which  *)
(* decides on the inhibit afresh, needs both safety invariants for that,   *)
(* and a restart needs PersistedIntent.                                    *)
(***************************************************************************)

LEMMA LockStates ==
  /\ mode = "Unlocked" => LockState = "off"
  /\ mode = "LockPending" => LockState = "pending"
  /\ mode \in {"Locked", "Alarm"} => LockState = "on"
BY DEF LockState

LEMMA LockStatesNext ==
  /\ mode' = "Unlocked" => LockState' = "off"
  /\ mode' = "LockPending" => LockState' = "pending"
  /\ mode' \in {"Locked", "Alarm"} => LockState' = "on"
BY DEF LockState

\* A handler that looks at the engine and then sets the inhibit
LEMMA LookPromised ==
  ASSUME TypeOK, SampleInputs, mode' \in Modes, start_inhibit' = ShouldInhibit(mode', engine')
  PROVE  Promise!LookAtEngine
<1>1. engine' \in {"running", "stopped"}
  BY SampleDecides
<1>2. start_inhibit' <=> mode' \in {"Locked", "Alarm"} /\ engine' = "stopped"
  BY <1>1 DEF ShouldInhibit
<1>3. mode' \in {"Locked", "Alarm"} <=> LockState' = "on"
  BY LockStatesNext DEF Modes
<1> QED
  BY <1>2, <1>3 DEF Promise!LookAtEngine

LEMMA InitPromises == Init => Promise!Init
BY LockStates DEF Init, Promise!Init, RestoredMode, RestoredEngine

LEMMA CommandPromised ==
  ASSUME TypeOK, SafetyInv, NEW source \in Controllers, NEW ack \in BOOLEAN,
         Command(source, ack)
  PROVE  Promise!Next \/ UNCHANGED Promise!guard_vars
<1> USE DEF Promise!Next
<1>1. CASE Lock(source, ack)
  <2>1. /\ phase = "poll" /\ phase' = "poll" /\ SampleInputs
        /\ mode' = IF engine' = "running" THEN "LockPending" ELSE "Locked"
        /\ start_inhibit' = ShouldInhibit(mode', engine')
    BY <1>1 DEF Lock
  <2>2. engine' \in {"running", "stopped"}
    BY <2>1, SampleDecides
  <2>3. LockState' = IF engine' = "stopped" THEN "on" ELSE "pending"
    BY <2>1, <2>2, LockStatesNext
  <2>4. Promise!LookAtEngine
    BY <2>1, LookPromised DEF Modes
  <2>5. Promise!Lock
    BY <2>1, <2>3, <2>4 DEF Promise!Lock
  <2> QED
    BY <2>5
<1>2. CASE Unlock(source, ack)
  <2>1. /\ phase = "poll" /\ phase' = "poll" /\ SampleInputs
        /\ mode' = "Unlocked" /\ start_inhibit' = FALSE
    BY <1>2 DEF Unlock
  <2>2. LockState' = "off"
    BY <2>1, LockStatesNext
  <2>3. Promise!Unlock
    BY <2>1, <2>2 DEF Promise!Unlock, Promise!LookAtEngine
  <2> QED
    BY <2>3
<1>3. CASE SilenceAlarm(source, ack)
  <2>1. phase = "poll" /\ phase' = "poll" /\ engine' = engine
    BY <1>3 DEF SilenceAlarm
  <2>2. CASE UNCHANGED <<mode, start_inhibit>>
    BY <2>1, <2>2 DEF Promise!guard_vars, LockState
  <2>3. CASE /\ mode' = IF mode = "Alarm" THEN "Locked" ELSE mode
             /\ start_inhibit' = ShouldInhibit(mode', engine)
    <3>1. mode' # "Alarm" /\ (mode' = mode \/ (mode = "Alarm" /\ mode' = "Locked"))
      BY <2>3
    <3>2. LockState' = LockState
      BY <3>1, LockStates, LockStatesNext DEF LockState
    <3>3. ShouldInhibit(mode', engine) <=> mode' \in {"Locked", "Alarm"} /\ engine = "stopped"
      BY <3>1 DEF ShouldInhibit, SafetyInv, UndecidedOnlyUnlocked
    <3>4. start_inhibit <=> mode \in {"Locked", "Alarm"} /\ engine = "stopped"
      BY DEF SafetyInv, InhibitOnlyWhenStopped, LockedMeansInhibited
    <3>5. start_inhibit' \in BOOLEAN /\ start_inhibit \in BOOLEAN
      BY <2>3, <3>1 DEF ShouldInhibit, TypeOK, Inputs
    <3>6. start_inhibit' = start_inhibit
      BY <2>3, <3>1, <3>3, <3>4, <3>5
    <3>7. Promise!Silence
      BY <2>1, <3>1, <3>2, <3>6 DEF Promise!Silence
    <3> QED
      BY <3>7
  <2> QED
    BY <1>3, <2>2, <2>3 DEF SilenceAlarm
<1>4. CASE RequestState(source, ack)
  <2>1. /\ phase = "poll" /\ phase' = "poll" /\ SampleInputs /\ mode' = mode
        /\ start_inhibit' = ShouldInhibit(mode', engine')
    BY <1>4 DEF RequestState
  <2>2. Promise!LookAtEngine
    BY <2>1, LookPromised DEF TypeOK
  <2>3. Promise!Report
    BY <2>1, <2>2 DEF Promise!Report, LockState
  <2> QED
    BY <2>3
<1>5. CASE BadCommand(source, ack)
  BY <1>5 DEF BadCommand, Promise!guard_vars, LockState
<1> QED
  BY <1>1, <1>2, <1>3, <1>4, <1>5 DEF Command

LEMMA WatchPromised == ASSUME TypeOK, Service PROVE Promise!Watch
<1>1. /\ phase = "poll" /\ phase' = "idle" /\ SampleInputs
      /\ start_inhibit' = ShouldInhibit(mode', engine')
      /\ mode' \in Modes
  BY DEF Service, ServiceEffect, TypeOK, Modes
<1>2. engine' \in {"running", "stopped"}
  BY <1>1, SampleDecides
<1>3. Promise!LookAtEngine
  BY <1>1, LookPromised
<1>4. /\ mode = "Unlocked" => mode' = "Unlocked"
      /\ mode = "LockPending" => IF engine' = "stopped" THEN mode' \in {"Locked", "Alarm"}
                                 ELSE mode' = "LockPending"
      /\ mode \in {"Locked", "Alarm"} => mode' \in {"Locked", "Alarm"}
  BY <1>2 DEF Service, ServiceEffect
<1>5. LockState' = IF LockState = "pending" /\ engine' = "stopped" THEN "on" ELSE LockState
  BY <1>4, LockStates, LockStatesNext DEF TypeOK, Modes
<1>6. mode' = "Alarm" => LockState' = "on"
  BY LockStatesNext
<1> QED
  BY <1>1, <1>3, <1>5, <1>6 DEF Promise!Watch

LEMMA BootPromised ==
  ASSUME TypeOK, SafetyInv, StoreOutcomes = {TRUE}, Reboot \/ RebootWhileSaving
  PROVE  Promise!LosePower \/ Promise!LosePowerInCommand
<1>1. ASSUME NEW stored \in BOOLEAN, Boot(stored, stored)
      PROVE  /\ Promise!PoweredOff
             /\ LockState' = IF stored THEN "pending" ELSE "off"
  <2>1. /\ mode' = IF stored THEN "LockPending" ELSE "Unlocked"
        /\ engine' # "stopped" /\ ~start_inhibit' /\ phase' = "idle"
    BY <1>1 DEF Boot, RestoredMode, RestoredEngine
  <2> QED
    BY <2>1, LockStatesNext DEF Promise!PoweredOff
<1>2. CASE Reboot
  <2>1. Boot(nvs, nvs) /\ nvs \in BOOLEAN
    BY <1>2 DEF Reboot, TypeOK
  <2>2. nvs <=> mode # "Unlocked"
    BY DEF SafetyInv, PersistedIntent
  <2>3. LockState = "off" <=> mode = "Unlocked"
    BY LockStates DEF TypeOK, Modes
  <2> QED
    BY <1>1, <2>1, <2>2, <2>3 DEF Promise!LosePower
<1>3. CASE RebootWhileSaving
  <2>1. PICK armed \in BOOLEAN : Boot(armed, armed) /\ phase = "poll"
    BY <1>3 DEF RebootWhileSaving
  <2> QED
    BY <1>1, <2>1 DEF Promise!LosePowerInCommand
<1> QED
  BY <1>2, <1>3

LEMMA StepPromises ==
  ASSUME TypeOK, SafetyInv, StoreOutcomes = {TRUE}, [Next]_vars
  PROVE  [Promise!Next]_(Promise!guard_vars)
<1>1. ASSUME NEW d \in 0 .. MaxStep, Wake(d) PROVE Promise!Next
  <2>1. Promise!Listen
    BY <1>1 DEF Wake, Promise!Listen, LockState
  <2> QED
    BY <2>1 DEF Promise!Next
<1>2. ASSUME UNCHANGED <<mode, engine, start_inhibit, phase>>
      PROVE  UNCHANGED Promise!guard_vars
  BY <1>2 DEF Promise!guard_vars, LockState
<1>3. CASE InputsMove \/ UNCHANGED vars \/ \E source \in Controllers : SystemRequest(source)
  <2>1. UNCHANGED <<mode, engine, start_inhibit, phase>>
    BY <1>3 DEF InputsMove, vars, SystemRequest
  <2> QED
    BY <1>2, <2>1
<1>4. CASE Service
  BY <1>4, WatchPromised DEF Promise!Next
<1>5. CASE Reboot \/ RebootWhileSaving
  BY <1>5, BootPromised DEF Promise!Next
<1>6. ASSUME NEW source \in Controllers, NEW ack \in BOOLEAN, Command(source, ack)
      PROVE  Promise!Next \/ UNCHANGED Promise!guard_vars
  BY <1>6, CommandPromised
<1> QED
  BY <1>1, <1>3, <1>4, <1>5, <1>6 DEF Next

(* With a store that works the server keeps every promise of the immobiliser, for all
   timings and sensors and a siren driver that fails at will. *)
THEOREM Implementation == ASSUME StoreOutcomes = {TRUE} PROVE Spec => ImplementsImmobiliser
<1>1. TypeOK /\ SafetyInv /\ [Next]_vars => [Promise!Next]_(Promise!guard_vars)
  BY StepPromises
<1> QED
  BY <1>1, InitPromises, Safety, PTL DEF Spec, ImplementsImmobiliser, Promise!Spec
=============================================================================
