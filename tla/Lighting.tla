------------------------------ MODULE Lighting ------------------------------
(***************************************************************************)
(* The lighting southbridge: bike::LightingServer, which applies the       *)
(* SET_OUTPUT commands, and bike::LightingLocalControl, which debounces    *)
(* the rider's switches, runs the flasher and decides between the two.     *)
(*                                                                         *)
(* One pass of the firmware's loop reads the clock once (Wake), handles    *)
(* the packets that have arrived (the command actions) and ends with       *)
(* local_control.service() (Service).  Switches move and power is lost at  *)
(* any moment.                                                             *)
(*                                                                         *)
(* A debouncer is its stable value and, while the last sample differs from *)
(* it, the time the difference was first sampled (raw_ and changed_at_ms_  *)
(* say no more).  The flasher is blink_on_ and, while an indicator is      *)
(* requested, the time of its last toggle.                                 *)
(***************************************************************************)
EXTENDS Integers

CONSTANTS
  ClockMod,      \* the clock wraps to 0 after ClockMod - 1
  MaxStep,       \* the longest time between two passes of the loop
  Debounce,      \* input_debounce_ms_
  HalfPeriod,    \* blink_half_period_ms_
  Wired,         \* bound: the switches that move; the others stay released
  Commanded,     \* bound: the outputs commands name
  Controllers,   \* the nodes that send commands
  MainComputer,
  Flaky,         \* the outputs that write_output may fail to drive
  MayReboot      \* whether power may be lost

Inputs  == {"left", "right", "front", "rear", "high"}
Outputs == {"left_indicator", "right_indicator", "brake_bright", "high_beam"}

ASSUME LightingAssumption ==
  /\ ClockMod \in Nat /\ MaxStep \in Nat /\ MaxStep < ClockMod
  /\ Debounce \in Nat /\ Debounce + MaxStep < ClockMod
  /\ HalfPeriod \in Nat \ {0} /\ HalfPeriod + MaxStep < ClockMod
  /\ Wired \subseteq Inputs /\ Commanded \subseteq Outputs
  /\ MainComputer \in Controllers
  /\ Flaky \subseteq Outputs
  /\ MayReboot \in BOOLEAN

VARIABLES
  now,         \* now_ms of the current pass
  phase,       \* "poll" while packets are handled, "idle" between passes
  raw,         \* the switches
  commanded,   \* commanded_ of the server
  driven,      \* state_ of the hardware: what read_output returns
  sampled,     \* initialized_ of the control and of its debouncers
  debounced,   \* the debouncers
  flasher,     \* blink_on_ and last_blink_toggle_ms_
  seen,        \* history: each switch's last sample, and for how long it has been so
  flash_age,   \* history: ms since the flasher last turned on or off
  told         \* history: the last state sent to the main computer since boot, if any

vars == <<now, phase, raw, commanded, driven, sampled, debounced, flasher,
          seen, flash_age, told>>

Clock      == 0 .. ClockMod - 1
NotPending == -1
Stamp      == Clock \cup {NotPending}
Debouncer  == [stable : BOOLEAN, since : Stamp]

\* Mutant of the clock arithmetic: a signed difference.
SignedElapsed(since) == now - since

Elapsed(since) == IF now >= since THEN now - since ELSE now - since + ClockMod
Later(d) == IF now + d < ClockMod THEN now + d ELSE now + d - ClockMod
AtMost(cap, n) == IF n < cap THEN n ELSE cap

-----------------------------------------------------------------------------
(* Deciding what the outputs should be. *)

\* Mutant: a bounce back does not restart the debounce time.
UpdateThroughBounce(d, on) ==
  LET since   == IF d.since = NotPending THEN now ELSE d.since
      settled == ~sampled \/ (on # d.stable /\ Elapsed(since) >= Debounce)
  IN  [stable |-> IF settled THEN on ELSE d.stable,
       since  |-> IF settled \/ (on = d.stable /\ d.since = NotPending)
                  THEN NotPending ELSE since]

\* DebouncedInput::update.  The first sample after boot is believed.
Update(d, on) ==
  LET since   == IF d.since = NotPending THEN now ELSE d.since
      settled == on = d.stable \/ ~sampled \/ Elapsed(since) >= Debounce
  IN  [stable |-> IF settled THEN on ELSE d.stable,
       since  |-> IF settled THEN NotPending ELSE since]

IndicatorActive(inputs) == inputs["left"].stable \/ inputs["right"].stable

\* The flasher, once the switches are sampled: it starts lit, and toggles each
\* half period until no indicator is requested.
Flash(f, active) ==
  IF ~active THEN [on |-> TRUE, since |-> NotPending]
  ELSE IF f.since = NotPending THEN [on |-> TRUE, since |-> now]
  ELSE IF Elapsed(f.since) >= HalfPeriod THEN [on |-> ~f.on, since |-> now]
  ELSE f

\* Mutant: the rear brake switch is forgotten.
EffectiveFrontOnly(command, inputs, lit) ==
  [o \in Outputs |->
     CASE o = "left_indicator"  -> IF inputs["left"].stable THEN lit ELSE command[o]
       [] o = "right_indicator" -> IF inputs["right"].stable THEN lit ELSE command[o]
       [] o = "brake_bright"    -> inputs["front"].stable \/ command[o]
       [] o = "high_beam"       -> inputs["high"].stable \/ command[o]]

\* effective_left, effective_right, effective_brake and effective_high
Effective(command, inputs, lit) ==
  [o \in Outputs |->
     CASE o = "left_indicator"  -> IF inputs["left"].stable THEN lit ELSE command[o]
       [] o = "right_indicator" -> IF inputs["right"].stable THEN lit ELSE command[o]
       [] o = "brake_bright"    -> inputs["front"].stable \/ inputs["rear"].stable \/ command[o]
       [] o = "high_beam"       -> inputs["high"].stable \/ command[o]]

-----------------------------------------------------------------------------
AllOff == [o \in Outputs |-> FALSE]
Blank  == [i \in Inputs |-> [stable |-> FALSE, since |-> NotPending]]
NothingSeen == [i \in Inputs |-> [on |-> FALSE, age |-> 0]]

Switches == {r \in [Inputs -> BOOLEAN] : \A i \in Inputs \ Wired : ~r[i]}

\* hardware.begin() and the constructors
Init ==
  /\ now = 0
  /\ phase = "idle"
  /\ raw \in Switches
  /\ commanded = AllOff
  /\ driven = AllOff
  /\ sampled = FALSE
  /\ debounced = Blank
  /\ flasher = [on |-> TRUE, since |-> NotPending]
  /\ seen = NothingSeen
  /\ flash_age = 0
  /\ told = {}

\* The same again after a loss of power
Reboot ==
  /\ MayReboot
  /\ now' = 0
  /\ phase' = "idle"
  /\ commanded' = AllOff
  /\ driven' = AllOff
  /\ sampled' = FALSE
  /\ debounced' = Blank
  /\ flasher' = [on |-> TRUE, since |-> NotPending]
  /\ seen' = NothingSeen
  /\ flash_age' = 0
  /\ told' = {}
  /\ UNCHANGED raw

Wake(d) ==
  /\ phase = "idle"
  /\ phase' = "poll"
  /\ now' = Later(d)
  /\ seen' = [i \in Inputs |-> [seen[i] EXCEPT !.age = AtMost(Debounce, @ + d)]]
  /\ flash_age' = AtMost(HalfPeriod, flash_age + d)
  /\ UNCHANGED <<raw, commanded, driven, sampled, debounced, flasher, told>>

SwitchesMove ==
  /\ raw' \in Switches \ {raw}
  /\ UNCHANGED <<now, phase, commanded, driven, sampled, debounced, flasher,
                 seen, flash_age, told>>

\* Mutant: the state is taken before the writes.
PublishBefore(to) == told' = IF to = MainComputer THEN {driven} ELSE told

\* publish_state: what read_output says now.  Handed to node_.send is told: a write to the
\* controller's serial port takes every byte of a frame, or waits.
Publish(to) == told' = IF to = MainComputer THEN {driven'} ELSE told

\* handle_packet: a SET_OUTPUT the hardware accepts, acknowledged and reported
SetOutput(source, o, on) ==
  /\ phase = "poll"
  /\ driven' = [driven EXCEPT ![o] = on]
  /\ commanded' = [commanded EXCEPT ![o] = on]
  /\ Publish(source)
  /\ UNCHANGED <<now, phase, raw, sampled, debounced, flasher, seen, flash_age>>

\* handle_system_packet: GET_STATE
GetState(source) ==
  /\ phase = "poll"
  /\ UNCHANGED <<now, phase, raw, commanded, driven, sampled, debounced, flasher,
                 seen, flash_age>>
  /\ Publish(source)

\* local_control.service().  write_if_changed ignores the result of the write; a
\* state is published if any write was tried.
Service ==
  /\ phase = "poll"
  /\ phase' = "idle"
  /\ debounced' = [i \in Inputs |-> Update(debounced[i], raw[i])]
  /\ sampled' = TRUE
  /\ flasher' = Flash(flasher, IndicatorActive(debounced'))
  /\ LET effective == Effective(commanded, debounced', flasher'.on)
     IN  /\ \E failed \in SUBSET Flaky :
              driven' = [o \in Outputs |-> IF o \in failed THEN driven[o] ELSE effective[o]]
         /\ IF effective # driven THEN Publish(MainComputer) ELSE UNCHANGED told
  /\ seen' = [i \in Inputs |->
                IF ~sampled THEN [on |-> raw[i], age |-> Debounce]
                ELSE IF raw[i] = seen[i].on THEN seen[i] ELSE [on |-> raw[i], age |-> 0]]
  /\ flash_age' = IF flasher'.on # flasher.on \/ flasher.since = NotPending THEN 0
                  ELSE flash_age
  /\ UNCHANGED <<now, raw, commanded>>

Next ==
  \/ \E d \in 0 .. MaxStep : Wake(d)
  \/ SwitchesMove
  \/ \E source \in Controllers, o \in Commanded, on \in BOOLEAN : SetOutput(source, o, on)
  \/ \E source \in Controllers : GetState(source)
  \/ Service
  \/ Reboot

Spec == Init /\ [][Next]_vars

-----------------------------------------------------------------------------
(* Properties. *)

TypeOK ==
  /\ now \in Clock /\ phase \in {"poll", "idle"}
  /\ raw \in Switches
  /\ commanded \in [Outputs -> BOOLEAN] /\ driven \in [Outputs -> BOOLEAN]
  /\ sampled \in BOOLEAN
  /\ debounced \in [Inputs -> Debouncer]
  /\ flasher \in [on : BOOLEAN, since : Stamp]
  /\ seen \in [Inputs -> [on : BOOLEAN, age : 0 .. Debounce]]
  /\ flash_age \in 0 .. HalfPeriod
  /\ told \subseteq [Outputs -> BOOLEAN]

Held(i)     == seen[i].on /\ seen[i].age >= Debounce
Released(i) == ~seen[i].on /\ seen[i].age >= Debounce
PassEnded   == phase = "idle" /\ sampled

\* What the rider's controls ask of a lamp: one whose brake or high-beam switch the
\* samples of the debounce time show held is on, whatever has been commanded, and an
\* indicator whose switch they show held follows the flasher; once the switches of a
\* lamp are released the lamp is as last commanded.
ControlsDecide(o) ==
  CASE o = "brake_bright" ->
         /\ Held("front") \/ Held("rear") => driven[o]
         /\ Released("front") /\ Released("rear") => driven[o] = commanded[o]
    [] o = "high_beam" ->
         /\ Held("high") => driven[o]
         /\ Released("high") => driven[o] = commanded[o]
    [] o = "left_indicator" ->
         /\ Held("left") => driven[o] = flasher.on
         /\ Released("left") => driven[o] = commanded[o]
    [] o = "right_indicator" ->
         /\ Held("right") => driven[o] = flasher.on
         /\ Released("right") => driven[o] = commanded[o]

\* The rider's controls are authoritative: at the end of every pass each lamp is as
\* they ask.  Only a write that fails is excused.
PhysicalControlsWin ==
  PassEnded => \A o \in Outputs \ Flaky : ControlsDecide(o)

\* Bounces are ignored: a debounced switch changes only after all the samples of the
\* debounce time agreed.
BouncesIgnored ==
  [][\A i \in Inputs :
       (sampled /\ sampled' /\ debounced'[i].stable # debounced[i].stable)
         => seen'[i].on = debounced'[i].stable /\ seen'[i].age >= Debounce]_vars

\* With no other node sending commands, a pass never ends with outputs that differ
\* from the last state sent to the main computer, even if writes fail.
MainIsTold ==
  (Controllers = {MainComputer} /\ phase = "idle") => told \subseteq {driven}

\* Each flash and each gap lasts the half period: the flasher toggles no sooner, and
\* no pass ends with a phase that is overdue, clock wrap included.
FlashesOnTime ==
  /\ [][(flasher'.on # flasher.on /\ flasher'.since # NotPending)
          => flash_age >= HalfPeriod]_vars
  /\ [](phase = "idle" /\ flasher.since # NotPending => flash_age < HalfPeriod)

\* What the README says of the brake: a believed brake switch forces the circuit on,
\* and not only when the pass is over.
BrakeForcesOn ==
  (debounced["front"].stable \/ debounced["rear"].stable) => driven["brake_bright"]
=============================================================================
