--------------------------- MODULE SecurityMonitor --------------------------
(***************************************************************************)
(* SecurityServer watched from outside: history variables, which the code  *)
(* does not have and which no guard reads, remember for how long the       *)
(* samples have shown an input, for how long the siren has sounded, what   *)
(* was last acknowledged and what mode was last reported.                  *)
(***************************************************************************)
EXTENDS SecurityServer

VARIABLES
  stop_age,      \* ms since a sample saw the engine run (or an armed restart)
  trigger_age,   \* ms the trigger has been seen held; NotPending, or Spent
  siren_age,     \* ms since the siren started
  promised,      \* the last acknowledged intent: "armed", "disarmed", "none"
  reported       \* the mode of the last state sent since boot, or "none"

history == <<stop_age, trigger_age, siren_age, promised, reported>>

\* The trigger is still held since it last started the alarm.
Spent == -2

AtMost(cap, n) == IF n < cap THEN n ELSE cap

MonitorInit ==
  /\ Init
  /\ stop_age = IF nvs THEN 0 ELSE StopConfirm
  /\ trigger_age = NotPending
  /\ siren_age = 0
  /\ promised = "none"
  /\ reported = "none"

Ageing(d) ==
  /\ stop_age' = AtMost(StopConfirm, stop_age + d)
  /\ trigger_age' = IF trigger_age < 0 THEN trigger_age
                    ELSE AtMost(TriggerConfirm, trigger_age + d)
  /\ siren_age' = AtMost(AlarmDuration, siren_age + d)

\* The alarm starts, or starts again in the pass that ends the one before.
SirenStarts ==
  alarm_output' /\ (~alarm_output \/ alarm_started' \notin {alarm_started, NotPending})

\* How long the trigger has been held at a sample that sees it held.
TriggerHeld == IF trigger_age = NotPending THEN 0 ELSE trigger_age

\* A step that samples the pins.
Observing ==
  /\ stop_age' = IF raw["engine"] THEN 0 ELSE stop_age
  /\ trigger_age' = IF ~raw["trigger"] THEN NotPending
                    ELSE IF SirenStarts THEN Spent ELSE TriggerHeld
  /\ siren_age' = IF SirenStarts THEN 0 ELSE siren_age

\* The mode last reported once the packets are sent: that of the last state in them
ReportedAfter(before, packets) ==
  LET states == {i \in 1 .. Len(packets) : packets[i].kind = "State"}
  IN  IF states = {} THEN before
      ELSE packets[CHOOSE i \in states : \A j \in states : j <= i].mode

Reporting == reported' = ReportedAfter(reported, out')

Promising(ack, intent) == promised' = IF ack THEN intent ELSE "none"

Restarting ==
  /\ stop_age' = IF mode' = "LockPending" THEN 0 ELSE StopConfirm
  /\ trigger_age' = NotPending
  /\ siren_age' = 0
  /\ reported' = "none"

MonitorCommand(source, ack) ==
  /\ \/ Lock(source, ack) /\ Observing /\ Promising(ack, "armed")
     \/ Unlock(source, ack) /\ Observing /\ Promising(ack, "disarmed")
     \/ RequestState(source, ack) /\ Observing /\ UNCHANGED promised
     \/ /\ SilenceAlarm(source, ack) \/ BadCommand(source, ack)
        /\ UNCHANGED <<stop_age, trigger_age, siren_age, promised>>
  /\ Reporting

MonitorNext ==
  \/ \E d \in 0 .. MaxStep : Wake(d) /\ Ageing(d) /\ UNCHANGED <<promised, reported>>
  \/ InputsMove /\ UNCHANGED history
  \/ \E source \in Controllers, ack \in BOOLEAN : MonitorCommand(source, ack)
  \/ \E source \in Controllers : SystemRequest(source) /\ UNCHANGED history
  \/ Service /\ Observing /\ Reporting /\ UNCHANGED promised
  \/ Reboot /\ Restarting /\ UNCHANGED promised
  \/ RebootWhileSaving /\ Restarting /\ promised' = "none"

monitor_vars == <<vars, history>>

MonitorSpec == MonitorInit /\ [][MonitorNext]_monitor_vars

-----------------------------------------------------------------------------
(* Properties. *)

\* Start prevention is on only if no sample has seen the engine run for the whole
\* confirmation time, and after an armed restart only once that time has passed,
\* across clock wrap, reboots and any mix of commands in between.
InhibitAfterConfirmedStop == start_inhibit => stop_age >= StopConfirm

\* The siren starts only on a trigger that every sample of the confirmation time
\* saw held, and that has been seen released since it last started the siren:
\* a stuck trigger does not restart it.
SirenNeedsFreshTrigger ==
  [][SirenStarts => TriggerHeld >= TriggerConfirm]_monitor_vars

\* No pass of the loop ends with a siren that has sounded its full duration.  (An alarm
\* of no duration sounds from one pass to the next.)
SirenIsBounded ==
  (DriverOutcomes = {TRUE} /\ AlarmDuration > 0 /\ phase = "idle" /\ alarm_output)
    => siren_age < AlarmDuration

\* An acknowledged lock or unlock holds until the next one, through any number of
\* restarts, unless power failed inside a later command.
AcknowledgedIntentSurvives ==
  (StoreOutcomes = {TRUE} /\ promised # "none")
    => (mode # "Unlocked" <=> promised = "armed")

\* Whatever changes the mode, the main computer is sent a state with the new mode
\* before the handler returns.
ModeIsReported == reported # "none" => reported = mode
=============================================================================
