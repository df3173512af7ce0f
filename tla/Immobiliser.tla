----------------------------- MODULE Immobiliser -----------------------------
(***************************************************************************)
(* What the security southbridge promises the rider, with no clocks,       *)
(* sensor filters, flash or packets.                                       *)
(*                                                                         *)
(* The bike is unlocked, waits to be locked until its engine is found to   *)
(* have stopped, or is locked.  The starter is cut exactly while the bike  *)
(* is locked and its engine stopped, and the alarm sounds only on a locked *)
(* bike.  A loss of power takes nothing back that the rider has asked for, *)
(* but the bike then waits for its engine again; only if power fails while *)
(* a command is handled may either be what it remembers.                   *)
(***************************************************************************)

VARIABLES
  lock,        \* "off", "pending" or "on"
  stopped,     \* the engine has been found stopped
  inhibited,   \* the starter is cut
  alarm,       \* the bike sounds its alarm
  listening    \* commands are handled

guard_vars == <<lock, stopped, inhibited, alarm, listening>>

Init ==
  /\ lock \in {"off", "pending"}
  /\ ~stopped /\ ~inhibited /\ ~alarm /\ ~listening

\* The engine is looked at, and the starter with it.
LookAtEngine ==
  /\ stopped' \in BOOLEAN
  /\ inhibited' <=> lock' = "on" /\ stopped'

Listen ==
  /\ ~listening /\ listening'
  /\ UNCHANGED <<lock, stopped, inhibited, alarm>>

Lock ==
  /\ listening
  /\ LookAtEngine
  /\ lock' = IF stopped' THEN "on" ELSE "pending"
  /\ ~alarm'
  /\ UNCHANGED listening

Unlock ==
  /\ listening
  /\ LookAtEngine
  /\ lock' = "off"
  /\ ~alarm'
  /\ UNCHANGED listening

Report ==
  /\ listening
  /\ LookAtEngine
  /\ UNCHANGED <<lock, alarm, listening>>

Silence ==
  /\ listening
  /\ ~alarm'
  /\ UNCHANGED <<lock, stopped, inhibited, listening>>

\* A pending lock takes effect, an alarm starts or ends.
Watch ==
  /\ listening /\ ~listening'
  /\ LookAtEngine
  /\ lock' = IF lock = "pending" /\ stopped' THEN "on" ELSE lock
  /\ alarm' \in BOOLEAN /\ (alarm' => lock' = "on")

PoweredOff == ~stopped' /\ ~inhibited' /\ ~alarm' /\ ~listening'

LosePower ==
  /\ PoweredOff
  /\ lock' = IF lock = "off" THEN "off" ELSE "pending"

LosePowerInCommand ==
  /\ listening
  /\ PoweredOff
  /\ lock' \in {"off", "pending"}

Next ==
  \/ Listen \/ Watch
  \/ Lock \/ Unlock \/ Report \/ Silence
  \/ LosePower \/ LosePowerInCommand

Spec == Init /\ [][Next]_guard_vars
=============================================================================
