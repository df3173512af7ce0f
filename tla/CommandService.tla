--------------------------- MODULE CommandService ---------------------------
(***************************************************************************)
(* What the acknowledged-command service of bike::BikeNode promises the    *)
(* application, with no sequence numbers, clocks, queues or frames.        *)
(*                                                                         *)
(* Commands are numbered in the order they are given.  One is in progress  *)
(* at a time.  A controller may apply a command more than once and may     *)
(* still apply one that was given up, but never goes back from a newer     *)
(* command to an older one; a command counts as acknowledged only if its   *)
(* controller has applied it; a refused command is never applied.          *)
(***************************************************************************)
EXTENDS Naturals

CONSTANTS Peers, Commands

VARIABLES
  outcome,   \* what has become of each command
  dest,      \* the controller each command was given for
  applied,   \* the commands each controller has applied
  latest     \* the command each controller applied last, 0 before the first

service_vars == <<outcome, dest, applied, latest>>

Outcomes == {"new", "pending", "acked", "failed", "refused", "forgotten"}
NoPeer   == "nobody"

Init ==
  /\ outcome = [c \in Commands |-> "new"]
  /\ dest = [c \in Commands |-> NoPeer]
  /\ applied = [p \in Peers |-> {}]
  /\ latest = [p \in Peers |-> 0]

\* Commands are given in order.
Upcoming(c) ==
  /\ outcome[c] = "new"
  /\ \A b \in Commands : b < c => outcome[b] # "new"

Idle == \A c \in Commands : outcome[c] # "pending"

Accept(c, p) ==
  /\ Upcoming(c) /\ Idle
  /\ outcome' = [outcome EXCEPT ![c] = "pending"]
  /\ dest' = [dest EXCEPT ![c] = p]
  /\ UNCHANGED <<applied, latest>>

\* Another command is in progress, or the frame could not be written.
Refuse(c, p) ==
  /\ Upcoming(c)
  /\ outcome' = [outcome EXCEPT ![c] = "refused"]
  /\ dest' = [dest EXCEPT ![c] = p]
  /\ UNCHANGED <<applied, latest>>

Apply(c, p) ==
  /\ outcome[c] \notin {"new", "refused"}
  /\ dest[c] = p
  /\ latest[p] <= c
  /\ applied' = [applied EXCEPT ![p] = @ \cup {c}]
  /\ latest' = [latest EXCEPT ![p] = c]
  /\ UNCHANGED <<outcome, dest>>

Acknowledge(c) ==
  /\ outcome[c] = "pending"
  /\ c \in applied[dest[c]]
  /\ outcome' = [outcome EXCEPT ![c] = "acked"]
  /\ UNCHANGED <<dest, applied, latest>>

\* All retries are used up, or the sender restarted.
GiveUp(c) ==
  /\ outcome[c] = "pending"
  /\ outcome' \in {[outcome EXCEPT ![c] = "failed"], [outcome EXCEPT ![c] = "forgotten"]}
  /\ UNCHANGED <<dest, applied, latest>>

Next ==
  \E c \in Commands :
     \/ \E p \in Peers : Accept(c, p) \/ Refuse(c, p) \/ Apply(c, p)
     \/ Acknowledge(c)
     \/ GiveUp(c)

Spec == Init /\ [][Next]_service_vars
=============================================================================
