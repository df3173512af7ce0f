--------------------------- MODULE LightingFaults ---------------------------
(***************************************************************************)
(* The lighting southbridge with its fault manager and diagnostics, and    *)
(* what the main computer shows of them: the whole loop of the firmware.   *)
(*                                                                         *)
(* After local_control.service() the pass goes on with                     *)
(* bike::LightingFaultManager::service(), which may switch an output off   *)
(* again, and bike::LightingDiagnostics::service() (CheckOutputs).  Loads  *)
(* fail and recover, and the main computer restarts, at any moment.        *)
(*                                                                         *)
(* occurrence_count is the number of FAULT packets tried and is left out,  *)
(* as are currents and timestamps.                                         *)
(***************************************************************************)
EXTENDS Lighting

CONSTANTS
  Monitored,       \* the outputs whose current is measured
  CutOff,          \* those with the policy ShutdownOnOverCurrent
  Resisting,       \* those whose shutdown write may fail
  Confirm,         \* confirm_samples_
  PublishInterval, \* publish_interval_ms_ of the diagnostics
  Fates            \* what may become of a packet that is sent

ASSUME FaultsAssumption ==
  /\ Monitored \subseteq Outputs /\ CutOff \subseteq Monitored
  /\ Flaky \cap CutOff \subseteq Resisting /\ Resisting \subseteq CutOff
  /\ Confirm \in 1 .. 255
  /\ PublishInterval \in Nat \ {0} /\ PublishInterval + MaxStep < ClockMod
  /\ Fates \subseteq {"refused", "lost", "arrives"}

VARIABLES
  checking,      \* the pass has still to check the outputs
  load,          \* the electrical state of each monitored circuit
  count,         \* consecutive_fault_samples_
  record,        \* records_: latched_status, "off" while not latched, and shutdown_applied
  last_publish,  \* last_publish_ms_, once published_once_
  shown,         \* main computer: lighting_faults_
  channels,      \* main computer: lighting_diagnostics_, once valid
  bad_run,       \* history: passes in a row that found the output on with a fault,
  over_run,      \* and with over-current, since it was last cleared
  informed,      \* history: the last report on an output reached the main computer
  resisted,      \* history: the outputs whose shutdown failed in the pass that has ended,
  late,          \* and those reported last in a pass in which it failed
  wrong_for      \* history: ms since a pass last ended with the main computer's diagnostics
                 \* right, or with diagnostics that did not reach it

manager == <<count, record, last_publish>>
monitor == <<shown, channels, informed, late, bad_run, over_run>>
faultVars == <<checking, load, manager, monitor, resisted, wrong_for>>
allVars == <<vars, faultVars>>

Faults  == {"open", "over"}
Records == [status : {"off"} \cup Faults, shutdown : BOOLEAN]
NoFault == [status |-> "off", shutdown |-> FALSE]

ForgetFaults(p) == [o \in Monitored |-> p]

FaultInit ==
  /\ Init
  /\ checking = FALSE
  /\ load \in [Monitored -> {"ok"}]
  /\ count = ForgetFaults(0)
  /\ record = ForgetFaults(NoFault)
  /\ last_publish = NotPending
  /\ shown = ForgetFaults(NoFault)
  /\ channels = {}
  /\ bad_run = ForgetFaults(0) /\ over_run = ForgetFaults(0)
  /\ informed = ForgetFaults(TRUE)
  /\ resisted = {} /\ late = {}
  /\ wrong_for = 0

-----------------------------------------------------------------------------
(* The check of the outputs. *)

\* evaluate: nothing is believed of an output that is not driven, as "on" says
Status(o, on) == IF on[o] THEN load[o] ELSE "off"

\* Mutant: the count does not start again when a sample is good.
SamplesKept(o) ==
  IF Status(o, driven) \in Faults THEN AtMost(Confirm, count[o] + 1) ELSE count[o]

\* Samples in a row with a fault of either kind, this one included
Samples(o) ==
  IF Status(o, driven) \in Faults THEN AtMost(Confirm, count[o] + 1) ELSE 0

Confirmed(o) == Status(o, driven) \in Faults /\ Samples(o) >= Confirm

NewlyLatched(o) == Confirmed(o) /\ record[o].status # Status(o, driven)

\* Mutant: only a new latch switches off.
CutOnce(o) == o \in CutOff /\ NewlyLatched(o) /\ Status(o, driven) = "over"

\* Mutant: an over-current is not confirmed before the output is switched off.
CutAtOnce(o) == o \in CutOff /\ Status(o, driven) = "over"

Cut(o) == o \in CutOff /\ Confirmed(o) /\ Status(o, driven) = "over"

publish_fault(r, type) == [type |-> type, status |-> r.status, shutdown |-> r.shutdown]

\* The main computer's new lighting_faults_ entry for the output the packet names
decode_lighting_fault(p) ==
  IF p.type = "Fault" THEN [status |-> p.status, shutdown |-> p.shutdown] ELSE NoFault

\* Mutant: the main computer is told before the output is switched off.
ReportedEarly(o) == publish_fault([record'[o] EXCEPT !.shutdown = record[o].shutdown], "Fault")

Reported(o) == publish_fault(record'[o], "Fault")

\* update_channel, for every output; the result of publish_fault is ignored
ManageFaults(fate) ==
  /\ count' = [o \in Monitored |-> Samples(o)]
  /\ \E failed \in SUBSET Resisting :
       LET off == {o \in Monitored : Cut(o) /\ o \notin failed}
       IN  /\ resisted' = {o \in failed : Cut(o)}
           /\ driven' = [o \in Outputs |-> driven[o] /\ o \notin off]
           /\ record' = [o \in Monitored |->
                IF Confirmed(o)
                THEN [status |-> Status(o, driven), shutdown |-> record[o].shutdown \/ o \in off]
                ELSE record[o]]
  /\ shown' = [o \in Monitored |->
                 IF NewlyLatched(o) /\ fate[o] = "arrives"
                 THEN decode_lighting_fault(Reported(o)) ELSE shown[o]]
  /\ informed' = [o \in Monitored |->
                    IF NewlyLatched(o) THEN fate[o] = "arrives" ELSE informed[o]]
  /\ late' = {o \in Monitored : IF NewlyLatched(o) THEN informed'[o] /\ o \in resisted' ELSE o \in late}

\* Mutant: the diagnostics are taken before the fault manager has acted.
PublishedEarly == [o \in Monitored |-> [driven |-> driven[o], status |-> Status(o, driven)]]

\* LightingDiagnostics::publish
Published == [o \in Monitored |-> [driven |-> driven'[o], status |-> Status(o, driven')]]

\* The whole snapshot is replaced, and valid from now on.
decode_lighting_diagnostics(p) == {p}

PublishDue == last_publish = NotPending \/ Elapsed(last_publish) >= PublishInterval

\* LightingDiagnostics::service
PublishDiagnostics(fate) ==
  /\ last_publish' = IF PublishDue /\ fate # "refused" THEN now ELSE last_publish
  /\ channels' = IF PublishDue /\ fate = "arrives"
                 THEN decode_lighting_diagnostics(Published) ELSE channels

\* The main computer's diagnostics show every monitored output as it is.
PictureIsRight ==
  \E c \in channels : \A o \in Monitored :
    c[o].driven = driven[o] /\ c[o].status = Status(o, driven)

RunsOn(run, statuses) ==
  [o \in Monitored |-> IF Status(o, driven) \in statuses THEN AtMost(Confirm, run[o] + 1) ELSE 0]

CheckOutputs ==
  /\ checking /\ checking' = FALSE
  /\ \E fate \in [Monitored -> Fates], diag_fate \in Fates :
       /\ ManageFaults(fate) /\ PublishDiagnostics(diag_fate)
       /\ UNCHANGED load
       /\ wrong_for' = IF PictureIsRight' \/ (PublishDue /\ diag_fate # "arrives")
                       THEN 0 ELSE wrong_for
  /\ bad_run' = RunsOn(bad_run, Faults) /\ over_run' = RunsOn(over_run, {"over"})
  /\ UNCHANGED <<now, phase, raw, commanded, sampled, debounced, flasher,
                 seen, flash_age, told>>

\* clear_latch, which tells the main computer if there was a latch
ClearLatch(o) ==
  /\ phase = "poll"
  /\ count' = [count EXCEPT ![o] = 0]
  /\ record' = [record EXCEPT ![o] = NoFault]
  /\ \E fate \in Fates :
       IF record[o].status = "off" THEN UNCHANGED <<shown, informed>>
       ELSE /\ shown' = IF fate = "arrives"
                       THEN [shown EXCEPT ![o] =
                               decode_lighting_fault(publish_fault(record[o], "FaultClear"))]
                       ELSE shown
            /\ informed' = [informed EXCEPT ![o] = (fate = "arrives")]
  /\ bad_run' = [bad_run EXCEPT ![o] = 0] /\ over_run' = [over_run EXCEPT ![o] = 0]
  /\ late' = late \ {o}
  /\ UNCHANGED <<vars, checking, load, last_publish, channels, resisted, wrong_for>>

-----------------------------------------------------------------------------
(* The rest of the loop, and what surrounds it. *)

FaultWake(d) ==
  /\ ~checking
  /\ Wake(d)
  /\ resisted' = {}
  /\ wrong_for' = AtMost(PublishInterval + MaxStep, wrong_for + d)
  /\ UNCHANGED <<checking, load, manager, monitor>>

LocalControl ==
  /\ Service
  /\ checking' = TRUE
  /\ UNCHANGED <<load, manager, monitor, resisted, wrong_for>>

PacketOrSwitch ==
  /\ \/ SwitchesMove
     \/ \E source \in Controllers, o \in Commanded, on \in BOOLEAN : SetOutput(source, o, on)
     \/ \E source \in Controllers : GetState(source)
  /\ UNCHANGED faultVars

\* The controller forgets its latches and does not say so.
LightingReboot ==
  /\ Reboot
  /\ checking' = FALSE
  /\ count' = ForgetFaults(0)
  /\ record' = ForgetFaults(NoFault)
  /\ last_publish' = NotPending
  /\ bad_run' = ForgetFaults(0) /\ over_run' = ForgetFaults(0)
  /\ informed' = [o \in Monitored |-> shown[o] = NoFault]
  /\ resisted' = {} /\ late' = {}
  /\ UNCHANGED <<load, shown, channels, wrong_for>>

\* The main computer restarts; begin() asks for the lighting state only.
MainRestarts ==
  /\ shown' = ForgetFaults(NoFault)
  /\ channels' = {}
  /\ informed' = [o \in Monitored |-> record[o] = NoFault]
  /\ late' = {}
  /\ UNCHANGED <<vars, checking, load, manager, bad_run, over_run, resisted, wrong_for>>

\* A circuit breaks, shorts, or is repaired.
LoadChanges(o, to) ==
  /\ load' = [load EXCEPT ![o] = to]
  /\ UNCHANGED <<vars, checking, manager, monitor, resisted, wrong_for>>

FaultNext ==
  \/ \E d \in 0 .. MaxStep : FaultWake(d)
  \/ LocalControl
  \/ CheckOutputs
  \/ PacketOrSwitch
  \/ \E o \in Monitored : ClearLatch(o)
  \/ LightingReboot
  \/ MainRestarts
  \/ \E o \in Monitored, to \in {"ok"} \cup Faults : LoadChanges(o, to)

FaultSpec == FaultInit /\ [][FaultNext]_allVars

-----------------------------------------------------------------------------
(* Properties. *)

PassOver == phase = "idle" /\ ~checking

\* The local control and the fault manager fight over an output that is shut down: the
\* one switches it on in every pass, the other off.  The fault manager has the last
\* word: no pass ends with an output on that Confirm passes in a row, this one
\* included, have found with over-current, unless its shutdown was tried in this very
\* pass and failed.
ShutdownHolds ==
  PassOver => \A o \in CutOff \ resisted : driven[o] => over_run[o] < Confirm

\* Shut down in this pass: off, its over-current latched, after faults in Confirm passes
\* in a row.
ShutDown(o) ==
  /\ o \in CutOff /\ ~driven[o] /\ bad_run[o] >= Confirm
  /\ record[o] = [status |-> "over", shutdown |-> TRUE]

\* Nor does the fault manager take a lamp from the rider without cause: at the end of
\* every pass each lamp is as the rider's controls ask, or shut down.
OnlyShutdownsOverride ==
  (PassOver /\ sampled) => \A o \in Outputs \ Flaky : ControlsDecide(o) \/ ShutDown(o)

\* A fault is latched, or changes, only in the last of Confirm passes in a row that all
\* found the output on and faulty: a pass that found it off, as each gap of a flashing
\* indicator does, or well starts the count again.
LatchedAreConfirmed ==
  [][\A o \in Monitored :
       (record'[o].status \notin {"off", record[o].status}) => bad_run'[o] >= Confirm]_allVars

\* A latch is told when it changes and only then: what the main computer shows of an
\* output is what is latched, shutdown included, unless the last report of it failed or
\* one of the two has restarted since.  One thing it is never told: a shutdown that
\* failed when the fault was latched, and succeeded in a later pass.
MainShowsFaults ==
  \A o \in Monitored : informed[o] =>
    \/ shown[o] = record[o]
    \/ o \in late /\ shown[o] = [record[o] EXCEPT !.shutdown = FALSE]

\* What becomes of the faults the main computer misses or has forgotten: whatever either
\* side has lost, be it by a restart, its diagnostics show the outputs as passes leave
\* them after any shutdown.  They are not wrong at the end of every pass for as long as
\* the interval and a step, unless a snapshot is refused or lost meanwhile; the clock may
\* wrap.
DiagnosticsCatchUp ==
  (PassOver /\ sampled) => wrong_for < PublishInterval + MaxStep
=============================================================================
