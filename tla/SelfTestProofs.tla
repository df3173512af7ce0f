--------------------------- MODULE SelfTestProofs ---------------------------
(***************************************************************************)
(* The self test for every timeout, step and clock width, and every order  *)
(* of packets, timeouts, failed writes and console commands.               *)
(***************************************************************************)
EXTENDS SelfTest, TLAPS

USE SelfTestAssumption

Clock   == 0 .. ClockMod - 1
Results == {"Pending", "Pass", "Warn", "Fail"}
Slice   == Timeout + MaxStep   \* what one item may take

(* The items are three, and each asks one of the nodes. *)
LEMMA ThreeItems ==
  /\ Len(items) = 3 /\ Items = 1 .. 3
  /\ \A i \in Items : items[i].node \in Nodes
BY DEF items, Items, Nodes

(* The clock: a step that does not complete a turn adds to the age of a timestamp. *)
LEMMA ClockSteps ==
  ASSUME now \in Clock, NEW since \in Clock, NEW d \in 0 .. MaxStep
  PROVE  /\ Later(d) \in Clock
         /\ Elapsed(since) \in Nat
         /\ (now' = Later(d) /\ Elapsed(since) + d < ClockMod)
              => (IF now' >= since THEN now' - since ELSE now' - since + ClockMod)
                   = Elapsed(since) + d
BY DEF Clock, Later, Elapsed

(* More items may take more time. *)
LEMMA SlicesAdd ==
  ASSUME NEW i \in 0 .. 3, NEW j \in 0 .. 3, i <= j
  PROVE  i * Slice \in Nat /\ j * Slice \in Nat /\ i * Slice <= j * Slice
<1>1. Slice \in Nat
  BY DEF Slice
<1> HIDE DEF Slice
<1>2. /\ 0 * Slice = 0 /\ 1 * Slice = Slice
      /\ 2 * Slice = Slice + Slice /\ 3 * Slice = Slice + Slice + Slice
  BY <1>1
<1>3. i \in {0, 1, 2, 3} /\ j \in {0, 1, 2, 3}
  OBVIOUS
<1> QED
  BY <1>1, <1>2, <1>3

(* From an item to a later one: the slice of the first fits between them. *)
LEMMA LaterItem ==
  ASSUME NEW i \in 1 .. 3, NEW j \in i + 1 .. 4
  PROVE  /\ j \in 2 .. 4 /\ i < j
         /\ (i - 1) * Slice \in Nat /\ (j - 1) * Slice \in Nat
         /\ (i - 1) * Slice + Slice <= (j - 1) * Slice
<1>1. j \in 2 .. 4 /\ i - 1 \in 0 .. 3 /\ i \in 0 .. 3 /\ j - 1 \in 0 .. 3 /\ i <= j - 1
  OBVIOUS
<1>2. (i - 1) * Slice \in Nat /\ (j - 1) * Slice \in Nat /\ i * Slice <= (j - 1) * Slice
  BY <1>1, SlicesAdd
<1>3. (i - 1) * Slice + Slice = i * Slice
  <2>1. Slice \in Nat
    BY DEF Slice
  <2> HIDE DEF Slice
  <2>2. i \in {1, 2, 3}
    OBVIOUS
  <2> QED
    BY <2>1, <2>2
<1> QED
  BY <1>1, <1>2, <1>3

(* The verdict of the current item and of those skipped are all that changes. *)
LEMMA VerdictsOf ==
  ASSUME NEW i \in 1 .. 3, NEW j \in i + 1 .. 4, NEW k \in 1 .. 3,
         NEW old, NEW new, NEW verdict,
         (k < i) <=> (old # "Pending"), verdict # "Pending",
         new = IF k \in i + 1 .. j - 1 THEN "Fail" ELSE IF k = i THEN verdict ELSE old
  PROVE  (k < j) <=> (new # "Pending")
<1>1. CASE k < i
  BY <1>1
<1>2. CASE k = i
  BY <1>2
<1>3. CASE k > i /\ k < j
  BY <1>3
<1>4. CASE k >= j
  BY <1>4
<1> QED
  BY <1>1, <1>2, <1>3, <1>4

-----------------------------------------------------------------------------
(* The invariant. *)

Typed ==
  /\ now \in Clock /\ started \in Clock
  /\ phase \in {"idle", "poll", "console"}
  /\ active \in BOOLEAN /\ report_ready \in BOOLEAN
  /\ index \in 1 .. 4
  /\ results \in [Items -> Results]
  /\ run_age \in Nat

\* The items before the current one have a verdict, those from it on have none.
Progress ==
  active => /\ index \in Items /\ ~report_ready
            /\ \A i \in Items : (i < index) <=> (results[i] # "Pending")

Complete == report_ready => \A i \in Items : results[i] # "Pending"

\* A pass was earned.
Earned == \A i \in Items : results[i] \in {"Pass", "Warn"} => items[i].node \in shown

\* The age of the run, by the items that are through and the age of the current one.
Punctual ==
  active => /\ run_age <= (index - 1) * Slice + Elapsed(started)
            /\ Elapsed(started) <= IF phase = "poll" THEN Slice ELSE Timeout

RunInv == Typed /\ Progress /\ Complete /\ Punctual

(* start_next fails what it skips and keeps the verdicts before. *)
LEMMA StartNextMoves ==
  ASSUME NEW from \in 1 .. 4, NEW verdicts \in [Items -> Results], NEW at \in Clock,
         started \in Clock,
         StartNext(from, verdicts, at)
  PROVE  /\ index' \in from .. 4
         /\ results' = [i \in Items |->
                          IF i \in from .. index' - 1 THEN "Fail" ELSE verdicts[i]]
         /\ results' \in [Items -> Results]
         /\ active' \in BOOLEAN /\ report_ready' \in BOOLEAN
         /\ active' <=> index' \in Items
         /\ report_ready' <=> index' \notin Items
         /\ started' \in Clock
         /\ active' => started' = at
<1>1. /\ index' \in from .. 4
      /\ results' = [i \in Items |->
                       IF i \in from .. index' - 1 THEN "Fail" ELSE verdicts[i]]
      /\ active' = (index' \in Items) /\ report_ready' = (index' \notin Items)
      /\ started' = IF index' \in Items THEN at ELSE started
  BY ThreeItems DEF StartNext
<1>2. results' \in [Items -> Results] /\ started' \in Clock
  BY <1>1 DEF Results
<1>3. active' => started' = at
  BY <1>1
<1>4. /\ active' \in BOOLEAN /\ report_ready' \in BOOLEAN
      /\ active' <=> index' \in Items
      /\ report_ready' <=> index' \notin Items
  <2>1. active' \in BOOLEAN /\ (active' <=> index' \in Items)
    <3> DEFINE waits == index' \in Items
    <3>1. active' = waits /\ waits \in BOOLEAN
      BY <1>1
    <3> HIDE DEF waits
    <3>2. active' \in BOOLEAN /\ (active' <=> waits)
      BY <3>1
    <3> QED
      BY <3>2 DEF waits
  <2>2. report_ready' \in BOOLEAN /\ (report_ready' <=> index' \notin Items)
    BY <1>1, Zenon
  <2> QED
    BY <2>1, <2>2
<1> QED
  BY <1>1, <1>2, <1>3, <1>4

(* Judging the current item and going on to the next keeps the run in order, at whatever
   time within its slice that happens. *)
LEMMA JudgingKeeps ==
  ASSUME RunInv, active, NEW verdict \in Results \ {"Pending"},
         StartNext(index + 1, [results EXCEPT ![index] = verdict], now),
         UNCHANGED <<now, run_age>>, phase' \in {"idle", "poll", "console"}
  PROVE  RunInv'
<1> DEFINE verdicts == [results EXCEPT ![index] = verdict]
<1>1. index \in Items /\ index + 1 \in 1 .. 4 /\ verdicts \in [Items -> Results]
  BY ThreeItems DEF RunInv, Typed, Progress
<1>2. /\ index' \in index + 1 .. 4
      /\ results' = [i \in Items |->
                       IF i \in index + 1 .. index' - 1 THEN "Fail" ELSE verdicts[i]]
      /\ results' \in [Items -> Results]
      /\ active' \in BOOLEAN /\ report_ready' \in BOOLEAN
      /\ active' <=> index' \in Items
      /\ report_ready' <=> index' \notin Items
      /\ started' \in Clock
      /\ active' => started' = now
  <2> HIDE DEF verdicts
  <2>1. StartNext(index + 1, verdicts, now)
    BY DEF verdicts
  <2> QED
    BY <1>1, <2>1, StartNextMoves DEF RunInv, Typed
<1>3. Typed'
  BY <1>2 DEF RunInv, Typed
<1>4. \A i \in Items : (i < index') <=> (results'[i] # "Pending")
  <2> SUFFICES ASSUME NEW i \in Items PROVE (i < index') <=> (results'[i] # "Pending")
    OBVIOUS
  <2>1. (i < index) <=> (results[i] # "Pending")
    BY DEF RunInv, Progress
  <2>2. verdicts[i] = IF i = index THEN verdict ELSE results[i]
    BY DEF RunInv, Typed
  <2> HIDE DEF verdicts
  <2>3. results'[i] = IF i \in index + 1 .. index' - 1 THEN "Fail" ELSE verdicts[i]
    BY <1>2
  <2>4. i \in 1 .. 3 /\ index \in 1 .. 3 /\ index' \in index + 1 .. 4 /\ verdict # "Pending"
    BY <1>1, <1>2, ThreeItems
  <2>5. results'[i] = IF i \in index + 1 .. index' - 1 THEN "Fail"
                      ELSE IF i = index THEN verdict ELSE results[i]
    BY <2>2, <2>3, Zenon
  <2> QED
    <3> DEFINE old == results[i]  new == results'[i]
    <3>1. (i < index) <=> (old # "Pending")
      BY <2>1
    <3>2. new = IF i \in index + 1 .. index' - 1 THEN "Fail"
                ELSE IF i = index THEN verdict ELSE old
      BY <2>5
    <3> HIDE DEF old, new
    <3>3. (i < index') <=> (new # "Pending")
      <4> DEFINE j == index'
      <4>1. j \in index + 1 .. 4
        BY <2>4
      <4>2. new = IF i \in index + 1 .. j - 1 THEN "Fail"
                  ELSE IF i = index THEN verdict ELSE old
        BY <3>2
      <4> HIDE DEF j
      <4>3. (i < j) <=> (new # "Pending")
        BY <3>1, <4>1, <4>2, <2>4, VerdictsOf
      <4> QED
        BY <4>3 DEF j
    <3> QED
      BY <3>3 DEF new
<1>5. Progress' /\ Complete'
  <2>1. Progress'
    BY <1>2, <1>4 DEF Progress
  <2>2. ASSUME report_ready', NEW i \in Items PROVE results'[i] # "Pending"
    <3>1. index' = 4
      <4>1. index \in 1 .. 3 /\ index' \in index + 1 .. 4 /\ index' \notin 1 .. 3
        BY <1>1, <1>2, <2>2, ThreeItems
      <4>2. index' \in 2 .. 4
        BY <4>1, LaterItem
      <4> QED
        BY <4>1, <4>2
    <3>2. i < index'
      BY <3>1, ThreeItems
    <3> QED
      BY <3>2, <1>4
  <2>3. Complete'
    BY <2>2 DEF Complete
  <2> QED
    BY <2>1, <2>3
<1>6. Punctual'
  <2> SUFFICES ASSUME active'
               PROVE  /\ run_age' <= (index' - 1) * Slice + Elapsed(started)'
                      /\ Elapsed(started)' <= IF phase' = "poll" THEN Slice ELSE Timeout
    BY DEF Punctual
  <2>1. Elapsed(started)' = 0
    BY <1>2 DEF Elapsed, RunInv, Typed, Clock
  <2>2. run_age <= (index - 1) * Slice + Slice
    <3>1. Elapsed(started) <= Slice /\ Elapsed(started) \in Nat
      BY ClockSteps DEF RunInv, Typed, Punctual, Slice
    <3>2. (index - 1) * Slice \in Nat
      BY <1>1, ThreeItems, SlicesAdd
    <3>3. run_age <= (index - 1) * Slice + Elapsed(started)
      BY DEF RunInv, Punctual
    <3> QED
      BY <3>1, <3>2, <3>3 DEF RunInv, Typed, Slice
  <2>3. /\ (index - 1) * Slice + Slice <= (index' - 1) * Slice
        /\ (index' - 1) * Slice \in Nat /\ (index - 1) * Slice \in Nat
    BY <1>1, <1>2, ThreeItems, LaterItem
  <2> QED
    BY <2>1, <2>2, <2>3 DEF RunInv, Typed, Slice
<1> QED
  BY <1>3, <1>5, <1>6 DEF RunInv

LEMMA StartsRight == Init => RunInv /\ Earned
<1> SUFFICES ASSUME Init PROVE RunInv /\ Earned
  OBVIOUS
<1>1. Typed
  <2>1. 0 \in Clock
    BY DEF Clock
  <2>2. [i \in Items |-> "Pending"] \in [Items -> Results]
    BY DEF Results
  <2>3. 1 \in 1 .. 4 /\ 0 \in Nat
    OBVIOUS
  <2> QED
    BY <2>1, <2>2, <2>3 DEF Init, Typed
<1>2. Progress /\ Complete /\ Punctual
  BY DEF Init, Progress, Complete, Punctual
<1>3. Earned
  BY DEF Init, Earned
<1> QED
  BY <1>1, <1>2, <1>3 DEF RunInv

(* Time passes before a pass. *)
LEMMA WakeKeeps ==
  ASSUME RunInv, NEW d \in 0 .. MaxStep, Wake(d)
  PROVE  RunInv'
<1>1. now' \in Clock /\ phase' = "poll" /\ UNCHANGED runner
  BY ClockSteps DEF Wake, RunInv, Typed
<1>2. run_age' \in Nat /\ run_age' <= run_age + d
  <2>1. run_age \in Nat /\ AgeCap \in Nat
    BY ThreeItems DEF RunInv, Typed, AgeCap
  <2>2. run_age' = IF run_age + d < AgeCap THEN run_age + d ELSE AgeCap
    BY DEF Wake, Ageing
  <2> QED
    BY <2>1, <2>2
<1>3. Typed' /\ Progress' /\ Complete'
  BY <1>1, <1>2 DEF RunInv, Typed, Progress, Complete, runner
<1>4. ASSUME active'
      PROVE  /\ run_age' <= (index' - 1) * Slice + Elapsed(started)'
             /\ Elapsed(started)' <= Slice
  <2>1. /\ active /\ index' = index /\ started' = started
        /\ run_age <= (index - 1) * Slice + Elapsed(started) /\ Elapsed(started) <= Timeout
        /\ Elapsed(started) \in Nat
    BY <1>1, <1>4, ClockSteps DEF RunInv, Punctual, Wake, runner, Typed
  <2>2. Elapsed(started)' = Elapsed(started) + d
    <3>1. Elapsed(started) + d < ClockMod
      BY <2>1
    <3> QED
      BY <2>1, <3>1, ClockSteps DEF RunInv, Typed, Wake, Elapsed
  <2>3. (index - 1) * Slice \in Nat
    BY SlicesAdd DEF RunInv, Typed
  <2> HIDE DEF RunInv
  <2>4. Elapsed(started)' <= Slice
    BY <2>1, <2>2 DEF Slice
  <2>5. run_age' <= (index - 1) * Slice + Elapsed(started)'
    BY <1>2, <2>1, <2>2, <2>3 DEF RunInv, Typed
  <2> QED
    BY <2>1, <2>4, <2>5
<1>5. Punctual'
  BY <1>1, <1>4 DEF Punctual
<1> QED
  BY <1>3, <1>5 DEF RunInv

(* A pass that ends with no timeout ends within the timeout. *)
LEMMA ServiceKeeps ==
  ASSUME RunInv, Service
  PROVE  RunInv'
<1>1. CASE TimedOut
  BY <1>1, JudgingKeeps DEF Service, service, TimedOut, Results
<1>2. CASE ~TimedOut
  <2>1. UNCHANGED runner /\ UNCHANGED <<now, run_age>> /\ phase' = "console"
    BY <1>2 DEF Service, service
  <2>2. active => Elapsed(started) <= Timeout
    BY <1>2, ClockSteps DEF TimedOut, RunInv, Typed
  <2>3. Elapsed(started)' = Elapsed(started)
    BY <2>1 DEF Elapsed, runner
  <2> QED
    BY <2>1, <2>2, <2>3 DEF RunInv, Typed, Progress, Complete, Punctual, runner
<1> QED
  BY <1>1, <1>2

LEMMA DispatchKeeps ==
  ASSUME RunInv, NEW p \in Packets, Dispatch(p)
  PROVE  RunInv'
<1>1. CASE active /\ Matches(p)
  <2>1. PICK verdict \in Verdicts(p) :
          StartNext(index + 1, [results EXCEPT ![index] = verdict], now)
    BY <1>1 DEF Dispatch, observe
  <2>2. verdict \in Results \ {"Pending"}
    BY DEF Verdicts, Results
  <2> QED
    BY <1>1, <2>1, <2>2, JudgingKeeps DEF Dispatch, RunInv, Typed
<1>2. CASE ~(active /\ Matches(p))
  <2>1. UNCHANGED runner /\ UNCHANGED <<now, phase, run_age>>
    BY <1>2 DEF Dispatch, observe
  <2>2. Elapsed(started)' = Elapsed(started)
    BY <2>1 DEF Elapsed, runner
  <2> QED
    BY <2>1, <2>2 DEF RunInv, Typed, Progress, Complete, Punctual, runner
<1> QED
  BY <1>1, <1>2

LEMMA BeginKeeps ==
  ASSUME RunInv, NEW d \in 0 .. MaxStep, Begin(d)
  PROVE  RunInv'
<1> DEFINE none == [i \in Items |-> "Pending"]
<1>1. now' \in Clock /\ phase' = "idle" /\ run_age' = 0
  BY ClockSteps DEF Begin, RunInv, Typed
<1>2. /\ index' \in 1 .. 4
      /\ results' = [i \in Items |-> IF i \in 1 .. index' - 1 THEN "Fail" ELSE none[i]]
      /\ results' \in [Items -> Results]
      /\ active' \in BOOLEAN /\ report_ready' \in BOOLEAN
      /\ active' <=> index' \in Items
      /\ report_ready' <=> index' \notin Items
      /\ started' \in Clock
      /\ active' => started' = now'
  <2>1. none \in [Items -> Results]
    BY DEF Results
  <2> HIDE DEF none
  <2>2. StartNext(1, none, now')
    BY DEF Begin, none
  <2> QED
    BY <1>1, <2>1, <2>2, StartNextMoves DEF RunInv, Typed
<1>3. Typed'
  BY <1>1, <1>2 DEF Typed
<1>4. \A i \in Items : (i < index') <=> (results'[i] # "Pending")
  <2> SUFFICES ASSUME NEW i \in Items PROVE (i < index') <=> (results'[i] # "Pending")
    OBVIOUS
  <2>1. results'[i] = IF i \in 1 .. index' - 1 THEN "Fail" ELSE "Pending"
    BY <1>2
  <2>2. i \in 1 .. 3 /\ index' \in 1 .. 4
    BY <1>2, ThreeItems
  <2>3. i \in 1 .. index' - 1 <=> i < index'
    <3> DEFINE j == index'
    <3>1. j \in 1 .. 4
      BY <2>2
    <3> HIDE DEF j
    <3>2. i \in 1 .. j - 1 <=> i < j
      BY <2>2, <3>1
    <3> QED
      BY <3>2 DEF j
  <2> QED
    BY <2>1, <2>3
<1> HIDE DEF none
<1>5. Progress' /\ Complete'
  <2>1. Progress'
    BY <1>2, <1>4 DEF Progress
  <2>2. ASSUME report_ready', NEW i \in Items PROVE results'[i] # "Pending"
    <3>1. index' \in 1 .. 4 /\ index' \notin 1 .. 3 /\ i \in 1 .. 3
      BY <1>2, <2>2, ThreeItems
    <3>2. i < index'
      BY <3>1
    <3> QED
      BY <3>2, <1>4
  <2>3. Complete'
    BY <2>2 DEF Complete
  <2> QED
    BY <2>1, <2>3
<1>6. Punctual'
  <2>1. ASSUME active' PROVE Elapsed(started)' = 0
    <3>1. started' = now' /\ now' \in Int
      BY <1>1, <1>2, <2>1 DEF Clock
    <3> DEFINE t == now'
    <3>2. Elapsed(started)' = IF t >= t THEN t - t ELSE t - t + ClockMod
      BY <3>1 DEF Elapsed
    <3>3. t \in Int
      BY <3>1
    <3> HIDE DEF t
    <3> QED
      BY <3>2, <3>3
  <2>2. (index' - 1) * Slice \in Nat
    BY <1>2, SlicesAdd
  <2> QED
    BY <1>1, <2>1, <2>2 DEF Punctual, Slice
<1> QED
  BY <1>3, <1>5, <1>6 DEF RunInv

LEMMA StepKeeps == RunInv /\ [Next]_vars => RunInv'
<1> SUFFICES ASSUME RunInv, [Next]_vars PROVE RunInv'
  OBVIOUS
<1>1. CASE \E d \in 0 .. MaxStep : Wake(d) \/ Begin(d)
  BY <1>1, WakeKeeps, BeginKeeps
<1>2. CASE \E p \in Packets : Dispatch(p)
  BY <1>2, DispatchKeeps
<1>3. CASE Service
  BY <1>3, ServiceKeeps
<1>4. CASE Report \/ NoCommand \/ UNCHANGED vars
  <2>1. UNCHANGED <<now, active, index, started, results, run_age>>
    BY <1>4 DEF Report, NoCommand, vars, runner
  <2>2. Elapsed(started)' = Elapsed(started)
    BY <2>1 DEF Elapsed
  <2>3. /\ report_ready' \in BOOLEAN /\ (report_ready' => report_ready)
        /\ phase' \in {"idle", "poll", "console"} /\ (phase' = "poll" <=> phase = "poll")
    <3>1. CASE Report
      BY <3>1 DEF Report
    <3>2. CASE NoCommand
      BY <3>2 DEF NoCommand, runner, RunInv, Typed
    <3>3. CASE UNCHANGED vars
      BY <3>3 DEF vars, RunInv, Typed
    <3> QED
      BY <1>4, <3>1, <3>2, <3>3
  <2> QED
    BY <2>1, <2>2, <2>3 DEF RunInv, Typed, Progress, Complete, Punctual
<1> QED
  BY <1>1, <1>2, <1>3, <1>4 DEF Next

-----------------------------------------------------------------------------
(* Verdicts are earned. *)

(* A whole packet that a runner's item matches is one the decoders take. *)
LEMMA MatchedIsDecoded ==
  ASSUME RunInv, active, NEW p \in Packets, Matches(p), p.shape = "whole"
  PROVE  Decoded(p)
<1>1. index \in {1, 2, 3}
  BY ThreeItems DEF RunInv, Progress
<1> QED
  BY <1>1 DEF Matches, items, Decoded, decode_lighting_state,
              decode_northbridge_diagnostics, decode_security_state

(* A run passes on only what it has; it never makes up a pass. *)
LEMMA MovingOnEarns ==
  ASSUME NEW from \in 1 .. 4, NEW verdicts \in [Items -> Results], NEW at \in Clock,
         started \in Clock, StartNext(from, verdicts, at),
         \A i \in Items : verdicts[i] \in {"Pass", "Warn"} => items[i].node \in shown'
  PROVE  Earned'
<1> SUFFICES ASSUME NEW i \in Items, results'[i] \in {"Pass", "Warn"}
             PROVE  items[i].node \in shown'
  BY DEF Earned
<1>1. results'[i] = IF i \in from .. index' - 1 THEN "Fail" ELSE verdicts[i]
  BY StartNextMoves
<1>2. results'[i] = verdicts[i]
  BY <1>1
<1> QED
  BY <1>2

LEMMA EarningKeeps ==
  ASSUME "long" \notin Shapes, RunInv, Earned, [Next]_vars
  PROVE  Earned'
<1>1. ASSUME NEW p \in Packets, Dispatch(p), active, Matches(p)
      PROVE  Earned'
  <2>1. PICK verdict \in Verdicts(p) :
          StartNext(index + 1, [results EXCEPT ![index] = verdict], now)
    BY <1>1 DEF Dispatch, observe
  <2> DEFINE verdicts == [results EXCEPT ![index] = verdict]
  <2>2. index \in Items /\ index + 1 \in 1 .. 4 /\ verdict \in Results
        /\ results \in [Items -> Results]
    BY <1>1, ThreeItems DEF RunInv, Typed, Progress, Verdicts, Results
  <2>3. ASSUME NEW i \in Items, verdicts[i] \in {"Pass", "Warn"}
        PROVE  items[i].node \in shown'
    <3>1. CASE i = index
      <4>1. verdict \in {"Pass", "Warn"}
        BY <2>2, <2>3, <3>1
      <4>2. p.shape = "whole"
        BY <4>1 DEF Verdicts, Packets
      <4>3. p.source \in shown'
        BY <1>1, <4>2, MatchedIsDecoded DEF Dispatch
      <4> QED
        BY <1>1, <3>1, <4>3 DEF Matches
    <3>2. CASE i # index
      <4>1. results[i] \in {"Pass", "Warn"}
        BY <2>2, <2>3, <3>2
      <4>2. shown \subseteq shown'
        BY <1>1 DEF Dispatch
      <4> QED
        BY <4>1, <4>2 DEF Earned
    <3> QED
      BY <3>1, <3>2
  <2>4. verdicts \in [Items -> Results]
    BY <2>2
  <2> HIDE DEF verdicts
  <2>5. StartNext(index + 1, verdicts, now)
    BY <2>1 DEF verdicts
  <2> QED
    BY <2>2, <2>3, <2>4, <2>5, MovingOnEarns DEF RunInv, Typed
<1>2. ASSUME Service, TimedOut PROVE Earned'
  <2> DEFINE verdicts == [results EXCEPT ![index] = "Fail"]
  <2>1. index \in Items /\ index + 1 \in 1 .. 4 /\ results \in [Items -> Results]
    BY <1>2, ThreeItems DEF RunInv, Typed, Progress, TimedOut
  <2>2. verdicts \in [Items -> Results]
    BY <2>1 DEF Results
  <2>3. ASSUME NEW i \in Items, verdicts[i] \in {"Pass", "Warn"}
        PROVE  items[i].node \in shown'
    <3>1. results[i] \in {"Pass", "Warn"}
      BY <2>1, <2>3
    <3> QED
      BY <1>2, <3>1 DEF Earned, Service
  <2> HIDE DEF verdicts
  <2>4. StartNext(index + 1, verdicts, now)
    BY <1>2 DEF Service, service, verdicts
  <2> QED
    BY <2>1, <2>2, <2>3, <2>4, MovingOnEarns DEF RunInv, Typed
<1>3. ASSUME NEW d \in 0 .. MaxStep, Begin(d) PROVE Earned'
  <2> DEFINE none == [i \in Items |-> "Pending"]
  <2>1. none \in [Items -> Results] /\ now' \in Clock
    BY <1>3, ClockSteps DEF Results, Begin, RunInv, Typed
  <2>2. \A i \in Items : none[i] \in {"Pass", "Warn"} => items[i].node \in shown'
    OBVIOUS
  <2> HIDE DEF none
  <2>3. StartNext(1, none, now')
    BY <1>3 DEF Begin, none
  <2> QED
    BY <2>1, <2>2, <2>3, MovingOnEarns DEF RunInv, Typed
<1>4. ASSUME UNCHANGED <<results, shown>> PROVE Earned'
  BY <1>4 DEF Earned
<1>5. ASSUME NEW p \in Packets, Dispatch(p), ~(active /\ Matches(p)) PROVE Earned'
  <2>1. results' = results /\ shown \subseteq shown'
    BY <1>5 DEF Dispatch, observe, runner
  <2> QED
    BY <2>1 DEF Earned
<1>6. CASE Service /\ ~TimedOut
  BY <1>4, <1>6 DEF Service, service, runner
<1>7. CASE Report \/ NoCommand \/ UNCHANGED vars \/ \E d \in 0 .. MaxStep : Wake(d)
  BY <1>4, <1>7 DEF Report, NoCommand, vars, Wake, runner
<1> QED
  BY <1>1, <1>2, <1>3, <1>5, <1>6, <1>7 DEF Next

-----------------------------------------------------------------------------
(* Every reachable state of the self test is in order. *)
THEOREM Running == Spec => []RunInv
<1>1. Init => RunInv
  BY StartsRight
<1> QED
  BY <1>1, StepKeeps, PTL DEF Spec

(* SelfTestRunner: a run keeps to its time, whatever arrives, goes offline or cannot be
   written, and across clock wrap. *)
THEOREM RunsEnd == Spec => []RunIsBounded
<1>1. RunInv => RunIsBounded
  <2> SUFFICES ASSUME RunInv, phase # "poll", active
               PROVE  /\ index \in Items /\ results[index] = "Pending"
                      /\ run_age <= (index - 1) * Slice + Timeout
    BY DEF RunIsBounded, Slice
  <2>1. index \in Items /\ results[index] = "Pending"
    BY ThreeItems DEF RunInv, Progress
  <2>2. Elapsed(started) \in Nat /\ Elapsed(started) <= Timeout
    BY ClockSteps DEF RunInv, Typed, Punctual
  <2>3. (index - 1) * Slice \in Nat
    BY SlicesAdd DEF RunInv, Typed
  <2>4. run_age \in Nat /\ run_age <= (index - 1) * Slice + Elapsed(started)
    BY DEF RunInv, Typed, Punctual
  <2> QED
    BY <2>1, <2>2, <2>3, <2>4
<1> QED
  BY Running, <1>1, PTL

(* The report of a run leaves nothing open, and passes only nodes whose part of the
   snapshot was replaced during the run, as long as no node sends answers longer than
   the decoders expect. *)
THEOREM ReportsAreEarned ==
  ASSUME "long" \notin Shapes
  PROVE  Spec => []ReportIsEarned
<1>1. Init => RunInv /\ Earned
  BY StartsRight
<1>2. RunInv /\ Earned /\ [Next]_vars => RunInv' /\ Earned'
  BY StepKeeps, EarningKeeps
<1>3. RunInv /\ Earned => ReportIsEarned
  BY DEF RunInv, Typed, Complete, Earned, ReportIsEarned, Results
<1> QED
  BY <1>1, <1>2, <1>3, PTL DEF Spec
=============================================================================
