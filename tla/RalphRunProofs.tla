-------------------------- MODULE RalphRunProofs --------------------------
(***************************************************************************)
(* The safety of the ralph loop and of a run with its proposer, for every  *)
(* set of configs and tasks and every budget.  The inductive invariant of  *)
(* the loop adds to the type invariant what a location of the loop knows:  *)
(* where the snapshot is the file, where budget is left, and that the last *)
(* report is about the config in effect until an improvement is counted in *)
(* the round.  A run implements the loop: sessions and trials are stutters *)
(* of it until they come to an outcome.                                    *)
(***************************************************************************)
EXTENDS RalphRun, TLAPS

\* What the run knows at its locations.
AtLocation ==
  /\ pc = "propose" => /\ original = config
                       /\ itersUsed < MaxIters /\ attempt < MaxPerFailure
  /\ pc = "verify" => totalImprovements < itersUsed /\ runsLeft > 0
  /\ pc = "done" => roundImprovements = 0

\* Until the round improves something, the last report is about the config in
\* effect.
ReportIsOfKept ==
  roundImprovements = 0 /\ reported # {} =>
    reported = {Kept} /\ failures \ Flaky = (Tasks \ works[Kept]) \ Flaky

RInv == RalphTypeOK /\ AtLocation /\ ReportIsOfKept

-----------------------------------------------------------------------------
\* The first state satisfies the invariant (run before its first suite run).
LEMMA RalphInit == Init => RInv
  <1> SUFFICES ASSUME Init PROVE RInv
    OBVIOUS
  <1> USE RalphAssumption DEF Init
  <1>1. RalphTypeOK
    BY DEF RalphTypeOK, Locations
  <1>2. AtLocation
    BY DEF AtLocation
  <1>3. ReportIsOfKept
    BY DEF ReportIsOfKept
  <1>4. QED
    BY <1>1, <1>2, <1>3 DEF RInv

\* Every step of the loop keeps the types and the budgets.
LEMMA RalphTypeStep == RInv /\ [Next]_vars => RalphTypeOK'
  <1> SUFFICES ASSUME RInv, [Next]_vars PROVE RalphTypeOK'
    OBVIOUS
  <1> USE RalphAssumption DEF RInv, RalphTypeOK, AtLocation, Locations
  <1>1. CASE RunSuite
    BY <1>1 DEF RunSuite, AfterSuite, FailingSets
  <1>2. CASE TakeFailure
    BY <1>2 DEF TakeFailure
  <1>3. CASE EndRound
    BY <1>3 DEF EndRound
  <1>4. CASE NoProposal
    BY <1>4 DEF NoProposal, CountAttempt, Again
  <1>5. CASE Propose
    BY <1>5 DEF Propose, CountAttempt
  <1>6. CASE VerifyPasses
    BY <1>6 DEF VerifyPasses
  <1>7. CASE VerifyFails
    BY <1>7 DEF VerifyFails
  <1>8. CASE Rollback
    BY <1>8 DEF Rollback, Restored, Again
  <1>9. CASE Interrupt
    BY <1>9 DEF Interrupt
  <1>10. CASE UNCHANGED vars
    BY <1>10 DEF vars
  <1>11. QED
    BY <1>1, <1>2, <1>3, <1>4, <1>5, <1>6, <1>7, <1>8, <1>9, <1>10 DEF Next, Step

\* Every step of the loop arrives where the location's knowledge holds.
LEMMA LocationStep == RInv /\ [Next]_vars => AtLocation'
  <1> SUFFICES ASSUME RInv, [Next]_vars PROVE AtLocation'
    OBVIOUS
  <1> USE RalphAssumption DEF RInv, RalphTypeOK, AtLocation
  <1>1. CASE RunSuite
    BY <1>1 DEF RunSuite, AfterSuite
  <1>2. CASE TakeFailure
    BY <1>2 DEF TakeFailure
  <1>3. CASE EndRound
    BY <1>3 DEF EndRound, RoundGoesOn
  <1>4. CASE NoProposal
    BY <1>4 DEF NoProposal, CountAttempt, Again
  <1>5. CASE Propose
    BY <1>5 DEF Propose, CountAttempt
  <1>6. CASE VerifyPasses
    BY <1>6 DEF VerifyPasses
  <1>7. CASE VerifyFails
    BY <1>7 DEF VerifyFails
  <1>8. CASE Rollback
    BY <1>8 DEF Rollback, Restored, Again
  <1>9. CASE Interrupt
    BY <1>9 DEF Interrupt
  <1>10. CASE UNCHANGED vars
    BY <1>10 DEF vars
  <1>11. QED
    BY <1>1, <1>2, <1>3, <1>4, <1>5, <1>6, <1>7, <1>8, <1>9, <1>10 DEF Next, Step

\* The config in effect changes only when an improvement is counted: writing a
\* candidate and rolling it back do not change it.
LEMMA KeptStep ==
  ASSUME RInv, [Next]_vars, totalImprovements' = totalImprovements
  PROVE  Kept' = Kept
  <1> USE RalphAssumption DEF RInv, RalphTypeOK, AtLocation, Kept, Verifying
  <1>1. CASE RunSuite
    BY <1>1 DEF RunSuite, AfterSuite
  <1>2. CASE TakeFailure
    BY <1>2 DEF TakeFailure
  <1>3. CASE EndRound
    BY <1>3 DEF EndRound
  <1>4. CASE NoProposal
    BY <1>4 DEF NoProposal, Again
  <1>5. CASE Propose
    BY <1>5 DEF Propose
  <1>6. CASE VerifyPasses
    BY <1>6 DEF VerifyPasses
  <1>7. CASE VerifyFails
    BY <1>7 DEF VerifyFails
  <1>8. CASE Rollback
    BY <1>8 DEF Rollback, Restored, Again
  <1>9. CASE Interrupt
    BY <1>9 DEF Interrupt
  <1>10. CASE UNCHANGED vars
    BY <1>10 DEF vars
  <1>11. QED
    BY <1>1, <1>2, <1>3, <1>4, <1>5, <1>6, <1>7, <1>8, <1>9, <1>10 DEF Next, Step

\* A step other than a suite run leaves the report alone, and the count of the
\* round moves with the total.
LEMMA ReportStands ==
  ASSUME RInv, [Next]_vars, ~RunSuite
  PROVE  /\ UNCHANGED <<works, failures, reported>>
         /\ \/ UNCHANGED <<roundImprovements, totalImprovements>>
            \/ roundImprovements' = roundImprovements + 1
  BY DEF Next, Step, TakeFailure, EndRound, NoProposal, Propose, VerifyPasses,
         VerifyFails, Rollback, Interrupt, vars

\* The report stays current until an improvement is counted.
LEMMA ReportStep == RInv /\ [Next]_vars => ReportIsOfKept'
  <1> SUFFICES ASSUME RInv, [Next]_vars PROVE ReportIsOfKept'
    OBVIOUS
  <1>1. CASE RunSuite
    BY <1>1 DEF RunSuite, AfterSuite, FailingSets, ReportIsOfKept, Kept, Verifying
  <1>2. CASE ~RunSuite
    <2>1. CASE UNCHANGED <<roundImprovements, totalImprovements>>
      <3>1. Kept' = Kept
        BY <2>1, KeptStep
      <3>2. QED
        BY <1>2, <2>1, <3>1, ReportStands DEF RInv, ReportIsOfKept
    <2>2. CASE roundImprovements' = roundImprovements + 1
      <3>1. roundImprovements' # 0
        BY <2>2, RalphAssumption DEF RInv, RalphTypeOK
      <3>2. QED
        BY <3>1 DEF ReportIsOfKept
    <2>3. QED
      BY <1>2, <2>1, <2>2, ReportStands
  <1>3. QED
    BY <1>1, <1>2

\* The invariant holds throughout every run of the loop.
THEOREM RalphInductive == Spec => []RInv
  <1>1. RInv /\ [Next]_vars => RInv'
    BY RalphTypeStep, LocationStep, ReportStep DEF RInv
  <1>2. QED
    BY RalphInit, <1>1, PTL DEF Spec

\* Counters stay within max_iters, max_iters_per_failure and verify_runs, and
\* no more improvements are counted than attempts were made.
THEOREM RalphTypeCorrect == Spec => []RalphTypeOK
  <1>1. RInv => RalphTypeOK
    BY DEF RInv
  <1>2. QED
    BY RalphInductive, <1>1, PTL

\* The result of a finished run (final_failed, remaining_failures) is about the
\* config it leaves behind, whichever way the run ended: clean, out of budget in
\* the middle of a round, or without an improvement.
THEOREM ReportsTheFinalConfig == Spec => []FinalReportIsCurrent
  <1>1. RInv => FinalReportIsCurrent
    BY DEF RInv, AtLocation, ReportIsOfKept, FinalReportIsCurrent, Kept, Verifying
  <1>2. QED
    BY RalphInductive, <1>1, PTL

\* The loop implements HarnessTuning: rejected candidates, failed proposals,
\* lost reports and interruptions leave the config in effect as it was, and each
\* change of it is one counted improvement within the budget.
THEOREM LoopTunesInPlace == Spec => TunesInPlace
  <1> DEFINE over == pc \in {"done", "stopped", "dirty"}
             tuned == <<Kept, totalImprovements, over>>
  <1>1. Init => Tuning!TuningInit
    BY DEF Init, Tuning!TuningInit, Kept, Verifying
  <1>2. RInv /\ [Next]_vars => [Tuning!TuningNext]_tuned
    <2> SUFFICES ASSUME RInv, [Next]_vars PROVE Tuning!TuningNext \/ UNCHANGED tuned
      OBVIOUS
    <2> USE DEF Tuning!TuningNext, Tuning!Finish, RInv, RalphTypeOK, AtLocation
    <2>1. CASE VerifyPasses
      <3>1. CASE runsLeft > 1
        BY <2>1, <3>1, KeptStep DEF VerifyPasses
      <3>2. CASE ~(runsLeft > 1)
        <4>1. /\ ~over /\ ~over'
              /\ Kept' \in Configs
              /\ totalImprovements' = totalImprovements + 1
          BY <2>1, <3>2 DEF VerifyPasses, Kept, Verifying
        <4>2. totalImprovements < MaxIters
          BY <2>1, RalphAssumption DEF VerifyPasses
        <4>3. QED
          BY <4>1, <4>2 DEF Tuning!Improve
      <3>3. QED
        BY <3>1, <3>2
    <2>2. CASE ~VerifyPasses
      <3>1. totalImprovements' = totalImprovements
        BY <2>2 DEF Next, Step, RunSuite, TakeFailure, EndRound, NoProposal, Propose,
                    VerifyFails, Rollback, Interrupt, vars
      <3>2. Kept' = Kept
        BY <3>1, KeptStep
      <3>3. ~over \/ over' = over
        BY <2>2 DEF Next, Step, RunSuite, TakeFailure, EndRound, NoProposal, Propose,
                    VerifyFails, Rollback, Interrupt, vars
      <3>4. QED
        BY <3>1, <3>2, <3>3
    <2>3. QED
      BY <2>1, <2>2
  <1>3. QED
    BY <1>1, <1>2, RalphInductive, PTL DEF Spec, TunesInPlace, Tuning!TuningSpec

-----------------------------------------------------------------------------
(* A run with its proposer *)

LEMMA RunInitImplies == RunInit => Init
BY DEF RunInit

\* Every step of a run is a step of the loop or leaves its variables alone.
LEMMA RunStepImplies == RunNext => [Next]_vars
<1> SUFFICES ASSUME RunNext PROVE Next \/ UNCHANGED vars
  OBVIOUS
<1>1. CASE LoopStep
  BY <1>1 DEF LoopStep, Next, Step
<1>2. CASE BuildFails \/ Stops
  BY <1>2 DEF BuildFails, Stops, Next
<1>3. CASE Build \/ CreateAgent \/ AgentWrites \/ Answers \/ TrialStarts \/ Registers
  BY <1>3 DEF Build, CreateAgent, AgentWrites, Answers, TrialStarts, Registers
<1>4. CASE SessionFails \/ Declines \/ Unparsable \/ TrialRaises
  BY <1>4 DEF SessionFails, Declines, Unparsable, TrialRaises, Next, Step
<1>5. CASE TrialSucceeds
  BY <1>5 DEF TrialSucceeds, Next, Step
<1> QED
  BY <1>1, <1>2, <1>3, <1>4, <1>5 DEF RunNext, AttemptStep

\* The run implements the loop (ralph.py's _propose_fix under base.py's run).
THEOREM RunImplementsLoop == RunSpec => Spec
<1>1. [RunNext]_runVars => [Next]_vars
  BY RunStepImplies DEF runVars
<1> QED
  BY RunInitImplies, <1>1, PTL DEF RunSpec, Spec

\* A run whose sessions and trials may fail anywhere tunes the file in place
\* (base.py's rollback of every rejected candidate).
THEOREM RunTunesInPlace == RunSpec => TunesInPlace
BY RunImplementsLoop, LoopTunesInPlace, PTL

\* A finished run's report is about the config it leaves (base.py's last suite run).
THEOREM RunReportsTheFinalConfig == RunSpec => []FinalReportIsCurrent
BY RunImplementsLoop, ReportsTheFinalConfig, PTL

-----------------------------------------------------------------------------
(* Attempts leave no trace.  Between trials nothing is tracked; in a trial, *)
(* what is remembered is what the registry held before it.                  *)

Quiet ==
  /\ impl = "original" /\ profiles = Unaltered
  /\ touched = {} /\ prior = [k \in {} |-> {}]

Tracked ==
  /\ profiles = [k \in DOMAIN profiles |-> profiles[k]]
  /\ DOMAIN profiles = DOMAIN Unaltered \cup touched
  /\ \A k \in DOMAIN Unaltered \ touched : profiles[k] = Unaltered[k]
  /\ prior = [k \in touched \cap DOMAIN Unaltered |-> Unaltered[k]]

Placed ==
  /\ phase # "idle" => pc = "propose"
  /\ pc # "stopped" => workspaces = IF phase \in {"session", "agent"} THEN 1 ELSE 0

TraceInv ==
  /\ phase = "trial" => Tracked
  /\ phase # "trial" => Quiet
  /\ Placed

\* The registry before any candidate is a function on its own domain.
LEMMA UnalteredIsFunction == Unaltered = [k \in DOMAIN Unaltered |-> Unaltered[k]]
BY RunAssumption DEF Unaltered

\* What the finally restores after a trial is the registry before it.
LEMMA RestoreIsExact == Tracked /\ RestoreProfiles => Quiet'
<1> SUFFICES ASSUME Tracked, RestoreProfiles PROVE Quiet'
  OBVIOUS
<1>1. Unaltered' = Unaltered
  BY DEF RestoreProfiles, Unaltered
<1>2. DOMAIN prior = touched \cap DOMAIN Unaltered
  BY DEF Tracked
<1> DEFINE left == Unregistered(profiles, touched \ DOMAIN prior)
<1>3. DOMAIN left = DOMAIN Unaltered
  BY <1>2 DEF Tracked, Unregistered
<1>4. profiles' = [k \in DOMAIN left |-> IF k \in DOMAIN prior THEN prior[k] ELSE left[k]]
  BY DEF RestoreProfiles
<1>5. ASSUME NEW k \in DOMAIN Unaltered
      PROVE  (IF k \in DOMAIN prior THEN prior[k] ELSE left[k]) = Unaltered[k]
  BY <1>2, <1>3 DEF Tracked, Unregistered
<1>6. profiles' = [k \in DOMAIN Unaltered |-> Unaltered[k]]
  BY <1>3, <1>4, <1>5
<1> QED
  BY <1>1, <1>6, UnalteredIsFunction DEF Quiet, RestoreProfiles

\* After a registration prior still holds what each touched profile was before the trial.
LEMMA RegisterIsTracked == TraceInv /\ Registers => Tracked'
<1> SUFFICES ASSUME TraceInv, Registers PROVE Tracked'
  OBVIOUS
<1> DEFINE k0 == Head(calls).key
           old == IF k0 \in DOMAIN profiles THEN profiles[k0] ELSE {}
<1>1. Tracked /\ Unaltered' = Unaltered
  BY DEF Registers, TraceInv, Unaltered
<1>2. /\ prior' = Prior(k0)
      /\ touched' = touched \cup {k0}
      /\ profiles' = With(profiles, k0, old \cup Head(calls).parts)
  BY DEF Registers
<1>3. /\ profiles' = [k \in DOMAIN profiles' |-> profiles'[k]]
      /\ DOMAIN profiles' = DOMAIN profiles \cup {k0}
      /\ \A k \in DOMAIN profiles \ {k0} : profiles'[k] = profiles[k]
  BY <1>2 DEF With
<1>4. prior' = [k \in touched' \cap DOMAIN Unaltered |-> Unaltered[k]]
  <2>1. CASE k0 \notin touched /\ k0 \in DOMAIN profiles
    <3>1. k0 \in DOMAIN Unaltered /\ profiles[k0] = Unaltered[k0]
      BY <1>1, <2>1 DEF Tracked
    <3>2. prior' = With(prior, k0, Unaltered[k0])
      BY <1>2, <2>1, <3>1 DEF Prior
    <3>3. DOMAIN prior = touched \cap DOMAIN Unaltered
      BY <1>1 DEF Tracked
    <3>4. \A k \in touched \cap DOMAIN Unaltered : prior[k] = Unaltered[k]
      BY <1>1 DEF Tracked
    <3>5. DOMAIN prior \cup {k0} = touched' \cap DOMAIN Unaltered
      BY <1>2, <3>1, <3>3
    <3> QED
      BY <2>1, <3>2, <3>3, <3>4, <3>5 DEF With
  <2>2. CASE ~(k0 \notin touched /\ k0 \in DOMAIN profiles)
    <3>1. prior' = prior
      BY <1>2, <2>2 DEF Prior
    <3>2. touched' \cap DOMAIN Unaltered = touched \cap DOMAIN Unaltered
      BY <1>1, <1>2, <2>2 DEF Tracked
    <3> QED
      BY <1>1, <3>1, <3>2 DEF Tracked
  <2> QED
    BY <2>1, <2>2
<1> QED
  BY <1>1, <1>2, <1>3, <1>4 DEF Tracked

\* The trace's invariant holds at the start.
LEMMA TraceInit == RunInit => TraceInv
BY DEF RunInit, Init, TraceInv, Quiet, Placed

\* Every step of a run keeps the trace's invariant.
LEMMA TraceNext == TraceInv /\ [RunNext]_runVars => TraceInv'
<1> SUFFICES ASSUME TraceInv, [RunNext]_runVars PROVE TraceInv'
  OBVIOUS
<1>1. CASE LoopStep
  BY <1>1 DEF LoopStep, TraceInv, Quiet, Placed, Tracked, Unaltered, sessionVars, registryVars,
              RunSuite, TakeFailure, EndRound, VerifyPasses, VerifyFails, Rollback, AfterSuite
<1>2. CASE Build
  BY <1>2 DEF Build, TraceInv, Quiet, Placed, Unaltered, vars, registryVars
<1>3. CASE BuildFails
  BY <1>3 DEF BuildFails, Interrupt, TraceInv, Quiet, Placed, Unaltered, registryVars
<1>4. CASE CreateAgent
  BY <1>4 DEF CreateAgent, TraceInv, Quiet, Placed, Unaltered, vars
<1>5. CASE AgentWrites
  BY <1>5 DEF AgentWrites, TraceInv, Quiet, Placed, Unaltered, vars, registryVars
<1>6. CASE SessionFails \/ Declines
  BY <1>6 DEF SessionFails, Declines, NoProposal, LeaveWorkspace, TraceInv, Quiet, Placed,
              Unaltered, Again, registryVars
<1>7. CASE Answers
  BY <1>7 DEF Answers, LeaveWorkspace, TraceInv, Quiet, Placed, Unaltered, vars, registryVars
<1>8. CASE Unparsable
  BY <1>8 DEF Unparsable, NoProposal, TraceInv, Quiet, Placed, Unaltered, Again, registryVars
<1>9. CASE TrialStarts
  <2>1. Quiet /\ Unaltered' = Unaltered /\ phase' = "trial"
    BY <1>9 DEF TrialStarts, TraceInv, Unaltered
  <2>2. Tracked'
    BY <1>9, <2>1, UnalteredIsFunction DEF TrialStarts, Quiet, Tracked
  <2> QED
    BY <1>9, <2>1, <2>2 DEF TrialStarts, TraceInv, Placed, vars
<1>10. CASE Registers
  BY <1>10, RegisterIsTracked DEF Registers, TraceInv, Placed, vars, sessionVars
<1>11. CASE TrialSucceeds \/ TrialRaises
  <2>1. phase = "trial" /\ phase' = "idle" /\ RestoreProfiles
    BY <1>11 DEF TrialSucceeds, TrialRaises
  <2>2. Quiet'
    BY <2>1, RestoreIsExact DEF TraceInv
  <2>3. Placed'
    BY <1>11 DEF TrialSucceeds, TrialRaises, Propose, NoProposal, TraceInv, Placed, Again
  <2> QED
    BY <2>1, <2>2, <2>3 DEF TraceInv
<1>12. CASE Stops
  <2>1. Quiet'
    <3>1. CASE phase = "trial"
      BY <1>12, <3>1, RestoreIsExact DEF Stops, TraceInv
    <3>2. CASE phase # "trial"
      BY <1>12, <3>2 DEF Stops, TraceInv, Quiet, Unaltered, registryVars
    <3> QED
      BY <3>1, <3>2
  <2>2. Placed'
    BY <1>12 DEF Stops, Interrupt, LeaveWorkspace, TraceInv, Placed
  <2> QED
    BY <1>12, <2>1, <2>2 DEF Stops, TraceInv
<1>13. CASE UNCHANGED runVars
  BY <1>13 DEF runVars, vars, sessionVars, registryVars, TraceInv, Quiet, Tracked, Placed,
               Unaltered
<1> QED
  BY <1>1, <1>2, <1>3, <1>4, <1>5, <1>6, <1>7, <1>8, <1>9, <1>10, <1>11, <1>12, <1>13
     DEF RunNext, AttemptStep

\* Whatever a session or a trial comes to, the registry is restored to what it
\* was and the workspace is gone (_trial_register's and _propose_fix's finally).
THEOREM AttemptsLeaveNoTrace == RunSpec => []AttemptLeavesNoTrace
<1>1. TraceInv => AttemptLeavesNoTrace
  BY DEF TraceInv, AttemptLeavesNoTrace, Quiet, Placed
<1> QED
  BY <1>1, TraceInit, TraceNext, PTL DEF RunSpec

-----------------------------------------------------------------------------
(* Every step of a run uses something up: an iteration of the budget, else a *)
(* place of the loop on the way to the next attempt, else a phase of the     *)
(* attempt, else a turn of the session or a registration of the candidate.   *)

Registrations == [key : Keys, parts : SUBSET Parts]

RunTypeOK ==
  /\ phase \in {"idle", "session", "agent", "validate", "trial"}
  /\ turns \in 0..MaxTurns
  /\ draft \in Contents
  /\ calls \in Seq(Registrations)

\* How far the loop is from the next attempt, or from its end.
LoopLeft ==
  CASE pc = "verify" -> 5 + runsLeft
    [] pc = "rollback" -> 5
    [] pc = "next" -> IF roundImprovements > 0 THEN 4 ELSE 2
    [] pc = "suite" -> 3
    [] pc = "propose" -> 1
    [] OTHER -> 0

PhasesLeft ==
  CASE phase = "idle" -> 5 [] phase = "session" -> 4 [] phase = "agent" -> 3
    [] phase = "validate" -> 2 [] OTHER -> 1

InPhaseLeft == IF phase = "trial" THEN Len(calls) ELSE MaxTurns - turns

Left == <<MaxIters - itersUsed, LoopLeft, PhasesLeft, InPhaseLeft>>

\* The order of such tuples, in which nothing goes down forever.
Lower(m, n) ==
  \/ m[1] < n[1]
  \/ m[1] = n[1] /\ m[2] < n[2]
  \/ m[1] = n[1] /\ m[2] = n[2] /\ m[3] < n[3]
  \/ m[1] = n[1] /\ m[2] = n[2] /\ m[3] = n[3] /\ m[4] < n[4]

\* Before the first attempt there is no session and no trial.
LEMMA RunTypeInit == RunInit => RunTypeOK
BY RunAssumption DEF RunInit, Init, RunTypeOK, Contents

\* A session keeps to its turns and a trial to the registrations of its candidate.
LEMMA RunTypeStep == RInv /\ RunTypeOK /\ [RunNext]_runVars => RunTypeOK'
<1> SUFFICES ASSUME RInv, RunTypeOK, [RunNext]_runVars PROVE RunTypeOK'
  OBVIOUS
<1> USE RunAssumption DEF RunTypeOK
<1>1. CASE LoopStep \/ UNCHANGED runVars
  BY <1>1 DEF LoopStep, runVars, sessionVars, registryVars
<1>2. CASE Build
  BY <1>2 DEF Build, registryVars, RInv, RalphTypeOK, Contents
<1>3. CASE BuildFails \/ SessionFails \/ Declines \/ Answers \/ Unparsable \/ CreateAgent
  BY <1>3 DEF BuildFails, SessionFails, Declines, Answers, Unparsable, CreateAgent, registryVars
<1>4. CASE AgentWrites
  BY <1>4 DEF AgentWrites, registryVars
<1>5. CASE TrialStarts
  <2>1. draft \in Configs \cup Broken
    BY <1>5 DEF TrialStarts, Contents
  <2>2. CallsOf[draft] \in Seq(Registrations)
    BY <2>1 DEF Registrations
  <2> QED
    BY <1>5, <2>2 DEF TrialStarts
<1>6. CASE Registers
  BY <1>6 DEF Registers, sessionVars
<1>7. CASE TrialSucceeds \/ TrialRaises
  BY <1>7 DEF TrialSucceeds, TrialRaises, RestoreProfiles
<1>8. CASE Stops
  <2>1. calls' \in Seq(Registrations)
    <3>1. CASE phase = "trial"
      BY <1>8, <3>1 DEF Stops, RestoreProfiles
    <3>2. CASE phase # "trial"
      BY <1>8, <3>2 DEF Stops, registryVars
    <3> QED
      BY <3>1, <3>2
  <2>2. phase' = "idle" /\ turns' = turns /\ draft' = draft
    BY <1>8 DEF Stops
  <2> QED
    BY <2>1, <2>2
<1> QED
  BY <1>1, <1>2, <1>3, <1>4, <1>5, <1>6, <1>7, <1>8 DEF RunNext, AttemptStep

\* Left is a tuple of natural numbers.
LEMMA LeftIsNat ==
  RInv /\ RunTypeOK =>
    MaxIters - itersUsed \in Nat /\ LoopLeft \in Nat /\ PhasesLeft \in Nat /\ InPhaseLeft \in Nat
<1> SUFFICES ASSUME RInv, RunTypeOK
             PROVE  /\ MaxIters - itersUsed \in Nat /\ LoopLeft \in Nat
                    /\ PhasesLeft \in Nat /\ InPhaseLeft \in Nat
  OBVIOUS
<1> USE RalphAssumption, RunAssumption DEF RInv, RalphTypeOK, RunTypeOK
<1>1. MaxIters - itersUsed \in Nat
  OBVIOUS
<1>2. LoopLeft \in Nat
  BY DEF LoopLeft
<1>3. PhasesLeft \in Nat
  BY DEF PhasesLeft
<1>4. InPhaseLeft \in Nat
  BY DEF InPhaseLeft
<1> QED
  BY <1>1, <1>2, <1>3, <1>4

\* An attempt that comes to an outcome has used an iteration.
LEMMA AttemptUsesIteration == RInv /\ CountAttempt => MaxIters - itersUsed' < MaxIters - itersUsed
BY RalphAssumption DEF RInv, RalphTypeOK, CountAttempt

\* Between two attempts the loop goes forward, and an interrupted one is at its end.
LEMMA LoopGoesOn ==
  ASSUME RInv, \/ RunSuite \/ TakeFailure \/ EndRound \/ VerifyPasses \/ VerifyFails \/ Rollback
               \/ Interrupt
  PROVE  itersUsed' = itersUsed /\ LoopLeft' < LoopLeft
<1> USE RalphAssumption DEF RInv, RalphTypeOK, AtLocation, LoopLeft
<1>1. CASE RunSuite
  BY <1>1 DEF RunSuite, AfterSuite
<1>2. CASE TakeFailure
  BY <1>2 DEF TakeFailure
<1>3. CASE EndRound
  BY <1>3 DEF EndRound, RoundGoesOn
<1>4. CASE VerifyPasses
  BY <1>4 DEF VerifyPasses
<1>5. CASE VerifyFails
  BY <1>5 DEF VerifyFails
<1>6. CASE Rollback
  BY <1>6 DEF Rollback, Again
<1>7. CASE Interrupt
  BY <1>7 DEF Interrupt
<1> QED
  BY <1>1, <1>2, <1>3, <1>4, <1>5, <1>6, <1>7

\* Within an attempt the phases follow each other, and none goes on for ever.
LEMMA AttemptGoesOn ==
  ASSUME RunTypeOK,
         Build \/ CreateAgent \/ AgentWrites \/ Answers \/ TrialStarts \/ Registers
  PROVE  /\ itersUsed' = itersUsed /\ LoopLeft' = LoopLeft
         /\ PhasesLeft' < PhasesLeft \/ (PhasesLeft' = PhasesLeft /\ InPhaseLeft' < InPhaseLeft)
<1>1. UNCHANGED vars
  BY DEF Build, CreateAgent, AgentWrites, Answers, TrialStarts, Registers
<1>2. itersUsed' = itersUsed /\ LoopLeft' = LoopLeft
  BY <1>1 DEF vars, LoopLeft
<1>3. CASE Build \/ CreateAgent \/ Answers \/ TrialStarts
  BY <1>2, <1>3 DEF Build, CreateAgent, Answers, TrialStarts, PhasesLeft
<1>4. CASE AgentWrites
  BY <1>2, <1>4, RunAssumption DEF AgentWrites, PhasesLeft, InPhaseLeft, RunTypeOK
<1>5. CASE Registers
  <2>1. Len(calls') < Len(calls)
    BY <1>5 DEF Registers, RunTypeOK
  <2> QED
    BY <1>2, <1>5, <2>1 DEF Registers, sessionVars, PhasesLeft, InPhaseLeft
<1> QED
  BY <1>2, <1>3, <1>4, <1>5

\* Every step of a run leaves less to be done.
LEMMA RunGoesDown == RInv /\ RunTypeOK /\ [RunNext]_runVars => [Lower(Left', Left)]_runVars
<1> SUFFICES ASSUME RInv, RunTypeOK, RunNext PROVE Lower(Left', Left)
  OBVIOUS
<1> USE DEF Lower, Left
<1>1. CASE LoopStep \/ BuildFails \/ Stops
  <2>1. itersUsed' = itersUsed /\ LoopLeft' < LoopLeft
    BY <1>1, LoopGoesOn DEF LoopStep, BuildFails, Stops
  <2> QED
    BY <2>1
<1>2. CASE SessionFails \/ Declines \/ Unparsable \/ TrialSucceeds \/ TrialRaises
  <2>1. CountAttempt
    BY <1>2 DEF SessionFails, Declines, Unparsable, TrialSucceeds, TrialRaises, NoProposal, Propose
  <2> QED
    BY <2>1, AttemptUsesIteration
<1>3. CASE Build \/ CreateAgent \/ AgentWrites \/ Answers \/ TrialStarts \/ Registers
  BY <1>3, AttemptGoesOn
<1> QED
  BY <1>1, <1>2, <1>3 DEF RunNext, AttemptStep

\* No run goes on for ever, whatever the evals say, the proposer does and the
\* candidates register: each step of it takes a tuple of natural numbers down, in
\* the order of which nothing goes down forever.  This is the safety part of
\* Terminates; that a run which is not over can take a step is left to fairness.
THEOREM RunUsesUp ==
  RunSpec => /\ [](Left \in Nat \X Nat \X Nat \X Nat)
             /\ [][Lower(Left', Left)]_runVars
<1>1. RInv /\ RunTypeOK => Left \in Nat \X Nat \X Nat \X Nat
  BY LeftIsNat DEF Left
<1>2. RunSpec => []RInv
  BY RunImplementsLoop, RalphInductive, PTL
<1>3. RunSpec => []RunTypeOK
  BY <1>2, RunTypeInit, RunTypeStep, PTL DEF RunSpec
<1> QED
  BY <1>1, <1>2, <1>3, RunGoesDown, PTL DEF RunSpec
=============================================================================
