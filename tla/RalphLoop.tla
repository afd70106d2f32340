----------------------------- MODULE RalphLoop -----------------------------
(***************************************************************************)
(* The ralph loop of hep (IterativeFixOptimizer.run and _verify_fix of     *)
(* hep/optimizers/base.py, the proposer outcomes of ralph.py): run the     *)
(* eval suite, take each failing task in turn, ask the proposer for a new  *)
(* config, write it, verify the task, keep the config or roll it back, and *)
(* run the suite again after every round that improved something.          *)
(*                                                                         *)
(* The loop is sequential; what is hard is that evals are flaky, reports   *)
(* get lost, the proposer declines, fails or breaks other tasks, budgets   *)
(* run out in the middle of a round, and the run may be interrupted while  *)
(* an unverified candidate is in the file.                                 *)
(***************************************************************************)
EXTENDS Naturals, FiniteSets

CONSTANTS
  Configs,        \* contents the config file may have
  Tasks,          \* the tasks of the eval suite
  Flaky,          \* tasks whose result does not depend on the config alone
  MaxIters,       \* max_iters
  MaxPerFailure,  \* max_iters_per_failure
  VerifyRuns,     \* verify_runs
  MaxLost         \* bound: eval runs that write no report

ASSUME RalphAssumption ==
  /\ Configs # {} /\ Flaky \subseteq Tasks
  /\ MaxIters \in Nat /\ MaxPerFailure \in Nat \ {0} /\ VerifyRuns \in Nat \ {0}
  /\ MaxLost \in Nat

VARIABLES
  works,       \* works[c]: the tasks that pass under config c
  pc,          \* where the run is
  config,      \* the content of config_file
  original,    \* original_content, the snapshot for the task being fixed
  failures,    \* the failures of the last suite run
  todo,        \* those the round has still to take
  task,        \* the tasks being fixed: none or one
  attempt, itersUsed,
  runsLeft,    \* verification runs to go
  priors,      \* prior_attempts of the task being fixed
  roundImprovements, totalImprovements,
  baseline,    \* history: the config before the run
  reported,    \* history: the config of the last suite run, {} if its report was lost
  lost         \* eval runs without a report so far

vars == <<works, pc, config, original, failures, todo, task, attempt, itersUsed, runsLeft,
          priors, roundImprovements, totalImprovements, baseline, reported, lost>>

\* "suite": to run the suite; "next": at the head of `for failure in failures`;
\* "propose": at the head of the inner loop; "verify", "rollback": a candidate
\* is in the file; "stopped", "dirty": interrupted without or with a candidate.
Locations == {"suite", "next", "propose", "verify", "rollback", "done", "stopped", "dirty"}

\* What a run of the tasks in s may report as failing under config c.
FailingSets(s, c) == {f \in SUBSET s : f \ Flaky = (s \ works[c]) \ Flaky}

-----------------------------------------------------------------------------
\* Mutant of AfterSuite: the loop looks at the failures alone, and the count of
\* the round's improvements is set to 0 before the loop only.
AfterSuite_FailuresOnly(f) ==
  /\ failures' = f
  /\ todo' = f
  /\ roundImprovements' = roundImprovements
  /\ pc' = IF f # {} THEN "next" ELSE "done"

\* After a suite run: the loop goes on while there are failures and budget.
AfterSuite(f) ==
  /\ failures' = f
  /\ todo' = f
  /\ roundImprovements' = 0
  /\ pc' = IF f # {} /\ itersUsed < MaxIters THEN "next" ELSE "done"

\* run_eval_suite, before the loop and after a round that improved something.
\* Without a report the failures are empty.
RunSuite ==
  /\ pc = "suite"
  /\ \/ /\ \E f \in FailingSets(Tasks, config) : AfterSuite(f)
        /\ reported' = {config}
        /\ lost' = lost
     \/ /\ lost < MaxLost
        /\ lost' = lost + 1
        /\ AfterSuite({})
        /\ reported' = {}
  /\ UNCHANGED <<works, config, original, task, attempt, itersUsed, runsLeft, priors,
                 totalImprovements, baseline>>

\* Snapshot the config and start on the next failure.
TakeFailure ==
  /\ pc = "next" /\ todo # {} /\ itersUsed < MaxIters
  /\ \E t \in todo : task' = {t} /\ todo' = todo \ {t}
  /\ original' = config
  /\ attempt' = 0
  /\ priors' = {}
  /\ pc' = "propose"
  /\ UNCHANGED <<works, config, failures, itersUsed, runsLeft, roundImprovements,
                 totalImprovements, baseline, reported, lost>>

\* Mutant of RoundGoesOn: no suite run once the budget is gone.
RoundGoesOn_BudgetFirst == roundImprovements > 0 /\ itersUsed < MaxIters

\* Whether the round that ended is followed by a suite run.
RoundGoesOn == roundImprovements > 0

\* The failures are through, or the budget is.
EndRound ==
  /\ pc = "next" /\ (todo = {} \/ itersUsed >= MaxIters)
  /\ pc' = IF RoundGoesOn THEN "suite" ELSE "done"
  /\ UNCHANGED <<works, config, original, failures, todo, task, attempt, itersUsed, runsLeft,
                 priors, roundImprovements, totalImprovements, baseline, reported, lost>>

\* Mutant of Again: the inner loop does not look at the overall budget.
Again_NoBudget(iters, tries) == IF tries < MaxPerFailure THEN "propose" ELSE "next"

\* The condition of the inner loop.
Again(iters, tries) == IF iters < MaxIters /\ tries < MaxPerFailure THEN "propose" ELSE "next"

\* Every attempt counts, whether or not the proposer comes back with anything.
CountAttempt == itersUsed' = itersUsed + 1 /\ attempt' = attempt + 1

\* No usable proposal: the proposer declined, changed nothing, or failed for
\* good, or the config it returned is not valid (on to the next failure); or it
\* failed in a way worth another attempt.
NoProposal ==
  /\ pc = "propose"
  /\ CountAttempt
  /\ pc' \in {"next", Again(itersUsed', attempt')}
  /\ UNCHANGED <<works, config, original, failures, todo, task, runsLeft, priors,
                 roundImprovements, totalImprovements, baseline, reported, lost>>

\* A valid config other than the snapshot is written to the file.
Propose ==
  /\ pc = "propose"
  /\ CountAttempt
  /\ config' \in Configs \ {original}
  /\ runsLeft' = VerifyRuns
  /\ pc' = "verify"
  /\ UNCHANGED <<works, original, failures, todo, task, priors,
                 roundImprovements, totalImprovements, baseline, reported, lost>>

\* One run of the task in _verify_fix passed; after the last one the candidate
\* is kept.
VerifyPasses ==
  /\ pc = "verify"
  /\ {} \in FailingSets(task, config)
  /\ runsLeft' = runsLeft - 1
  /\ IF runsLeft > 1
       THEN UNCHANGED <<pc, roundImprovements, totalImprovements>>
       ELSE /\ pc' = "next"
            /\ roundImprovements' = roundImprovements + 1
            /\ totalImprovements' = totalImprovements + 1
  /\ UNCHANGED <<works, config, original, failures, todo, task, attempt, itersUsed, priors,
                 baseline, reported, lost>>

\* One run of the task failed, or wrote no report.
VerifyFails ==
  /\ pc = "verify"
  /\ \/ task \in FailingSets(task, config) /\ lost' = lost
     \/ lost < MaxLost /\ lost' = lost + 1
  /\ pc' = "rollback"
  /\ UNCHANGED <<works, config, original, failures, todo, task, attempt, itersUsed, runsLeft,
                 priors, roundImprovements, totalImprovements, baseline, reported>>

\* Mutant of Restored: the file keeps the rejected candidate.
Restored_Not == config

\* What the rollback writes.
Restored == original

\* The rejected candidate is rolled back and becomes context for the next one.
Rollback ==
  /\ pc = "rollback"
  /\ config' = Restored
  /\ priors' = priors \cup {config}
  /\ pc' = Again(itersUsed, attempt)
  /\ UNCHANGED <<works, original, failures, todo, task, attempt, itersUsed, runsLeft,
                 roundImprovements, totalImprovements, baseline, reported, lost>>

\* An exception of the adapter, or the user, ends the run where it is.
Interrupt ==
  /\ pc \in {"suite", "next", "propose", "verify", "rollback"}
  /\ pc' = IF pc \in {"verify", "rollback"} THEN "dirty" ELSE "stopped"
  /\ UNCHANGED <<works, config, original, failures, todo, task, attempt, itersUsed, runsLeft,
                 priors, roundImprovements, totalImprovements, baseline, reported, lost>>

Init ==
  /\ works \in [Configs -> SUBSET Tasks]
  /\ pc = "suite"
  /\ config \in Configs
  /\ original = config
  /\ failures = {} /\ todo = {} /\ task = {}
  /\ attempt = 0 /\ itersUsed = 0 /\ runsLeft = 0
  /\ priors = {}
  /\ roundImprovements = 0 /\ totalImprovements = 0
  /\ baseline = config
  /\ reported = {}
  /\ lost = 0

Step == RunSuite \/ TakeFailure \/ EndRound \/ NoProposal \/ Propose
          \/ VerifyPasses \/ VerifyFails \/ Rollback

Next == Step \/ Interrupt

Spec == Init /\ [][Next]_vars

\* The loop is sequential code and every call of it returns: a step that is
\* possible is taken.
FairSpec == Spec /\ WF_vars(Step)

-----------------------------------------------------------------------------
RalphTypeOK ==
  /\ works \in [Configs -> SUBSET Tasks]
  /\ pc \in Locations
  /\ config \in Configs /\ original \in Configs /\ baseline \in Configs
  /\ failures \subseteq Tasks /\ todo \subseteq failures
  /\ task \subseteq Tasks
  /\ itersUsed \in 0..MaxIters /\ attempt \in 0..MaxPerFailure
  /\ runsLeft \in 0..VerifyRuns
  /\ priors \subseteq Configs
  /\ roundImprovements \in 0..totalImprovements /\ totalImprovements \in 0..itersUsed
  /\ reported \subseteq Configs
  /\ lost \in 0..MaxLost

\* A candidate is in the file only while it is verified.
Verifying == pc \in {"verify", "rollback", "dirty"}

\* The config in effect: a candidate under verification is not.
Kept == IF Verifying THEN original ELSE config

\* The run tunes the file as HarnessTuning promises: the config in effect
\* changes only when a verified candidate is counted as an improvement, so that
\* every rejected one leaves no trace.
Tuning == INSTANCE HarnessTuning WITH
            kept <- Kept, improved <- totalImprovements,
            over <- pc \in {"done", "stopped", "dirty"}
TunesInPlace == Tuning!TuningSpec

\* What a finished run reports is about the config it leaves: unless the last
\* report was lost, exactly the tasks that the final config fails are listed.
FinalReportIsCurrent ==
  pc = "done" /\ reported # {} =>
    reported = {config} /\ failures \ Flaky = (Tasks \ works[config]) \ Flaky

\* Unless it is interrupted, the run ends, whatever the proposer and the evals do.
Terminates == <>(pc \in {"done", "stopped", "dirty"})

\* "re-runs the fix several times to confirm it holds and doesn't regress
\* anything else" (README of the playground): a finished run leaves no task
\* failing that passed before it.
NoRegression ==
  pc = "done" => works[baseline] \ Flaky \subseteq works[config]
=============================================================================
