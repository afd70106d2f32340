--------------------------- MODULE HarnessTuning ---------------------------
(***************************************************************************)
(* What an optimizer run promises about the config file it tunes in place  *)
(* (OptimizationResult and the docstrings of hep/optimizers/base.py): the  *)
(* config in effect changes only by an accepted improvement, every         *)
(* improvement is counted and paid for out of the iteration budget, and    *)
(* when the run is over the config stays as it is.                         *)
(***************************************************************************)
EXTENDS Naturals

CONSTANTS Configs, MaxIters

VARIABLES
  kept,      \* the config in effect
  improved,  \* improvements counted so far
  over       \* the run has ended

TuningInit == kept \in Configs /\ improved = 0 /\ over = FALSE

Improve ==
  /\ ~over /\ improved < MaxIters
  /\ kept' \in Configs
  /\ improved' = improved + 1
  /\ over' = over

Finish == ~over /\ over' = TRUE /\ UNCHANGED <<kept, improved>>

TuningNext == Improve \/ Finish

TuningSpec == TuningInit /\ [][TuningNext]_<<kept, improved, over>>
=============================================================================
