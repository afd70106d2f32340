---------------------------- MODULE OutlookStart ----------------------------
(***************************************************************************)
(* The start-up of outlook-bridge.py (_async_main): wait until Hermes is   *)
(* healthy, restore the delta link, resolve the allowed senders, load the  *)
(* jobs, then run the loops.  A signal only sets an event, which the first *)
(* wait does not look at; every way out of the start-up ends the process.  *)
(***************************************************************************)
EXTENDS OutlookProcess, Integers

CONSTANTS
  Settings,       \* OUTLOOK_ALLOWED_SENDERS and OUTLOOK_REPLY_TO, as they may be
  HealthRetries,  \* HEALTH_MAX_RETRIES
  MaxBadStarts    \* bound: starts that fail

ASSUME StartAssumption ==
  /\ Settings \subseteq [allowed : {"blank", "no address", "addresses"},
                         reply_to : {"unset", "no address", "address"}]
  /\ HealthRetries \in Nat \ {0} /\ MaxBadStarts \in Nat

VARIABLES
  boot,       \* where the process is in _async_main
  attempt,    \* of wait_for_hermes
  shutdown,   \* the event that a signal sets
  setting,    \* the environment
  badStarts   \* what is used up of the bound

startVars == <<boot, attempt, shutdown, setting, badStarts>>

BootStages == {"down", "health", "senders", "jobs", "loops"}

\* asyncio.run ends the process with the error that _async_main ends with.
Exit ==
  /\ boot' = "down"
  /\ badStarts' = badStarts + 1
  /\ UNCHANGED <<attempt, shutdown, setting>>

\* The container starts the process once, and again when it is started again.
main ==
  /\ boot = "down" /\ badStarts <= MaxBadStarts
  /\ boot' = "health" /\ attempt' = 0 /\ shutdown' = FALSE
  /\ UNCHANGED <<setting, badStarts>>

\* The handler of SIGTERM and SIGINT.
Signal ==
  /\ boot # "down" /\ ~shutdown
  /\ shutdown' = TRUE
  /\ UNCHANGED <<boot, attempt, setting, badStarts>>

\* A request that times out raises what the loop does not catch; one that fails,
\* or is answered with an error, is repeated HealthRetries times in all.
wait_for_hermes ==
  /\ boot = "health"
  /\ \/ boot' = "senders" /\ UNCHANGED <<attempt, shutdown, setting, badStarts>>
     \/ /\ attempt + 1 < HealthRetries
        /\ attempt' = attempt + 1
        /\ UNCHANGED <<boot, shutdown, setting, badStarts>>
     \/ Exit

\* What is configured: a list of addresses even if none is in it, the address
\* for replies, or nothing to go by, which raises.
resolve_allowed_senders(s) ==
  CASE s.allowed = "addresses"  -> "listed"
    [] s.allowed = "no address" -> "everybody"
    [] OTHER -> IF s.reply_to = "address" THEN "reply_to" ELSE "RuntimeError"

\* Nothing that resolving does can fail in a way that is retried: it reads the
\* environment only.
initialize_allowed_senders ==
  /\ boot = "senders"
  /\ IF shutdown \/ resolve_allowed_senders(setting) = "RuntimeError"
     THEN Exit
     ELSE boot' = "jobs" /\ UNCHANGED <<attempt, shutdown, setting, badStarts>>

\* The loops begin; they end at once if a signal came since.
EnterLoops ==
  /\ boot = "jobs"
  /\ boot' = "loops"
  /\ UNCHANGED <<attempt, shutdown, setting, badStarts>>

\* The loops or the process end.
LeaveLoops ==
  /\ boot = "loops"
  /\ boot' = "down"
  /\ UNCHANGED <<attempt, shutdown, setting, badStarts>>

StartInit ==
  /\ boot = "down" /\ attempt = 0 /\ shutdown = FALSE
  /\ setting \in Settings /\ badStarts = 0

StartTypeOK ==
  /\ boot \in BootStages /\ attempt \in 0..(HealthRetries - 1)
  /\ shutdown \in BOOLEAN /\ setting \in Settings
  /\ badStarts \in Nat
=============================================================================
