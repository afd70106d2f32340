-------------------------- MODULE ResponseMonitor --------------------------
(***************************************************************************)
(* The Slack response monitor (slack-response-monitor.py) beside the       *)
(* watchdog.  Its timer runs it every minute, one run at a time.  A run    *)
(* looks for failures in the gateway's log and for a message that Hermes   *)
(* left unanswered, calls the watchdog, waits for it, and then saves when  *)
(* the run had begun: that is what the next runs count the cooldown from.  *)
(*                                                                         *)
(* Nothing is kept of what Slack answers, so a run draws it: any history   *)
(* of the channels, or a failing call.                                     *)
(***************************************************************************)
EXTENDS AutoHeal, Sequences

CONSTANTS
  Monitor,          \* the monitor as a launcher of watchdog runs
  MonitorCooldown,  \* --cooldown-secs, in ticks
  Grace,            \* --grace-secs: ages of a message that may still be answered
  MaxHistory        \* bound: messages of a channel within --window-secs

ASSUME MonitorAssumption ==
  /\ Monitor \in Launchers \ {Timer}
  /\ MonitorCooldown \in Nat \ {0} /\ Grace \in Nat /\ MaxHistory \in Nat

VARIABLES
  main,        \* "idle", "call" (about to call the watchdog), "wait" or "save"
  started,     \* age of the run's now, counted up to MonitorCooldown
  lastAction,  \* age of last_action_time
  sinceAsked,  \* history: age of the now of the last run that asked for recovery
  forgotten    \* history: that run was stopped before it saved its state

monitorVars == <<main, started, lastAction, sinceAsked, forgotten>>

-----------------------------------------------------------------------------
\* A channel's history, the newest message first: who wrote it, and how old it is.
Senders == {"user", "bot", "other"}
Histories ==
  UNION {{h \in [1..n -> [from : Senders, age : 0..Grace]] :
            \A i, j \in 1..n : i < j => h[i].age <= h[j].age} : n \in 0..MaxHistory}

\* The newest message of an allowed user decides: it may be too fresh, or have
\* something of the bot's after it, whatever that is about.
LatestUnanswered(history) ==
  \E i \in DOMAIN history :
    /\ history[i].from = "user"
    /\ \A j \in 1..(i - 1) : history[j].from = "other"
    /\ history[i].age >= Grace

\* What the lines of the log are signs of; failing inference is not the
\* watchdog's business.
ClassifyLogText(lines) ==
  {IF line = "slack" THEN "slack_gateway"
   ELSE IF line = "graph" THEN "outlook_graph" ELSE "inference_proxy" : line \in lines}

\* The last 15 minutes of the container's log, if there is a container.
RecentGatewayFailures(others) ==
  ClassifyLogText(IF sandbox = "ready" THEN {ch \in Channels : lineAge[ch] < LogWindow} \cup others
                                       ELSE {})

\* Any history may be met.
Met == {LatestUnanswered(history) : history \in Histories}

\* Log, then Slack: a failing call is a failure, as is a refused token.
Failures(others, slackAnswers, unanswered) ==
  RecentGatewayFailures(others)
  \cup (IF ~slackAnswers THEN {"slack_api"} ELSE {})
  \cup (IF slackAnswers /\ unanswered THEN {"unanswered_slack_message"} ELSE {})

ShouldRemediate == lastAction = MonitorCooldown

-----------------------------------------------------------------------------
\* main up to remediate.
Look ==
  /\ main = "idle"
  /\ \E others \in SUBSET {"inference"}, slackAnswers \in BOOLEAN, unanswered \in Met :
       IF Failures(others, slackAnswers, unanswered) # {} /\ ShouldRemediate
         THEN /\ main' = "call" /\ started' = 0
              /\ sinceAsked' = 0 /\ forgotten' = FALSE
         ELSE UNCHANGED monitorVars
  /\ UNCHANGED <<vars, lastAction>>

\* remediate: the watchdog runs, or finds the lock taken and is back at once.
Remediate ==
  /\ main = "call"
  /\ IF Unlocked(Monitor) THEN Begin(Monitor) /\ main' = "wait"
                          ELSE UNCHANGED vars /\ main' = "save"
  /\ UNCHANGED <<started, lastAction, sinceAsked, forgotten>>

WatchdogEnds ==
  /\ main = "wait" /\ pc[Monitor] = "idle"
  /\ main' = "save"
  /\ UNCHANGED <<vars, started, lastAction, sinceAsked, forgotten>>

\* Mutant of SaveState: the state is left as it was.
SaveState_Not ==
  /\ main = "save" /\ main' = "idle" /\ started' = 0
  /\ UNCHANGED <<vars, lastAction, sinceAsked, forgotten>>

\* save_state: whatever the watchdog did.
SaveState ==
  /\ main = "save" /\ main' = "idle" /\ started' = 0
  /\ lastAction' = started
  /\ UNCHANGED <<vars, sinceAsked, forgotten>>

\* The unit is stopped with all its processes, the watchdog it called too.
Stop ==
  /\ main # "idle" /\ main' = "idle" /\ started' = 0 /\ forgotten' = TRUE
  /\ IF pc[Monitor] = "idle"
       THEN /\ kills < MaxKills /\ kills' = kills + 1
            /\ UNCHANGED <<run, sandbox, gateway, unitsDown, outside, ages, faults>>
       ELSE Kill(Monitor)
  /\ UNCHANGED <<lastAction, sinceAsked>>

MonitorStep == Remediate \/ WatchdogEnds \/ SaveState

MonitorTick ==
  /\ Tick
  /\ started' = IF main = "idle" THEN 0 ELSE Older(started, MonitorCooldown)
  /\ lastAction' = Older(lastAction, MonitorCooldown)
  /\ sinceAsked' = Older(sinceAsked, MonitorCooldown)
  /\ UNCHANGED <<main, forgotten>>

\* No state file reads as an action of long ago.
MonitorInit ==
  /\ Init
  /\ main = "idle" /\ started = 0 /\ forgotten = FALSE
  /\ lastAction = MonitorCooldown /\ sinceAsked = MonitorCooldown

\* What AutoHeal does besides, the monitor's own launches apart.
Beside ==
  /\ \/ \E w \in Launchers : RunStep(w) \/ (w # Monitor /\ (Begin(w) \/ Kill(w) \/ Interrupt(w)))
     \/ Upheaval
  /\ UNCHANGED monitorVars

MonitorNext == Look \/ MonitorStep \/ Stop \/ MonitorTick \/ Beside

MonitorSpec == MonitorInit /\ [][MonitorNext]_<<vars, monitorVars>>

\* As in AutoHeal; the steps of a monitor's run come to an end as well.
MonitorFairSpec ==
  /\ MonitorSpec
  /\ WF_vars(Begin(Timer) /\ UNCHANGED monitorVars)
  /\ \A w \in Launchers : WF_vars(RunStep(w) /\ UNCHANGED monitorVars)
  /\ WF_<<vars, monitorVars>>(MonitorStep)
  /\ WF_vars(MonitorTick)

-----------------------------------------------------------------------------
\* "Request bounded host-side recovery" (the module's first line): a run asks
\* for recovery no sooner than the cooldown after the beginning of the last run
\* that did, however long the watchdog took; only a monitor that was stopped
\* before it could save its state is followed by one that asks at once.
RequestsSpaced ==
  [][main = "idle" /\ main' = "call" => sinceAsked = MonitorCooldown \/ forgotten]_monitorVars
=============================================================================
