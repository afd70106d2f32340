----------------------------- MODULE MCAutoHeal -----------------------------
(* Two launchers that may want to run at the same time: the timer, and       *)
(* either the operator, at any time ("operated"), or the response monitor    *)
(* with its own cooldown ("monitored").  The second part adds the monitor's  *)
(* state, and has fewer things going wrong.                                  *)
EXTENDS ResponseMonitor

CONSTANTS
  timer, monitor,
  MonitoredFaults   \* bound: things that go wrong in the second part

VARIABLE part

TwoLaunchers == {timer, monitor}

MCInit == MonitorInit /\ part \in {"operated", "monitored"}

MCNext ==
  /\ UNCHANGED part
  /\ \/ part = "operated" /\ Next /\ UNCHANGED monitorVars
     \/ part = "monitored" /\ MonitorNext /\ faults' <= MonitoredFaults

MCTick == (part = "operated" /\ Tick /\ UNCHANGED monitorVars)
          \/ (part = "monitored" /\ MonitorTick)

mcVars == <<vars, monitorVars, part>>

\* FairSpec in the first part, MonitorFairSpec in the second.
MCFairSpec ==
  /\ MCInit /\ [][MCNext]_mcVars
  /\ WF_mcVars(Begin(Timer) /\ UNCHANGED <<monitorVars, part>>)
  /\ \A w \in Launchers : WF_mcVars(RunStep(w) /\ UNCHANGED <<monitorVars, part>>)
  /\ WF_mcVars(MonitorStep /\ UNCHANGED part)
  /\ WF_mcVars(MCTick /\ UNCHANGED part)
=============================================================================
