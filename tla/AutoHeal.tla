------------------------------ MODULE AutoHeal ------------------------------
(***************************************************************************)
(* The watchdog of the auto-heal add-on (scripts/autoheal/watchdog.sh with *)
(* lib.sh).  A systemd timer, the Slack response monitor and the operator  *)
(* start it; one run at a time gets past the lock.  A run looks at the     *)
(* sandbox and at its recent log, and restarts the Hermes gateway or       *)
(* deletes the sandbox and builds it again, at most once per cooldown.     *)
(*                                                                         *)
(* Every command of a run takes time: the gateway fails, egress comes and  *)
(* goes, log lines age and the run itself is killed between any two.  Time *)
(* is a tick; ages stop counting where nothing looks at them any more.     *)
(***************************************************************************)
EXTENDS Naturals

CONSTANTS
  Launchers,    \* who starts watchdog runs: the timer, the monitor, the operator
  Timer,        \* the systemd timer; its runs end with all their processes
  Cooldown,     \* AUTOHEAL_RECREATE_COOLDOWN_SECS, in ticks
  LogWindow,    \* the 15 minutes recent_log_match looks back, in ticks
  MaxFaults,    \* bound: things that go wrong
  MaxDenials,   \* bound: credentials that are refused
  MaxKills      \* bound: runs that are killed

ASSUME HealAssumption ==
  /\ Timer \in Launchers
  /\ Cooldown \in Nat \ {0} /\ LogWindow \in Nat \ {0}
  /\ MaxFaults \in Nat /\ MaxDenials \in Nat /\ MaxKills \in Nat

\* What the log and the probes tell apart.
Channels == {"slack", "graph"}

VARIABLES
  pc,           \* pc[w]: where the run of launcher w is, "idle" if there is none
  at,           \* at[w]: the channel it is looking at
  needs,        \* needs[w]: needs_gateway_restart
  orphan,       \* `openshell sandbox create' of an interrupted run is still running
  sandbox,      \* "ready" or "down" (deleted, or not created yet)
  gateway,      \* "ok", "wrong" (runs without its allowlist) or "down"
  unitsDown,    \* host units that do not work
  cut,          \* channels the sandbox cannot reach
  denied,       \* channels that refuse the credentials
  lineAge,      \* lineAge[ch]: age of the last failure of ch in the container's log
  stampAge,     \* age of the sandbox-recreate timestamp
  sinceDelete,  \* history: ticks since a run deleted the sandbox
  faults, kills

vars == <<pc, at, needs, orphan, sandbox, gateway, unitsDown, cut, denied, lineAge, stampAge,
          sinceDelete, faults, kills>>

run     == <<pc, at, needs, orphan>>
outside == <<cut, denied, lineAge>>
ages    == <<stampAge, sinceDelete>>

Places == {"idle", "ready", "health", "log", "probe", "cooldown", "stamp", "delete",
           "create", "restart", "restarting", "forward"}

Fault == faults < MaxFaults /\ faults' = faults + 1

-----------------------------------------------------------------------------
\* flock -n: a run that finds the lock taken exits at once.  Every process that a
\* run starts holds the lock with it, and one that outlives it keeps it.
Unlocked(w) == ~orphan /\ \A v \in Launchers : pc[v] = "idle"

\* A unit is restarted if it does not work; the restart may fail.
RestartUnit(u) ==
  \/ unitsDown' = unitsDown \ {u} /\ UNCHANGED faults
  \/ u \in unitsDown /\ Fault /\ UNCHANGED unitsDown

Goto(w, p) == pc' = [pc EXCEPT ![w] = p]

\* Past the lock; the proxy is started if it is not active.
Begin(w) ==
  /\ pc[w] = "idle" /\ Unlocked(w)
  /\ RestartUnit("proxy")
  /\ Goto(w, "ready")
  /\ at' = [at EXCEPT ![w] = "slack"]
  /\ needs' = [needs EXCEPT ![w] = FALSE]
  /\ UNCHANGED <<orphan, sandbox, gateway, outside, ages, kills>>

\* Mutant of CheckReady: the run goes on whatever the sandbox does.
CheckReady_Not(w) ==
  /\ pc[w] = "ready"
  /\ Goto(w, "health")
  /\ UNCHANGED <<at, needs, orphan, sandbox, gateway, unitsDown, outside, ages, faults, kills>>

\* sandbox_ready: bringing a sandbox up is not the watchdog's business.
CheckReady(w) ==
  /\ pc[w] = "ready"
  /\ Goto(w, IF sandbox = "ready" THEN "health" ELSE "idle")
  /\ UNCHANGED <<at, needs, orphan, sandbox, gateway, unitsDown, outside, ages, faults, kills>>

\* sandbox_gateway_ok and gateway_has_allowlist.
CheckHealth(w) ==
  /\ pc[w] = "health"
  /\ needs' = [needs EXCEPT ![w] = gateway # "ok"]
  /\ Goto(w, "log")
  /\ UNCHANGED <<at, orphan, sandbox, gateway, unitsDown, outside, ages, faults, kills>>

\* On to the next channel, or to the restart, with need as the flag.
Proceed(w, need) ==
  /\ needs' = [needs EXCEPT ![w] = need]
  /\ at' = [at EXCEPT ![w] = "graph"]
  /\ Goto(w, IF at[w] = "slack" THEN "log" ELSE IF need THEN "restart" ELSE "forward")

\* recent_log_match.
ReadLog(w) ==
  /\ pc[w] = "log"
  /\ IF sandbox = "ready" /\ lineAge[at[w]] < LogWindow
       THEN Goto(w, "probe") /\ UNCHANGED <<at, needs>>
       ELSE Proceed(w, needs[w])
  /\ UNCHANGED <<orphan, sandbox, gateway, unitsDown, outside, ages, faults, kills>>

\* slack_socket_ok, outlook_graph_ok: a call out of the sandbox that must be
\* answered with what was asked for.
Probe(w) ==
  /\ pc[w] = "probe"
  /\ IF at[w] \in cut \cup denied
       THEN Goto(w, "cooldown") /\ UNCHANGED <<at, needs>>
       ELSE Proceed(w, TRUE)
  /\ UNCHANGED <<orphan, sandbox, gateway, unitsDown, outside, ages, faults, kills>>

\* Mutant of CheckCooldown: the timestamp is refreshed when it is looked at.
CheckCooldown_Refresh(w) ==
  /\ pc[w] = "cooldown"
  /\ IF stampAge = Cooldown
       THEN Goto(w, "stamp") /\ UNCHANGED <<at, needs, stampAge>>
       ELSE Proceed(w, FALSE) /\ stampAge' = 0
  /\ UNCHANGED <<orphan, sandbox, gateway, unitsDown, outside, sinceDelete, faults, kills>>

\* cooldown_elapsed in recreate_sandbox; main forgets the restart either way.
CheckCooldown(w) ==
  /\ pc[w] = "cooldown"
  /\ IF stampAge = Cooldown
       THEN Goto(w, "stamp") /\ UNCHANGED <<at, needs>>
       ELSE Proceed(w, FALSE)
  /\ UNCHANGED <<orphan, sandbox, gateway, unitsDown, outside, ages, faults, kills>>

\* Mutant of Stamp: the timestamp is not written.
Stamp_Not(w) ==
  /\ pc[w] = "stamp"
  /\ Goto(w, "delete")
  /\ UNCHANGED <<at, needs, orphan, sandbox, gateway, unitsDown, outside, ages, faults, kills>>

\* set_state_timestamp.
Stamp(w) ==
  /\ pc[w] = "stamp"
  /\ stampAge' = 0
  /\ Goto(w, "delete")
  /\ UNCHANGED <<at, needs, orphan, sandbox, gateway, unitsDown, outside, sinceDelete, faults,
                 kills>>

\* openshell sandbox delete || true: the forward is to a sandbox that is gone, or
\* nothing has happened.
Delete(w) ==
  /\ pc[w] = "delete"
  /\ \/ /\ sandbox' = "down" /\ gateway' = "down"
        /\ unitsDown' = unitsDown \cup {"forward"}
        /\ sinceDelete' = 0
        /\ UNCHANGED faults
     \/ Fault /\ UNCHANGED <<sandbox, gateway, unitsDown, sinceDelete>>
  /\ Goto(w, "create")
  /\ UNCHANGED <<at, needs, orphan, outside, stampAge, kills>>

\* A sandbox that has just been created has an empty log.
Fresh ==
  /\ sandbox' = "ready" /\ gateway' = "ok"
  /\ lineAge' = [ch \in Channels |-> LogWindow]

\* 03-sandbox.sh waits for a sandbox of that name to be ready: the new one, or the
\* old one if that is still there.
ComesUp ==
  \/ sandbox = "down" /\ Fresh
  \/ sandbox = "ready" /\ UNCHANGED <<sandbox, gateway, lineAge>>

\* It applies the policy again, and there is egress again, or not.
Created(w) ==
  /\ pc[w] = "create"
  /\ ComesUp
  /\ cut' \in SUBSET cut
  /\ Proceed(w, FALSE)
  /\ UNCHANGED <<orphan, unitsDown, denied, ages, faults, kills>>

\* It fails, before there is a sandbox or in applying the policy, and set -e ends
\* the run with it.
CreateFails(w) ==
  /\ pc[w] = "create"
  /\ Fault
  /\ ComesUp \/ UNCHANGED <<sandbox, gateway, lineAge>>
  /\ Goto(w, "idle")
  /\ UNCHANGED <<at, needs, orphan, unitsDown, cut, denied, ages, kills>>

\* restart_gateway kills the gateway and starts it again ...
Restart(w) ==
  /\ pc[w] = "restart"
  /\ gateway' = "down"
  /\ Goto(w, "restarting")
  /\ UNCHANGED <<at, needs, orphan, sandbox, unitsDown, outside, ages, faults, kills>>

\* ... and waits until it is healthy, for 90 seconds at most.
Restarted(w) ==
  /\ pc[w] = "restarting"
  /\ \/ gateway' = "ok" /\ UNCHANGED faults
     \/ gateway' \in {"down", "wrong"} /\ Fault
  /\ Goto(w, "forward")
  /\ UNCHANGED <<at, needs, orphan, sandbox, unitsDown, outside, ages, kills>>

\* The host forward is restarted when only it is broken.
Forward(w) ==
  /\ pc[w] = "forward"
  /\ IF gateway # "down" THEN RestartUnit("forward") ELSE UNCHANGED <<unitsDown, faults>>
  /\ Goto(w, "idle")
  /\ UNCHANGED <<at, needs, orphan, sandbox, gateway, outside, ages, kills>>

RunStep(w) ==
  \/ CheckReady(w) \/ CheckHealth(w) \/ ReadLog(w) \/ Probe(w) \/ CheckCooldown(w)
  \/ Stamp(w) \/ Delete(w) \/ Created(w) \/ CreateFails(w)
  \/ Restart(w) \/ Restarted(w) \/ Forward(w)

-----------------------------------------------------------------------------
(* What happens to the runs and around them. *)

\* systemctl stop, a reboot: nothing is left of the run and the lock goes with it.
\* A gateway that was being started may come up all the same.
Kill(w) ==
  /\ pc[w] # "idle" /\ kills < MaxKills
  /\ kills' = kills + 1
  /\ gateway' \in IF pc[w] = "restarting" THEN {"ok", "wrong", "down"} ELSE {gateway}
  /\ Goto(w, "idle")
  /\ UNCHANGED <<at, needs, orphan, sandbox, unitsDown, outside, ages, faults>>

\* The operator interrupts a run of theirs, which ends the processes of its group,
\* and not the create that 03-sandbox.sh has put into a group of its own.
Interrupt(w) ==
  /\ w # Timer /\ pc[w] = "create" /\ kills < MaxKills
  /\ kills' = kills + 1
  /\ orphan' = TRUE
  /\ Goto(w, "idle")
  /\ UNCHANGED <<at, needs, sandbox, gateway, unitsDown, outside, ages, faults>>

\* It fails or is killed, and nothing says that it ever does: with the sandbox up
\* it streams the output of that.
OrphanEnds ==
  /\ orphan /\ orphan' = FALSE
  /\ UNCHANGED <<pc, at, needs, sandbox, gateway, unitsDown, outside, ages, faults, kills>>

GatewayFails ==
  /\ gateway = "ok" /\ gateway' \in {"wrong", "down"}
  /\ Fault
  /\ UNCHANGED <<run, sandbox, unitsDown, outside, ages, kills>>

UnitFails(u) ==
  /\ u \notin unitsDown /\ unitsDown' = unitsDown \cup {u}
  /\ Fault
  /\ UNCHANGED <<run, sandbox, gateway, outside, ages, kills>>

EgressCut(ch) ==
  /\ ch \notin cut /\ cut' = cut \cup {ch}
  /\ Fault
  /\ UNCHANGED <<run, sandbox, gateway, unitsDown, denied, lineAge, ages, kills>>

EgressBack(ch) ==
  /\ ch \in cut /\ cut' = cut \ {ch}
  /\ UNCHANGED <<run, sandbox, gateway, unitsDown, denied, lineAge, ages, faults, kills>>

\* A sign-in expires, a token is revoked.
CredentialsRefused(ch) ==
  /\ denied = {} /\ MaxDenials > 0 /\ denied' = {ch}
  /\ UNCHANGED <<run, sandbox, gateway, unitsDown, cut, lineAge, ages, faults, kills>>

\* A failure of the channel is logged: as long as it is cut, or a stray one.
FailureLogged(ch) ==
  /\ sandbox = "ready"
  /\ IF ch \in cut THEN UNCHANGED faults ELSE Fault
  /\ lineAge' = [lineAge EXCEPT ![ch] = 0]
  /\ UNCHANGED <<run, sandbox, gateway, unitsDown, cut, denied, ages, kills>>

\* A sandbox that is not there comes up: the operator brings it up, or what an
\* orphan or a run that gave up has asked for is done after all.
BringUp ==
  /\ sandbox = "down" /\ \A w \in Launchers : pc[w] \notin {"delete", "create"}
  /\ Fresh
  /\ UNCHANGED <<run, unitsDown, cut, denied, ages, faults, kills>>

Older(age, limit) == IF age < limit THEN age + 1 ELSE age

\* Time passes, though not between the timestamp and the command after it.
Tick ==
  /\ \A w \in Launchers : pc[w] \notin {"stamp", "delete"}
  /\ lineAge' = [ch \in Channels |-> Older(lineAge[ch], LogWindow)]
  /\ stampAge' = Older(stampAge, Cooldown)
  /\ sinceDelete' = Older(sinceDelete, Cooldown)
  /\ UNCHANGED <<run, sandbox, gateway, unitsDown, cut, denied, faults, kills>>

Upheaval ==
  \/ GatewayFails \/ BringUp \/ OrphanEnds
  \/ \E u \in {"proxy", "forward"} : UnitFails(u)
  \/ \E ch \in Channels : EgressCut(ch) \/ EgressBack(ch) \/ CredentialsRefused(ch)
                            \/ FailureLogged(ch)

Around == Upheaval \/ Tick

\* The add-on is installed beside a sandbox that works; no timestamp reads as
\* one of long ago.
Init ==
  /\ pc = [w \in Launchers |-> "idle"]
  /\ at = [w \in Launchers |-> "slack"]
  /\ needs = [w \in Launchers |-> FALSE]
  /\ orphan = FALSE
  /\ sandbox = "ready" /\ gateway = "ok" /\ unitsDown = {}
  /\ cut = {} /\ denied = {}
  /\ lineAge = [ch \in Channels |-> LogWindow]
  /\ stampAge = Cooldown /\ sinceDelete = Cooldown
  /\ faults = 0 /\ kills = 0

Next == (\E w \in Launchers : Begin(w) \/ RunStep(w) \/ Kill(w) \/ Interrupt(w)) \/ Around

Spec == Init /\ [][Next]_vars

\* The timer starts a run every minute, every command of a run comes to an
\* end, and time passes.  Nobody has to start another run, bring a sandbox up
\* or mend the network.
FairSpec ==
  /\ Spec
  /\ WF_vars(Begin(Timer))
  /\ \A w \in Launchers : WF_vars(RunStep(w))
  /\ WF_vars(Tick)

-----------------------------------------------------------------------------
HealTypeOK ==
  /\ pc \in [Launchers -> Places]
  /\ at \in [Launchers -> Channels]
  /\ needs \in [Launchers -> BOOLEAN]
  /\ orphan \in BOOLEAN
  /\ sandbox \in {"ready", "down"}
  /\ gateway \in {"ok", "wrong", "down"} /\ (sandbox = "down" => gateway = "down")
  /\ unitsDown \subseteq {"proxy", "forward"}
  /\ cut \subseteq Channels /\ denied \subseteq Channels
  /\ lineAge \in [Channels -> 0..LogWindow]
  /\ stampAge \in 0..Cooldown /\ sinceDelete \in 0..Cooldown
  /\ faults \in 0..MaxFaults /\ kills \in 0..MaxKills

\* "Locks and cooldowns prevent repeated rebuilds" (docs/auto-heal.md): the
\* sandbox is not deleted again within the cooldown, whoever starts the runs
\* and wherever one is killed.
RebuildsSpaced ==
  [][\A w \in Launchers : pc[w] = "delete" /\ pc'[w] = "create" => sinceDelete = Cooldown]_vars

\* A run that restarts the gateway, or looks after it, does so in a sandbox
\* that is there: no other run deletes it meanwhile.
RestartsInPlace ==
  \A w \in Launchers : pc[w] \in {"health", "probe", "restarting"} => sandbox = "ready"

\* The service comes back again and again, but for two states that the watchdog
\* leaves to the operator: no sandbox after a rebuild that failed, and an orphan,
\* which keeps every run from the lock.  No cooldown, no log line and no rebuild
\* that deleted nothing keeps the watchdog from it for good.
Heals == []<>(orphan \/ sandbox = "down" \/ (gateway = "ok" /\ unitsDown = {}))
=============================================================================
