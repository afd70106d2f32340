--------------------------- MODULE AutoHealProofs ---------------------------
(***************************************************************************)
(* The safety of the watchdog, for any launchers, cooldown and log window, *)
(* and any number of faults and kills.  The inductive invariant adds to    *)
(* the type invariant that one run at a time is past the lock, that it     *)
(* works in a sandbox that is there except while it creates one, and that  *)
(* the timestamp is never older than the last deletion.                    *)
(***************************************************************************)
EXTENDS ResponseMonitor, TLAPS

\* The lock: one run at a time is under way.
OneRun == \A v, w \in Launchers : pc[v] # "idle" /\ pc[w] # "idle" => v = w

\* Past sandbox_ready, a run has a sandbox unless it is creating one.
InPlace == \A w \in Launchers : pc[w] \notin {"idle", "ready", "create"} => sandbox = "ready"

\* A deletion is stamped before it happens, and so the timestamp is at least as
\* young; a run about to delete has seen the cooldown elapsed and stamped.
Spaced ==
  /\ stampAge <= sinceDelete
  /\ \A w \in Launchers :
        /\ pc[w] = "stamp" => stampAge = Cooldown
        /\ pc[w] = "delete" => stampAge = 0 /\ sinceDelete = Cooldown

HInv == HealTypeOK /\ OneRun /\ InPlace /\ Spaced

-----------------------------------------------------------------------------
\* The add-on starts in the invariant.
LEMMA HealInit == Init => HInv
  <1> SUFFICES ASSUME Init PROVE HInv
    OBVIOUS
  <1>1. orphan \in BOOLEAN
    BY Zenon DEF Init
  <1>2. HealTypeOK
    BY <1>1, HealAssumption DEF Init, HealTypeOK, Places, Channels
  <1>3. OneRun /\ InPlace /\ Spaced
    BY HealAssumption DEF Init, OneRun, InPlace, Spaced
  <1>4. QED
    BY <1>2, <1>3 DEF HInv

\* Restarting a unit adds none to those that do not work.
LEMMA UnitStep ==
  ASSUME HealTypeOK, NEW u, RestartUnit(u)
  PROVE  unitsDown' \subseteq {"proxy", "forward"} /\ faults' \in 0..MaxFaults
  <1>1. CASE unitsDown' = unitsDown \ {u} /\ UNCHANGED faults
    BY <1>1 DEF HealTypeOK
  <1>2. CASE u \in unitsDown /\ Fault /\ UNCHANGED unitsDown
    BY <1>2, HealAssumption DEF HealTypeOK, Fault
  <1>3. QED
    BY <1>1, <1>2 DEF RestartUnit

\* No step leaves the types; that a sandbox that is down has no gateway needs
\* that restarts happen in a sandbox that is there.
LEMMA HealTypeStep == HInv /\ [Next]_vars => HealTypeOK'
  <1> SUFFICES ASSUME HInv, [Next]_vars PROVE HealTypeOK'
    OBVIOUS
  <1> USE HealAssumption DEF HInv, HealTypeOK, InPlace, Places, Channels, run, outside, ages
  <1>1. ASSUME NEW w \in Launchers, Begin(w) PROVE HealTypeOK'
    BY <1>1, UnitStep DEF Begin, Goto
  <1>2. ASSUME NEW w \in Launchers, CheckReady(w) PROVE HealTypeOK'
    BY <1>2 DEF CheckReady, Goto
  <1>3. ASSUME NEW w \in Launchers, CheckHealth(w) PROVE HealTypeOK'
    BY <1>3 DEF CheckHealth, Goto
  <1>4. ASSUME NEW w \in Launchers, ReadLog(w) PROVE HealTypeOK'
    BY <1>4 DEF ReadLog, Goto, Proceed
  <1>5. ASSUME NEW w \in Launchers, Probe(w) PROVE HealTypeOK'
    BY <1>5 DEF Probe, Goto, Proceed
  <1>6. ASSUME NEW w \in Launchers, CheckCooldown(w) PROVE HealTypeOK'
    BY <1>6 DEF CheckCooldown, Goto, Proceed
  <1>7. ASSUME NEW w \in Launchers, Stamp(w) PROVE HealTypeOK'
    BY <1>7 DEF Stamp, Goto
  <1>8. ASSUME NEW w \in Launchers, Delete(w) PROVE HealTypeOK'
    <2>1. /\ UNCHANGED <<at, needs, orphan, outside, stampAge, kills>>
          /\ pc' = [pc EXCEPT ![w] = "create"]
      BY <1>8 DEF Delete, Goto
    <2>2. faults' \in 0..MaxFaults
      BY <1>8 DEF Delete, Fault
    <2>3. CASE sandbox' = "down" /\ gateway' = "down" /\ unitsDown' = unitsDown \cup {"forward"}
                 /\ sinceDelete' = 0
      BY <2>1, <2>2, <2>3
    <2>4. CASE UNCHANGED <<sandbox, gateway, unitsDown, sinceDelete>>
      BY <2>1, <2>2, <2>4
    <2>5. QED
      BY <1>8, <2>3, <2>4 DEF Delete
  <1>9. ASSUME NEW w \in Launchers, Created(w) PROVE HealTypeOK'
    BY <1>9 DEF Created, ComesUp, Goto, Fresh, Proceed
  <1>10. ASSUME NEW w \in Launchers, CreateFails(w) PROVE HealTypeOK'
    BY <1>10 DEF CreateFails, ComesUp, Fresh, Goto, Fault
  <1>11. ASSUME NEW w \in Launchers, Restart(w) PROVE HealTypeOK'
    BY <1>11 DEF Restart, Goto
  <1>12. ASSUME NEW w \in Launchers, Restarted(w) PROVE HealTypeOK'
    BY <1>12 DEF Restarted, Goto, Fault
  <1>13. ASSUME NEW w \in Launchers, Forward(w) PROVE HealTypeOK'
    BY <1>13, UnitStep DEF Forward, Goto
  <1>14. ASSUME NEW w \in Launchers, Kill(w) PROVE HealTypeOK'
    BY <1>14 DEF Kill, Goto
  <1>15. CASE GatewayFails
    BY <1>15 DEF GatewayFails, run, Fault
  <1>16. ASSUME NEW u \in {"proxy", "forward"}, UnitFails(u) PROVE HealTypeOK'
    BY <1>16 DEF UnitFails, run, Fault
  <1>17. ASSUME NEW ch \in Channels, EgressCut(ch) PROVE HealTypeOK'
    BY <1>17 DEF EgressCut, run, Fault
  <1>18. ASSUME NEW ch \in Channels, EgressBack(ch) PROVE HealTypeOK'
    BY <1>18 DEF EgressBack, run
  <1>19. ASSUME NEW ch \in Channels, CredentialsRefused(ch) PROVE HealTypeOK'
    BY <1>19 DEF CredentialsRefused, run
  <1>20. ASSUME NEW ch \in Channels, FailureLogged(ch) PROVE HealTypeOK'
    BY <1>20 DEF FailureLogged, run, Fault
  <1>21. CASE BringUp
    BY <1>21 DEF BringUp, run, Fresh
  <1>22. CASE Tick
    BY <1>22 DEF Tick, run, Older
  <1>23. CASE UNCHANGED vars
    BY <1>23 DEF vars, run, outside, ages
  <1>24. ASSUME NEW w \in Launchers, Interrupt(w) PROVE HealTypeOK'
    BY <1>24 DEF Interrupt, Goto
  <1>25. CASE OrphanEnds
    BY <1>25 DEF OrphanEnds
  <1>26. QED
    BY <1>1, <1>2, <1>3, <1>4, <1>5, <1>6, <1>7, <1>8, <1>9, <1>10, <1>11,
       <1>12, <1>13, <1>14, <1>15, <1>16, <1>17, <1>18, <1>19, <1>20, <1>21,
       <1>22, <1>23, <1>24, <1>25 DEF Next, RunStep, Around, Upheaval

\* The lock is taken only when no run is under way, and goes with the run.
LEMMA OneRunStep == HInv /\ [Next]_vars => OneRun'
  <1> SUFFICES ASSUME HInv, [Next]_vars PROVE OneRun'
    OBVIOUS
  <1> USE HealAssumption DEF HInv, HealTypeOK, OneRun, run
  <1>1. ASSUME NEW w \in Launchers, Begin(w) PROVE OneRun'
    BY <1>1 DEF Begin, Goto, Unlocked, RestartUnit, Fault
  <1>2. ASSUME NEW w \in Launchers, CheckReady(w) PROVE OneRun'
    BY <1>2 DEF CheckReady, Goto
  <1>3. ASSUME NEW w \in Launchers, CheckHealth(w) PROVE OneRun'
    BY <1>3 DEF CheckHealth, Goto
  <1>4. ASSUME NEW w \in Launchers, ReadLog(w) PROVE OneRun'
    BY <1>4 DEF ReadLog, Goto, Proceed
  <1>5. ASSUME NEW w \in Launchers, Probe(w) PROVE OneRun'
    BY <1>5 DEF Probe, Goto, Proceed
  <1>6. ASSUME NEW w \in Launchers, CheckCooldown(w) PROVE OneRun'
    BY <1>6 DEF CheckCooldown, Goto, Proceed
  <1>7. ASSUME NEW w \in Launchers, Stamp(w) PROVE OneRun'
    BY <1>7 DEF Stamp, Goto
  <1>8. ASSUME NEW w \in Launchers, Delete(w) PROVE OneRun'
    BY <1>8 DEF Delete, Goto, Fault
  <1>9. ASSUME NEW w \in Launchers, Created(w) PROVE OneRun'
    BY <1>9 DEF Created, ComesUp, Goto, Fresh, Proceed
  <1>10. ASSUME NEW w \in Launchers, CreateFails(w) PROVE OneRun'
    BY <1>10 DEF CreateFails, ComesUp, Fresh, Goto, Fault
  <1>11. ASSUME NEW w \in Launchers, Restart(w) PROVE OneRun'
    BY <1>11 DEF Restart, Goto
  <1>12. ASSUME NEW w \in Launchers, Restarted(w) PROVE OneRun'
    BY <1>12 DEF Restarted, Goto, Fault
  <1>13. ASSUME NEW w \in Launchers, Forward(w) PROVE OneRun'
    BY <1>13 DEF Forward, Goto, RestartUnit, Fault
  <1>14. ASSUME NEW w \in Launchers, Kill(w) PROVE OneRun'
    BY <1>14 DEF Kill, Goto
  <1>15. CASE GatewayFails
    BY <1>15 DEF GatewayFails, run, Fault
  <1>16. ASSUME NEW u \in {"proxy", "forward"}, UnitFails(u) PROVE OneRun'
    BY <1>16 DEF UnitFails, run, Fault
  <1>17. ASSUME NEW ch \in Channels, EgressCut(ch) PROVE OneRun'
    BY <1>17 DEF EgressCut, run, Fault
  <1>18. ASSUME NEW ch \in Channels, EgressBack(ch) PROVE OneRun'
    BY <1>18 DEF EgressBack, run
  <1>19. ASSUME NEW ch \in Channels, CredentialsRefused(ch) PROVE OneRun'
    BY <1>19 DEF CredentialsRefused, run
  <1>20. ASSUME NEW ch \in Channels, FailureLogged(ch) PROVE OneRun'
    BY <1>20 DEF FailureLogged, run, Fault
  <1>21. CASE BringUp
    BY <1>21 DEF BringUp, run, Fresh
  <1>22. CASE Tick
    BY <1>22 DEF Tick, run, Older
  <1>23. CASE UNCHANGED vars
    BY <1>23 DEF vars, run, outside, ages
  <1>24. ASSUME NEW w \in Launchers, Interrupt(w) PROVE OneRun'
    BY <1>24 DEF Interrupt, Goto
  <1>25. CASE OrphanEnds
    BY <1>25 DEF OrphanEnds
  <1>26. QED
    BY <1>1, <1>2, <1>3, <1>4, <1>5, <1>6, <1>7, <1>8, <1>9, <1>10, <1>11,
       <1>12, <1>13, <1>14, <1>15, <1>16, <1>17, <1>18, <1>19, <1>20, <1>21,
       <1>22, <1>23, <1>24, <1>25 DEF Next, RunStep, Around, Upheaval

\* Only the run that holds the lock deletes the sandbox.
LEMMA InPlaceStep == HInv /\ [Next]_vars => InPlace'
  <1> SUFFICES ASSUME HInv, [Next]_vars PROVE InPlace'
    OBVIOUS
  <1> USE HealAssumption DEF HInv, HealTypeOK, OneRun, InPlace, run
  <1>1. ASSUME NEW w \in Launchers, Begin(w) PROVE InPlace'
    BY <1>1 DEF Begin, Goto, Unlocked, RestartUnit, Fault
  <1>2. ASSUME NEW w \in Launchers, CheckReady(w) PROVE InPlace'
    BY <1>2 DEF CheckReady, Goto
  <1>3. ASSUME NEW w \in Launchers, CheckHealth(w) PROVE InPlace'
    BY <1>3 DEF CheckHealth, Goto
  <1>4. ASSUME NEW w \in Launchers, ReadLog(w) PROVE InPlace'
    BY <1>4 DEF ReadLog, Goto, Proceed
  <1>5. ASSUME NEW w \in Launchers, Probe(w) PROVE InPlace'
    BY <1>5 DEF Probe, Goto, Proceed
  <1>6. ASSUME NEW w \in Launchers, CheckCooldown(w) PROVE InPlace'
    BY <1>6 DEF CheckCooldown, Goto, Proceed
  <1>7. ASSUME NEW w \in Launchers, Stamp(w) PROVE InPlace'
    BY <1>7 DEF Stamp, Goto
  <1>8. ASSUME NEW w \in Launchers, Delete(w) PROVE InPlace'
    BY <1>8 DEF Delete, Goto, Fault
  <1>9. ASSUME NEW w \in Launchers, Created(w) PROVE InPlace'
    BY <1>9 DEF Created, ComesUp, Goto, Fresh, Proceed
  <1>10. ASSUME NEW w \in Launchers, CreateFails(w) PROVE InPlace'
    BY <1>10 DEF CreateFails, ComesUp, Fresh, Goto, Fault
  <1>11. ASSUME NEW w \in Launchers, Restart(w) PROVE InPlace'
    BY <1>11 DEF Restart, Goto
  <1>12. ASSUME NEW w \in Launchers, Restarted(w) PROVE InPlace'
    BY <1>12 DEF Restarted, Goto, Fault
  <1>13. ASSUME NEW w \in Launchers, Forward(w) PROVE InPlace'
    BY <1>13 DEF Forward, Goto, RestartUnit, Fault
  <1>14. ASSUME NEW w \in Launchers, Kill(w) PROVE InPlace'
    BY <1>14 DEF Kill, Goto
  <1>15. CASE GatewayFails
    BY <1>15 DEF GatewayFails, run, Fault
  <1>16. ASSUME NEW u \in {"proxy", "forward"}, UnitFails(u) PROVE InPlace'
    BY <1>16 DEF UnitFails, run, Fault
  <1>17. ASSUME NEW ch \in Channels, EgressCut(ch) PROVE InPlace'
    BY <1>17 DEF EgressCut, run, Fault
  <1>18. ASSUME NEW ch \in Channels, EgressBack(ch) PROVE InPlace'
    BY <1>18 DEF EgressBack, run
  <1>19. ASSUME NEW ch \in Channels, CredentialsRefused(ch) PROVE InPlace'
    BY <1>19 DEF CredentialsRefused, run
  <1>20. ASSUME NEW ch \in Channels, FailureLogged(ch) PROVE InPlace'
    BY <1>20 DEF FailureLogged, run, Fault
  <1>21. CASE BringUp
    BY <1>21 DEF BringUp, run, Fresh
  <1>22. CASE Tick
    BY <1>22 DEF Tick, run, Older
  <1>23. CASE UNCHANGED vars
    BY <1>23 DEF vars, run, outside, ages
  <1>24. ASSUME NEW w \in Launchers, Interrupt(w) PROVE InPlace'
    BY <1>24 DEF Interrupt, Goto
  <1>25. CASE OrphanEnds
    BY <1>25 DEF OrphanEnds
  <1>26. QED
    BY <1>1, <1>2, <1>3, <1>4, <1>5, <1>6, <1>7, <1>8, <1>9, <1>10, <1>11,
       <1>12, <1>13, <1>14, <1>15, <1>16, <1>17, <1>18, <1>19, <1>20, <1>21,
       <1>22, <1>23, <1>24, <1>25 DEF Next, RunStep, Around, Upheaval

\* The cooldown is looked at, and the timestamp set, by the run that deletes.
LEMMA SpacedStep == HInv /\ [Next]_vars => Spaced'
  <1> SUFFICES ASSUME HInv, [Next]_vars PROVE Spaced'
    OBVIOUS
  <1> USE HealAssumption DEF HInv, HealTypeOK, OneRun, Spaced, run, outside, ages
  <1>1. ASSUME NEW w \in Launchers, Begin(w) PROVE Spaced'
    BY <1>1 DEF Begin, Goto, Unlocked, RestartUnit, Fault
  <1>2. ASSUME NEW w \in Launchers, CheckReady(w) PROVE Spaced'
    BY <1>2 DEF CheckReady, Goto
  <1>3. ASSUME NEW w \in Launchers, CheckHealth(w) PROVE Spaced'
    BY <1>3 DEF CheckHealth, Goto
  <1>4. ASSUME NEW w \in Launchers, ReadLog(w) PROVE Spaced'
    BY <1>4 DEF ReadLog, Goto, Proceed
  <1>5. ASSUME NEW w \in Launchers, Probe(w) PROVE Spaced'
    BY <1>5 DEF Probe, Goto, Proceed
  <1>6. ASSUME NEW w \in Launchers, CheckCooldown(w) PROVE Spaced'
    BY <1>6 DEF CheckCooldown, Goto, Proceed
  <1>7. ASSUME NEW w \in Launchers, Stamp(w) PROVE Spaced'
    BY <1>7 DEF Stamp, Goto
  <1>8. ASSUME NEW w \in Launchers, Delete(w) PROVE Spaced'
    BY <1>8 DEF Delete, Goto, Fault
  <1>9. ASSUME NEW w \in Launchers, Created(w) PROVE Spaced'
    BY <1>9 DEF Created, ComesUp, Goto, Fresh, Proceed
  <1>10. ASSUME NEW w \in Launchers, CreateFails(w) PROVE Spaced'
    BY <1>10 DEF CreateFails, ComesUp, Fresh, Goto, Fault
  <1>11. ASSUME NEW w \in Launchers, Restart(w) PROVE Spaced'
    BY <1>11 DEF Restart, Goto
  <1>12. ASSUME NEW w \in Launchers, Restarted(w) PROVE Spaced'
    BY <1>12 DEF Restarted, Goto, Fault
  <1>13. ASSUME NEW w \in Launchers, Forward(w) PROVE Spaced'
    BY <1>13 DEF Forward, Goto, RestartUnit, Fault
  <1>14. ASSUME NEW w \in Launchers, Kill(w) PROVE Spaced'
    BY <1>14 DEF Kill, Goto
  <1>15. CASE GatewayFails
    BY <1>15 DEF GatewayFails, run, Fault
  <1>16. ASSUME NEW u \in {"proxy", "forward"}, UnitFails(u) PROVE Spaced'
    BY <1>16 DEF UnitFails, run, Fault
  <1>17. ASSUME NEW ch \in Channels, EgressCut(ch) PROVE Spaced'
    BY <1>17 DEF EgressCut, run, Fault
  <1>18. ASSUME NEW ch \in Channels, EgressBack(ch) PROVE Spaced'
    BY <1>18 DEF EgressBack, run
  <1>19. ASSUME NEW ch \in Channels, CredentialsRefused(ch) PROVE Spaced'
    BY <1>19 DEF CredentialsRefused, run
  <1>20. ASSUME NEW ch \in Channels, FailureLogged(ch) PROVE Spaced'
    BY <1>20 DEF FailureLogged, run, Fault
  <1>21. CASE BringUp
    BY <1>21 DEF BringUp, run, Fresh
  <1>22. CASE Tick
    BY <1>22 DEF Tick, run, Older
  <1>23. CASE UNCHANGED vars
    BY <1>23 DEF vars, run, outside, ages
  <1>24. ASSUME NEW w \in Launchers, Interrupt(w) PROVE Spaced'
    BY <1>24 DEF Interrupt, Goto
  <1>25. CASE OrphanEnds
    BY <1>25 DEF OrphanEnds
  <1>26. QED
    BY <1>1, <1>2, <1>3, <1>4, <1>5, <1>6, <1>7, <1>8, <1>9, <1>10, <1>11,
       <1>12, <1>13, <1>14, <1>15, <1>16, <1>17, <1>18, <1>19, <1>20, <1>21,
       <1>22, <1>23, <1>24, <1>25 DEF Next, RunStep, Around, Upheaval

-----------------------------------------------------------------------------
\* The strengthened invariant holds in every behaviour of the watchdog.
THEOREM HealInductive == Spec => []HInv
  <1>1. Init => HInv
    BY HealInit
  <1>2. HInv /\ [Next]_vars => HInv'
    BY HealTypeStep, OneRunStep, InPlaceStep, SpacedStep DEF HInv
  <1>3. QED
    BY <1>1, <1>2, PTL DEF Spec

\* Health checks, probes and restarts of a run happen in a sandbox that no other
\* run deletes meanwhile.
THEOREM WatchdogWorksInPlace == Spec => [](HealTypeOK /\ RestartsInPlace)
  <1>1. HInv => HealTypeOK /\ RestartsInPlace
    BY DEF HInv, InPlace, RestartsInPlace
  <1>2. QED
    BY <1>1, HealInductive, PTL

\* The sandbox is never deleted twice within a cooldown, whoever starts the runs
\* and wherever they are killed.
THEOREM RebuildsKeepTheCooldown == Spec => RebuildsSpaced
  <1>1. HInv => \A w \in Launchers :
                 pc[w] = "delete" /\ pc'[w] = "create" => sinceDelete = Cooldown
    BY DEF HInv, Spaced
  <1>2. QED
    BY <1>1, HealInductive, PTL DEF RebuildsSpaced

-----------------------------------------------------------------------------
(* The response monitor beside the watchdog *)

\* To the watchdog the monitor is one more launcher; a stop of a run that waits
\* for nobody is not the watchdog's.
LEMMA MonitorStepWatched ==
  ASSUME HInv, [MonitorNext]_<<vars, monitorVars>>
  PROVE  HInv'
  <1> USE MonitorAssumption
  <1>1. ASSUME [Next]_vars PROVE HInv'
    BY <1>1, HealTypeStep, OneRunStep, InPlaceStep, SpacedStep DEF HInv
  <1>2. CASE Look \/ WatchdogEnds \/ SaveState
    BY <1>1, <1>2 DEF Look, WatchdogEnds, SaveState
  <1>3. CASE Remediate
    BY <1>1, <1>3 DEF Remediate, Next
  <1>4. CASE Stop
    <2>1. CASE Kill(Monitor)
      BY <1>1, <2>1 DEF Next
    <2>2. CASE /\ kills < MaxKills /\ kills' = kills + 1
               /\ UNCHANGED <<run, sandbox, gateway, unitsDown, outside, ages, faults>>
      BY <2>2, HealAssumption DEF HInv, HealTypeOK, OneRun, InPlace, Spaced, run, outside, ages
    <2>3. QED
      BY <1>4, <2>1, <2>2 DEF Stop
  <1>5. CASE MonitorTick
    BY <1>1, <1>5 DEF MonitorTick, Next, Around
  <1>6. CASE Beside
    BY <1>1, <1>6 DEF Beside, Next, Around
  <1>7. CASE UNCHANGED <<vars, monitorVars>>
    BY <1>1, <1>7
  <1>8. QED
    BY <1>2, <1>3, <1>4, <1>5, <1>6, <1>7 DEF MonitorNext, MonitorStep

\* Rebuilds keep the cooldown and restarts happen in a sandbox that is there
\* also with the monitor's runs and stops in between.
THEOREM WatchdogBesideMonitor == MonitorSpec => RebuildsSpaced /\ []RestartsInPlace
  <1>1. MonitorInit => HInv
    BY HealInit DEF MonitorInit
  <1>2. HInv /\ [MonitorNext]_<<vars, monitorVars>> => HInv'
    BY MonitorStepWatched
  <1>3. HInv => RestartsInPlace
    BY DEF HInv, InPlace, RestartsInPlace
  <1>4. HInv => \A w \in Launchers :
                 pc[w] = "delete" /\ pc'[w] = "create" => sinceDelete = Cooldown
    BY DEF HInv, Spaced
  <1>5. QED
    BY <1>1, <1>2, <1>3, <1>4, PTL DEF MonitorSpec, RebuildsSpaced

\* A run in progress is the last that asked, and what is saved is when it began.
Remembered ==
  /\ main # "idle" => started = sinceAsked
  /\ main = "idle" => lastAction = sinceAsked \/ forgotten

\* Every step of the monitor remembers, or is the stop that forgets.
LEMMA RememberedStep ==
  ASSUME Remembered, [MonitorNext]_<<vars, monitorVars>>
  PROVE  Remembered'
  <1> USE DEF Remembered, monitorVars
  <1>1. CASE Look
    BY <1>1 DEF Look
  <1>2. CASE MonitorStep
    BY <1>2 DEF MonitorStep, Remediate, WatchdogEnds, SaveState
  <1>3. CASE Stop
    BY <1>3 DEF Stop
  <1>4. CASE MonitorTick
    BY <1>4 DEF MonitorTick
  <1>5. CASE Beside
    BY <1>5 DEF Beside
  <1>6. QED
    BY <1>1, <1>2, <1>3, <1>4, <1>5 DEF MonitorNext

\* The monitor asks for recovery once per cooldown, however long the watchdog
\* takes, unless it was stopped before it could save.
THEOREM RecoveryAskedOncePerCooldown == MonitorSpec => RequestsSpaced
  <1>1. MonitorInit => Remembered
    BY DEF MonitorInit, Remembered
  <1>2. Remembered /\ [MonitorNext]_<<vars, monitorVars>> => Remembered'
    BY RememberedStep
  <1>3. Remembered /\ [MonitorNext]_<<vars, monitorVars>>
          => [main = "idle" /\ main' = "call" => sinceAsked = MonitorCooldown \/ forgotten]_monitorVars
    <2> SUFFICES ASSUME Remembered, MonitorNext, main = "idle", main' = "call"
                 PROVE  sinceAsked = MonitorCooldown \/ forgotten
      BY DEF monitorVars
    <2>1. Look
      BY DEF MonitorNext, MonitorStep, Remediate, WatchdogEnds, SaveState, Stop, MonitorTick,
             Beside, monitorVars
    <2>2. QED
      BY <2>1 DEF Look, ShouldRemediate, Remembered, monitorVars
  <1>4. QED
    BY <1>1, <1>2, <1>3, PTL DEF MonitorSpec, RequestsSpaced
=============================================================================
