---------------------------- MODULE OutlookJobs ----------------------------
(***************************************************************************)
(* The scheduled jobs of the Outlook bridge (_job_loop and _run_job of     *)
(* outlook-bridge.py): every 30 seconds the loop reads the wall clock and  *)
(* spawns each job whose "HH:MM" it is and which it has not spawned today. *)
(* A job asks the agent and mails the answer.                              *)
(*                                                                         *)
(* The wall clock is local time: it is set back and forward within a day.  *)
(* A day is shortened to the minutes 0..LastMinute.  Before the loop comes *)
(* the start-up of OutlookStart, whose last step loads the jobs.           *)
(***************************************************************************)
EXTENDS OutlookStart

CONSTANTS
  Jobs,         \* the jobs of outlook-jobs.json that have a prompt
  LastMinute,   \* last minute of a day
  Time,         \* Time[j]: the job's "time", as a minute of the day
  MaxDays,      \* bound: days in a behaviour
  MaxClockSets, \* bound: times the clock is set
  MaxJobFaults, \* bound: failing calls
  MaxRestarts   \* bound: stops of the process

ASSUME JobsAssumption ==
  /\ LastMinute \in Nat
  /\ Time \in [Jobs -> 0..LastMinute]
  /\ MaxDays \in Nat /\ MaxClockSets \in Nat /\ MaxJobFaults \in Nat /\ MaxRestarts \in Nat

VARIABLES
  jobs,         \* the jobs that were loaded
  minute, day,  \* the wall clock
  tickDue,      \* the loop has run since this minute began and not ticked in it
  lastDay,      \* last_day
  firedToday,   \* the jobs with _fired_today
  jobRun,       \* where the task of each job is
  firings,      \* history: times each job was spawned on this day
  clockSets, jobFaults, restarts   \* what is used up of each bound

clockVars == <<minute, day, tickDue, clockSets>>
loopVars  == <<lastDay, firedToday, firings>>
jobVars   == <<jobs, minute, day, tickDue, lastDay, firedToday, jobRun, firings,
               clockSets, jobFaults, restarts>>
allJobVars == <<up, startVars, jobVars>>

Midnight == minute = LastMinute

\* _job_loop runs: it is started only if there are jobs, and a signal ends it.
Looping == up /\ ~shutdown /\ jobs # {}

\* ask_hermes and sendMail time out within 25 minutes, so a job is over long
\* before its time comes again.
JobsOver(t) == \A j \in Jobs : Time[j] = t => jobRun[j] = "idle"

\* The loop ticks every 30 seconds: no minute passes it by.
AdvanceMinute ==
  /\ ~tickDue
  /\ IF Midnight
       THEN day < MaxDays /\ day' = day + 1 /\ minute' = 0 /\ firings' = [j \in Jobs |-> 0]
       ELSE minute' = minute + 1 /\ UNCHANGED <<day, firings>>
  /\ JobsOver(minute')
  /\ tickDue' = Looping
  /\ UNCHANGED <<up, startVars, jobs, lastDay, firedToday, jobRun, clockSets, jobFaults, restarts>>

\* The clock is set within the day (summer time, an adjustment).
SetClock(t) ==
  /\ clockSets < MaxClockSets /\ t # minute
  /\ clockSets' = clockSets + 1
  /\ minute' = t
  /\ JobsOver(t)
  /\ tickDue' = Looping
  /\ UNCHANGED <<up, startVars, jobs, day, loopVars, jobRun, jobFaults, restarts>>

\* Mutant of DueJobs: _fired_today is not looked at.
DueJobs_Again(fired) == {j \in jobs : Time[j] = minute}

\* Jobs spawned by a tick, given the jobs already spawned today.
DueJobs(fired) == {j \in jobs : Time[j] = minute /\ j \notin fired}

\* Mutant of FiredBefore: _fired_today is never cleared.
FiredBefore_Kept == firedToday

\* On the first tick of a day, nothing was spawned today.
FiredBefore == IF day # lastDay THEN {} ELSE firedToday

\* One turn of _job_loop.
JobTick ==
  /\ Looping
  /\ firedToday' = FiredBefore \cup DueJobs(FiredBefore)
  /\ jobRun' = [j \in Jobs |-> IF j \in DueJobs(FiredBefore) THEN "asking" ELSE jobRun[j]]
  /\ firings' = [j \in Jobs |-> IF j \in DueJobs(FiredBefore) THEN firings[j] + 1
                                                              ELSE firings[j]]
  /\ lastDay' = day
  /\ tickDue' = FALSE
  /\ UNCHANGED <<up, startVars, jobs, minute, day, clockSets, jobFaults, restarts>>

\* ask_hermes for the job returned; without an answer the job is over.
JobAsk(j) ==
  /\ up /\ jobRun[j] = "asking"
  /\ \/ jobRun' = [jobRun EXCEPT ![j] = "sending"] /\ UNCHANGED jobFaults
     \/ /\ jobFaults < MaxJobFaults
        /\ jobFaults' = jobFaults + 1
        /\ jobRun' = [jobRun EXCEPT ![j] = "idle"]
  /\ UNCHANGED <<up, startVars, jobs, clockVars, loopVars, restarts>>

\* sendMail returned or raised; either way the job is over.
JobSend(j) ==
  /\ up /\ jobRun[j] = "sending"
  /\ jobRun' = [jobRun EXCEPT ![j] = "idle"]
  /\ UNCHANGED <<up, startVars, jobs, clockVars, loopVars, jobFaults, restarts>>

\* The process stops: _fired_today, last_day and the tasks are memory.
JobsStop ==
  /\ up /\ restarts < MaxRestarts
  /\ LeaveLoops
  /\ restarts' = restarts + 1
  /\ up' = FALSE
  /\ tickDue' = FALSE
  /\ lastDay' = -1
  /\ firedToday' = {}
  /\ jobRun' = [j \in Jobs |-> "idle"]
  /\ UNCHANGED <<jobs, minute, day, firings, clockSets, jobFaults>>

\* The jobs are loaded, or none if the file is not there or cannot be read.
_load_jobs ==
  /\ EnterLoops
  /\ up' = TRUE
  /\ jobs' \in {Jobs, {}}
  /\ UNCHANGED <<clockVars, loopVars, jobRun, jobFaults, restarts>>

\* The other steps of the start-up; a signal takes the loop's next tick away.
StartUp ==
  /\ main \/ Signal \/ wait_for_hermes \/ initialize_allowed_senders
  /\ tickDue' = (tickDue /\ ~shutdown')
  /\ UNCHANGED <<up, jobs, minute, day, clockSets, loopVars, jobRun, jobFaults, restarts>>

JobsInit ==
  /\ StartInit
  /\ up = FALSE
  /\ jobs = {}
  /\ minute \in 0..LastMinute
  /\ day = 1
  /\ tickDue = FALSE
  /\ lastDay = -1
  /\ firedToday = {}
  /\ jobRun = [j \in Jobs |-> "idle"]
  /\ firings = [j \in Jobs |-> 0]
  /\ clockSets = 0 /\ jobFaults = 0 /\ restarts = 0

Clock == AdvanceMinute \/ \E t \in 0..LastMinute : SetClock(t)
JobSteps == JobTick \/ \E j \in Jobs : JobAsk(j) \/ JobSend(j)

JobsNext == Clock \/ JobSteps \/ JobsStop \/ StartUp \/ _load_jobs

JobsSpec == JobsInit /\ [][JobsNext]_allJobVars

-----------------------------------------------------------------------------
JobsTypeOK ==
  /\ StartTypeOK /\ up = (boot = "loops") /\ jobs \in {Jobs, {}}
  /\ tickDue \in BOOLEAN
  /\ minute \in 0..LastMinute /\ day \in 1..(MaxDays + 1)
  /\ lastDay \in {-1} \cup 1..(MaxDays + 1)
  /\ firedToday \subseteq Jobs
  /\ jobRun \in [Jobs -> {"idle", "asking", "sending"}]
  /\ firings \in [Jobs -> Nat]
  /\ clockSets \in 0..MaxClockSets /\ jobFaults \in 0..MaxJobFaults
  /\ restarts \in 0..MaxRestarts

\* A job runs once a day, however often its minute comes: the second tick of the
\* minute and a clock set back do not run it again.  Only a restart, which
\* forgets what was spawned, can.
OncePerDay == \A j \in Jobs : firings[j] <= 1 + restarts

\* Once the loop has ticked in a job's minute the job has run on that day, on
\* the first day and on every later one, whatever the start-up before it met.
NoDaySkipped ==
  \A j \in jobs : Looping /\ minute = Time[j] /\ lastDay = day /\ ~tickDue => firings[j] >= 1
=============================================================================
