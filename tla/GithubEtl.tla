----------------------------- MODULE GithubEtl ------------------------------
(***************************************************************************)
(* The GitHub ETL (github-etl/run-etl.sh, persist_state.py): every hour a  *)
(* pipeline of three processes, tap-github | persist_state | target.  The  *)
(* tap reads the changes after the saved state, in order, and writes a     *)
(* STATE after records; persist_state passes every line on, and saves the  *)
(* last STATE when its input ends; the target loads what it is given.      *)
(*                                                                         *)
(* Each process may fail while the others go on.  Changes are numbered in  *)
(* the order of updated_at; when[i] is the hour of change i.  The streams  *)
(* behave alike, and one is modelled.                                      *)
(***************************************************************************)
EXTENDS SourceMirror, FiniteSets, Sequences

CONSTANTS
  NoState,      \* no state file, or an empty one
  MaxChanges,   \* bound: changes on GitHub
  MaxBreaks     \* bound: processes that fail, containers that are stopped

ASSUME GithubAssumption ==
  /\ NoState \notin Int /\ MaxChanges \in Nat /\ MaxBreaks \in Nat

VARIABLES
  when,         \* the hours of the changes on GitHub
  file,         \* the state file: the last change it covers
  stage,        \* "begin", "sync", "refresh" or "sleep"
  tap, persist, target,   \* "off", "runs", "done" or "dead"
  position,     \* the last change the tap has written
  latestState,  \* the last STATE persist_state has read
  inFlight,     \* records the target has been given and has not loaded
  loaded,       \* changes in the raw tables
  tooOld, failedLate,     \* history, see SkipsExplained
  breaks

pipeline == <<tap, persist, target, position, latestState, inFlight>>
github == <<when, file, stage, loaded, tooOld, failedLate, breaks>>
githubVars == <<github, pipeline>>

Changes == DOMAIN when

Older(limit) == {i \in Changes : when[i] < limit}

-----------------------------------------------------------------------------
\* No process of the pipeline runs.
NoPipeline ==
  /\ tap' = "off" /\ persist' = "off" /\ target' = "off"
  /\ position' = 0 /\ latestState' = NoState /\ inFlight' = {}

\* A start date is configured only if there is no state to start from.
RunEtl ==
  /\ stage = "begin" /\ stage' = "sync"
  /\ tap' = "runs" /\ persist' = "runs" /\ target' = "runs"
  /\ position' = IF file = NoState THEN Cardinality(Older(now - Backfill)) ELSE file
  /\ tooOld' = IF file = NoState THEN tooOld \cup Older(now - Backfill) ELSE tooOld
  /\ UNCHANGED <<now, mirror, when, file, loaded, failedLate, breaks, latestState, inFlight>>

\* A line of the tap's reaches the target, unless persist_state is gone (the
\* tap dies of the broken pipe) or the target is (persist_state does).
Written ==
  /\ tap' = IF persist = "runs" THEN tap ELSE "dead"
  /\ persist' = IF persist = "runs" /\ target = "dead" THEN "dead" ELSE persist

TapRecord ==
  /\ tap = "runs" /\ position < Len(when)
  /\ position' = position + 1
  /\ Written
  /\ inFlight' = IF persist = "runs" /\ target = "runs" THEN inFlight \cup {position + 1}
                                                         ELSE inFlight
  /\ UNCHANGED <<now, mirror, github, target, latestState>>

\* A STATE line covers the records before it.
TapState ==
  /\ tap = "runs"
  /\ Written
  /\ latestState' = IF persist' = "runs" THEN position ELSE latestState
  /\ UNCHANGED <<now, mirror, github, target, position, inFlight>>

\* The tap ends after the STATE of its last record.
TapEnds ==
  /\ tap = "runs" /\ position = Len(when)
  /\ latestState = position \/ persist # "runs"
  /\ tap' = "done"
  /\ UNCHANGED <<now, mirror, github, persist, target, position, latestState, inFlight>>

\* Mutant of PersistState: saved for every STATE that comes.
PersistState_Early ==
  /\ persist = "runs"
  /\ IF tap = "runs" THEN UNCHANGED persist ELSE persist' = "done"
  /\ file' = IF latestState = NoState THEN file ELSE latestState
  /\ failedLate' = IF target = "dead" THEN failedLate \cup inFlight ELSE failedLate
  /\ UNCHANGED <<now, mirror, when, stage, loaded, tooOld, breaks, tap, target, position,
                 latestState, inFlight>>

\* At the end of its input, whichever way the tap ended; os.replace leaves the
\* old state or the new one.
PersistState ==
  /\ persist = "runs" /\ tap \in {"done", "dead"}
  /\ persist' = "done"
  /\ file' = IF latestState = NoState THEN file ELSE latestState
  /\ failedLate' = IF target = "dead" THEN failedLate \cup inFlight ELSE failedLate
  /\ UNCHANGED <<now, mirror, when, stage, loaded, tooOld, breaks, tap, target, position,
                 latestState, inFlight>>

\* target-postgres loads what it has been given, when it is many or at the end.
TargetLoads ==
  /\ target = "runs" /\ inFlight # {}
  /\ loaded' = loaded \cup inFlight /\ inFlight' = {}
  /\ tables' = tables \cup {"github-issues"}
  /\ UNCHANGED <<now, views, when, file, stage, tooOld, failedLate, breaks, tap, persist,
                 target, position, latestState>>

TargetEnds ==
  /\ target = "runs" /\ persist \in {"done", "dead"} /\ inFlight = {}
  /\ target' = "done"
  /\ UNCHANGED <<now, mirror, github, tap, persist, position, latestState, inFlight>>

Break == breaks < MaxBreaks /\ breaks' = breaks + 1

\* GitHub refuses, the state cannot be written, or Postgres fails.
ProcessFails ==
  /\ Break
  /\ \/ tap = "runs" /\ tap' = "dead" /\ UNCHANGED <<persist, target, failedLate>>
     \/ persist = "runs" /\ persist' = "dead" /\ UNCHANGED <<tap, target, failedLate>>
     \/ /\ target = "runs" /\ target' = "dead" /\ UNCHANGED <<tap, persist>>
        /\ failedLate' = IF persist = "done" THEN failedLate \cup inFlight ELSE failedLate
  /\ UNCHANGED <<now, mirror, when, file, stage, loaded, tooOld, position, latestState,
                 inFlight>>

\* set -e, pipefail: after a failure the container exits, and is started again.
SyncEnds ==
  /\ stage = "sync"
  /\ {tap, persist, target} \subseteq {"done", "dead"}
  /\ stage' = IF "dead" \in {tap, persist, target} THEN "begin" ELSE "refresh"
  /\ NoPipeline
  /\ UNCHANGED <<now, mirror, when, file, loaded, tooOld, failedLate, breaks>>

GithubRefresh ==
  /\ stage = "refresh" /\ stage' = "sleep"
  /\ RefreshViews
  /\ UNCHANGED <<now, tables, when, file, loaded, tooOld, failedLate, breaks, pipeline>>

\* The container is stopped with all that runs in it, and started again.
Stopped ==
  /\ stage \in {"sync", "refresh"} /\ stage' = "begin"
  /\ Break
  /\ failedLate' = IF persist = "done" THEN failedLate \cup inFlight ELSE failedLate
  /\ NoPipeline
  /\ UNCHANGED <<now, mirror, when, file, loaded, tooOld>>

-----------------------------------------------------------------------------
Change ==
  /\ Len(when) < MaxChanges /\ when' = Append(when, now)
  /\ UNCHANGED <<now, mirror, file, stage, loaded, tooOld, failedLate, breaks, pipeline>>

Hour ==
  /\ now < MaxNow /\ now' = now + 1
  /\ stage' = IF stage = "sleep" THEN "begin" ELSE stage
  /\ UNCHANGED <<mirror, when, file, loaded, tooOld, failedLate, breaks, pipeline>>

GithubInit ==
  /\ MirrorInit
  /\ when = <<>> /\ file = NoState /\ stage = "begin"
  /\ tap = "off" /\ persist = "off" /\ target = "off"
  /\ position = 0 /\ latestState = NoState /\ inFlight = {}
  /\ loaded = {} /\ tooOld = {} /\ failedLate = {} /\ breaks = 0

GithubNext ==
  \/ RunEtl \/ TapRecord \/ TapState \/ TapEnds \/ PersistState \/ TargetLoads \/ TargetEnds
  \/ ProcessFails \/ SyncEnds \/ GithubRefresh \/ Stopped \/ Change \/ Hour

GithubSpec == GithubInit /\ [][GithubNext]_<<now, mirror, githubVars>>

-----------------------------------------------------------------------------
\* Changes the next run does not read again.
Behind == IF file = NoState THEN Older(now - Backfill) ELSE 1..file

\* The state file runs ahead of the tables in one way only: the target fails,
\* or the container is stopped, when persist_state has seen the end of the
\* tap's output.  Whatever else stops a run, the next one reads it again.
SkipsExplained ==
  file # NoState => Behind \subseteq loaded \cup tooOld \cup failedLate
                                     \cup (IF target = "runs" THEN inFlight ELSE {})
=============================================================================
