------------------------------ MODULE RalphRun ------------------------------
(***************************************************************************)
(* A ralph loop with its proposer: each attempt builds a workspace, runs   *)
(* an agent session in it, reads the candidate back, and registers it in   *)
(* hep's own process for trial, before the loop (RalphLoop) writes it to   *)
(* the file.  The session's agent is built by deepagents in that process,  *)
(* from the registry of harness profiles that the trial writes to.         *)
(***************************************************************************)
EXTENDS RalphLoop, Sequences

CONSTANTS
  Broken,    \* contents whose import or register() raises
  Garbled,   \* contents that are not Python
  Keys,      \* models a profile may be registered for
  Parts,     \* middleware and prompt parts of a profile
  Builtin,   \* the profiles deepagents brings, by key
  CallsOf,   \* by content: the registrations it makes, in order
  MaxTurns   \* ralph_max_turns

Contents == Configs \cup Broken \cup Garbled

ASSUME RunAssumption ==
  /\ MaxTurns \in Nat
  /\ DOMAIN Builtin \subseteq Keys /\ Builtin \in [DOMAIN Builtin -> SUBSET Parts]
  /\ \A c \in Configs \cup Broken : CallsOf[c] \in Seq([key : Keys, parts : SUBSET Parts])

VARIABLES
  phase,       \* where the attempt is: "idle" outside of one
  turns,       \* of the session
  draft,       \* current/profile.py, and the candidate read back from it
  workspaces,  \* workspace directories that exist
  loaded,      \* the built-in profiles have been loaded
  profiles,    \* _HARNESS_PROFILES: the registered profiles, by key
  impl,        \* what _register_harness_profile_impl is
  calls,       \* registrations the candidate has still to make
  touched,     \* touched_keys of the trial
  prior        \* prior_values: the profile of each touched key that had one

sessionVars == <<phase, turns, draft, workspaces>>
registryVars == <<loaded, profiles, impl, calls, touched, prior>>
runVars == <<vars, sessionVars, registryVars>>

With(f, k, v) == [x \in DOMAIN f \cup {k} |-> IF x = k THEN v ELSE f[x]]

-----------------------------------------------------------------------------
(* The workspace and the session *)

\* build_proposer_workspace: a directory of its own, with a copy of the config.
Build ==
  /\ pc = "propose" /\ phase = "idle"
  /\ phase' = "session" /\ turns' = 0
  /\ draft' = original
  /\ workspaces' = workspaces + 1
  /\ UNCHANGED <<vars, registryVars>>

\* An error while the directory is filled: it stays, and the run ends.
BuildFails ==
  /\ pc = "propose" /\ phase = "idle"
  /\ workspaces' = workspaces + 1
  /\ Interrupt
  /\ UNCHANGED <<phase, turns, draft, registryVars>>

\* create_deep_agent looks up the model's profile, so the built-in ones are loaded.
CreateAgent ==
  /\ phase = "session" /\ phase' = "agent"
  /\ loaded' = TRUE
  /\ profiles' = IF loaded THEN profiles ELSE Builtin
  /\ UNCHANGED <<vars, turns, draft, workspaces, impl, calls, touched, prior>>

\* The rules of the session's file tools: the first that covers a path decides.
Paths == {"/current", "/proposal.md", "/task.md", "/history", "/sdk", "/evals"}
Rules == <<[covers |-> {"/current", "/proposal.md"}, allow |-> TRUE],
           [covers |-> Paths, allow |-> FALSE]>>
MayWrite(path) ==
  \E i \in DOMAIN Rules : /\ path \in Rules[i].covers /\ Rules[i].allow
                          /\ \A j \in 1..(i - 1) : path \notin Rules[j].covers

AgentWrites ==
  /\ phase = "agent" /\ turns < MaxTurns
  /\ turns' = turns + 1
  /\ \E path \in Paths, c \in Contents :
       MayWrite(path) /\ draft' = (IF path = "/current" THEN c ELSE draft)
  /\ UNCHANGED <<vars, phase, workspaces, registryVars>>

\* Whatever the session came to, its directory is removed.
LeaveWorkspace == workspaces' = workspaces - 1

\* The session raised: a transient error or the turn limit is worth another
\* attempt, anything else is not.
SessionFails ==
  /\ phase \in {"session", "agent"}
  /\ NoProposal
  /\ phase' = "idle" /\ LeaveWorkspace
  /\ UNCHANGED <<turns, draft, registryVars>>

\* The candidate is what the file holds; an unchanged file is a refusal.
Declines ==
  /\ phase = "agent" /\ draft = original
  /\ NoProposal /\ pc' = "next"
  /\ phase' = "idle" /\ LeaveWorkspace
  /\ UNCHANGED <<turns, draft, registryVars>>

Answers ==
  /\ phase = "agent" /\ draft # original
  /\ phase' = "validate" /\ LeaveWorkspace
  /\ UNCHANGED <<vars, turns, draft, registryVars>>

-----------------------------------------------------------------------------
(* validate_config and _trial_register *)

Unparsable ==
  /\ phase = "validate" /\ draft \in Garbled
  /\ NoProposal /\ pc' = "next"
  /\ phase' = "idle"
  /\ UNCHANGED <<turns, draft, workspaces, registryVars>>

TrialStarts ==
  /\ phase = "validate" /\ draft \notin Garbled
  /\ phase' = "trial"
  /\ impl' = "tracking" /\ calls' = CallsOf[draft]
  /\ touched' = {} /\ prior' = [k \in {} |-> {}]
  /\ UNCHANGED <<vars, turns, draft, workspaces, loaded, profiles>>

\* Mutant of Prior: the value before the last registration, not before the first.
Prior_Last(k) == IF k \in DOMAIN profiles THEN With(prior, k, profiles[k]) ELSE prior

\* What the trial remembers of a key, at its first registration.
Prior(k) ==
  IF k \notin touched /\ k \in DOMAIN profiles THEN With(prior, k, profiles[k]) ELSE prior

\* One registration: it is merged onto what the key has.
Registers ==
  /\ phase = "trial" /\ calls # <<>>
  /\ LET k == Head(calls).key
         old == IF k \in DOMAIN profiles THEN profiles[k] ELSE {}
     IN /\ prior' = Prior(k)
        /\ touched' = touched \cup {k}
        /\ profiles' = With(profiles, k, old \cup Head(calls).parts)
  /\ calls' = Tail(calls)
  /\ UNCHANGED <<vars, sessionVars, loaded, impl>>

\* unregister_harness_profile.  The session has loaded the built-in profiles.
Unregistered(f, ks) == [k \in DOMAIN f \ ks |-> f[k]]

\* The finally: each touched key gets its prior profile, or none.
RestoreProfiles ==
  /\ impl' = "original"
  /\ LET left == Unregistered(profiles, touched \ DOMAIN prior)
     IN profiles' = [k \in DOMAIN left |-> IF k \in DOMAIN prior THEN prior[k] ELSE left[k]]
  /\ touched' = {} /\ prior' = [k \in {} |-> {}] /\ calls' = <<>>
  /\ UNCHANGED loaded

TrialSucceeds ==
  /\ phase = "trial" /\ calls = <<>> /\ draft \in Configs
  /\ Propose /\ config' = draft
  /\ phase' = "idle" /\ RestoreProfiles
  /\ UNCHANGED <<turns, draft, workspaces>>

TrialRaises ==
  /\ phase = "trial" /\ calls = <<>> /\ draft \in Broken
  /\ NoProposal /\ pc' = "next"
  /\ phase' = "idle" /\ RestoreProfiles
  /\ UNCHANGED <<turns, draft, workspaces>>

-----------------------------------------------------------------------------
(* The run *)

\* What the loop does between attempts.
LoopStep ==
  /\ RunSuite \/ TakeFailure \/ EndRound \/ VerifyPasses \/ VerifyFails \/ Rollback
  /\ UNCHANGED <<sessionVars, registryVars>>

\* The finally clauses run on the way out.
Stops ==
  /\ Interrupt
  /\ phase' = "idle" /\ UNCHANGED <<turns, draft>>
  /\ IF phase \in {"session", "agent"} THEN LeaveWorkspace ELSE UNCHANGED workspaces
  /\ IF phase = "trial" THEN RestoreProfiles ELSE UNCHANGED registryVars

AttemptStep ==
  \/ Build \/ CreateAgent \/ AgentWrites \/ SessionFails \/ Declines \/ Answers
  \/ Unparsable \/ TrialStarts \/ Registers \/ TrialSucceeds \/ TrialRaises

\* The registry as deepagents has it, before any profile of a candidate.
Unaltered == IF loaded THEN Builtin ELSE [k \in {} |-> {}]

RunInit ==
  /\ Init
  /\ phase = "idle" /\ turns = 0 /\ draft = config /\ workspaces = 0
  /\ loaded \in BOOLEAN /\ profiles = Unaltered
  /\ impl = "original" /\ calls = <<>> /\ touched = {} /\ prior = [k \in {} |-> {}]

RunNext == LoopStep \/ AttemptStep \/ BuildFails \/ Stops

\* Sequential code whose calls return, the session's by its turn limit.
RunSpec == RunInit /\ [][RunNext]_runVars /\ WF_runVars(LoopStep \/ AttemptStep)

-----------------------------------------------------------------------------
\* An attempt leaves nothing behind but the file: between attempts the registry
\* is what it was, so that the next trial and the next agent start from it, and
\* no workspace is left, unless the run ended while one was being filled.
AttemptLeavesNoTrace ==
  phase = "idle" =>
    /\ impl = "original"
    /\ profiles = Unaltered
    /\ pc # "stopped" => workspaces = 0
=============================================================================
