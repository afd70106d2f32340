# TLA+ models of the NemoClaw community examples

The repository is a collection of example deployments around the NemoClaw /
OpenShell sandbox. Much of it is provisioning. The code that keeps state while
other things happen is in some twenty programs, and those are modelled here in
TLA+, checked with TLC on small instances, and eight modules of proofs show
the main properties with TLAPS for instances of any size.

Paths below are relative to `src/examples/`. `PCST` stands for
`personal-community-sentiment-triage`, `HEP` for
`harness-engineering-playground`, `BLENDER` for
`blender-omniverse-dgx-station`.

## 1. Inventory

| Component | Code | State | Operations | What is hard about it | What makes it correct |
|---|---|---|---|---|---|
| Outlook bridge, mail | `PCST/agents/hermes/bridges/outlook/outlook-bridge.py` | delta link (memory and file), `_in_flight`, `_sem`, tasks | poll, page, save link, spawn; handle: ask, reply, mark read | poll loop and handlers interleave at every await; mail changes meanwhile; calls fail; links expire; the process stops and restarts from the file | no mail lost silently, one handler per message, permits balanced, replies bounded by listings, every message settles |
| Outlook bridge, start-up and jobs | same file, `_async_main`, `wait_for_hermes`, `initialize_allowed_senders`, `_load_jobs`, `_job_loop`, `_run_job` | the shutdown event, `_fired_today`, `last_day` | wait, resolve, load; tick, ask, send | starts that fail, signals before the loops; two ticks a minute, clock changes, midnight, restarts | once a day, and every day |
| nemo-relay plugin | `PCST/agents/hermes/plugins/nemo-relay/__init__.py` | `_PENDING_PRE`, the gateway URL looked up once, the client | pre and post hooks of tool calls and of model requests, forwarding | hooks on threads share a lookup, a client and queues; pre without post; post without pre; full queue; posts that time out | an entry is echoed once; the gateway sees a pair of events with one id for every call in step, and both events of a model request |
| HEP ralph loop | `HEP/src/hep/optimizers/base.py`, `ralph.py`, `adapters/deepagents.py` | config file, snapshot, counters, last report | suite run, propose, verify, keep or roll back | flaky evals, lost reports, proposals that fail, budgets that run out mid-round, interruption | only verified improvements stay; the report is about the final config; the loop ends |
| HEP proposer sessions and trial registration | `HEP/src/hep/optimizers/_agentic_proposer.py`, `_proposer_workspace.py`, `adapters/deepagents.py`, `_deepagents_patch.py` | workspace directory, deepagents' profile registry, the patched register function | build, session, read back, register for trial, restore | a candidate that registers a key twice or raises half way; a session that ends by its turn limit; built-in profiles loaded lazily in between | an attempt leaves nothing behind but the file |
| Auto-heal watchdog | `PCST/scripts/autoheal/watchdog.sh`, `lib.sh`, `PCST/scripts/03-sandbox.sh` | lock, sandbox-recreate timestamp; outside: sandbox, gateway, host units | health check, log and probe, restart, rebuild, forward | several launchers, commands that take minutes or fail, runs killed or interrupted half way, a lock that children inherit, old log lines | rebuilds are spaced, restarts meet a sandbox, the service comes back |
| Slack response monitor | `PCST/scripts/autoheal/slack-response-monitor.py` | its own cooldown | look at log and Slack, start the watchdog, save | it waits minutes for the watchdog and saves only then; its request is lost when the lock is taken | requests are spaced |
| ATIF export | `PCST/agents/hermes/bridges/atif/atif-bridge.py`, `PCST/extras/atif-export-relay/` | the relay's memoized prefix and token; the exporter keeps or drops a sink | PUT through bridge and relay to an object store | one hop gives up, dies or loses an answer after the next has stored | a stored object is acknowledged, an unacknowledged one is not believed; nothing outside the scope |
| Source ETLs | `PCST/extras/source-etls/` | mirror tables, views, saved state, a leftover load package | fetch, upsert, save state, refresh views | pages of a list that moves, three processes in a pipe, runs that fail half way and are repeated | what was in reach is shown; the saved state does not run ahead of the tables |
| Live GitHub reader, source queries | `PCST/agents/hermes/skills/github-readonly-live/`, `source-etl-query/` | none that lasts | list page by page, count, query | the list changes between two pages; filtered pages, limits | "complete" is worth its name |
| Watchtower | `watchtower/skills/watchtower/` (`SKILL.md`, `diff_state.py`, `commit_state.py`) | the ledger `state/seen.json` | search, diff, digest and changelog, commit | overlapping sweeps, no lock, sweeps that die | the ledger hides only what was reported, has each URL once, and forgets nothing |
| Retail API and command line | `retail-assistant/docker-compose/api/main.py`, `retail_database/init.sql`, `scripts/skills/retail-api/scripts/retail-api.js` | database, tokens | login, role-filtered queries, transfers, reorders, `/query` | the scope of a write is decided in four places, and a text of `/query` may leave two of them behind; tokens outlive what they say; commits fail; answers time out | nobody writes outside the role's scope in the session it was given; a token's claim ends with it; what is printed is what happened |
| OVPhysX helper | `BLENDER/scripts/ovphysx_host_helper.py`, `run_ovphysx_timeline.py` | files of one output directory, Blender's scenes | bootstrap, preview, simulate, replay, status | files and scenes outlive the action that made them; runners that are killed or refuse | a pass is that of its own run; frames are those of the replay |
| Blender workflow helpers | `BLENDER/scripts/blender_workflow_mcp_server.py`, `blender_workflow_helper.py` | queue in Blender, artifacts | five tools behind an MCP server | the server stops waiting, Blender does not stop working | a receipt is the one of its own call and holds |
| Sandbox start | `PCST/agents/hermes/start.sh`, `PCST/scripts/lib/sandbox-init.sh` | process ids | start in order, wait, forward signals | a child dies while another starts | no child outlives the script |
| Bring-up, tear-down, host TLS proxy, retail and Blender set-up | `PCST/scripts/`, `retail-assistant/`, `BLENDER/scripts/` | in external tools | sequential command lines | partial failure | rerunnable |
| Other skills, watchlists, config generation, license header check | `PCST/agents/hermes/`, `watchtower/`, `../scripts/` | none | single requests, text processing | none beyond I/O | |

Interactions. The mail side and the job side of the Outlook bridge share one
asyncio process and the Hermes agent; they share no state. Hermes calls the
nemo-relay plugin around every tool call; the plugin posts to the NeMo-Relay
gateway, whose traces leave through the ATIF bridge and relay. Auto-heal
restarts or recreates the sandbox in which Hermes and the bridges run, which for
the bridge is a stop at an arbitrary point; the response monitor starts
auto-heal. The HEP loop calls its adapter (eval runs as subprocesses) and a
proposer session, which runs in hep's own process, as the trial registration
does. The ETLs fill the tables that the query skill reads through PostgREST;
the live reader is the other way to the same repository. Both Blender helpers
run on the main thread of one Blender.

## 2. Modules

| Module | Models | Extends / instances |
|---|---|---|
| `OutlookProcess` | the variable that says that the bridge's loops run | |
| `OutlookBridge` | polling, delta links, handlers, semaphore, stop and boot | `OutlookProcess` |
| `OutlookStart` | the start-up of the bridge | `OutlookProcess` |
| `OutlookJobs` | the job loop on a settable wall clock, after the start-up | `OutlookStart` |
| `RelayPlugin` | the queues of the tool-call hooks | |
| `RelayHooks` | all four hooks, their events and how they are forwarded; implements `RelayPlugin` | `RelayPlugin` |
| `HarnessTuning` | abstract: what an optimizer run promises about the file it tunes | |
| `RalphLoop` | the loop, location by location; implements `HarnessTuning` | `INSTANCE HarnessTuning` |
| `RalphRun` | the loop with its proposer sessions and trial registrations; implements `RalphLoop` | `RalphLoop` |
| `AutoHeal` | watchdog runs, lock, timestamp, the sandbox and what goes wrong around it | |
| `ResponseMonitor` | the monitor beside the watchdog | `AutoHeal` |
| `SweepLedger` | abstract: what the ledger promises to those who read the digests | |
| `Watchtower` | overlapping sweeps over the ledger; implements `SweepLedger` | `INSTANCE SweepLedger` |
| `AtifExport` | sink, bridge, relay, store | |
| `SourceMirror` | the tables, the views and the queries of the ETLs | |
| `ForumsEtl`, `GithubEtl` | the two ETLs | `SourceMirror` |
| `GithubLive` | the live GitHub reader | |
| `RetailApi` | tokens, endpoints, roles and policies | |
| `RetailCli` | the command line client in front of the API | `RetailApi` |
| `OvPhysXHelper` | simulate, preview, replay over files and scenes | |
| `BlenderWorkflow` | MCP server and Blender's side of it | |
| `BlenderHost` | both on one Blender | `BlenderWorkflow`, `OvPhysXHelper` |
| `OutlookBridgeProofs` | theorems and proofs | `OutlookBridge`, `OutlookJobs` |
| `RelayPluginProofs` | the same | `RelayHooks` |
| `AutoHealProofs` | the same | `ResponseMonitor` |
| `WatchtowerProofs` | the same | `Watchtower` |
| `RalphRunProofs` | the same | `RalphRun` |
| `ExtrasProofs` | the same | `AtifExport`, `ForumsEtl`, `GithubEtl`, `GithubLive` |
| `RetailProofs` | the same | `RetailCli` |
| `BlenderProofs` | the same | `BlenderHost` |
| `MC...` | constants for TLC | the module of the name |

### Outlook bridge

One action is one stretch of code between two awaits. `FirstPage`, `NextPage`,
`LinkRefused` and `PollFails` are the outcomes of a request in `poll_inbox`;
`SaveAndSpawn` is everything from the end of `_save_delta_link` to the end of
the poll in `_poll_loop`, so the `_in_flight` test in it sees what the handlers
did while the pages came in. `Start`, `Acquire`, `Ask`, `Reply` and `MarkRead`
are the stretches of a handler; every one of them that calls out has a failing
outcome, and each ends the way the code's `except` clauses say: the handler goes on to
`_mark_read`, unless it raises before (`Raises`: a message without a field it
reads), and the permit and the `_in_flight` entry are always given back, by
`Leave`.

A delta link is represented by what it stands for on the server: the set of
messages that changed since it was issued. This is the delta query as the code
relies on it, and it is external: `Listing`, `Bump`, `Changed` and the actions
of the mailbox owner. A page can hold any non-empty part of what is left to
list, and a message changed after the round began belongs to the link the round
will end with. `isRead` and `@removed` are read when a page arrives.

`deltaLink` is `_delta_link`, `savedLink` is the file. `Stop` happens anywhere;
a stop while the file is written leaves the old link, the new one, or a
truncated file, which `_load_delta_link` treats like none. `Boot` restores the
link. Boot stands for the health check and the sender resolution too: until they
succeed the process does not poll (`OutlookStart` has them one by one).

Left out: the 429 retry inside one Graph call (it repeats the same call), the
wording of prompts and mails, and the empty-allowlist mode, which is
`Allowed = Messages`. A duplicate id within one delta round is not modelled.

### Start-up and scheduled jobs

`OutlookStart` is `_async_main` up to its loops: `wait_for_hermes`,
`initialize_allowed_senders`, `_load_jobs` (in `OutlookJobs`, since it gives the
jobs), `EnterLoops`. `Exit` is every way out of it, by an error that
`asyncio.run` ends the process with. `Signal` only sets an event, which is
looked at by the sender loop and by the loops at the end, not by the health
check. `main` starts the process, any number of times while `MaxBadStarts` lets
it; then it stays down.

`AdvanceMinute` and `SetClock` are the environment; a minute does not pass
without a tick, since the loop sleeps 30 seconds. The clock is not set across
midnight. A job is over before its minute comes again: its calls time out after
20 minutes for the agent and 5 for the mail. `JobTick` is one turn of
`_job_loop`, with the day change before the lookup as in the code.

### nemo-relay plugin

In `RelayPlugin` each hook of a tool call is two actions: the queue operation
under the lock, then the end of the hook. A queue holds calls, which stand for
the ids their pre events made; `Id` says which ids are equal. `Block` is a tool
Hermes blocks after the pre event, `PreMissed` a pre the plugin was not loaded
for. `disturbed` records the keys for which something happened that a FIFO
cannot survive.

`RelayHooks` has what lies in between. `_forward` is `_gateway_url`, under the
lock (the first hook looks the URL up, for all; without a URL the hook returns),
and `Post`, with the client that the first post makes. A post that fails or
finds no client loses its event, which may have reached the gateway all the
same; nothing is repeated. An event is what its hook makes of its arguments:
which list of messages a pre of a model request takes, which shapes of an answer
it passes on, and which of the ids known a tool event carries. Each step of it is a
step of `RelayPlugin` or leaves its variables alone.

### Ralph loop, proposer sessions and trials

In `RalphLoop`, `pc` is the place in `IterativeFixOptimizer.run`. The proposer
outcomes come down to three: give up (also an invalid config), try again, a
valid config that differs from the snapshot. The result of an eval depends on
the config through `works`, which is any function, except for `Flaky` tasks,
whose result is free. A run without a report is an empty suite result, or a
failed verification. `verify_runs` is at least 1. `Interrupt` is an exception or
a signal; with a candidate in the file it leads to `dirty`.

`RalphRun` replaces the one step "propose" by what happens in it: `Build` and
`BuildFails` (the workspace), `CreateAgent` (which makes deepagents load its
built-in profiles), `AgentWrites` under the session's rules and turn limit,
`SessionFails`, `Declines` or `Answers`, and then the trial of
`validate_config`: `TrialStarts` patches the register function, `Registers` is
one registration, `TrialSucceeds`, `TrialRaises` and `Stops` are the three ways
out, all through `RestoreProfiles`. The registry is a function from keys to sets
of parts, because deepagents merges what is registered again.

`HarnessTuning` says what the loop is for: the config in effect (`Kept`, which
ignores a candidate under verification) changes only by a counted improvement.

### Auto-heal watchdog and response monitor

A run is at a place of `main`: `Begin` is the lock and the proxy unit,
`CheckReady` and `CheckHealth` the checks, `ReadLog`, `Probe` and
`CheckCooldown` the branch of a channel (first Slack, then Graph, by
`Proceed`), `Stamp`, `Delete` and `Created` or `CreateFails` the rebuild,
`Restart` and `Restarted` the restart, `Forward` the end. The lock is file
descriptor 9 of a run and of every process it starts: a run may begin when no
other is under way and none has left a process behind (`Unlocked`); one that
finds the lock taken exits and changes nothing. What can be left behind is
`openshell sandbox create`, which `03-sandbox.sh:165` puts into a process group
of its own: an interrupt from the terminal (`Interrupt`) ends the run and not
that, and `orphan` is true until it ends (`OrphanEnds`), if it ever does. A
systemd unit that is stopped leaves nothing (`Kill`). `set -e` ends a run whose rebuild fails, and
`|| true` lets it go on after a failed restart, as in the code.

Time is `Tick`. The timestamp and the log lines are represented by their ages,
which stop counting at the cooldown and at the 15 minutes of `docker logs
--since`, where nothing can tell them apart any more; so time is not bounded.
No time passes between the timestamp and the deletion, two commands in a row.
The timer is one launcher; `sanity-check.sh --repair` and an operator are
others that start runs at will.

The delete is `|| true`: it may fail (`Delete`), and then `03-sandbox.sh:197`
finds the old sandbox ready and the run takes it for the new one (`ComesUp`).

External are the failures of the gateway, the units, the network and the
credentials, and what is logged. A new sandbox starts with an empty log and a
gateway that works; its egress may or may not be better. A rebuild that fails
may leave no sandbox, and `sandbox_ready` then keeps every later run from trying
again: the code leaves that to the normal bring-up on purpose (the message at
`watchdog.sh:104`). An orphan keeps every later run from the lock. `Heals`
excepts these two.

`ResponseMonitor` puts a monitor run beside the watchdog. `Look` is everything
up to the decision, with any history of the channels and any failing call;
`Remediate` calls the watchdog, which finds the lock free or taken,
`WatchdogEnds` waits for it, `SaveState` saves the run's own `now`, and `Stop`
is systemd ending the unit at any of these places.

### ATIF export

A request sits in a slot and moves `bridge`, `relay`, `backend`, `answered`. Who
still listens is in the request: `client` for the sink, `bridge` for the bridge.
`UpstreamTimeout` is the bridge's total timeout and `StopsWaiting` the sink's
own; in both the hop behind goes on. `Forward` lets the L7 proxy substitute the
token. `Check` is the order of checks in `relay.py`; `RelayStarts` is its
start with the configuration checks of `backends/` (`build_backend`,
`_validate_endpoint`, the prefixers), so a relay that should not start does not
serve. A put stores the object before or after its answer is lost, and boto3
tries again (`StoreFails`); a try that boto3 has given up may go on in the store
and land later (`StoreStalls`, which takes a slot for it). What the store goes on
with after the relay has stopped is left out.

External: the sink (one request per session at a time, any number of tries, and
filtered out for good by an answer of 200 without an ETag), the token, the
instance and its role, which may write under its own prefix only.

### Source ETLs and the live reader

`ForumsEtl`: `FetchTagTopics` is one page of the tag's listing as it is when the
request is made, so a topic that is posted to in between moves to the head and
the rest shift. Contents are not modelled: `upToDate` says which copies of a
topic (in the mirror, fetched, in a leftover package) have its latest content,
which is what one request for the topic gives: its row and its first posts.
`PipelineRun` loads the leftover package of a failed load instead of the new
rows, as dlt does; `Fail` is any exception or a stopped container.

`GithubEtl` is the pipe of three processes in `run-etl.sh` with `set -e` and
`pipefail`; `Written` is what a closed pipe does to the writer. `PersistState`
saves the last STATE when its input ends, however the tap ended. tap-github and
target-postgres are external: ordered by `updated_at`, a STATE after records.

`SourceMirror` is what they share: tables, the views that `refresh_views`
creates, and the rows a query sees through them.

`GithubLive`: a question (`Questions` has every combination of options that the
commands allow) is answered by pages of lists that change between two pages.
Items are numbered by creation, and `Others` (`Create`, `CloseOrReopen`) changes
the lists. `CollectPage` is one turn of the loop of `collect_items`. What is
collected is a set of entries: which item, on which page, of which list of the
question. It is printed in the order of `Before`, of which `--limit` takes the
`First`; the page of an item depends on how many newer ones its list has
(`PageNumber`).

### Watchtower

A sweep goes through the steps of `SKILL.md`; `Survivors` is the loop of
`diff_state.py`, with the exclusion of a host by itself or by a domain it is
under (`HostInDomains`), and `Load` and `Replace` are the two accesses of
`commit_state.py` to the ledger. Searches find any items, the agent digests any
part of the survivors. `Die` is a timeout, a crash or a script that exits with an
error; the temporary file it may leave is not the ledger. Variables that only
the past needs (`reported`, `committed`, `known`, `stale`, `disrupted`) are
histories.

`SweepLedger` is what is left of this for a reader: a ledger of announced items,
one for a URL, to which items are added. It has no sweeps, copies or crashes.
`Watchtower` implements it with `reported` for what is announced; the step
`WriteBack` is the price of the missing lock, and happens only when a commit
replaces a ledger that another one has replaced since it was loaded
(`disrupted`).

### Retail API and its client

A request is `received`, `authenticated`, `running` and `answered`. What an
endpoint runs is a text, a sequence of statements: one for each endpoint but
`/query`, whose text is the caller's. Each statement is an action, since other
transactions, a lost connection or a restart of the process may come between two.
`execute_as_role` opens the transaction with the role of the token and
`app.current_store_id` as its `session`; `Executes` is a SELECT, INSERT, UPDATE
or DELETE, `SetsSession` a SET or RESET of role or store, and `EndsTransaction` a
COMMIT, after which the text goes on under the login that owns the tables
(`LoginSession`), as `SET LOCAL` ends with the transaction. `own` says that the
session is still the one the API has set. `Granted` and `Policy` are the grants
and the row level security of `init.sql`: the managers may write every table
(`init.sql:396`, `:409`), and two tables have policies, so a row is one of
`transfer`, `reorder` or any other table. `Accepted` stands for the CHECK
constraints. `Commit` may fail (`CommitFails`): the error is outside the inner
`try`, so the answer is a 500, and the rows may be there or not.

`WritesInScope` is about the session a request was given. A `/query` text that
commits or sets role or store itself is bounded by nothing; the code does not
prevent it, and the property says so instead of leaving it out of the model.

`RetailCli` is one command of `retail-api.js`: login, the lookup of a product
given by name, the request, what it prints; `Present` is another client with a
token it already has. `StaffChanges` edits the Employees table.

### Blender

`OvPhysXHelper` is one action per dispatch of the helper, over the files of the
output directory and Blender's scenes. The ways a simulation ends are
`RunnerFinishes`, `RunnerFails`, `RunnerRefuses` (it exits before it writes
anything) and `RunnerKilled`. A replay is played
sample by sample (`Render`), so that a failure (`ReplayEnds`) or the end of
Blender may come between two, and `frames` has what each rendered. A scene's
objects are those of its imports; a pose is, for translation and orientation
apart, the run, the sample and the body it comes from, or `Imported`. Bodies are
found by name: `_resolve_body_objects` maps each body of the timeline to any
object whose name fits (`Alike` says for which bodies' objects that may be so,
besides a body's own, by leaf names, spellings and prefixes), so two bodies may
come to one object, and a body to the object of another. `Applied` keeps the
guards of `_apply_states`: a state without an object, or whose translate or
orient was not found, leaves the old pose, and of several states for one object
the last counts. `Readings` are what the runtime may find at a sample. A
simulation's files are written in one step with its end; a runner that outlives a
Blender that has been killed is left out, and so are time codes and a `timeline`
path of one's own.

`BlenderWorkflow` has the server's call and Blender's queue: `Timeout` ends the
waiting, not the work, and a late answer finds a closed connection (`HeardBy`).
Any tool may fail, before it has written its artifact or after. `usd_inspect` may
be told to write over its input, which nobody checks (the fault `same`); its
receipt then tells of the file as it was, and `ReceiptHolds` excepts that.
`BlenderHost` runs both helpers on one Blender, which closes and opens again.

## 3. Runs

| Run | Question | Instance and why it is enough |
|---|---|---|
| `outlook_mail` | safety of the mail side; every handler ends, every message settles | two messages (one allowed), two task slots each, one permit, one failing call, one mailbox event, one stop: enough for a message listed again while its handler runs or waits, a failure on any call, a refused link, and a restart from a stale, truncated or new link; with two slots a second handler for a message is representable, with one permit handlers have to wait |
| `outlook_jobs` | once a day, every day, whatever starts and signals do | two jobs, one at midnight, on days of three minutes; three days so that flags are cleared twice; one clock change, one failure, one restart, one start that fails; senders configured or not; two tries of the health check, so that it fails once and goes on |
| `relay_plugin` | does the gateway see pairs | three calls of one tool (two with equal arguments) and one of another, two of them open at a time; capacity 2, which blocked calls that stay in the queue overflow; one model request beside them; with and without a gateway; one post that fails |
| `heal` | spacing, recovery, the monitor's requests | two parts, see below: timer and operator with two things that go wrong (a deletion may be one), and timer and monitor with one; cooldown and log window of two ticks (so that a line can outlive a cooldown and the reverse), one channel refusing its credentials, one run killed or interrupted, both channels; histories of up to two messages, which have every relation between a user's message and what follows it |
| `watch` | the ledger under overlapping sweeps | two sweeps at a time and any number in sequence, two topics that may both find each of two pages, of which one topic excludes one by its domain while the other excludes a domain that only looks like it, two watchlists; nothing is bounded |
| `watch_topics` | is the ledger keyed by topic and URL | one sweep at a time: expected violation |
| `ralph_loop` | refinement, report, traces of attempts, termination | three configs, one that raises and one that is no Python, two tasks (one flaky), every assignment of passing tasks; budget 3 in total and 2 per failure, so that either may run out first; two verification runs; one lost report; one turn per session; a config that registers a key twice, one for a key without a built-in profile, one that raises after two registrations |
| `ralph_regress` | does a finished run keep what passed | no flaky tasks, no lost report: expected violation |
| `atif` | acknowledgement, order, scope, answers | one session with two versions, two requests at a time (a late one, or a try that goes on in the store, and the one after it), two tries of a put, two instances, one configuration per backend and five that must not start; three moves of the environment, which is a lost answer, a timeout and a replacement together |
| `etl` | what the ETLs and the live reader may miss | three parts, see below: three topics on pages of two; three changes on GitHub and two breaks; three items on pages of two and two moves between pages; lists of more than one page, a shift across the boundary and its opposite |
| `retail` | scope, tokens, what is printed | two concurrent calls of an employee who is a store manager and whom one edit promotes, demotes or deactivates, one tick after which tokens are too old; a transfer, a reorder and a row of another table at the start; every command with what can be wrong with it, and texts of one to four statements, with deletions, and with a COMMIT and a SET in the middle |
| `blender` | receipts, frames, scenes | two fixtures, one with two bodies whose names fit one object and one with one body; timelines of one and two samples that find both bodies, one of them only turned, or one of them only moved; four pieces of work in any order, of which the properties need at most three (simulate, replay, and something in between) |

`heal` and `etl` have parts that share no state a property relates: the
operator and the monitor are never both there in `heal`, and in `etl` the forums
ETL, the GitHub ETL and the live reader run in processes of their own. A
variable chosen by the initial state (`part`, `running`) says which part
moves, so that TLC visits the sum of the parts' states and not their product.
In `heal` the first part is the specification of `AutoHeal` and the second that
of `ResponseMonitor`. In `etl` the tables and views are keyed by source, and no
property of one source reads another's, so that interleaving them would add
nothing.

The bounds stand in guards and limit how often the environment acts
(`MaxFaults`, `MaxDisturbances`, `MaxStops`, `MaxDays`, `MaxClockSets`,
`MaxJobFaults`, `MaxRestarts`, `MaxBadStarts`, `MaxLost`, `MaxKills`, `MaxDenials`,
`MonitoredFaults`, `MaxEvents`, `MaxVersion`, `MaxAttempts`, `MaxNow`,
`MaxActivity`, `MaxUntags`, `MaxFailures`, `MaxChanges`, `MaxBreaks`,
`MaxItems`, `MaxMoves`, `MaxEdits`, `MaxCalls`, `MaxAsked`, `MaxWork`,
`MaxHistory`); `MaxAttempts` and `MaxTurns` are parameters of the code. Where
there are theorems, they hold for every value. `CHECK_DEADLOCK FALSE` is used
where the system, or its bounded environment, ends: when every tool call is
over, when nobody starts the bridge again or its days are over, the loop has
finished, every question is answered, or the moves are used up.

Fairness. Mail: `asyncio` runs every ready task and every request has a
timeout, hence weak fairness of the poll loop and of each handler's steps;
waiters of an `asyncio.Semaphore` are served in order, hence strong fairness of
`Acquire`; the supervisor starts the bridge, hence weak fairness of `Boot`. None
for the mailbox, for failures (they are alternatives inside the steps, bounded
by `MaxFaults`) or for `Stop`. Watchdog: weak fairness of the timer's runs
(systemd starts one a minute), of the steps of every run (each command has a
timeout or ends), of the monitor's steps once it has begun, and of time; none
for the beginning of other launchers' runs, the operator or the network, which
may stay cut. Ralph: weak fairness of the steps of the loop and of an attempt,
sequential code whose calls all return, a session's by its turn limit; none for
`Interrupt`. ATIF: weak fairness of the bridge's and the relay's handlers, which
run when they are ready, and of the executor's threads, whose calls end; none
for the sink, the timeouts or the relay's restarts. Blender: weak fairness of the
server's socket timeout only; Blender promises nothing. The ETLs, the retail API
and Watchtower state no liveness and assume no fairness.

### What the expected violations show

* `TopicsKeptApart`: the diff and the commit compare URLs only.
* `NoRegression`: a fix is verified on its own task. The suite run that follows
  the round reports what it broke, but the fix stays.

### What reading the code for the models showed

These are places where the code does something a reader of its docs, comments or
tests might not expect. No run is about them; the models do what the code does.

* Outlook bridge: `_run_job` asks the agent without a permit, so the limit in the
  comment on `MAX_CONCURRENT_MESSAGES` is that of mail handlers only. The retry
  loop around `resolve_allowed_senders` can never retry, since that function
  makes no request. A health request that times out ends the process, because
  the loop around it does not catch a timeout, and a signal during the health
  check waits for its end. `OUTLOOK_ALLOWED_SENDERS` with no address in it (a
  comma) allows everybody, and the fallback to `OUTLOOK_REPLY_TO` is not reached.
* nemo-relay plugin: a blocked tool's id stays at the head of its queue, and from
  then on every call of that tool in the turn carries the id of the one before;
  the comments speak of the id of the same call. Such queues are never removed.
* Ralph: a suite run without a report counts as a suite without failures, so a
  baseline that could not run ends the command with exit code 0. A run that is
  interrupted under verification leaves the unverified candidate in the file
  (the location `dirty`).
* Watchdog: the probes ask for an answer, not for a connection, so an expired
  sign-in or a revoked token is taken for failing egress, and the sandbox is
  rebuilt once per cooldown as long as failures are logged.
  A delete that fails is not noticed, and the run goes on as after a rebuild. An
  operator's run that is interrupted while it creates the sandbox leaves
  `openshell sandbox create` with the lock, and until that ends no run starts.
* Response monitor: it calls the watchdog also for a failing call of Slack's API,
  a message that is not answered and failing inference, which are nothing the
  watchdog looks at; and its cooldown starts although the watchdog it called
  found the lock taken.
* Forums ETL: with the defaults (backfill and overlap 72 hours) the lower bound
  is always 72 hours back for a run that succeeded recently. Activity older than
  that when a run begins, after an outage, is not read. Of a topic's posts only
  the first chunk that the forum returns is mirrored. A leftover load package
  is loaded in place of the run's own rows, and the run counts as a success.
* Live reader: the counts are exact, as `SKILL.md` says, if the list holds still
  between pages. `--count --limit` and a first page other than 1 also say
  complete; `CompleteIsComplete` is about answers from page 1.
* Retail API: the module's first lines (`main.py:10`) run store and country
  managers as `nemoclaw_manager`, and so does `test_api.py:87`; `PG_ROLE_MAP`
  gives country managers a role of their own, `nemoclaw_country_manager`.
  `test_api.py:380` and `:388` expect 403 of a body that fails validation, which
  is answered with 422 before the endpoint looks at the role. A transfer ignores
  the store a store manager names; a reorder refuses any but the own one with 403,
  while its docstring and comment (`main.py:439`, `:449`) say that it is ignored.
  The models and `OutcomeTold` follow the check; the 403 is what `SOUL.md` asks
  for ("Do NOT silently redirect a write to the user's store").
  `SKILL.md` has approvals go through `/query`, which takes any text: COMMIT, SET
  or RESET in it leave the role and the store it was given.
* Blender: bodies are found by their last names, so bodies of one last name move
  the same object, and a replay in which samples found nothing of a body passes
  all the same. A `usd_inspect` that writes over its input reports the input.

## 4. Proofs

All theorems are about every value of the constants, from the assumptions named
in the modules (`BridgeAssumption`, `StartAssumption`, `JobsAssumption`,
`RelayAssumption`, `HooksAssumption`, `HealAssumption`, `MonitorAssumption`,
`WatchAssumption`, `RalphAssumption`, `RunAssumption`, `AtifAssumption`,
`MirrorAssumption`, `ForumsAssumption`, `GithubAssumption`, `RetailAssumption`,
`CommandAssumption`, `OvPhysXAssumption`, `WorkflowAssumption`,
`HostAssumption`, `LiveAssumption`). They give the constants their types and bounds; the ones
that say more are that topics are finitely many, that "none" is not the name of
a fixture, and that tool calls and model requests are different things. Type
correctness is part of every inductive invariant and
is not checked by runs of its own; `TypeCorrect`, `RalphTypeCorrect` and
`QueuesStayBounded` state it.

* Mail (`OutlookBridgeProofs`): the inductive invariant `IInv` adds to the types:
  which tasks may exist for a message (a message has a created task only if it
  is not in flight; in flight means a task beyond "created"), that permit
  holders and permits add up, that the saved link is never ahead of the one in
  memory, that mail the poll has passed over is in the round under way, in a
  handler's hands, or given up, and that a handler about to mark an allowed
  sender's mail has answered it or failed. None of `OneHandlerPerMessage`,
  `NoSilentLoss` and `ReadIsAnswered` is inductive alone. There is one lemma per
  part, and under it one step per action. `ReplyPerListing` needs a budget
  (`ListInv`): the replies a message has, and those that may still come, never
  exceed one more than its relistings. What may still come is a handler that has
  not sent its reply, a place in the batch or in the rest of the round, and a
  place in what the link lists. While a poll pages there are two such sums, both
  within the budget: the poll may fail, and then the old link lists everything
  again, or come through, and then the new link lists what changed meanwhile.
* Jobs (`OutlookBridgeProofs`, second part): what the loop remembers for today
  did run today (`MemoryIsTrue`), and what it does not remember ran only before
  restarts (`RunsRemembered`). The start-up adds that a process that is not in
  its loops remembers no day, and that the jobs are loaded before the first tick.
* Plugin (`RelayPluginProofs`): a bucket is described by positions (`At`). Each
  bucket holds distinct calls of its key that began and were not echoed, and,
  while the key is undisturbed, exactly its open calls in the order they began.
  Then a post that overtakes no one finds its own entry at the head. The hooks
  implement the queues (`HooksImplementPlugin`): every step of a hook is a step
  of `RelayPlugin` or leaves its variables alone, provided the latch holds what
  the environment says (`LatchOK`), because a hook that finds no URL returns at
  once. So all that is proved of the queues holds of the plugin with its hooks.
  `GatewaySeesPairs` adds what was sent: nothing but the events of a call that
  has come that far (`SentInStage`), and, with a gateway, every event whose hook
  has returned was sent or lost (`ToolTried`, `ApiTried`). For a call in step
  the id of the post is that of its pre, by the pairing of the queues.
* Watchdog (`AutoHealProofs`): one run at a time is past the lock, it has a
  sandbox except while it creates one, and the timestamp is never older than the
  last deletion. The last is why a killed run does no harm: stamped and not
  deleted errs on the safe side, the reverse order would not. Beside the
  monitor, every step is a watchdog's step or leaves the watchdog's variables
  alone, so both properties hold there too. The monitor's own cooldown rests on
  `Remembered`: what it has saved is when the run that last asked for recovery
  began, unless that run was stopped before it saved.
* Watchtower (`WatchtowerProofs`): a loaded copy that is not stale is the ledger;
  until a stale one is written back the ledger has every committed URL. From
  these follow that the ledger grows and that nothing is repeated; that it holds
  only reported items, and each URL once, needs no such condition. By the
  invariant each step of a sweep is a step of `SweepLedger` or none
  (`SweepsKeepLedger`): a changelog announces, a commit of the ledger itself
  extends it, and one of a stale copy writes back. That the ledger grows until
  then (`LedgerGrows`) is read off the abstract steps.
* Ralph (`RalphRunProofs`, first part): at `propose` the snapshot is the file; the last
  report is about the config in effect until the round improves something. From
  these follow the report property and the step simulation of `HarnessTuning`.
* Ralph with sessions and trials (second part): every step of a run is a
  step of the loop or leaves its variables alone (`RunImplementsLoop`), so what
  is proved of the loop holds of the run. `AttemptsLeaveNoTrace` rests on
  `TraceInv`: between trials nothing is tracked; in a trial, what is remembered
  is what the registry held before it, key by key, and keys not touched are as
  they were; and a workspace exists exactly while its session does.
  `RunUsesUp` is the safety part of `Terminates`: each step of a run takes down
  `Left`, a tuple of natural numbers in lexicographic order (iterations left;
  places of the loop before the next attempt; phases left of the attempt; turns
  of the session or registrations of the candidate left). A round that improved
  something may run the suite again without using an iteration, but not twice,
  since the suite run resets the round's improvements. Fairness is left only to
  say that a run that is not over takes its next step.
* Retail (`RetailProofs`): `RetailInv` follows a token and a row. A token is
  `Backed`: it says what its employee is, or expires within a lifetime of the
  employee's last change, which is when it stopped being true. That is kept by
  edits and by time, holds of every token issued, and gives
  `StaleTokensLockedOut` at the one place where requests are let in. A
  transaction whose session is still its own has `Planned` only what its token
  may write, over all the statements it has run and in the rows as it sees them;
  once the text of a `/query` has left that session, nothing is said of it.
  `EffectInScope` is the core: for any statement that `Outcome` lets through,
  grants, policies and the session keep its effect in the role's scope, whatever
  the endpoint did before. `Once` says which ids a call's rows have, which is why
  no call overwrites another's row. `WritesStayInScope` follows, since rows change
  only in a commit: the API's, one in a text, or one that failed or broke off
  and was carried out.
  `ToldInv` follows a write command to its answer. Its row is its own insert
  alone, in a text that never leaves its session (`Way`); a 200 comes only of a
  commit that was carried out, and a code from 400 to 499 only of a transaction
  that rolled back, so that there is no row then and nothing on the way to one
  (`Told`); a 500 says nothing. Other transactions change nothing of a row but its
  status (`Unmoved`). `CommandsTellOutcome` follows, since only `Prints` turns a
  command out well.

* ATIF export (`ExtrasProofs`): a request knows what it carries (`Content`),
  where it is (`Hop`), and who still waits for it (`Waiting`); an answer of 200
  stands for a stored object, or for a store that gave no ETag (`Reply`). The
  acknowledgement follows. For the order of snapshots it is not enough that a
  session has one request that somebody waits for (`OneClient`): one that
  nobody waits for may still be under way, and then its session is in `late`,
  which is the only exception of `NewestIsKept`. `KeysAreScoped` rests on
  `RelayOK`: a relay that listens was given a safe endpoint, and its prefix is
  one of an instance.
* Forums ETL (`ExtrasProofs`): `Progress` follows the topics that a run owes its
  readers (`Due`) through `main`. While it lists, a topic that is owed and not
  in `todo` is on a page to come. That survives posts because a post moves its
  own topic to the head (which is then touched, hence not owed) and no other one
  forward (`PostStep`, by way of `WithoutIs`, which says what the listing is
  without a topic), and it does not survive a topic losing its tag, which is why
  such a run is left out. That nothing owed is behind the page at which the run
  stops needs the listing to be `Sorted`, and the bound to be no later than what
  is owed (`DueIsRecent`): the lower bound is `Backfill` before the run or
  `Overlap` before an earlier one, and that is where `Overlap` is needed.
* GitHub ETL (`ExtrasProofs`): while persist_state reads, everything the tap has
  written is loaded, in flight, too old, or was lost late (`ReadCovered`), and no
  STATE it has read is ahead of that; so what it saves is covered
  (`FileCovered`), except for what is in flight when the target fails
  afterwards. A run without a state skips what is too old by its number, which
  is right because changes are numbered by their hours (`OlderIsPrefix`).
* Live GitHub reader (`ExtrasProofs`): pages are cut by counting, so the proof
  is about ranks. In a finite order the ranks are 0, 1, ... without a gap
  (`RanksAreDense`), so a page before the last is full, and a page that is not
  full has nothing behind it (`EarlierPageIsFull`): that is why `PageIsLast` has
  to look at the page before the pull requests are taken out. The invariant
  `LiveInv` has three parts. `NothingMissed`: while nothing has left the lists,
  what was on them at the start is collected or still to come, since new items
  only move others to later pages (`PagesGrow`). `NothingTwice`: while nothing
  has come, what is collected is not to come again, since others only move to
  earlier pages. `AsListed`: while neither has happened, what is collected is
  the list up to the page to ask for. None of the three parts of
  `CompleteIsComplete` is inductive without the place reached in the lists.
* Blender (`BlenderProofs`): each step of the host is one of each helper or
  leaves it alone (`HostSteps`), so `BlenderHost` implements `OvSpec`
  (`HostImplementsHelper`). Of the OVPhysX helper, `SceneOK` says what a scene
  can be: empty, with the one import of its fixture (its bodies, at most one
  rig), or with more of it. `PlayingOK` follows a replay from
  sample to sample: its map leads to objects of the scene, each frame so far has
  every object where its sample put a body that maps to it and otherwise where
  the frame before has it, and what no sample has moved yet is where `Restored`
  or the import left it. `AppliedPose` says what one sample does to a pose,
  whichever bodies share an object. The frames keep this until the next replay
  removes them. `SimulationIsOwnRun` and `ReplayHasItsFrames` follow from the two
  actions that can bring a receipt that passes. Of the workflow helpers,
  `InOrder` and `Pending` say that Blender works off the queue in the order of
  the calls, so that after a receipt that passes nothing is left to run that
  could change its artifact.

Only model-checked: the liveness properties `HandlersFinish`, `MailSettles`,
`Heals`, `Terminates`, `PutsAnswered` and `CallsAnswered`, since liveness under
fairness is beyond the prover (of `Terminates` the part that is not liveness is
`RunUsesUp`), and the two expected violations, which are not
true. Every safety property and refinement that a passing run checks is also a
theorem. No module uses a RECURSIVE operator.

## 5. Not modelled

* Sandbox start (`start.sh`, `sandbox-init.sh`): process ids, signals and the
  shell's `wait`; what the bridges see of it is the `Stop` and `Boot` of
  `OutlookBridge` and the restarts of `AutoHeal`.
* Bring-up, tear-down, the host TLS proxy, starting and seeding the retail
  database, setting up Blender: command lines run once by one operator, whose
  state is that of external tools.
* The nemoclaw plugin and the generation of configurations, the other skills,
  the watchlist scripts and their scheduling, the profile plugin and the command
  line of `hep`, the license header check: text and single requests. They keep
  nothing between two calls that a property could be about.
* Of modelled components: the conversion of payloads to JSON in nemo-relay
  (`_safe_jsonable`); the retry inside one Graph call of the Outlook bridge; the
  columns of database rows, and of SQL all but the statements named above (an
  UPDATE sets a status; DDL, TRUNCATE and savepoints are left out); poses
  and units of physics; contents of traces, topics, issues and pages.

## 6. Plan

1. `start.sh` with its signals, in front of `OutlookStart`'s `main` and `Signal`.
