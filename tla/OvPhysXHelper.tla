---------------------------- MODULE OvPhysXHelper ----------------------------
(***************************************************************************)
(* ovphysx_host_helper.py, run inside the visible Blender by one action    *)
(* after another, and run_ovphysx_timeline.py, the runner its simulate     *)
(* action starts.  Results pass through the files of one output directory  *)
(* and through Blender's scenes, and outlive the action that made them.    *)
(***************************************************************************)
EXTENDS Naturals, Sequences, FiniteSets

CONSTANTS Fixtures,      \* USD files
          Bodies,        \* paths of body prims
          BodiesOf,      \* those a fixture has
          Alike,         \* <<b, c>>: an object of c may have a name that the search for b takes
          Requests,      \* settings of a simulation: the configuration with overrides
          Readings,      \* what one sample may hold: bodies, and what was found of each
          MaxCalls       \* actions dispatched

Parts == {"place", "turn"}    \* translate and orient

ASSUME OvPhysXAssumption ==
  /\ BodiesOf \in [Fixtures -> SUBSET Bodies]
  /\ Alike \subseteq Bodies \X Bodies
  /\ Requests \subseteq [fixture : Fixtures, bodies : (SUBSET Bodies) \ {{}}, samples : Nat \ {0}]
  /\ Readings \subseteq UNION {[D -> SUBSET Parts] : D \in SUBSET Bodies}
  /\ "none" \notin Fixtures      \* EmptyScene is of no fixture
  /\ MaxCalls \in Nat

VARIABLES
  status,    \* status.json: the runner's state and the call it ran for
  timeline,  \* pose-timeline.json, or None
  frames,    \* frames/*.png, by number
  gif,       \* the frames in the GIF
  replayed,  \* replay-status.json, or None
  scenes,    \* Blender's scenes
  active,    \* the scene in the window
  playing,   \* the replay under way: its map from bodies to objects, its next sample
  runtime,   \* the add-on and the native runtime are installed
  receipt,   \* what the last action returned
  calls      \* actions dispatched so far

files == <<status, timeline, frames, gif, replayed>>
blender == <<scenes, active>>
ovVars == <<files, blender, playing, runtime, receipt, calls>>

None == [run |-> 0]
Still == [next |-> 0]   \* nothing is played
\* A pose is where one run's sample put it for a body; this is the USD import's.
Imported == [part \in Parts |-> <<0, 0, "none">>]

Receipt(action, state, code) == [action |-> action, status |-> state, returncode |-> code]

\* A whole action: Blender's main thread has nothing else under way.
Returns(action, state, code) ==
  /\ playing = Still /\ calls < MaxCalls
  /\ calls' = calls + 1
  /\ receipt' = Receipt(action, state, code)

-----------------------------------------------------------------------------
(* Actions that only look *)

Looks(action, state, code) ==
  /\ playing = Still /\ calls < MaxCalls
  /\ receipt' = Receipt(action, state, code)
  /\ UNCHANGED <<files, blender, playing, runtime, calls>>

Preflight == Looks("preflight", IF runtime THEN "pass" ELSE "blocked", 0)

\* Prepare runs a script that makes the fixture, if there is one.
Prepare == \E result \in {<<"pass", 0>>, <<"fail", 1>>, <<"not_required", 0>>} :
             Looks("prepare", result[1], result[2])

Status == Looks("status", status.state, 0)

-----------------------------------------------------------------------------
(* simulate and the runner.  status.json says "running" before anything     *)
(* else is done, so a runner that dies leaves that.                         *)

Wrote(state) == status' = [state |-> state, run |-> calls + 1]

\* The runtime reads back what it finds in the fixture, or not, at each sample.
Timelines(r) ==
  LET found == {x \in Readings : DOMAIN x \subseteq BodiesOf[r.fixture]} IN
  {[run |-> calls + 1, source |-> r.fixture, bodies |-> r.bodies, samples |-> s] :
     s \in [1..r.samples -> found]}

\* The report's verdict: the bodies of the samples are those asked for.
IdentityOk(t) == UNION {DOMAIN t.samples[k] : k \in DOMAIN t.samples} = t.bodies

\* The runner's exit code is its report's status; poses may not be finite.
RunnerFinishes(r) ==
  \E t \in Timelines(r), state \in {"pass", "fail"} :
    /\ runtime
    /\ state = "pass" => IdentityOk(t)
    /\ timeline' = t
    /\ Wrote(state)
    /\ Returns("simulate", state, IF state = "pass" THEN 0 ELSE 1)

\* It fails, without the runtime, in it, or after the timeline is written.
RunnerFails(r) ==
  /\ Wrote(IF runtime THEN "fail" ELSE "blocked")
  /\ Returns("simulate", IF runtime THEN "fail" ELSE "blocked", 1)
  /\ timeline' = timeline \/ (runtime /\ timeline' \in Timelines(r))

RunnerRefuses_ExitsZero ==
  /\ Returns("simulate", status.state, 0)
  /\ UNCHANGED <<status, timeline>>

\* It exits before main writes anything (arguments, imports): what an earlier
\* run left in status.json is returned, with this run's exit code.
RunnerRefuses ==
  /\ Returns("simulate", status.state, 2)
  /\ UNCHANGED <<status, timeline>>

\* The helper's timeout kills it, before or after the timeline is written.
RunnerKilled(r) ==
  /\ Wrote("running")
  /\ timeline' \in {timeline} \cup Timelines(r)
  /\ Returns("simulate", "raised", 0)

Simulate(r) ==
  /\ \/ RunnerFinishes(r) \/ RunnerFails(r) \/ RunnerRefuses \/ RunnerKilled(r)
  /\ UNCHANGED <<frames, gif, replayed, blender, playing, runtime>>

-----------------------------------------------------------------------------
(* The fixture's scene.  Its objects are <<b, n>>: that of body b, from the  *)
(* n-th import into the scene.                                              *)

EmptyScene == [source |-> "none", pose |-> <<>>, copies |-> 0, rigs |-> 0]

Objects(fixture, n) == BodiesOf[fixture] \X {n}
NewScene(fixture) == [source |-> fixture, pose |-> [o \in Objects(fixture, 1) |-> Imported],
                      copies |-> 1, rigs |-> 0]

\* The transforms a scene remembers are those of the import that made it.
Remembered(scene) == Objects(scene.source, 1)
Restored_Not(scene) == scene
Restored(scene) == [scene EXCEPT !.pose =
                      [o \in DOMAIN @ |-> IF o \in Remembered(scene) THEN Imported ELSE @[o]]]

\* A scene that is already the fixture's is reused; else a new one is made and
\* shown, and the old one stays.  Without replace_scene the fixture is imported
\* beside what the scene has, under other names.
Import(fixture, replace) ==
  LET scene == scenes[active] IN
  IF replace /\ scene.source = fixture THEN [scenes EXCEPT ![active] = Restored(scene)]
  ELSE IF replace THEN Append(scenes, NewScene(fixture))
  ELSE [scenes EXCEPT ![active] =
          [scene EXCEPT !.copies = @ + 1,
             !.pose = [o \in DOMAIN @ \cup Objects(fixture, scene.copies + 1) |->
                         IF o \in DOMAIN @ THEN @[o] ELSE Imported]]]

Shown(fixture, replace) ==
  IF replace /\ scenes[active].source # fixture THEN Len(scenes) + 1 ELSE active

Rigged_Always(all, shown, reused) == [all EXCEPT ![shown].rigs = @ + 1]

\* Only what the import returned is searched for a camera and a light: the
\* whole scene when it is reused, the new objects when it is not.
Rigged(all, shown, reused) ==
  [all EXCEPT ![shown].rigs = IF reused /\ @ > 0 THEN @ ELSE @ + 1]

Reused(fixture, replace) == replace /\ scenes[active].source = fixture

\* Import, camera and light; the scene is switched before the import may fail,
\* and what fails to import is an empty scene of no fixture.
SceneReady(fixture, replace) ==
  /\ scenes' = Rigged(Import(fixture, replace), Shown(fixture, replace), Reused(fixture, replace))
  /\ active' = Shown(fixture, replace)

ImportFails(fixture, replace) ==
  /\ ~Reused(fixture, replace)
  /\ IF replace
     THEN /\ scenes' = Append(scenes, EmptyScene)
          /\ active' = Len(scenes) + 1
     ELSE UNCHANGED blender

Preview(fixture, replace) ==
  /\ \/ SceneReady(fixture, replace) /\ Returns("preview", "pass", 0)
     \/ ImportFails(fixture, replace) /\ Returns("preview", "raised", 0)
  /\ UNCHANGED <<files, playing, runtime>>

-----------------------------------------------------------------------------
(* replay *)

\* The objects whose names fit a body's: by body_map, by the last name of its path
\* in one of its spellings, or by that name with the suffix Blender gives to a
\* second one.  Which of several is taken depends on how Blender has named and
\* lists them; paths that end in the same name come to the same one.
Fits(b, scene) == {o \in DOMAIN scene.pose : <<b, o[1]>> \in Alike}

\* Several bodies may come to one object.
_resolve_body_objects(scene) ==
  {m \in [timeline.bodies -> DOMAIN scene.pose] : \A b \in timeline.bodies : m[b] \in Fits(b, scene)}

Stale_Kept == frames
\* The frames of earlier replays are removed before the first is rendered.
Stale == <<>>

\* A replay of the timeline on file, whatever run it is from.  It may stop on
\* a body it cannot find.
Replay(replace) ==
  /\ playing = Still /\ calls < MaxCalls /\ calls' = calls + 1
  /\ UNCHANGED <<status, timeline, gif, replayed, runtime>>
  /\ \/ /\ \/ timeline = None /\ UNCHANGED blender
           \/ timeline # None /\ ImportFails(timeline.source, replace)
           \/ timeline # None /\ SceneReady(timeline.source, replace)
        /\ receipt' = Receipt("replay", "raised", 0)
        /\ UNCHANGED <<frames, playing>>
     \/ /\ timeline # None
        /\ SceneReady(timeline.source, replace)
        /\ \E m \in _resolve_body_objects(scenes'[active']) : playing' = [map |-> m, next |-> 1]
        /\ frames' = Stale
        /\ receipt' = Receipt("replay", "running", 0)

\* The bodies that map to object o and of which sample k has this part.  A state
\* without an object, or with `found' false, moves nothing.
Moving(map, o, part, k) ==
  {b \in DOMAIN map \cap DOMAIN timeline.samples[k] : map[b] = o /\ part \in timeline.samples[k][b]}

\* _apply_states: of several states for one object the last one counts.
Applied(pose, k) ==
  [o \in DOMAIN pose |-> [part \in Parts |->
     LET moving == Moving(playing.map, o, part, k) IN
     IF moving = {} THEN pose[o][part] ELSE <<timeline.run, k, CHOOSE b \in moving : TRUE>>]]

Put(seq, k, x) == [i \in 1..(IF Len(seq) < k THEN k ELSE Len(seq)) |-> IF i = k THEN x ELSE seq[i]]

\* One turn of the loop over the samples.
Render ==
  LET k == playing.next IN
  /\ playing # Still /\ k \in DOMAIN timeline.samples
  /\ scenes' = [scenes EXCEPT ![active].pose = Applied(@, k)]
  /\ frames' = Put(frames, k, [pose |-> scenes'[active].pose, copies |-> scenes[active].copies])
  /\ playing' = [playing EXCEPT !.next = k + 1]
  /\ UNCHANGED <<status, timeline, gif, replayed, active, runtime, receipt, calls>>

\* It ends on an exception anywhere, a state without numbers or ffmpeg's timeout;
\* or with the GIF made or not and the receipt written.
ReplayEnds ==
  /\ playing # Still /\ playing' = Still
  /\ UNCHANGED <<status, timeline, frames, blender, runtime, calls>>
  /\ \/ receipt' = Receipt("replay", "raised", 0) /\ UNCHANGED <<gif, replayed>>
     \/ /\ playing.next = Len(timeline.samples) + 1
        /\ \/ gif' = frames /\ receipt' = Receipt("replay", "pass", 0)
           \/ UNCHANGED gif /\ receipt' = Receipt("replay", "fail", 1)
        /\ replayed' = [run |-> timeline.run, status |-> receipt'.status, map |-> playing.map]

-----------------------------------------------------------------------------
(* Blender is started again without what it had; the runtime comes and goes. *)

BlenderRestarts ==
  /\ scenes' = <<EmptyScene>>
  /\ active' = 1
  /\ playing' = Still
  /\ UNCHANGED <<files, runtime, receipt, calls>>

RuntimeChanges ==
  /\ calls < MaxCalls
  /\ runtime' = ~runtime
  /\ UNCHANGED <<files, blender, playing, receipt, calls>>

OvInit ==
  /\ status = [state |-> "missing", run |-> 0]
  /\ timeline = None
  /\ frames = <<>> /\ gif = <<>> /\ replayed = None
  /\ scenes = <<EmptyScene>>
  /\ active = 1
  /\ playing = Still
  /\ runtime = TRUE
  /\ receipt = [action |-> "none", status |-> "none", returncode |-> 0]
  /\ calls = 0

dispatch == Preflight \/ Prepare \/ Status
              \/ \E r \in Requests : Simulate(r)
              \/ \E replace \in BOOLEAN : \/ Replay(replace)
                                        \/ \E f \in Fixtures : Preview(f, replace)

OvNext == dispatch \/ Render \/ ReplayEnds \/ BlenderRestarts \/ RuntimeChanges

OvSpec == OvInit /\ [][OvNext]_ovVars

-----------------------------------------------------------------------------
(* Properties *)

\* A simulation that reports success with exit code 0 left its own samples:
\* nothing from an earlier run stands in for them.
PassIsOwnRun ==
  (receipt.action = "simulate" /\ receipt.status = "pass" /\ receipt.returncode = 0)
    => timeline.run = calls /\ status.run = calls

\* A replay that passes leaves exactly the frames of its timeline, in order, and
\* a GIF of them: no frame of an earlier, longer or interrupted replay.  A frame
\* has each object where its sample puts a body that the receipt maps to it, and
\* where the frame before has it when the sample found no such state.
FramesMatchReplay ==
  (receipt.action = "replay" /\ receipt.status = "pass")
    => /\ DOMAIN frames = DOMAIN timeline.samples
       /\ gif = frames
       /\ \A k \in DOMAIN frames : \A o \in DOMAIN frames[k].pose, part \in Parts :
            LET moving == Moving(replayed.map, o, part, k) IN
            IF moving = {} THEN k = 1 \/ frames[k].pose[o][part] = frames[k - 1].pose[o][part]
            ELSE \E b \in moving : frames[k].pose[o][part] = <<timeline.run, k, b>>

\* In a scene of its own an object that no sample so far has moved, as the receipt
\* maps bodies to objects, is seen where the import put it, whatever earlier
\* replays and interrupted ones did with it.
UnmovedAsImported ==
  (receipt.action = "replay" /\ receipt.status = "pass") =>
    \A k \in DOMAIN frames : frames[k].copies = 1 =>
      \A o \in DOMAIN frames[k].pose, part \in Parts :
        (\A j \in 1..k : Moving(replayed.map, o, part, j) = {})
          => frames[k].pose[o][part] = Imported[part]

\* However often previews and replays alternate, a fixture's own scene has one
\* camera and light of the helper's.
OneRig == \A i \in DOMAIN scenes : scenes[i].copies = 1 => scenes[i].rigs <= 1
=============================================================================
