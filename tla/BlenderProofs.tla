--------------------------- MODULE BlenderProofs ---------------------------
(***************************************************************************)
(* The safety of both Blender helpers in one Blender, for any fixtures,    *)
(* simulations and numbers of calls.  For the host helper the inductive    *)
(* invariant says what each scene is, whose import it holds, how often and *)
(* with which rig, and of a replay under way that its frames so far are    *)
(* right and the scene stands as in the last of them.  For the workflow    *)
(* server it says that what Blender has been sent is in the order of the   *)
(* calls, so that nothing older than the call that is answered is left to  *)
(* run.                                                                    *)
(***************************************************************************)
EXTENDS BlenderHost, TLAPS

-----------------------------------------------------------------------------
(* ovphysx_host_helper.py *)

Marks == Nat \X Nat \X (Bodies \cup {"none"})
Pose  == [Parts -> Marks]
Poses == UNION {[D -> Pose] : D \in SUBSET (Bodies \X Nat)}
Scene == [source : Fixtures \cup {"none"}, pose : Poses, copies : Nat, rigs : Nat]
Frame == [pose : Poses, copies : Nat]
Maps  == UNION {[D -> Bodies \X Nat] : D \in SUBSET Bodies}
TimelineSet == [run : Nat, source : Fixtures, bodies : SUBSET Bodies, samples : Seq(Readings)]

OvTypeOK ==
  /\ calls \in Nat
  /\ timeline = None \/ timeline \in TimelineSet
  /\ scenes \in Seq(Scene) /\ active \in 1..Len(scenes)
  /\ frames \in Seq(Frame)

\* A scene holds nothing, or the one import of its fixture, or more; an import
\* of its own has its objects and one rig.
SceneOK(scene) ==
  /\ scene.copies = 0 => /\ scene.source = "none" /\ scene.rigs = 0
                         /\ DOMAIN scene.pose = {}
  /\ scene.copies = 1 /\ scene.source # "none" => DOMAIN scene.pose = Objects(scene.source, 1)
  /\ scene.copies = 1 => scene.rigs <= 1

ScenesOK == \A i \in 1..Len(scenes) : SceneOK(scenes[i])

\* A frame has what its sample moved where it put it, the rest as before.
Right(map, k) ==
  \A o \in DOMAIN frames[k].pose, part \in Parts :
    LET moving == Moving(map, o, part, k) IN
    IF moving = {} THEN k = 1 \/ frames[k].pose[o][part] = frames[k - 1].pose[o][part]
    ELSE \E b \in moving : frames[k].pose[o][part] = <<timeline.run, k, b>>

\* In a frame of a fixture's own scene, what no sample has moved is as imported.
Rest(map, k) ==
  frames[k].copies = 1 =>
    \A o \in DOMAIN frames[k].pose, part \in Parts :
      (\A j \in 1..k : Moving(map, o, part, j) = {}) => frames[k].pose[o][part] = Imported[part]

\* A scene of its own, every object where the import put it.
AsImported(scene) ==
  scene.copies = 1 => \A o \in DOMAIN scene.pose, part \in Parts : scene.pose[o][part] = Imported[part]

\* The scene stands as in the last frame, or, before the first, as imported.
Stands ==
  /\ frames = <<>> => AsImported(scenes[active])
  /\ frames # <<>> => /\ scenes[active].pose = frames[Len(frames)].pose
                      /\ scenes[active].copies = frames[Len(frames)].copies

\* What holds of a replay under way.
PlayingOK ==
  playing # Still =>
    /\ timeline # None
    /\ receipt.action = "replay" /\ receipt.status = "running"
    /\ playing \in [map : Maps, next : Nat]
    /\ playing.next = Len(frames) + 1 /\ Len(frames) <= Len(timeline.samples)
    /\ \A k \in 1..Len(frames) : Right(playing.map, k) /\ Rest(playing.map, k)
    /\ Stands

OvInv == OvTypeOK /\ ScenesOK /\ PlayingOK /\ PassIsOwnRun /\ FramesMatchReplay /\ UnmovedAsImported

\* A placement of some objects is a pose.
LEMMA PoseTyped ==
  ASSUME NEW D \in SUBSET (Bodies \X Nat), NEW p \in [D -> Pose] PROVE p \in Poses
BY DEF Poses

\* A pose places a set of objects.
LEMMA PoseIs ==
  ASSUME NEW p \in Poses
  PROVE  DOMAIN p \in SUBSET (Bodies \X Nat) /\ p \in [DOMAIN p -> Pose]
BY DEF Poses

\* Where the import puts an object is a place.
LEMMA ImportedIs == Imported \in Pose
BY DEF Imported, Pose, Marks

\* A fixture's objects are named by its bodies.
LEMMA ObjectsAre ==
  ASSUME NEW f \in Fixtures, NEW n \in Nat PROVE Objects(f, n) \in SUBSET (Bodies \X Nat)
<1>1. BodiesOf[f] \in SUBSET Bodies
  BY OvPhysXAssumption
<1> QED
  BY <1>1 DEF Objects

\* The scene Blender starts with meets what is asked of every scene.
LEMMA EmptySceneOK == EmptyScene \in Scene /\ SceneOK(EmptyScene)
<1>1. <<>> \in [{} -> Pose]
  OBVIOUS
<1>2. <<>> \in Poses
  BY <1>1, PoseTyped
<1> QED
  BY <1>2 DEF EmptyScene, Scene, SceneOK

\* A scene after _import_fixture and the rig: still a right one, and one of its
\* own shows every object where the import put it.
Prepared(scene) == scene \in Scene /\ SceneOK(scene) /\ AsImported(scene)

\* SceneReady's scenes: only the one that is shown has changed.
LEMMA ReadyScenes ==
  ASSUME OvInv, NEW f \in Fixtures, NEW replace \in BOOLEAN, NEW all,
         all = Rigged(Import(f, replace), Shown(f, replace), Reused(f, replace))
  PROVE  /\ all \in Seq(Scene) /\ Shown(f, replace) \in 1..Len(all)
         /\ \A i \in 1..Len(all) : SceneOK(all[i])
         /\ Prepared(all[Shown(f, replace)])
<1> DEFINE n == Shown(f, replace)
           rest == Import(f, replace)
<1>1. PICK scene \in Scene : scene = scenes[active] /\ SceneOK(scene)
  BY DEF OvInv, OvTypeOK, ScenesOK
<1>2. f # "none" /\ Objects(f, 1) \in SUBSET (Bodies \X Nat)
  BY ObjectsAre, OvPhysXAssumption
<1>3. active \in 1..Len(scenes) /\ scenes \in Seq(Scene) /\ \A i \in 1..Len(scenes) : SceneOK(scenes[i])
  BY DEF OvInv, OvTypeOK, ScenesOK
<1>4. PICK s : s = rest[n]
  OBVIOUS
<1>5. /\ s \in Scene
      /\ rest \in Seq(Scene) /\ n \in 1..Len(rest)
      /\ \A i \in 1..Len(rest) : i # n => SceneOK(rest[i])
      /\ AsImported(s)
      /\ s.copies > 0
      /\ s.copies = 1 /\ s.source # "none" => DOMAIN s.pose = Objects(s.source, 1)
      /\ s.copies = 1 => IF Reused(f, replace) THEN s.rigs <= 1 ELSE s.rigs = 0
  <2>1. CASE Reused(f, replace)
    <3>1. PICK p : p = [o \in DOMAIN scene.pose |->
                          IF o \in Remembered(scene) THEN Imported ELSE scene.pose[o]]
      OBVIOUS
    <3>2. p \in Poses /\ DOMAIN p = DOMAIN scene.pose
      <4>1. scene.pose \in Poses
        BY DEF Scene
      <4>2. DOMAIN scene.pose \in SUBSET (Bodies \X Nat) /\ scene.pose \in [DOMAIN scene.pose -> Pose]
        BY <4>1, PoseIs
      <4>3. p \in [DOMAIN scene.pose -> Pose]
        BY ImportedIs, <3>1, <4>2
      <4> QED
        BY <4>2, <4>3, PoseTyped
    <3>3. PICK t : t = [scene EXCEPT !.pose = p]
      OBVIOUS
    <3>4. /\ t \in Scene /\ t.source = scene.source /\ t.pose = p /\ t.copies = scene.copies
          /\ t.rigs = scene.rigs
      BY <3>2, <3>3 DEF Scene
    <3>5. n = active /\ rest = [scenes EXCEPT ![active] = t] /\ scene.source = f
      BY <1>1, <2>1, <3>1, <3>3 DEF Shown, Import, Reused, Restored
    <3>6. s = t /\ rest \in Seq(Scene) /\ Len(rest) = Len(scenes)
      BY <1>3, <1>4, <3>4, <3>5
    <3>7. scene.copies \in Nat /\ scene.copies > 0
      BY <1>1, <1>2, <3>5 DEF SceneOK, Scene
    <3>8. s.copies = 1 => /\ \A o \in DOMAIN s.pose : s.pose[o] = Imported
                          /\ DOMAIN s.pose = Objects(s.source, 1) /\ s.rigs <= 1
      BY <1>1, <1>2, <3>1, <3>4, <3>5, <3>6 DEF SceneOK, Remembered
    <3>9. AsImported(s)
      BY <3>8 DEF AsImported
    <3> QED
      BY <1>3, <2>1, <3>4, <3>5, <3>6, <3>7, <3>8, <3>9
  <2>2. CASE replace /\ scene.source # f
    <3>1. PICK t : t = NewScene(f)
      OBVIOUS
    <3>2. [o \in Objects(f, 1) |-> Imported] \in Poses
      BY <1>2, ImportedIs, PoseTyped
    <3>3. /\ t \in Scene /\ t.copies = 1 /\ t.rigs = 0 /\ t.source = f
          /\ DOMAIN t.pose = Objects(f, 1) /\ \A o \in Objects(f, 1) : t.pose[o] = Imported
      BY <3>1, <3>2 DEF NewScene, Scene
    <3>4. n = Len(scenes) + 1 /\ rest = Append(scenes, t) /\ ~Reused(f, replace)
      BY <1>1, <2>2, <3>1 DEF Shown, Import, Reused
    <3>5. /\ rest \in Seq(Scene) /\ Len(rest) = Len(scenes) + 1 /\ rest[n] = t
          /\ \A i \in 1..Len(scenes) : rest[i] = scenes[i]
      BY <1>3, <3>3, <3>4
    <3>6. AsImported(t)
      BY <3>3 DEF AsImported
    <3> QED
      BY <1>3, <1>4, <3>3, <3>4, <3>5, <3>6
  <2>3. CASE ~replace
    <3>1. PICK c \in Nat : c = scene.copies + 1 /\ scene.copies \in Nat
      BY DEF Scene
    <3>2. PICK p : p = [o \in DOMAIN scene.pose \cup Objects(f, c) |->
                          IF o \in DOMAIN scene.pose THEN scene.pose[o] ELSE Imported]
      OBVIOUS
    <3>3. p \in Poses /\ DOMAIN p = DOMAIN scene.pose \cup Objects(f, c)
      <4>1. scene.pose \in Poses
        BY DEF Scene
      <4>2. DOMAIN scene.pose \in SUBSET (Bodies \X Nat) /\ scene.pose \in [DOMAIN scene.pose -> Pose]
        BY <4>1, PoseIs
      <4>3. Objects(f, c) \in SUBSET (Bodies \X Nat)
        BY ObjectsAre
      <4>4. p \in [DOMAIN scene.pose \cup Objects(f, c) -> Pose]
        BY ImportedIs, <3>2, <4>2
      <4> QED
        BY <3>2, <4>2, <4>3, <4>4, PoseTyped
    <3>4. PICK t : t = [scene EXCEPT !.copies = c, !.pose = p]
      OBVIOUS
    <3>5. /\ t \in Scene /\ t.source = scene.source /\ t.pose = p /\ t.copies = scene.copies + 1
          /\ t.rigs = scene.rigs
      BY <3>1, <3>3, <3>4 DEF Scene
    <3>6. n = active /\ rest = [scenes EXCEPT ![active] = t] /\ ~Reused(f, replace)
      BY <1>1, <2>3, <3>1, <3>2, <3>4 DEF Shown, Import, Reused
    <3>7. s = t /\ rest \in Seq(Scene) /\ Len(rest) = Len(scenes)
      BY <1>3, <1>4, <3>5, <3>6
    <3>8. s.copies = 1 => /\ scene.copies = 0 /\ DOMAIN scene.pose = {} /\ s.rigs = 0
                          /\ s.source = "none"
      BY <1>1, <3>1, <3>5, <3>7 DEF SceneOK
    <3>9. s.copies = 1 => \A o \in DOMAIN s.pose : s.pose[o] = Imported
      BY <3>2, <3>3, <3>5, <3>7, <3>8
    <3>10. AsImported(s)
      BY <3>9 DEF AsImported
    <3> QED
      BY <1>3, <3>1, <3>5, <3>6, <3>7, <3>8, <3>10
  <2> QED
    BY <1>1, <2>1, <2>2, <2>3 DEF Reused
<1>6. PICK k \in Nat : k = IF Reused(f, replace) /\ s.rigs > 0 THEN s.rigs ELSE s.rigs + 1
  BY <1>5 DEF Scene
<1>7. PICK t : t = [s EXCEPT !.rigs = k]
  OBVIOUS
<1>8. /\ t \in Scene /\ t.source = s.source /\ t.pose = s.pose /\ t.copies = s.copies /\ t.rigs = k
      /\ s.rigs \in Nat
  BY <1>5, <1>7 DEF Scene
<1>9. all = [rest EXCEPT ![n] = t]
  BY <1>4, <1>5, <1>6, <1>7 DEF Rigged
<1> HIDE DEF rest, n
<1>10. all \in Seq(Scene) /\ Len(all) = Len(rest) /\ all[n] = t
       /\ \A i \in 1..Len(rest) : i # n => all[i] = rest[i]
  BY <1>5, <1>8, <1>9
<1>11. SceneOK(t)
  BY <1>5, <1>6, <1>8 DEF SceneOK
<1>12. AsImported(t)
  BY <1>5, <1>8 DEF AsImported
<1>13. Prepared(t)
  BY <1>8, <1>11, <1>12 DEF Prepared
<1>14. ASSUME NEW i \in 1..Len(all) PROVE SceneOK(all[i])
  BY <1>5, <1>10, <1>11
<1> QED
  BY <1>5, <1>10, <1>13, <1>14 DEF n

\* An import that fails half-way leaves only well-formed scenes, one of them active.
LEMMA ScenesAfterImportFails ==
  ASSUME OvInv, NEW f \in Fixtures, NEW replace \in BOOLEAN, ImportFails(f, replace)
  PROVE  /\ scenes' \in Seq(Scene) /\ active' \in 1..Len(scenes')
         /\ \A i \in 1..Len(scenes') : SceneOK(scenes'[i])
<1>1. active \in 1..Len(scenes) /\ scenes \in Seq(Scene) /\ \A i \in 1..Len(scenes) : SceneOK(scenes[i])
  BY DEF OvInv, OvTypeOK, ScenesOK
<1>2. CASE replace
  <2>1. scenes' = Append(scenes, EmptyScene) /\ active' = Len(scenes) + 1
    BY <1>2 DEF ImportFails
  <2> HIDE DEF EmptyScene
  <2>2. /\ scenes' \in Seq(Scene) /\ Len(scenes') = Len(scenes) + 1
        /\ scenes'[Len(scenes) + 1] = EmptyScene
        /\ \A i \in 1..Len(scenes) : scenes'[i] = scenes[i]
    BY <1>1, <2>1, EmptySceneOK
  <2> QED
    BY <1>1, <2>1, <2>2, EmptySceneOK
<1>3. CASE ~replace
  BY <1>1, <1>3 DEF ImportFails, blender
<1> QED
  BY <1>2, <1>3

\* The host helper's invariant holds at the start.
LEMMA OvStart == OvInit => OvInv
<1> SUFFICES ASSUME OvInit PROVE OvInv
  OBVIOUS
<1>1. scenes = <<EmptyScene>> /\ active = 1
  BY DEF OvInit
<1> HIDE DEF EmptyScene
<1>2. /\ scenes \in Seq(Scene) /\ active \in 1..Len(scenes)
      /\ \A i \in 1..Len(scenes) : SceneOK(scenes[i])
  BY <1>1, EmptySceneOK
<1>3. OvTypeOK
  BY <1>2 DEF OvInit, OvTypeOK
<1>4. PlayingOK
  BY DEF OvInit, PlayingOK
<1> QED
  BY <1>2, <1>3, <1>4 DEF OvInit, OvInv, ScenesOK, PassIsOwnRun, FramesMatchReplay, UnmovedAsImported

\* The receipt does not tell of the files.
LEMMA OtherReceipt ==
  ASSUME receipt'.action \notin {"simulate", "replay"} \/ receipt'.status # "pass"
  PROVE  PassIsOwnRun' /\ FramesMatchReplay' /\ UnmovedAsImported'
BY DEF PassIsOwnRun, FramesMatchReplay, UnmovedAsImported

\* The operations that only look leave the invariant as it is.
LEMMA LooksStep == OvInv /\ (Preflight \/ Prepare \/ Status) => OvInv'
<1> SUFFICES ASSUME OvInv, Preflight \/ Prepare \/ Status PROVE OvInv'
  OBVIOUS
<1>1. /\ receipt'.action \notin {"simulate", "replay"} /\ playing' = Still
      /\ UNCHANGED <<timeline, frames, scenes, active, calls>>
  BY DEF Preflight, Prepare, Status, Looks, Receipt, files, blender
<1>2. OvTypeOK' /\ ScenesOK' /\ PlayingOK'
  BY <1>1 DEF OvInv, OvTypeOK, ScenesOK, PlayingOK, Still
<1> QED
  BY <1>1, <1>2, OtherReceipt DEF OvInv

\* What a runner writes is a timeline of its call.
LEMMA TimelinesAre ==
  ASSUME OvInv, NEW r \in Requests, NEW t \in Timelines(r)
  PROVE  t \in TimelineSet /\ t.run = calls + 1
<1> DEFINE found == {x \in Readings : DOMAIN x \subseteq BodiesOf[r.fixture]}
<1>1. PICK s \in [1..r.samples -> found] :
        t = [run |-> calls + 1, source |-> r.fixture, bodies |-> r.bodies, samples |-> s]
  BY DEF Timelines
<1>2. r.samples \in Nat /\ r.fixture \in Fixtures /\ r.bodies \in SUBSET Bodies /\ calls + 1 \in Nat
  BY OvPhysXAssumption DEF OvInv, OvTypeOK
<1>3. s \in Seq(Readings)
  <2>1. s \in [1..r.samples -> Readings]
    BY <1>1
  <2> QED
    BY <1>2, <2>1
<1> QED
  BY <1>1, <1>2, <1>3 DEF TimelineSet

\* A simulation, finished, failed, refused or killed, keeps the invariant.
LEMMA SimulateStep == ASSUME OvInv, NEW r \in Requests, Simulate(r) PROVE OvInv'
<1>1. /\ UNCHANGED <<scenes, active, frames>> /\ calls' = calls + 1 /\ playing' = Still
      /\ receipt'.action = "simulate"
  BY DEF Simulate, RunnerFinishes, RunnerFails, RunnerRefuses, RunnerKilled, Returns, Receipt, blender
<1>2. calls' \in Nat /\ (timeline = None \/ timeline \in TimelineSet)
  BY <1>1 DEF OvInv, OvTypeOK
<1>3. timeline' = timeline \/ timeline' \in Timelines(r)
  BY DEF Simulate, RunnerFinishes, RunnerFails, RunnerRefuses, RunnerKilled
<1>4. OvTypeOK'
  <2>1. timeline' = None \/ timeline' \in TimelineSet
    BY <1>2, <1>3, TimelinesAre
  <2> QED
    BY <1>1, <1>2, <2>1 DEF OvInv, OvTypeOK
<1>5. ScenesOK' /\ PlayingOK'
  BY <1>1 DEF OvInv, ScenesOK, PlayingOK, Still
<1>6. PassIsOwnRun'
  <2>1. CASE RunnerFinishes(r)
    <3>1. timeline' \in Timelines(r) /\ status'.run = calls + 1
      BY <2>1 DEF RunnerFinishes, Wrote
    <3> QED
      BY <1>1, <3>1, TimelinesAre DEF PassIsOwnRun
  <2>2. CASE RunnerFails(r) \/ RunnerRefuses \/ RunnerKilled(r)
    BY <2>2 DEF RunnerFails, RunnerRefuses, RunnerKilled, Returns, Receipt, PassIsOwnRun
  <2> QED
    BY <2>1, <2>2 DEF Simulate
<1> QED
  BY <1>1, <1>4, <1>5, <1>6 DEF OvInv, FramesMatchReplay, UnmovedAsImported

\* A preview keeps the invariant whatever scene it replaces.
LEMMA PreviewStep ==
  ASSUME OvInv, NEW f \in Fixtures, NEW replace \in BOOLEAN, Preview(f, replace) PROVE OvInv'
<1>1. /\ receipt'.action = "preview" /\ UNCHANGED <<timeline, frames>> /\ calls' = calls + 1
      /\ playing' = Still
  BY DEF Preview, Returns, Receipt, files
<1>2. /\ scenes' \in Seq(Scene) /\ active' \in 1..Len(scenes')
      /\ \A i \in 1..Len(scenes') : SceneOK(scenes'[i])
  <2>1. CASE SceneReady(f, replace)
    BY <2>1, ReadyScenes DEF SceneReady
  <2>2. CASE ImportFails(f, replace)
    BY <2>2, ScenesAfterImportFails
  <2> QED
    BY <2>1, <2>2 DEF Preview
<1>3. OvTypeOK'
  BY <1>1, <1>2 DEF OvInv, OvTypeOK
<1>4. ScenesOK' /\ PlayingOK'
  BY <1>1, <1>2 DEF ScenesOK, SceneOK, PlayingOK, Still
<1> QED
  BY <1>1, <1>3, <1>4, OtherReceipt DEF OvInv

\* The beginning of a replay: a prepared scene, a map and no frame yet.
LEMMA ReplayStep == ASSUME OvInv, NEW replace \in BOOLEAN, Replay(replace) PROVE OvInv'
<1>1. /\ UNCHANGED timeline /\ receipt'.action = "replay" /\ receipt'.status \in {"raised", "running"}
      /\ calls' = calls + 1
  BY DEF Replay, Receipt
<1>2. PassIsOwnRun' /\ FramesMatchReplay' /\ UnmovedAsImported'
  BY <1>1, OtherReceipt
<1>3. calls \in Nat /\ frames \in Seq(Frame) /\ (timeline = None \/ timeline \in TimelineSet)
  BY DEF OvInv, OvTypeOK
<1>4. ASSUME frames' \in Seq(Frame), scenes' \in Seq(Scene), active' \in 1..Len(scenes'),
             \A i \in 1..Len(scenes') : SceneOK(scenes'[i])
      PROVE  OvTypeOK' /\ ScenesOK'
  BY <1>1, <1>3, <1>4 DEF OvTypeOK, ScenesOK, SceneOK
<1> DEFINE f == timeline.source
<1>5. ASSUME timeline # None, SceneReady(f, replace)
      PROVE  /\ scenes' \in Seq(Scene) /\ active' \in 1..Len(scenes')
             /\ \A i \in 1..Len(scenes') : SceneOK(scenes'[i])
             /\ Prepared(scenes'[active'])
  <2>1. f \in Fixtures
    BY <1>3, <1>5 DEF TimelineSet
  <2> QED
    BY <1>5, <2>1, ReadyScenes DEF SceneReady
<1>6. CASE UNCHANGED <<frames, playing>> /\ playing = Still
  <2>1. PlayingOK'
    BY <1>6 DEF PlayingOK, Still
  <2>2. CASE UNCHANGED blender
    BY <1>2, <1>3, <1>4, <1>6, <2>1, <2>2 DEF blender, OvInv, OvTypeOK, ScenesOK
  <2>3. CASE timeline # None /\ ImportFails(f, replace)
    <3>1. f \in Fixtures
      BY <1>3, <2>3 DEF TimelineSet
    <3> QED
      BY <1>2, <1>3, <1>4, <1>6, <2>1, <2>3, <3>1, ScenesAfterImportFails DEF OvInv
  <2>4. CASE timeline # None /\ SceneReady(f, replace)
    BY <1>2, <1>3, <1>4, <1>5, <1>6, <2>1, <2>4 DEF OvInv
  <2>5. \/ UNCHANGED blender
        \/ timeline # None /\ (ImportFails(f, replace) \/ SceneReady(f, replace))
    BY DEF Replay
  <2> QED
    BY <2>2, <2>3, <2>4, <2>5
<1>7. CASE /\ timeline # None /\ SceneReady(f, replace)
           /\ \E m \in _resolve_body_objects(scenes'[active']) : playing' = [map |-> m, next |-> 1]
           /\ frames' = <<>> /\ receipt' = Receipt("replay", "running", 0)
  <2>1. PICK scene : scene = scenes'[active']
    OBVIOUS
  <2>2. Prepared(scene)
    BY <1>5, <1>7, <2>1
  <2>3. PICK m \in [timeline.bodies -> DOMAIN scene.pose] : playing' = [map |-> m, next |-> 1]
    BY <1>7, <2>1 DEF _resolve_body_objects
  <2>4. m \in Maps
    <3>1. scene.pose \in Poses /\ timeline.bodies \in SUBSET Bodies
      BY <1>3, <1>7, <2>2 DEF Prepared, Scene, TimelineSet
    <3>2. DOMAIN scene.pose \in SUBSET (Bodies \X Nat)
      BY <3>1, PoseIs
    <3>3. m \in [timeline.bodies -> Bodies \X Nat]
      BY <2>3, <3>2
    <3> QED
      BY <3>1, <3>3 DEF Maps
  <2>5. Stands'
    BY <1>7, <2>1, <2>2 DEF Stands, AsImported, Prepared
  <2>6. Len(frames') = 0 /\ frames' \in Seq(Frame)
    BY <1>7
  <2>7. Len(timeline.samples) \in Nat
    BY <1>3, <1>7 DEF TimelineSet
  <2>8. PlayingOK'
    BY <1>1, <1>7, <2>3, <2>4, <2>5, <2>6, <2>7 DEF PlayingOK, Receipt
  <2> QED
    BY <1>2, <1>4, <1>5, <1>7, <2>6, <2>8 DEF OvInv
<1> QED
  BY <1>6, <1>7 DEF Replay, Stale

\* Applying a sample to a pose moves what the sample has found, and nothing else.
LEMMA AppliedPose ==
  ASSUME NEW p \in Poses, timeline \in TimelineSet, playing.map \in Maps, NEW k \in Nat
  PROVE  /\ Applied(p, k) \in Poses /\ DOMAIN Applied(p, k) = DOMAIN p
         /\ \A o \in DOMAIN p, part \in Parts :
              LET moving == Moving(playing.map, o, part, k) IN
              IF moving = {} THEN Applied(p, k)[o][part] = p[o][part]
              ELSE \E b \in moving : Applied(p, k)[o][part] = <<timeline.run, k, b>>
<1>1. DOMAIN p \in SUBSET (Bodies \X Nat) /\ p \in [DOMAIN p -> Pose]
  BY PoseIs
<1>2. DOMAIN playing.map \subseteq Bodies
  BY DEF Maps
<1> DEFINE q(o) == [part \in Parts |->
                      LET moving == Moving(playing.map, o, part, k) IN
                      IF moving = {} THEN p[o][part] ELSE <<timeline.run, k, CHOOSE b \in moving : TRUE>>]
<1>3. Applied(p, k) = [o \in DOMAIN p |-> q(o)]
  BY DEF Applied
<1>4. ASSUME NEW o \in DOMAIN p, NEW part \in Parts
      PROVE  /\ q(o)[part] \in Marks
             /\ Moving(playing.map, o, part, k) = {} => q(o)[part] = p[o][part]
             /\ Moving(playing.map, o, part, k) # {} =>
                  \E b \in Moving(playing.map, o, part, k) : q(o)[part] = <<timeline.run, k, b>>
  <2>1. PICK moving : moving = Moving(playing.map, o, part, k)
    OBVIOUS
  <2>2. moving \subseteq Bodies
    BY <1>2, <2>1 DEF Moving
  <2>3. q(o)[part] = IF moving = {} THEN p[o][part] ELSE <<timeline.run, k, CHOOSE b \in moving : TRUE>>
    BY <2>1
  <2>4. CASE moving = {}
    BY <1>1, <2>1, <2>3, <2>4 DEF Pose
  <2>5. CASE moving # {}
    <3>1. PICK c \in moving : c = CHOOSE b \in moving : TRUE
      BY <2>5
    <3>2. q(o)[part] = <<timeline.run, k, c>>
      BY <2>3, <2>5, <3>1
    <3>3. timeline.run \in Nat /\ c \in Bodies
      BY <2>2, <3>1 DEF TimelineSet
    <3>4. <<timeline.run, k, c>> \in Marks
      BY <3>3 DEF Marks
    <3> QED
      BY <2>1, <2>5, <3>1, <3>2, <3>4
  <2> QED
    BY <2>4, <2>5
<1>5. \A o \in DOMAIN p : q(o) \in Pose
  BY <1>4 DEF Pose
<1> HIDE DEF q
<1>6. Applied(p, k) \in [DOMAIN p -> Pose]
  BY <1>3, <1>5
<1>7. Applied(p, k) \in Poses /\ DOMAIN Applied(p, k) = DOMAIN p
  BY <1>1, <1>6, PoseTyped
<1> QED
  BY <1>3, <1>4, <1>7

\* The next frame goes at the end.
LEMMA PutIsAppend ==
  ASSUME NEW seq \in Seq(Frame), NEW x \in Frame PROVE Put(seq, Len(seq) + 1, x) = Append(seq, x)
<1>1. PICK n \in Nat : n = Len(seq)
  OBVIOUS
<1>2. Put(seq, n + 1, x) = [i \in 1..(n + 1) |-> IF i = n + 1 THEN x ELSE seq[i]]
  BY <1>1 DEF Put
<1>3. PICK s : s = Append(seq, x)
  OBVIOUS
<1>4. s \in Seq(Frame) /\ Len(s) = n + 1 /\ \A i \in 1..(n + 1) : s[i] = IF i = n + 1 THEN x ELSE seq[i]
  BY <1>1, <1>3
<1>5. DOMAIN s = 1..(n + 1) /\ s = [i \in DOMAIN s |-> s[i]]
  BY <1>1, <1>4
<1>6. s = [i \in 1..(n + 1) |-> IF i = n + 1 THEN x ELSE seq[i]]
  BY <1>4, <1>5
<1> QED
  BY <1>1, <1>2, <1>3, <1>6

\* A turn of the loop: the new frame is right and the scene stands as in it.
LEMMA RenderStep == OvInv /\ Render => OvInv'
<1> SUFFICES ASSUME OvInv, Render PROVE OvInv'
  OBVIOUS
<1>1. PICK k : k = playing.next
  OBVIOUS
<1>2. /\ timeline \in TimelineSet /\ playing \in [map : Maps, next : Nat]
      /\ k = Len(frames) + 1 /\ k \in Nat /\ k >= 1 /\ frames \in Seq(Frame) /\ Len(frames) \in Nat
      /\ receipt.action = "replay" /\ receipt.status = "running"
      /\ \A i \in 1..Len(frames) : Right(playing.map, i) /\ Rest(playing.map, i)
      /\ Stands /\ playing # Still /\ timeline # None
  BY <1>1 DEF Render, OvInv, PlayingOK, OvTypeOK
<1>3. k <= Len(timeline.samples)
  <2>1. k \in DOMAIN timeline.samples /\ timeline.samples \in Seq(Readings)
    BY <1>1, <1>2 DEF Render, TimelineSet
  <2> QED
    BY <2>1
<1>4. PICK scene \in Scene : scene = scenes[active] /\ SceneOK(scene)
  BY DEF OvInv, OvTypeOK, ScenesOK
<1>5. active \in 1..Len(scenes) /\ scenes \in Seq(Scene) /\ \A i \in 1..Len(scenes) : SceneOK(scenes[i])
  BY DEF OvInv, OvTypeOK, ScenesOK
<1>6. PICK p : p = Applied(scene.pose, k)
  OBVIOUS
<1>7. scene.pose \in Poses /\ playing.map \in Maps
  BY <1>2 DEF Scene
<1>8. /\ p \in Poses /\ DOMAIN p = DOMAIN scene.pose
      /\ \A o \in DOMAIN p, part \in Parts :
           LET moving == Moving(playing.map, o, part, k) IN
           IF moving = {} THEN p[o][part] = scene.pose[o][part]
           ELSE \E b \in moving : p[o][part] = <<timeline.run, k, b>>
  <2>1. /\ Applied(scene.pose, k) \in Poses /\ DOMAIN Applied(scene.pose, k) = DOMAIN scene.pose
        /\ \A o \in DOMAIN scene.pose, part \in Parts :
             LET moving == Moving(playing.map, o, part, k) IN
             IF moving = {} THEN Applied(scene.pose, k)[o][part] = scene.pose[o][part]
             ELSE \E b \in moving : Applied(scene.pose, k)[o][part] = <<timeline.run, k, b>>
    BY <1>2, <1>7, AppliedPose
  <2> QED
    BY <1>6, <2>1
<1>9. PICK t : t = [scene EXCEPT !.pose = p]
  OBVIOUS
<1>10. /\ t \in Scene /\ t.source = scene.source /\ t.pose = p /\ t.copies = scene.copies
       /\ t.rigs = scene.rigs
  BY <1>8, <1>9 DEF Scene
<1>11. scenes' = [scenes EXCEPT ![active] = t]
  BY <1>1, <1>4, <1>6, <1>9 DEF Render
<1>12. /\ scenes' \in Seq(Scene) /\ Len(scenes') = Len(scenes) /\ scenes'[active] = t
       /\ \A i \in 1..Len(scenes) : i # active => scenes'[i] = scenes[i]
  BY <1>5, <1>10, <1>11
<1>13. SceneOK(t)
  BY <1>4, <1>8, <1>10 DEF SceneOK
<1>14. UNCHANGED <<timeline, active, receipt, calls>>
  BY DEF Render
<1>15. PICK x : x = [pose |-> p, copies |-> scene.copies]
  OBVIOUS
<1>16. x \in Frame /\ x.pose = p /\ x.copies = scene.copies
  BY <1>8, <1>15 DEF Frame, Scene
<1>17. frames' = Append(frames, x)
  <2>1. frames' = Put(frames, k, [pose |-> scenes'[active].pose, copies |-> scenes[active].copies])
    BY <1>1, <1>14 DEF Render
  <2>2. frames' = Put(frames, k, x)
    BY <1>4, <1>10, <1>12, <1>15, <2>1
  <2> QED
    BY <1>2, <1>16, <2>2, PutIsAppend
<1>18. /\ frames' \in Seq(Frame) /\ Len(frames') = k /\ frames'[k] = x /\ frames' # <<>>
       /\ \A i \in 1..Len(frames) : frames'[i] = frames[i]
  BY <1>2, <1>16, <1>17
<1>19. playing' = [playing EXCEPT !.next = k + 1]
  BY <1>1 DEF Render
<1>20. playing' \in [map : Maps, next : Nat] /\ playing'.map = playing.map /\ playing'.next = k + 1
  BY <1>2, <1>19
<1>21. OvTypeOK'
  BY <1>12, <1>14, <1>18, <1>5 DEF OvInv, OvTypeOK
<1>22. ScenesOK'
  BY <1>5, <1>12, <1>13 DEF ScenesOK
<1>23. ASSUME NEW i \in 1..Len(frames) PROVE Right(playing.map, i)' /\ Rest(playing.map, i)'
  <2>1. Right(playing.map, i) /\ Rest(playing.map, i) /\ i \in Nat
    BY <1>2
  <2>2. frames'[i] = frames[i] /\ (i # 1 => frames'[i - 1] = frames[i - 1])
    BY <1>2, <1>18
  <2>3. \A o, part, j : Moving(playing.map, o, part, j)' = Moving(playing.map, o, part, j)
    BY <1>14, <1>20 DEF Moving
  <2>4. Right(playing.map, i)'
    BY <1>14, <1>20, <2>1, <2>2, <2>3 DEF Right
  <2>5. Rest(playing.map, i)'
    BY <2>1, <2>2, <2>3 DEF Rest, Imported
  <2> QED
    BY <2>4, <2>5
<1>24. \A o, part, j : Moving(playing.map, o, part, j)' = Moving(playing.map, o, part, j)
  BY <1>14, <1>20 DEF Moving
<1>25. k # 1 => /\ frames'[k - 1] = frames[Len(frames)] /\ scene.pose = frames[Len(frames)].pose
                /\ scene.copies = frames[Len(frames)].copies /\ Rest(playing.map, Len(frames))
  <2> SUFFICES ASSUME k # 1
               PROVE  /\ frames'[k - 1] = frames[Len(frames)] /\ scene.pose = frames[Len(frames)].pose
                      /\ scene.copies = frames[Len(frames)].copies /\ Rest(playing.map, Len(frames))
    OBVIOUS
  <2>1. Len(frames) \in 1..Len(frames) /\ k - 1 = Len(frames) /\ frames # <<>>
    BY <1>2
  <2> QED
    BY <1>2, <1>4, <1>18, <2>1 DEF Stands
<1>26. Right(playing.map, k)'
  <2> SUFFICES ASSUME NEW o \in DOMAIN p, NEW part \in Parts
               PROVE  IF Moving(playing.map, o, part, k) = {}
                      THEN k = 1 \/ p[o][part] = frames'[k - 1].pose[o][part]
                      ELSE \E b \in Moving(playing.map, o, part, k) : p[o][part] = <<timeline.run, k, b>>
    BY <1>14, <1>16, <1>18, <1>20, <1>24 DEF Right
  <2> QED
    BY <1>8, <1>25
<1>27. Rest(playing.map, k)'
  <2> SUFFICES ASSUME scene.copies = 1, NEW o \in DOMAIN p, NEW part \in Parts,
                      \A j \in 1..k : Moving(playing.map, o, part, j) = {}
               PROVE  p[o][part] = Imported[part]
    BY <1>16, <1>18, <1>24 DEF Rest, Imported
  <2>1. p[o][part] = scene.pose[o][part] /\ o \in DOMAIN scene.pose
    <3>1. k \in 1..k
      BY <1>2
    <3> QED
      BY <1>8, <3>1
  <2>2. CASE k = 1
    <3>1. frames = <<>>
      BY <1>2, <2>2
    <3> QED
      BY <1>2, <1>4, <2>1, <3>1 DEF Stands, AsImported
  <2>3. CASE k # 1
    <3>1. \A j \in 1..Len(frames) : Moving(playing.map, o, part, j) = {}
      BY <1>2
    <3> QED
      BY <1>25, <2>1, <2>3, <3>1 DEF Rest
  <2> QED
    BY <2>2, <2>3
<1>28. Stands'
  BY <1>10, <1>12, <1>14, <1>16, <1>18 DEF Stands
<1>29. \A i \in 1..Len(frames') : Right(playing.map, i)' /\ Rest(playing.map, i)'
  BY <1>2, <1>18, <1>23, <1>26, <1>27
<1>30. PlayingOK'
  BY <1>2, <1>3, <1>14, <1>18, <1>20, <1>28, <1>29 DEF PlayingOK
<1>31. PassIsOwnRun' /\ FramesMatchReplay' /\ UnmovedAsImported'
  BY <1>2, <1>14, OtherReceipt
<1> QED
  BY <1>21, <1>22, <1>30, <1>31 DEF OvInv

\* The end of a replay: one that passes has come to its last sample.
LEMMA ReplayEndsStep == OvInv /\ ReplayEnds => OvInv'
<1> SUFFICES ASSUME OvInv, ReplayEnds PROVE OvInv'
  OBVIOUS
<1>1. UNCHANGED <<timeline, frames, scenes, active, calls>> /\ playing' = Still /\ playing # Still
  BY DEF ReplayEnds, blender
<1>2. OvTypeOK' /\ ScenesOK' /\ PlayingOK'
  BY <1>1 DEF OvInv, OvTypeOK, ScenesOK, PlayingOK, Still
<1>3. receipt'.action = "replay"
  BY DEF ReplayEnds, Receipt
<1>4. CASE receipt'.status # "pass"
  BY <1>2, <1>4, OtherReceipt DEF OvInv
<1>5. CASE receipt'.status = "pass"
  <2>1. /\ playing.next = Len(timeline.samples) + 1 /\ gif' = frames
        /\ replayed' = [run |-> timeline.run, status |-> receipt'.status, map |-> playing.map]
    BY <1>5 DEF ReplayEnds, Receipt
  <2>2. /\ timeline \in TimelineSet /\ playing.next = Len(frames) + 1 /\ frames \in Seq(Frame)
        /\ \A k \in 1..Len(frames) : Right(playing.map, k) /\ Rest(playing.map, k)
    BY <1>1 DEF OvInv, PlayingOK, OvTypeOK
  <2>3. timeline.samples \in Seq(Readings) /\ DOMAIN frames = 1..Len(frames)
    BY <2>2 DEF TimelineSet
  <2>4. DOMAIN frames = DOMAIN timeline.samples
    BY <2>1, <2>2, <2>3
  <2>5. replayed'.map = playing.map
    BY <2>1
  <2>6. \A o, part, j : Moving(replayed.map, o, part, j)' = Moving(playing.map, o, part, j)
    BY <1>1, <2>5 DEF Moving
  <2>7. FramesMatchReplay'
    <3>1. ASSUME NEW k \in DOMAIN frames, NEW o \in DOMAIN frames[k].pose, NEW part \in Parts
          PROVE  IF Moving(playing.map, o, part, k) = {}
                 THEN k = 1 \/ frames[k].pose[o][part] = frames[k - 1].pose[o][part]
                 ELSE \E b \in Moving(playing.map, o, part, k) :
                        frames[k].pose[o][part] = <<timeline.run, k, b>>
      BY <2>2, <2>3 DEF Right
    <3> QED
      BY <1>1, <2>1, <2>4, <2>6, <3>1 DEF FramesMatchReplay
  <2>8. UnmovedAsImported'
    <3>1. ASSUME NEW k \in DOMAIN frames, frames[k].copies = 1,
                 NEW o \in DOMAIN frames[k].pose, NEW part \in Parts,
                 \A j \in 1..k : Moving(playing.map, o, part, j) = {}
          PROVE  frames[k].pose[o][part] = Imported[part]
      BY <2>2, <2>3, <3>1 DEF Rest
    <3> QED
      BY <1>1, <2>6, <3>1 DEF UnmovedAsImported, Imported
  <2>9. PassIsOwnRun'
    BY <1>3 DEF PassIsOwnRun
  <2> QED
    BY <1>2, <2>7, <2>8, <2>9 DEF OvInv
<1> QED
  BY <1>4, <1>5

\* Every step of the host helper keeps its invariant.
LEMMA OvStep == OvInv /\ [OvNext]_ovVars => OvInv'
<1> SUFFICES ASSUME OvInv, [OvNext]_ovVars PROVE OvInv'
  OBVIOUS
<1>1. CASE Preflight \/ Prepare \/ Status
  BY <1>1, LooksStep
<1>2. ASSUME NEW r \in Requests, Simulate(r) PROVE OvInv'
  BY <1>2, SimulateStep
<1>3. ASSUME NEW replace \in BOOLEAN, Replay(replace) PROVE OvInv'
  BY <1>3, ReplayStep
<1>4. ASSUME NEW replace \in BOOLEAN, NEW f \in Fixtures, Preview(f, replace) PROVE OvInv'
  BY <1>4, PreviewStep
<1>5. CASE Render
  BY <1>5, RenderStep
<1>6. CASE ReplayEnds
  BY <1>6, ReplayEndsStep
<1>7. CASE BlenderRestarts
  <2>1. UNCHANGED <<timeline, calls, frames, gif, replayed, receipt, status>> /\ playing' = Still
    BY <1>7 DEF BlenderRestarts, files
  <2>2. scenes' = <<EmptyScene>> /\ active' = 1
    BY <1>7 DEF BlenderRestarts
  <2>3. OvTypeOK' /\ ScenesOK' /\ PlayingOK'
    <3> HIDE DEF EmptyScene
    <3>1. /\ scenes' \in Seq(Scene) /\ active' \in 1..Len(scenes')
          /\ \A i \in 1..Len(scenes') : SceneOK(scenes'[i])
      BY <2>2, EmptySceneOK
    <3> QED
      BY <2>1, <3>1 DEF OvInv, OvTypeOK, ScenesOK, SceneOK, PlayingOK, Still
  <2>4. PassIsOwnRun'
    BY <2>1 DEF OvInv, PassIsOwnRun
  <2>5. FramesMatchReplay' /\ UnmovedAsImported'
    BY <2>1 DEF OvInv, FramesMatchReplay, UnmovedAsImported, Moving, Imported
  <2> QED
    BY <2>3, <2>4, <2>5 DEF OvInv
<1>8. CASE RuntimeChanges \/ UNCHANGED ovVars
  <2>1. UNCHANGED <<timeline, calls, frames, gif, replayed, receipt, status, scenes, active, playing>>
    BY <1>8 DEF RuntimeChanges, ovVars, files, blender
  <2>2. OvTypeOK' /\ ScenesOK' /\ PassIsOwnRun'
    BY <2>1 DEF OvInv, OvTypeOK, ScenesOK, SceneOK, PassIsOwnRun
  <2>3. PlayingOK'
    BY <2>1 DEF OvInv, PlayingOK, Right, Rest, Stands, AsImported, Moving, Imported, Still, None
  <2>4. FramesMatchReplay' /\ UnmovedAsImported'
    BY <2>1 DEF OvInv, FramesMatchReplay, UnmovedAsImported, Moving, Imported
  <2> QED
    BY <2>2, <2>3, <2>4 DEF OvInv
<1> QED
  BY <1>1, <1>2, <1>3, <1>4, <1>5, <1>6, <1>7, <1>8 DEF OvNext, dispatch

-----------------------------------------------------------------------------
(* blender_workflow_mcp_server.py and its helper *)

Problems == {"none", "outside", "relative", "suffix", "too many", "unknown", "same"}
Names    == Tools \cup {"other", "none"}
Sent     == [call : Nat, tool : Names, fault : Problems]

WfTypeOK ==
  /\ call \in [stage : {"idle", "waiting"}, tool : Names, fault : Problems]
  /\ queue \in Seq(Sent)
  /\ out \in [Kinds -> Nat]
  /\ asked \in Nat

\* Blender runs what it was sent in the order of the calls.
InOrder ==
  /\ \A i \in 1..Len(queue) : queue[i].call <= asked
  /\ \A i, j \in 1..Len(queue) : i < j => queue[i].call < queue[j].call

\* What the waiting call has sent is its request; when a call has passed, nothing
\* is left to run.
Pending ==
  /\ call.stage = "waiting" =>
       \A i \in 1..Len(queue) : queue[i].call = asked =>
         queue[i].tool = call.tool /\ queue[i].fault = call.fault
  /\ call.stage = "idle" /\ response.status = "pass" => queue = <<>>

WfInv == WfTypeOK /\ InOrder /\ Pending /\ ReceiptHolds

\* The workflow's invariant holds at the start.
LEMMA WfStart == WfInit => WfInv
<1> SUFFICES ASSUME WfInit PROVE WfInv
  OBVIOUS
<1>1. WfTypeOK
  BY DEF WfInit, WfTypeOK, Names, Problems
<1>2. queue = <<>> /\ response.status = "none"
  BY DEF WfInit
<1> QED
  BY <1>1, <1>2 DEF WfInv, InOrder, Pending, ReceiptHolds

\* Whatever can go wrong in a call is a problem the receipt can name.
LEMMA FaultIsProblem == ASSUME NEW tool, NEW fault \in Faults(tool) PROVE fault \in Problems
BY DEF Faults, Problems

\* What waits in the queue is a request that was sent.
LEMMA SentCalls ==
  ASSUME WfTypeOK, NEW i \in 1..Len(queue) PROVE queue[i] \in Sent /\ queue[i].call \in Nat
<1>1. queue[i] \in Sent
  BY DEF WfTypeOK
<1> QED
  BY <1>1 DEF Sent

\* The server's answers, refusals and requests keep the workflow's invariant.
LEMMA ServerStep == WfInv /\ Server => WfInv'
<1> SUFFICES ASSUME WfInv, NEW tool \in Tools \cup {"other"}, NEW fault \in Faults(tool),
                    Invalid(tool, fault) \/ Unreachable(tool, fault) \/ Send(tool, fault)
             PROVE  WfInv'
  BY DEF Server
<1>1. tool \in Names /\ fault \in Problems
  BY FaultIsProblem DEF Names
<1>2. UNCHANGED out /\ asked' = asked + 1 /\ asked \in Nat /\ call.stage = "idle"
  BY DEF Invalid, Unreachable, Send, Call, WfInv, WfTypeOK
<1>3. CASE Invalid(tool, fault) \/ Unreachable(tool, fault)
  <2>1. /\ call' = [stage |-> "idle", tool |-> tool, fault |-> fault]
        /\ response'.status # "pass" /\ queue' = queue
    BY <1>3 DEF Invalid, Unreachable, Answer
  <2>2. WfTypeOK'
    BY <1>1, <1>2, <2>1 DEF WfInv, WfTypeOK
  <2>3. InOrder'
    <3>1. \A i \in 1..Len(queue) : queue[i].call \in Nat
      BY SentCalls DEF WfInv
    <3> QED
      BY <1>2, <2>1, <3>1 DEF WfInv, InOrder
  <2> QED
    BY <2>1, <2>2, <2>3 DEF WfInv, Pending, ReceiptHolds
<1>4. CASE Send(tool, fault)
  <2>1. PICK r : r = [call |-> asked + 1, tool |-> tool, fault |-> fault]
    OBVIOUS
  <2>2. r \in Sent /\ r.call = asked + 1 /\ r.tool = tool /\ r.fault = fault
    BY <1>1, <1>2, <2>1 DEF Sent
  <2>3. /\ call' = [stage |-> "waiting", tool |-> tool, fault |-> fault]
        /\ queue' = Append(queue, r)
    BY <1>4, <2>1 DEF Send
  <2>4. /\ queue' \in Seq(Sent) /\ Len(queue') = Len(queue) + 1 /\ Len(queue) \in Nat
        /\ queue'[Len(queue) + 1] = r
        /\ \A i \in 1..Len(queue) : queue'[i] = queue[i]
    BY <2>2, <2>3 DEF WfInv, WfTypeOK
  <2>8. \A i \in 1..Len(queue) : queue[i].call \in Nat
    BY SentCalls DEF WfInv
  <2>5. WfTypeOK'
    BY <1>1, <1>2, <2>3, <2>4 DEF WfInv, WfTypeOK
  <2>6. InOrder'
    <3>1. ASSUME NEW i \in 1..Len(queue') PROVE queue'[i].call <= asked'
      BY <1>2, <2>2, <2>4, <2>8 DEF WfInv, InOrder
    <3>2. ASSUME NEW i \in 1..Len(queue'), NEW j \in 1..Len(queue'), i < j
          PROVE  queue'[i].call < queue'[j].call
      <4>1. CASE j = Len(queue) + 1
        BY <1>2, <2>2, <2>4, <2>8, <3>2, <4>1 DEF WfInv, InOrder
      <4>2. CASE j # Len(queue) + 1
        BY <2>4, <3>2, <4>2 DEF WfInv, InOrder
      <4> QED
        BY <4>1, <4>2
    <3> QED
      BY <3>1, <3>2 DEF InOrder
  <2>7. Pending'
    BY <1>2, <2>2, <2>3, <2>4, <2>8 DEF WfInv, InOrder, Pending
  <2> QED
    BY <2>3, <2>5, <2>6, <2>7 DEF WfInv, ReceiptHolds
<1> QED
  BY <1>3, <1>4

\* Running the oldest request in Blender keeps the workflow's invariant.
LEMMA ExecuteStep == WfInv /\ Execute => WfInv'
<1> SUFFICES ASSUME WfInv, Execute PROVE WfInv'
  OBVIOUS
<1>1. PICK r : r = Head(queue)
  OBVIOUS
<1>2. /\ queue # <<>> /\ queue \in Seq(Sent) /\ queue' = Tail(queue) /\ asked' = asked
      /\ asked \in Nat
  BY DEF Execute, WfInv, WfTypeOK
<1>3. /\ r = queue[1] /\ r \in Sent /\ Len(queue) \in Nat /\ Len(queue) > 0
      /\ queue' \in Seq(Sent) /\ Len(queue') = Len(queue) - 1
      /\ \A i \in 1..Len(queue') : queue'[i] = queue[i + 1]
  BY <1>1, <1>2
<1>4. ~(call.stage = "idle" /\ response.status = "pass")
  BY <1>2 DEF WfInv, Pending
<1>5. InOrder'
  BY <1>2, <1>3 DEF WfInv, InOrder
<1>6. HeardBy(r) => /\ queue' = <<>> /\ call.stage = "waiting"
                    /\ r.tool = call.tool /\ r.fault = call.fault
  <2> SUFFICES ASSUME HeardBy(r)
               PROVE  /\ queue' = <<>> /\ call.stage = "waiting"
                      /\ r.tool = call.tool /\ r.fault = call.fault
    OBVIOUS
  <2>1. call.stage = "waiting" /\ queue[1].call = asked
    BY <1>3 DEF HeardBy
  <2>2. Len(queue) <= 1
    <3> SUFFICES ASSUME Len(queue) >= 2 PROVE FALSE
      BY <1>3
    <3>1. queue[1].call < queue[2].call /\ queue[2].call <= asked
      BY <1>3 DEF WfInv, InOrder
    <3>2. queue[2] \in Sent
      BY <1>2, <1>3
    <3> QED
      BY <1>2, <2>1, <3>1, <3>2 DEF Sent
  <2>3. Len(queue') = 0
    BY <1>3, <2>2
  <2> QED
    BY <1>3, <2>1, <2>3 DEF WfInv, Pending
<1>7. ASSUME NEW verdict, NEW seen, Reply(r, verdict, seen), out' \in [Kinds -> Nat],
             verdict = "pass" => out' = After(r) /\ seen = Seen(r)
      PROVE  WfInv'
  <2>1. CASE HeardBy(r)
    <3>1. /\ call' = [call EXCEPT !.stage = "idle"]
          /\ response' = [call |-> asked', status |-> verdict, isError |-> (verdict # "pass"), seen |-> seen]
      BY <1>7, <2>1 DEF Reply, Answer
    <3>2. WfTypeOK' /\ call'.stage = "idle" /\ call'.tool = r.tool
          /\ call'.fault = r.fault
      BY <1>2, <1>3, <1>6, <1>7, <2>1, <3>1 DEF WfInv, WfTypeOK
    <3>3. Pending'
      BY <1>6, <2>1, <3>2 DEF Pending
    <3>4. ReceiptHolds'
      <4>1. Reads(call') = Reads(r)
        BY <3>2 DEF Reads, Writes, Inputs
      <4>2. ASSUME verdict = "pass", r.fault # "same", NEW k \in Reads(r) PROVE out'[k] = seen[k]
        <5>1. k \in Kinds /\ (k \in Inputs(r) => k \notin Writes(r))
          BY <4>2 DEF Reads, Writes, Inputs, Kinds
        <5> QED
          BY <1>7, <4>2, <5>1 DEF Seen, After
      <4>3. verdict = "pass" => DOMAIN seen = Reads(r)
        BY <1>7 DEF Seen
      <4> QED
        BY <3>1, <3>2, <4>1, <4>2, <4>3 DEF ReceiptHolds
    <3> QED
      BY <1>5, <3>2, <3>3, <3>4 DEF WfInv
  <2>2. CASE ~HeardBy(r)
    <3>1. UNCHANGED <<call, response>>
      BY <1>7, <2>2 DEF Reply
    <3>2. WfTypeOK'
      BY <1>2, <1>3, <1>7, <3>1 DEF WfInv, WfTypeOK
    <3>3. Pending'
      BY <1>2, <1>3, <1>4, <3>1 DEF WfInv, Pending
    <3> QED
      BY <1>4, <1>5, <3>1, <3>2, <3>3 DEF WfInv, ReceiptHolds
  <2> QED
    BY <2>1, <2>2
<1>8. out \in [Kinds -> Nat] /\ After(r) \in [Kinds -> Nat]
  BY <1>3 DEF After, Sent, WfInv, WfTypeOK
<1>9. CASE Reply(r, "blocked", NothingSeen) /\ out' \in {out, After(r)}
  BY <1>7, <1>8, <1>9
<1>10. CASE out' = After(r) /\ Reply(r, "pass", Seen(r))
  BY <1>7, <1>8, <1>10
<1> QED
  BY <1>1, <1>9, <1>10 DEF Execute

\* Every step of the workflow keeps its invariant.
LEMMA WfStep == WfInv /\ [WfNext]_wfVars => WfInv'
<1> SUFFICES ASSUME WfInv, [WfNext]_wfVars PROVE WfInv'
  OBVIOUS
<1>1. CASE Server
  BY <1>1, ServerStep
<1>2. CASE Execute
  BY <1>2, ExecuteStep
<1>3. CASE Timeout
  <2>1. /\ call' = [call EXCEPT !.stage = "idle"] /\ response'.status = "blocked"
        /\ UNCHANGED <<queue, out, asked>>
    BY <1>3 DEF Timeout, Answer
  <2> QED
    BY <2>1 DEF WfInv, WfTypeOK, InOrder, Pending, ReceiptHolds
<1>4. CASE Close
  <2>1. queue' = <<>> /\ UNCHANGED <<out, asked>>
    BY <1>4 DEF Close
  <2>2. CASE call.stage = "waiting"
    <3>1. call' = [call EXCEPT !.stage = "idle"] /\ response'.status = "blocked"
      BY <1>4, <2>2 DEF Close, Answer
    <3> QED
      BY <2>1, <3>1 DEF WfInv, WfTypeOK, InOrder, Pending, ReceiptHolds
  <2>3. CASE call.stage # "waiting"
    <3>1. UNCHANGED <<call, response>>
      BY <1>4, <2>3 DEF Close
    <3> QED
      BY <2>1, <3>1 DEF WfInv, WfTypeOK, InOrder, Pending, ReceiptHolds
  <2> QED
    BY <2>2, <2>3
<1>5. CASE Open \/ Save \/ UNCHANGED wfVars
  <2>1. UNCHANGED <<call, queue, out, response, asked>>
    BY <1>5 DEF Open, Save, wfVars
  <2> QED
    BY <2>1 DEF WfInv, WfTypeOK, InOrder, Pending, ReceiptHolds
<1> QED
  BY <1>1, <1>2, <1>3, <1>4, <1>5 DEF WfNext

-----------------------------------------------------------------------------
(* Both in one Blender *)

\* Each step of the host is one of each helper, or leaves it alone.
LEMMA HostSteps == [Next]_vars => [OvNext]_ovVars /\ [WfNext]_wfVars
BY DEF Next, vars, Asks, TimesOut, RunsCall, RunsAction, GoesOn, Closes, Opens, Saves, Installs,
       OvNext, WfNext, ovVars, wfVars

\* BlenderHost implements the host helper as it is alone.
THEOREM HostImplementsHelper == Spec => OvSpec
<1>1. Init => OvInit
  BY DEF Init
<1> QED
  BY <1>1, HostSteps, PTL DEF Spec, OvSpec

\* The two invariants hold throughout: neither helper writes the other's state, so
\* each is inductive by itself. The theorems below read off what is asked.
THEOREM BlenderInductive == Spec => [](OvInv /\ WfInv)
<1>1. Init => OvInv /\ WfInv
  BY OvStart, WfStart DEF Init
<1>2. OvInv /\ WfInv /\ [Next]_vars => OvInv' /\ WfInv'
  BY HostSteps, OvStep, WfStep
<1> QED
  BY <1>1, <1>2, PTL DEF Spec

\* A simulate that reports success has this run's status and timeline.
THEOREM SimulationIsOwnRun == Spec => []PassIsOwnRun
<1>1. OvInv => PassIsOwnRun
  BY DEF OvInv
<1> QED
  BY <1>1, BlenderInductive, PTL

\* A replay that passes has the frames of its timeline and no others, in the GIF
\* too, each with what its sample found where the sample put it and the rest as in
\* the frame before, for the map of its receipt.
THEOREM ReplayHasItsFrames == Spec => []FramesMatchReplay
<1>1. OvInv => FramesMatchReplay
  BY DEF OvInv
<1> QED
  BY <1>1, BlenderInductive, PTL

\* What no sample moves, directly or through another body's name, is seen where the
\* import put it.
THEOREM RestStaysAsImported == Spec => []UnmovedAsImported
<1>1. OvInv => UnmovedAsImported
  BY DEF OvInv
<1> QED
  BY <1>1, BlenderInductive, PTL

\* A scene with one import has at most one camera and light of the helper.
THEOREM OneRigPerScene == Spec => []OneRig
<1>1. OvInv => OneRig
  BY DEF OvInv, OvTypeOK, ScenesOK, SceneOK, OneRig
<1> QED
  BY <1>1, BlenderInductive, PTL

\* A receipt that passes is that of its call and stays true until the next one.
THEOREM ReceiptsHold == Spec => []ReceiptHolds
<1>1. WfInv => ReceiptHolds
  BY DEF WfInv
<1> QED
  BY <1>1, BlenderInductive, PTL
=============================================================================
