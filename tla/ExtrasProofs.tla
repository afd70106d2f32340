---------------------------- MODULE ExtrasProofs ----------------------------
(***************************************************************************)
(* What is proved of the optional parts of the triage deployment (extras/) *)
(* and of the skill that stands in for one of them: the trajectory export, *)
(* the forums ETL, the GitHub ETL and the live GitHub reader, in turn.     *)
(***************************************************************************)
EXTENDS AtifExport, ForumsEtl, GithubEtl, GithubLive, FiniteSetTheorems, TLAPS

-----------------------------------------------------------------------------
(***************************************************************************)
(* The safety of trajectory export, for every set of sessions, slots and   *)
(* configurations and every number of versions, tries and failures.  The   *)
(* inductive invariant says of each request under way what its hop knows;  *)
(* the order of a session's snapshots rests on one request per session     *)
(* having somebody who waits for it, with the newest version.              *)
(***************************************************************************)
\* The prefixes a relay may have memoized, and the keys it may write to.
Scopes == {<<q, config.static>> :
             q \in IF config.prefixer = "ec2-instance-id" THEN Instances ELSE {""}}
EKeys  == {config.bucket} \X Scopes \X Sessions

Statuses == {0, 200, 400, 403, 405, 413, 502, 503}
Requests ==
  [at : {"bridge", "relay", "backend", "answered"},
   key : Sessions \cup {NoKey, CHOOSE s \in Sessions : TRUE},
   version : Nat, method : {"PUT", "GET"}, size : {"fits", "huge"}, token : Nat,
   ekey : {<<>>} \cup EKeys, tries : Nat, status : Statuses, etag : BOOLEAN,
   bridge : BOOLEAN, client : BOOLEAN]

AtifTypeOK ==
  /\ config \in Configs /\ instance \in Instances /\ issued \in Nat
  /\ relay \in [up : BOOLEAN, token : Nat, prefix : {<<>>} \cup Scopes]
  /\ put \in [Slots -> {Free} \cup Requests]
  /\ export \in [Sessions -> [version : Nat, state : {"idle", "waits", "failed"}]]
  /\ acked \in [Sessions -> Nat]
  /\ disabled \in BOOLEAN /\ noETag \in BOOLEAN
  /\ object \in [DOMAIN object -> Nat] /\ DOMAIN object \subseteq EKeys
  /\ written \subseteq (DOMAIN object) \X (Nat \ {0})

\* A listening relay was given a safe endpoint and knows its prefix.
RelayOK == relay.up => build_backend(config) /\ relay.prefix \in Scopes

\* Version v of session s was stored.
WasStored(s, v) == \E w \in written : w[1][3] = s /\ w[2] = v

\* What a request says, where it is, and who still waits for it.
Content(r) ==
  /\ r.version = 0 => r.method = "GET" \/ r.size = "huge" \/ r.key = NoKey
  /\ r.version > 0 => r.key \in Sessions /\ r.version <= export[r.key].version
Hop(r) ==
  /\ r.at \in {"relay", "backend"} => relay.up
  /\ r.at = "backend" => /\ r.version > 0
                         /\ r.ekey = <<config.bucket, relay.prefix, r.key>>
  /\ r.at # "answered" => r.status = 0
Waiting(r) ==
  /\ r.client => /\ r.version > 0
                 /\ export[r.key] = [version |-> r.version, state |-> "waits"]
  /\ r.at # "answered" /\ r.version > 0 => r.client \/ r.key \in late
\* An answer of 200 stands for a stored object.
Reply(r) ==
  r.status = 200 => /\ r.version > 0
                    /\ IF r.etag THEN WasStored(r.key, r.version) ELSE noETag
RequestOK(r) == Content(r) /\ Hop(r) /\ Waiting(r) /\ Reply(r)

RequestsOK == \A a \in Slots : put[a] # Free => RequestOK(put[a])

\* A session waits for one request.
OneClient ==
  \A a, b \in Slots :
    put[a] # Free /\ put[b] # Free /\ put[a].client /\ put[b].client
      /\ put[a].key = put[b].key => a = b

\* What is stored is no newer than what was exported.
StoreOK ==
  /\ \A w \in written : w[2] <= export[w[1][3]].version
  /\ written # {} => EndpointOf(config) # "http-remote"
  /\ NewestUnlessLate

\* A session that waits or failed has exported something.
Started == \A s \in Sessions : export[s].state # "idle" => export[s].version > 0

\* The parts of the invariant that are not types.
Safe == RelayOK /\ RequestsOK /\ OneClient /\ Started /\ StoreOK
          /\ AckedIsStored /\ DisabledOnlyByStore

AInv == AtifTypeOK /\ Safe

-----------------------------------------------------------------------------
(* The records of requests *)

LEMMA SlotIsFree == ASSUME NEW a \in Slot PROVE a \in Slots /\ put[a] = Free
<1> DEFINE free == {b \in Slots : put[b] = Free}
<1>1. free # {}
  BY DEF Slot
<1>2. a = CHOOSE b \in free : TRUE
  BY <1>1, Zenon DEF Slot
<1>3. a \in free
  BY <1>1, <1>2, Zenon
<1> QED
  BY <1>3

\* A request is not an empty slot.
LEMMA RequestIsNotFree == ASSUME NEW r \in Requests PROVE r # Free
<1>1. r.at # "free"
  BY DEF Requests
<1> QED
  BY <1>1 DEF Free

\* A slot that is anywhere but free holds a request.
LEMMA AtIsNotFree == ASSUME NEW a, put[a].at # "free" PROVE put[a] # Free
BY DEF Free

\* The sets that the types are built of depend on the configuration alone.
LEMMA SetsStand == config' = config => Requests' = Requests /\ EKeys' = EKeys /\ Scopes' = Scopes
BY DEF Requests, EKeys, Scopes

\* Changing one request keeps the type of put.
LEMMA PutTyped ==
  ASSUME put \in [Slots -> {Free} \cup Requests], config' = config, NEW a \in Slots,
         NEW r \in {Free} \cup Requests, put' = [put EXCEPT ![a] = r]
  PROVE  put' \in [Slots -> {Free} \cup Requests']
BY SetsStand

\* What Request makes is a request.
LEMMA NewRequest ==
  ASSUME AtifTypeOK, NEW s \in Sessions \cup {NoKey, CHOOSE s \in Sessions : TRUE}, NEW v \in Nat,
         NEW method \in {"PUT", "GET"}, NEW size \in {"fits", "huge"}
  PROVE  Request(s, v, method, size) \in Requests
BY DEF Request, Requests, Statuses

\* An answer keeps the type of put.
LEMMA AnswerTyped ==
  ASSUME AtifTypeOK, config' = config, NEW a \in Slots, put[a] # Free,
         NEW status \in Statuses, NEW etag \in BOOLEAN, Answer(a, status, etag)
  PROVE  put' \in [Slots -> {Free} \cup Requests']
<1>1. put[a] \in Requests
  BY DEF AtifTypeOK
<1>2. [put[a] EXCEPT !.at = "answered", !.status = status, !.etag = etag] \in Requests
  BY <1>1 DEF Requests
<1> QED
  BY <1>2, PutTyped DEF AtifTypeOK, Answer

\* Handing an answer back to its client keeps the types of put and of export.
LEMMA ReturnTyped ==
  ASSUME AtifTypeOK, config' = config, NEW a \in Slots, put[a] # Free, NEW next, NEW status, NEW headers,
         Return(a, next, status, headers),
         put[a].client => put[a].key \in Sessions
  PROVE  /\ put' \in [Slots -> {Free} \cup Requests']
         /\ export' \in [Sessions -> [version : Nat, state : {"idle", "waits", "failed"}]]
         /\ acked' \in [Sessions -> Nat]
         /\ disabled' \in BOOLEAN
<1>1. put[a] \in Requests
  BY DEF AtifTypeOK
<1>2. [put[a] EXCEPT !.bridge = FALSE, !.client = FALSE] \in Requests
  BY <1>1 DEF Requests
<1>3. put' \in [Slots -> {Free} \cup Requests']
  BY <1>2, PutTyped DEF AtifTypeOK, Return
<1>4. CASE put[a].client
  <2>1. put[a].key \in Sessions /\ Receives(put[a].key, status, "etag" \in headers)
    BY <1>4 DEF Return
  <2>2. PICK s \in Sessions : s = put[a].key
    BY <2>1
  <2>3. export' \in [Sessions -> [version : Nat, state : {"idle", "waits", "failed"}]]
    BY <2>1, <2>2 DEF Receives, AtifTypeOK
  <2>4. acked' \in [Sessions -> Nat]
    BY <2>1, <2>2 DEF Receives, AtifTypeOK
  <2>5. disabled' \in BOOLEAN
    BY <2>1 DEF Receives, AtifTypeOK
  <2> QED
    BY <1>3, <2>3, <2>4, <2>5
<1>5. CASE ~put[a].client
  BY <1>3, <1>5 DEF Return, AtifTypeOK
<1> QED
  BY <1>4, <1>5

\* A store that takes a snapshot keeps the types of object and of written.
LEMMA StoresTyped ==
  ASSUME AtifTypeOK, config' = config, NEW a \in Slots, put[a] \in Requests,
         put[a].ekey \in EKeys, put[a].version > 0, Stores(a)
  PROVE  /\ object' \in [DOMAIN object' -> Nat] /\ DOMAIN object' \subseteq EKeys'
         /\ written' \subseteq (DOMAIN object') \X (Nat \ {0})
<1>1. put[a].version \in Nat \ {0}
  BY DEF Requests
<1>2. DOMAIN object' = DOMAIN object \cup {put[a].ekey}
  BY DEF Stores
<1> QED
  BY <1>1, <1>2, SetsStand DEF Stores, AtifTypeOK

\* What the invariant says of a request under way.
LEMMA Known ==
  ASSUME AInv, NEW a \in Slots, put[a] # Free
  PROVE  /\ put[a] \in Requests /\ RequestOK(put[a])
         /\ put[a].client \/ put[a].version > 0 => put[a].key \in Sessions
         /\ put[a].version \in Nat /\ put[a].key = put[a].key
<1>1. put[a] \in Requests /\ RequestOK(put[a])
  BY DEF AInv, Safe, AtifTypeOK, RequestsOK
<1> QED
  BY <1>1 DEF RequestOK, Content, Waiting, Requests

\* A request with a client carries the version its session waits for.
LEMMA ClientWaits ==
  ASSUME AInv, NEW a \in Slots, put[a] # Free, put[a].client
  PROVE  /\ put[a].key \in Sessions /\ put[a].version \in Nat /\ put[a].version > 0
         /\ export[put[a].key].state = "waits"
         /\ export[put[a].key].version = put[a].version
<1>1. RequestOK(put[a]) /\ put[a].key \in Sessions /\ put[a].version \in Nat
  BY Known
<1>2. export[put[a].key] = [version |-> put[a].version, state |-> "waits"] /\ put[a].version > 0
  BY <1>1 DEF RequestOK, Waiting
<1> QED
  BY <1>1, <1>2

\* A request that passes the relay's checks carries a snapshot.
LEMMA CheckedIsPut ==
  ASSUME AInv, NEW a \in Slots, put[a] # Free, Check(put[a]) = 200
  PROVE  put[a].version > 0 /\ put[a].key \in Sessions
<1>1. put[a] \in Requests /\ Content(put[a])
  BY Known DEF RequestOK
<1>2. put[a].method = "PUT" /\ put[a].key # NoKey /\ put[a].size # "huge"
  BY DEF Check
<1>3. put[a].version > 0
  BY <1>1, <1>2 DEF Content, Requests
<1> QED
  BY <1>1, <1>3 DEF Content

-----------------------------------------------------------------------------
(* Types *)

LEMMA AtifInit == Init => AInv
<1> SUFFICES ASSUME Init PROVE AInv
  OBVIOUS
<1> USE DEF Init
<1>1. AtifTypeOK
  BY DEF AtifTypeOK
<1>2. RelayOK
  BY DEF RelayOK
<1>3. RequestsOK
  BY DEF RequestsOK
<1>4. OneClient
  BY DEF OneClient
<1>5. StoreOK
  BY DEF StoreOK, NewestUnlessLate
<1>6. AckedIsStored /\ DisabledOnlyByStore
  BY DEF AckedIsStored, DisabledOnlyByStore
<1>7. Started
  BY DEF Started
<1> QED
  BY <1>1, <1>2, <1>3, <1>4, <1>5, <1>6, <1>7 DEF AInv, Safe

\* The prefix of a backend that was built is one of the scopes.
LEMMA PrefixInScope == AtifTypeOK /\ build_backend(config) => Prefix(config) \in Scopes
<1> SUFFICES ASSUME AtifTypeOK, build_backend(config) PROVE Prefix(config) \in Scopes
  OBVIOUS
<1>1. config.prefixer \in {"none", "ec2-instance-id"}
  BY DEF build_backend, S3FromEnv, MinioFromEnv, EndpointFromEnv, build_prefixer
<1> QED
  BY <1>1 DEF Prefix, Compute, Scopes, AtifTypeOK

\* The relay's own steps keep the types.
LEMMA RelayTypes ==
  AInv /\ (RelayStarts \/ ProbeFails \/ RelayStops \/ RotateToken \/ ReplaceInstance \/ UNCHANGED vars)
    => AtifTypeOK'
<1> SUFFICES ASSUME AInv PROVE
      RelayStarts \/ ProbeFails \/ RelayStops \/ RotateToken \/ ReplaceInstance \/ UNCHANGED vars
        => AtifTypeOK'
  OBVIOUS
<1>1. CASE RelayStarts
  <2>1. Prefix(config) \in Scopes
    BY <1>1, PrefixInScope DEF RelayStarts, AInv, Safe
  <2>2. relay' \in [up : BOOLEAN, token : Nat, prefix : {<<>>} \cup Scopes]
    BY <1>1, <2>1 DEF RelayStarts, AInv, Safe, AtifTypeOK
  <2> QED
    BY <1>1, <2>2, SetsStand DEF RelayStarts, AInv, Safe, AtifTypeOK
<1>2. CASE ProbeFails
  BY <1>2, SetsStand DEF ProbeFails, AInv, Safe, AtifTypeOK
<1>3. CASE RelayStops
  <2>1. ASSUME NEW a \in Slots PROVE Broken(put[a]) \in {Free} \cup Requests
    <3>1. put[a] \in {Free} \cup Requests
      BY DEF AInv, Safe, AtifTypeOK
    <3>2. put[a] \in Requests => [put[a] EXCEPT !.at = "answered"] \in Requests
      BY DEF Requests
    <3> QED
      BY <3>1, <3>2 DEF Broken, Free
  <2>2. put' \in [Slots -> {Free} \cup Requests]
    BY <1>3, <2>1 DEF RelayStops
  <2>3. relay' \in [up : BOOLEAN, token : Nat, prefix : {<<>>} \cup Scopes]
    BY <1>3 DEF RelayStops, AInv, Safe, AtifTypeOK
  <2> QED
    BY <1>3, <2>2, <2>3, SetsStand DEF RelayStops, AInv, Safe, AtifTypeOK
<1>4. CASE RotateToken
  BY <1>4, SetsStand DEF RotateToken, AInv, Safe, AtifTypeOK
<1>5. CASE ReplaceInstance
  BY <1>5, SetsStand DEF ReplaceInstance, AInv, Safe, AtifTypeOK
<1>6. CASE UNCHANGED vars
  BY <1>6, SetsStand DEF vars, AInv, Safe, AtifTypeOK
<1> QED
  BY <1>1, <1>2, <1>3, <1>4, <1>5, <1>6

\* The steps of the exporting sink keep the types.
LEMMA SinkTypes ==
  ASSUME AInv,
         \/ Stray
         \/ \E s \in Sessions : Export(s) \/ Retry(s)
         \/ \E a \in Slots : StopsWaiting(a)
  PROVE  AtifTypeOK'
<1>1. CASE Stray
  <2>1. PICK a \in Slot, r \in {Request(CHOOSE s \in Sessions : TRUE, 0, "GET", "fits"),
                                Request(NoKey, 0, "PUT", "fits"),
                                Request(CHOOSE s \in Sessions : TRUE, 0, "PUT", "huge")} :
          put' = [put EXCEPT ![a] = [r EXCEPT !.client = FALSE]]
    BY <1>1 DEF Stray
  <2>2. r \in Requests
    BY NewRequest DEF AInv, Safe
  <2>3. [r EXCEPT !.client = FALSE] \in Requests
    BY <2>2 DEF Requests
  <2>4. put' \in [Slots -> {Free} \cup Requests']
    BY <1>1, <2>1, <2>3, SlotIsFree, PutTyped DEF AInv, Safe, AtifTypeOK, Stray
  <2> QED
    BY <1>1, <2>4, SetsStand DEF Stray, AInv, Safe, AtifTypeOK
<1>2. ASSUME NEW s \in Sessions, Export(s) \/ Retry(s) PROVE AtifTypeOK'
  <2>0. export[s].version \in Nat /\ export[s].version + 1 \in Nat
    BY DEF AInv, Safe, AtifTypeOK
  <2>1. PICK v \in Nat : Sends(s, v)
    BY <1>2, <2>0, Zenon DEF Export, Retry
  <2>2. PICK a \in Slot : put' = [put EXCEPT ![a] = Request(s, v, "PUT", "fits")]
    BY <2>1 DEF Sends
  <2>3. put' \in [Slots -> {Free} \cup Requests']
    BY <2>1, <2>2, NewRequest, SlotIsFree, PutTyped DEF AInv, Safe, AtifTypeOK, Sends
  <2>4. export' \in [Sessions -> [version : Nat, state : {"idle", "waits", "failed"}]]
    BY <2>1 DEF AInv, Safe, AtifTypeOK, Sends
  <2> QED
    BY <2>1, <2>3, <2>4, SetsStand DEF Sends, AInv, Safe, AtifTypeOK
<1>3. ASSUME NEW a \in Slots, StopsWaiting(a) PROVE AtifTypeOK'
  <2>1. put[a] # Free /\ put[a].client
    BY <1>3 DEF StopsWaiting, Free
  <2>2. put[a] \in Requests /\ put[a].key \in Sessions
    BY <2>1, Known
  <2>3. [put[a] EXCEPT !.client = FALSE] \in Requests
    BY <2>2 DEF Requests
  <2>4. put' \in [Slots -> {Free} \cup Requests']
    BY <1>3, <2>3, PutTyped DEF AInv, Safe, AtifTypeOK, StopsWaiting
  <2>5. export' \in [Sessions -> [version : Nat, state : {"idle", "waits", "failed"}]]
    <3>1. PICK s \in Sessions : s = put[a].key
      BY <2>2
    <3>2. export' = [export EXCEPT ![s].state = "failed"]
      BY <1>3, <3>1 DEF StopsWaiting
    <3> QED
      BY <3>2 DEF AInv, Safe, AtifTypeOK
  <2> QED
    BY <1>3, <2>4, <2>5, SetsStand DEF StopsWaiting, AInv, Safe, AtifTypeOK
<1> QED
  BY <1>1, <1>2, <1>3

\* The steps of the bridge keep the types.
LEMMA BridgeTypes ==
  ASSUME AInv, NEW a \in Slots, Bridge(a)
  PROVE  AtifTypeOK'
<1>1. put[a] # Free
  BY DEF Bridge, Forward, UpstreamError, UpstreamTimeout, UpstreamAnswers, Free
<1>2. /\ put[a] \in Requests
      /\ put[a].client => put[a].key \in Sessions
  BY <1>1, Known
<1>3. CASE Forward(a)
  <2>1. [put[a] EXCEPT !.at = "relay", !.token = issued] \in Requests
    BY <1>2 DEF AInv, Safe, AtifTypeOK, Requests
  <2>2. put' = [put EXCEPT ![a] = [put[a] EXCEPT !.at = "relay", !.token = issued]]
    BY <1>3 DEF AInv, Safe, AtifTypeOK, Forward
  <2>3. put' \in [Slots -> {Free} \cup Requests']
    BY <1>3, <2>1, <2>2, PutTyped DEF AInv, Safe, AtifTypeOK, Forward
  <2> QED
    BY <1>3, <2>3, SetsStand DEF Forward, AInv, Safe, AtifTypeOK
<1>4. ASSUME NEW next, NEW status, NEW headers, Return(a, next, status, headers),
             UNCHANGED <<config, instance, issued, relay, object, written, noETag>>
      PROVE  AtifTypeOK'
  <2>1. AtifTypeOK
    BY DEF AInv, Safe
  <2>2. /\ put' \in [Slots -> {Free} \cup Requests']
        /\ export' \in [Sessions -> [version : Nat, state : {"idle", "waits", "failed"}]]
        /\ acked' \in [Sessions -> Nat]
        /\ disabled' \in BOOLEAN
    BY <1>1, <1>2, <1>4, <2>1, ReturnTyped
  <2> QED
    BY <1>4, <2>1, <2>2, SetsStand DEF AtifTypeOK
<1>5. CASE UpstreamError(a)
  BY <1>4, <1>5 DEF UpstreamError
<1>6. CASE UpstreamTimeout(a)
  BY <1>4, <1>6 DEF UpstreamTimeout
<1>7. CASE UpstreamAnswers(a)
  BY <1>4, <1>7 DEF UpstreamAnswers
<1> QED
  BY <1>3, <1>5, <1>6, <1>7 DEF Bridge

\* The steps of the relay's handler and of its backend keep the types.
LEMMA StoreTypes ==
  ASSUME AInv, NEW a \in Slots, Reject(a) \/ Accept(a) \/ Backend(a)
  PROVE  AtifTypeOK'
<1> AtifTypeOK
  BY DEF AInv, Safe
<1>1. put[a] # Free
  <2>1. put[a].at \in {"relay", "backend"}
    BY DEF Reject, Accept, Backend, StorePuts, StoreRefuses, StoreFails
  <2> QED
    BY <2>1, AtIsNotFree
<1>2. put[a] \in Requests /\ Hop(put[a])
  BY <1>1, Known DEF RequestOK
<1>3. CASE Reject(a)
  <2>1. put' \in [Slots -> {Free} \cup Requests']
    <3>1. Check(put[a]) \in Statuses
      BY DEF Check, Statuses
    <3>2. Answer(a, Check(put[a]), FALSE) /\ config' = config
      BY <1>3 DEF Reject
    <3> QED
      BY <1>1, <3>1, <3>2, AnswerTyped
  <2> QED
    BY <1>3, <2>1, SetsStand DEF Reject, AtifTypeOK
<1>4. CASE Accept(a)
  <2>1. put[a].key \in Sessions /\ relay.prefix \in Scopes
    BY <1>1, <1>2, <1>4, CheckedIsPut DEF Accept, Hop, AInv, Safe, RelayOK
  <2>2. EffectiveKey(put[a]) \in EKeys
    BY <2>1 DEF EffectiveKey, EKeys
  <2>3. [put[a] EXCEPT !.at = "backend", !.ekey = EffectiveKey(put[a])] \in Requests
    BY <1>2, <2>2 DEF Requests
  <2>4. put' = [put EXCEPT ![a] = [put[a] EXCEPT !.at = "backend", !.ekey = EffectiveKey(put[a])]]
    <3> DEFINE e == EffectiveKey(put[a])
    <3>1. put' = [put EXCEPT ![a].at = "backend", ![a].ekey = e]
      BY <1>4 DEF Accept
    <3>2. put \in [Slots -> {Free} \cup Requests]
      BY DEF AtifTypeOK
    <3> HIDE DEF e
    <3>3. put' = [put EXCEPT ![a] = [put[a] EXCEPT !.at = "backend", !.ekey = e]]
      BY <3>1, <3>2
    <3> QED
      BY <3>3 DEF e
  <2>5. put' \in [Slots -> {Free} \cup Requests']
    BY <1>4, <2>3, <2>4, PutTyped DEF Accept, AtifTypeOK
  <2> QED
    BY <1>4, <2>5, SetsStand DEF Accept, AtifTypeOK
<1>5. put[a].at = "backend" => put[a].ekey \in EKeys /\ put[a].version > 0
  <2> SUFFICES ASSUME put[a].at = "backend" PROVE put[a].ekey \in EKeys /\ put[a].version > 0
    OBVIOUS
  <2>1. /\ put[a].version > 0 /\ relay.up
        /\ put[a].ekey = <<config.bucket, relay.prefix, put[a].key>>
    BY <1>2 DEF Hop
  <2>2. put[a].key \in Sessions /\ relay.prefix \in Scopes
    BY <1>1, <2>1, Known DEF AInv, Safe, RelayOK
  <2> QED
    BY <2>1, <2>2 DEF EKeys
<1>6. CASE StorePuts(a)
  <2>1. put' \in [Slots -> {Free} \cup Requests']
    <3>1. PICK etag \in BOOLEAN : Answer(a, 200, etag)
      BY <1>6, Zenon DEF StorePuts
    <3>2. 200 \in Statuses /\ config' = config
      BY <1>6 DEF StorePuts, Statuses
    <3> QED
      BY <1>1, <3>1, <3>2, AnswerTyped
  <2>2. /\ object' \in [DOMAIN object' -> Nat] /\ DOMAIN object' \subseteq EKeys'
        /\ written' \subseteq (DOMAIN object') \X (Nat \ {0})
    BY <1>2, <1>5, <1>6, StoresTyped DEF StorePuts
  <2> QED
    BY <1>6, <2>1, <2>2, SetsStand DEF StorePuts, AtifTypeOK
<1>7. CASE StoreRefuses(a)
  <2>1. put' \in [Slots -> {Free} \cup Requests']
    <3>1. 403 \in Statuses /\ Answer(a, 403, FALSE) /\ config' = config
      BY <1>7 DEF StoreRefuses, Statuses
    <3> QED
      BY <1>1, <3>1, AnswerTyped
  <2> QED
    BY <1>7, <2>1, SetsStand DEF StoreRefuses, AtifTypeOK
<1>8. CASE StoreFails(a)
  <2>1. put' \in [Slots -> {Free} \cup Requests']
    <3>1. CASE put[a].tries + 1 < MaxAttempts
      <4>1. [put[a] EXCEPT !.tries = @ + 1] \in Requests
        BY <1>2 DEF Requests
      <4>2. put' = [put EXCEPT ![a] = [put[a] EXCEPT !.tries = @ + 1]]
        BY <1>8, <3>1 DEF StoreFails, AtifTypeOK
      <4>3. config' = config /\ put \in [Slots -> {Free} \cup Requests]
        BY <1>8 DEF StoreFails, AtifTypeOK
      <4> QED
        BY <4>1, <4>2, <4>3, PutTyped
    <3>2. CASE ~(put[a].tries + 1 < MaxAttempts)
      <4>1. {502, 503} \subseteq Statuses
        BY DEF Statuses
      <4>2. PICK status \in Statuses : Answer(a, status, FALSE)
        BY <1>8, <3>2, <4>1, Zenon DEF StoreFails
      <4>3. config' = config
        BY <1>8 DEF StoreFails
      <4> QED
        BY <1>1, <4>2, <4>3, AnswerTyped
    <3> QED
      BY <3>1, <3>2
  <2>2. /\ object' \in [DOMAIN object' -> Nat] /\ DOMAIN object' \subseteq EKeys'
        /\ written' \subseteq (DOMAIN object') \X (Nat \ {0})
    <3>1. CASE Stores(a)
      BY <1>2, <1>5, <1>8, <3>1, StoresTyped DEF StoreFails
    <3>2. CASE UNCHANGED <<object, written>>
      BY <1>8, <3>2, SetsStand DEF StoreFails, AtifTypeOK
    <3> QED
      BY <1>8, <3>1, <3>2 DEF StoreFails
  <2> QED
    BY <1>8, <2>1, <2>2, SetsStand DEF StoreFails, AtifTypeOK
<1> QED
  BY <1>3, <1>4, <1>6, <1>7, <1>8 DEF Backend

\* A try that the store goes on with is one more request.
LEMMA StallTypes ==
  ASSUME AInv, NEW a \in Slots, StoreStalls(a)
  PROVE  AtifTypeOK'
<1>1. put[a] \in Requests
  BY AtIsNotFree, Known DEF StoreStalls
<1>2. [put[a] EXCEPT !.bridge = FALSE, !.client = FALSE] \in Requests
  BY <1>1 DEF Requests
<1>3. put' \in [Slots -> {Free} \cup Requests']
  BY <1>2, SlotIsFree, PutTyped DEF AInv, Safe, AtifTypeOK, StoreStalls
<1> QED
  BY <1>3, SetsStand DEF StoreStalls, AInv, Safe, AtifTypeOK

-----------------------------------------------------------------------------
(* What the rest of the system does not disturb *)

\* The versions of sessions only grow, and so do the histories.
Grows ==
  /\ config' = config /\ written \subseteq written' /\ late \subseteq late'
  /\ (noETag => noETag')
  /\ \A s \in Sessions : export'[s].version \in Nat /\ export[s].version <= export'[s].version

\* A request stays right while its relay and what its client waits for stay.
LEMMA RequestStands ==
  ASSUME NEW r \in Requests, RequestOK(r), AtifTypeOK, Grows,
         r.at \in {"relay", "backend"} => relay' = relay,
         r.client => export'[r.key] = export[r.key]
  PROVE  RequestOK(r)'
<1>1. Content(r)'
  <2> SUFFICES ASSUME r.version > 0
               PROVE  r.key \in Sessions /\ r.version <= export'[r.key].version
    BY DEF Content, RequestOK
  <2>1. r.key \in Sessions /\ r.version <= export[r.key].version
    BY DEF Content, RequestOK
  <2>2. /\ export[r.key].version \in Nat /\ export'[r.key].version \in Nat /\ r.version \in Nat
        /\ export[r.key].version <= export'[r.key].version
    BY <2>1 DEF Grows, AtifTypeOK, Requests
  <2> QED
    BY <2>1, <2>2
<1>2. Hop(r)'
  BY DEF Hop, RequestOK, Grows
<1>3. Waiting(r)'
  BY DEF Waiting, RequestOK, Grows
<1>4. Reply(r)'
  BY DEF Reply, RequestOK, Grows, WasStored
<1> QED
  BY <1>1, <1>2, <1>3, <1>4 DEF RequestOK

\* A step that changes one slot has only that slot to account for.
LEMMA OneSlot ==
  ASSUME AInv, Grows, relay' = relay, NEW a \in Slots, NEW r,
         put' = [put EXCEPT ![a] = r],
         r # Free => RequestOK(r)',
         \A b \in Slots \ {a} : put[b] # Free /\ put[b].client =>
            /\ export'[put[b].key] = export[put[b].key]
            /\ r # Free /\ r.client => r.key # put[b].key
  PROVE  RequestsOK' /\ OneClient'
<1> put' = [b \in Slots |-> IF b = a THEN r ELSE put[b]]
  BY DEF AInv, Safe, AtifTypeOK
<1>1. ASSUME NEW b \in Slots, NEW q, q = put'[b], q # Free PROVE RequestOK(q)'
  <2>1. CASE b = a
    BY <1>1, <2>1
  <2>2. CASE b # a
    <3>1. q = put[b] /\ q \in Requests /\ RequestOK(q) /\ AtifTypeOK
      BY <1>1, <2>2, Known DEF AInv, Safe
    <3> QED
      BY <1>1, <2>2, <3>1, RequestStands
  <2> QED
    BY <2>1, <2>2
<1>2. RequestsOK'
  BY <1>1 DEF RequestsOK, RequestOK, Content, Hop, Waiting, Reply, WasStored
<1>3. OneClient'
  BY DEF OneClient, AInv, Safe
<1> QED
  BY <1>2, <1>3

\* StoreOK stands while the store is left alone and versions only grow.
LEMMA StoreStands ==
  ASSUME AInv, Grows, object' = object, written' = written
  PROVE  StoreOK'
<1>1. ASSUME NEW w \in written PROVE w[2] <= export'[w[1][3]].version
  <2>1. w[2] \in Nat /\ w[1][3] \in Sessions /\ w[2] <= export[w[1][3]].version
    BY DEF AInv, Safe, StoreOK, AtifTypeOK, EKeys
  <2>2. export[w[1][3]].version \in Nat
    BY <2>1 DEF AInv, Safe, AtifTypeOK
  <2> QED
    BY <2>1, <2>2 DEF Grows
<1>2. NewestUnlessLate'
  BY DEF AInv, Safe, StoreOK, NewestUnlessLate, Grows
<1> QED
  BY <1>1, <1>2 DEF StoreOK, Grows, AInv, Safe

\* RelayOK stands while relay and configuration are left alone.
LEMMA RelayStands ==
  AInv /\ relay' = relay /\ config' = config => RelayOK'
BY SetsStand DEF AInv, Safe, RelayOK

\* AckedIsStored stands while no acknowledgement is added.
LEMMA AckedStands ==
  AInv /\ Grows /\ acked' = acked => AckedIsStored'
BY DEF AInv, Safe, AckedIsStored, Grows

-----------------------------------------------------------------------------
(* Steps *)

LEMMA RelaySafe ==
  ASSUME AInv,
         RelayStarts \/ ProbeFails \/ RotateToken \/ ReplaceInstance \/ UNCHANGED vars
  PROVE  Safe'
<1>1. /\ UNCHANGED <<config, put, export, acked, disabled, object, written, noETag, late>>
      /\ relay.up => relay' = relay
  BY DEF RelayStarts, ProbeFails, RotateToken, ReplaceInstance, vars
<1>2. Grows
  BY <1>1 DEF Grows, AInv, Safe, AtifTypeOK
<1>3. RelayOK'
  <2>1. CASE relay' = relay
    BY <1>1, <2>1, RelayStands
  <2>2. CASE RelayStarts
    BY <1>1, <2>2, PrefixInScope, SetsStand DEF RelayStarts, RelayOK, AInv, Safe
  <2> QED
    BY <2>1, <2>2 DEF ProbeFails, RotateToken, ReplaceInstance, vars
<1>4. ASSUME NEW a \in Slots, NEW r, r = put[a], r # Free PROVE RequestOK(r)'
  <2>1. r \in Requests /\ RequestOK(r) /\ AtifTypeOK
    BY <1>4, Known DEF AInv, Safe
  <2>2. r.at \in {"relay", "backend"} => relay' = relay
    BY <1>1, <2>1 DEF RequestOK, Hop
  <2>3. r.client => export'[r.key] = export[r.key]
    BY <1>1
  <2> QED
    BY <1>2, <2>1, <2>2, <2>3, RequestStands
<1>5. RequestsOK'
  BY <1>1, <1>4 DEF RequestsOK, RequestOK, Content, Hop, Waiting, Reply, WasStored
<1>6. OneClient'
  BY <1>1 DEF OneClient, AInv, Safe
<1>7. Started' /\ StoreOK' /\ AckedIsStored' /\ DisabledOnlyByStore'
  BY <1>1, <1>2, StoreStands, AckedStands DEF AInv, Safe, Started, DisabledOnlyByStore
<1> QED
  BY <1>3, <1>5, <1>6, <1>7 DEF Safe

\* A stop answers nothing and keeps who waits.
LEMMA StopSafe == ASSUME AInv, RelayStops PROVE Safe'
<1>1. /\ UNCHANGED <<config, export, acked, disabled, object, written, noETag, late>>
      /\ relay'.up = FALSE
      /\ put' = [a \in Slots |-> Broken(put[a])]
  BY DEF RelayStops, AInv, Safe, AtifTypeOK
<1>2. Grows
  BY <1>1 DEF Grows, AInv, Safe, AtifTypeOK
<1>3. RelayOK'
  BY <1>1 DEF RelayOK
<1>4. ASSUME NEW a \in Slots, Broken(put[a]) # Free
      PROVE  /\ put[a] # Free
             /\ Broken(put[a]).client = put[a].client /\ Broken(put[a]).key = put[a].key
  BY <1>4 DEF Broken, AInv, Safe, AtifTypeOK, Requests, Free
<1>5. ASSUME NEW a \in Slots, NEW r, r = Broken(put[a]), r # Free PROVE RequestOK(r)'
  <2> PICK q \in Requests : q = put[a] /\ RequestOK(q)
    BY <1>4, <1>5, Known
  <2>1. CASE q.at \notin {"relay", "backend"}
    <3>1. r = q /\ AtifTypeOK
      BY <1>5, <2>1 DEF Broken, AInv, Safe
    <3> QED
      BY <1>1, <1>2, <2>1, <3>1, RequestStands
  <2>2. CASE q.at \in {"relay", "backend"}
    <3>1. r = [q EXCEPT !.at = "answered"]
      BY <1>5, <2>2 DEF Broken
    <3>2. /\ r.at = "answered" /\ r.status = 0 /\ r.version = q.version /\ r.key = q.key
          /\ r.method = q.method /\ r.size = q.size /\ r.client = q.client
      BY <2>2, <3>1 DEF Requests, RequestOK, Hop
    <3>3. Content(r)' /\ Hop(r)' /\ Waiting(r)' /\ Reply(r)'
      BY <1>1, <3>2 DEF RequestOK, Content, Hop, Waiting, Reply
    <3> QED
      BY <3>3 DEF RequestOK
  <2> QED
    BY <2>1, <2>2
<1>6. RequestsOK'
  BY <1>1, <1>5 DEF RequestsOK, RequestOK, Content, Hop, Waiting, Reply, WasStored
<1>7. OneClient'
  BY <1>1, <1>4 DEF OneClient, AInv, Safe
<1>8. Started' /\ StoreOK' /\ AckedIsStored' /\ DisabledOnlyByStore'
  BY <1>1, <1>2, StoreStands, AckedStands DEF AInv, Safe, Started, DisabledOnlyByStore
<1> QED
  BY <1>3, <1>6, <1>7, <1>8 DEF Safe

\* A stray request harms nothing.
LEMMA StraySafe == ASSUME AInv, Stray PROVE Safe'
<1>1. UNCHANGED <<config, relay, export, acked, disabled, object, written, noETag, late>>
  BY DEF Stray
<1>2. Grows
  BY <1>1 DEF Grows, AInv, Safe, AtifTypeOK
<1>3. PICK a \in Slot, r \in {Request(CHOOSE s \in Sessions : TRUE, 0, "GET", "fits"),
                              Request(NoKey, 0, "PUT", "fits"),
                              Request(CHOOSE s \in Sessions : TRUE, 0, "PUT", "huge")} :
        put' = [put EXCEPT ![a] = [r EXCEPT !.client = FALSE]]
  BY DEF Stray
<1>4. PICK q : q = [r EXCEPT !.client = FALSE]
  OBVIOUS
<1>5. /\ q.at = "bridge" /\ q.version = 0 /\ ~q.client /\ q.status = 0
      /\ q.method = "GET" \/ q.size = "huge" \/ q.key = NoKey
  BY <1>4 DEF Request
<1>6. RequestOK(q)'
  BY <1>5 DEF RequestOK, Content, Hop, Waiting, Reply
<1>7. RequestsOK' /\ OneClient'
  BY <1>1, <1>2, <1>3, <1>4, <1>5, <1>6, SlotIsFree, OneSlot
<1>8. RelayOK' /\ Started' /\ StoreOK' /\ AckedIsStored' /\ DisabledOnlyByStore'
  BY <1>1, <1>2, RelayStands, StoreStands, AckedStands DEF AInv, Safe, Started, DisabledOnlyByStore
<1> QED
  BY <1>7, <1>8 DEF Safe

\* Nobody waits for a try that boto3 has given up, and its session is late.
LEMMA StallSafe == ASSUME AInv, NEW a \in Slots, StoreStalls(a) PROVE Safe'
<1>1. /\ UNCHANGED <<config, relay, export, acked, disabled, object, written, noETag>>
      /\ late' = late \cup {put[a].key}
  BY DEF StoreStalls
<1>2. Grows
  BY <1>1 DEF Grows, AInv, Safe, AtifTypeOK
<1>3. put[a] \in Requests /\ RequestOK(put[a])
  BY AtIsNotFree, Known DEF StoreStalls
<1>4. PICK q : q = [put[a] EXCEPT !.bridge = FALSE, !.client = FALSE]
  OBVIOUS
<1>5. PICK b \in Slot : put' = [put EXCEPT ![b] = q]
  BY <1>4 DEF StoreStalls
<1>6. /\ q.at = put[a].at /\ q.version = put[a].version /\ q.key = put[a].key /\ ~q.client
      /\ q.status = put[a].status /\ q.ekey = put[a].ekey /\ q.method = put[a].method
      /\ q.size = put[a].size /\ q.etag = put[a].etag /\ q.at = "backend"
  BY <1>3, <1>4 DEF Requests, StoreStalls
<1>7. RequestOK(q)'
  BY <1>1, <1>3, <1>6 DEF RequestOK, Content, Hop, Waiting, Reply
<1>8. RequestsOK' /\ OneClient'
  BY <1>1, <1>2, <1>5, <1>6, <1>7, SlotIsFree, OneSlot
<1>9. RelayOK' /\ Started' /\ StoreOK' /\ AckedIsStored' /\ DisabledOnlyByStore'
  BY <1>1, <1>2, RelayStands, StoreStands, AckedStands DEF AInv, Safe, Started, DisabledOnlyByStore
<1> QED
  BY <1>8, <1>9 DEF Safe

\* The sink sends nothing more of a session while it waits.
LEMMA SendSafe ==
  ASSUME AInv, NEW s \in Sessions, Export(s) \/ Retry(s) PROVE Safe'
<1>1. export[s].version \in Nat /\ export[s].state \in {"idle", "waits", "failed"}
  BY DEF AInv, AtifTypeOK
<1>2. export[s].state # "waits"
  BY DEF Export, Retry
<1>3. PICK v \in Nat : v > 0 /\ export[s].version <= v /\ Sends(s, v)
  <2>1. CASE Export(s)
    <3>1. export[s].version + 1 \in Nat /\ export[s].version + 1 > 0
            /\ export[s].version <= export[s].version + 1
      BY <1>1
    <3> QED
      BY <2>1, <3>1, Zenon DEF Export
  <2>2. CASE Retry(s)
    <3>1. export[s].version > 0 /\ export[s].version <= export[s].version
      BY <1>1, <2>2 DEF Retry, AInv, Safe, Started
    <3> QED
      BY <1>1, <2>2, <3>1, Zenon DEF Retry
  <2> QED
    BY <2>1, <2>2
<1>4. /\ UNCHANGED <<config, relay, acked, disabled, object, written, noETag, late>>
      /\ export' = [export EXCEPT ![s] = [version |-> v, state |-> "waits"]]
  BY <1>3 DEF Sends
<1>5. Grows
  BY <1>1, <1>3, <1>4 DEF Grows, AInv, AtifTypeOK
<1>6. PICK a \in Slot : put' = [put EXCEPT ![a] = Request(s, v, "PUT", "fits")]
  BY <1>3 DEF Sends
<1>7. PICK q : q = Request(s, v, "PUT", "fits")
  OBVIOUS
<1>8. q.at = "bridge" /\ q.version = v /\ q.key = s /\ q.client /\ q.status = 0
  BY <1>7 DEF Request
<1>9. export'[s] = [version |-> v, state |-> "waits"]
  BY <1>4 DEF AInv, AtifTypeOK
<1>10. RequestOK(q)'
  BY <1>3, <1>8, <1>9 DEF RequestOK, Content, Hop, Waiting, Reply
<1>11. ASSUME NEW b \in Slots, put[b] # Free, put[b].client
       PROVE  q.key # put[b].key /\ export'[put[b].key] = export[put[b].key]
  <2>1. put[b].key # s /\ put[b].key \in Sessions
    BY <1>2, <1>11, ClientWaits
  <2> QED
    BY <1>4, <1>8, <2>1 DEF AInv, AtifTypeOK
<1>12. RequestsOK' /\ OneClient'
  <2>1. a \in Slots /\ put' = [put EXCEPT ![a] = q] /\ relay' = relay
    BY <1>4, <1>6, <1>7, SlotIsFree
  <2>2. /\ q # Free => RequestOK(q)'
        /\ \A b \in Slots \ {a} : put[b] # Free /\ put[b].client =>
             /\ export'[put[b].key] = export[put[b].key]
             /\ q # Free /\ q.client => q.key # put[b].key
    BY <1>10, <1>11
  <2> HIDE <1>10
  <2> QED
    BY <1>5, <2>1, <2>2, OneSlot
<1>13. Started'
  BY <1>3, <1>4 DEF Started, AInv, Safe, AtifTypeOK
<1>14. RelayOK' /\ StoreOK' /\ AckedIsStored' /\ DisabledOnlyByStore'
  BY <1>4, <1>5, RelayStands, StoreStands, AckedStands DEF AInv, Safe, DisabledOnlyByStore
<1> QED
  BY <1>12, <1>13, <1>14 DEF Safe

\* What happens to the answered or abandoned request of slot a: the session s
\* whose client it was does not wait any more.
LEMMA ReleaseSafe ==
  ASSUME AInv, Grows, NEW a \in Slots, put[a] # Free, NEW r, put' = [put EXCEPT ![a] = r],
         r # Free => RequestOK(r)' /\ ~r.client,
         UNCHANGED <<relay, object, written, noETag>>,
         \A s \in Sessions : s # put[a].key \/ ~put[a].client => export'[s] = export[s],
         \A s \in Sessions : export'[s].version = export[s].version,
         AckedIsStored', DisabledOnlyByStore'
  PROVE  Safe'
<1>1. ASSUME NEW b \in Slots \ {a}, put[b] # Free, put[b].client
      PROVE  export'[put[b].key] = export[put[b].key]
  <2>1. put[b].key \in Sessions /\ put[a].key = put[a].key
    BY <1>1, Known
  <2>2. put[a].client => put[a].key # put[b].key
    BY <1>1 DEF AInv, Safe, OneClient
  <2> QED
    BY <2>1, <2>2
<1>2. RequestsOK' /\ OneClient'
  BY <1>1, OneSlot
<1>3. Started'
  <2> SUFFICES ASSUME NEW s \in Sessions, export'[s].state # "idle" PROVE export'[s].version > 0
    BY DEF Started
  <2>1. CASE export'[s] = export[s]
    BY <2>1 DEF AInv, Safe, Started
  <2>2. CASE export'[s] # export[s]
    <3>1. s = put[a].key /\ put[a].client
      BY <2>2
    <3>2. export[s].state = "waits"
      BY <3>1, ClientWaits
    <3> QED
      BY <3>2 DEF AInv, Safe, Started
  <2> QED
    BY <2>1, <2>2
<1>4. RelayOK' /\ StoreOK'
  BY RelayStands, StoreStands DEF Grows
<1> QED
  BY <1>2, <1>3, <1>4 DEF Safe

\* A client that gives up leaves its request behind and keeps the invariant.
LEMMA StopsWaitingSafe == ASSUME AInv, NEW a \in Slots, StopsWaiting(a) PROVE Safe'
<1>1. put[a].at # "free" /\ put[a].client
  BY DEF StopsWaiting
<1>2. put[a] # Free
  BY <1>1, AtIsNotFree
<1>3. /\ put[a] \in Requests /\ RequestOK(put[a]) /\ put[a].key \in Sessions
      /\ export[put[a].key].state = "waits"
  BY <1>1, <1>2, Known, ClientWaits
<1>4. PICK r : r = [put[a] EXCEPT !.client = FALSE]
  OBVIOUS
<1>5. PICK s \in Sessions : s = put[a].key
  BY <1>3
<1>6. /\ UNCHANGED <<config, relay, acked, disabled, object, written, noETag>>
      /\ export' = [export EXCEPT ![s].state = "failed"]
      /\ late \subseteq late'
      /\ put[a].at # "answered" => s \in late'
  BY <1>1, <1>5 DEF StopsWaiting, Live
<1>7. put' = [put EXCEPT ![a] = r]
  BY <1>4 DEF StopsWaiting, AInv, AtifTypeOK
<1>8. /\ \A t \in Sessions : t # s => export'[t] = export[t]
      /\ \A t \in Sessions : export'[t].version = export[t].version
      /\ \A t \in Sessions : export[t].version \in Nat
  BY <1>6 DEF AInv, AtifTypeOK
<1>9. Grows
  BY <1>6, <1>8 DEF Grows
<1>10. /\ ~r.client /\ r.key = s /\ r.at = put[a].at /\ r.version = put[a].version
       /\ r.status = put[a].status /\ r.etag = put[a].etag /\ r.method = put[a].method
       /\ r.size = put[a].size /\ r.ekey = put[a].ekey
  BY <1>3, <1>4, <1>5 DEF Requests
<1>11. RequestOK(r)'
  <2>1. Content(r)'
    BY <1>3, <1>5, <1>8, <1>10 DEF RequestOK, Content
  <2>2. Hop(r)'
    BY <1>3, <1>5, <1>6, <1>10 DEF RequestOK, Hop
  <2>3. Waiting(r)'
    BY <1>6, <1>10 DEF Waiting
  <2>4. Reply(r)'
    BY <1>3, <1>5, <1>6, <1>10 DEF RequestOK, Reply, WasStored
  <2> QED
    BY <2>1, <2>2, <2>3, <2>4 DEF RequestOK
<1>12. AckedIsStored' /\ DisabledOnlyByStore'
  BY <1>6, <1>9, AckedStands DEF AInv, Safe, DisabledOnlyByStore
<1>13. /\ r # Free => RequestOK(r)' /\ ~r.client
       /\ \A t \in Sessions : t # put[a].key \/ ~put[a].client => export'[t] = export[t]
       /\ UNCHANGED <<relay, object, written, noETag>>
  BY <1>1, <1>5, <1>6, <1>8, <1>10, <1>11
<1> QED
  BY <1>2, <1>7, <1>8, <1>9, <1>12, <1>13, ReleaseSafe

\* The end of forward: an answer of 200 acknowledges what was stored.
LEMMA ReturnSafe ==
  ASSUME AInv, NEW a \in Slots, put[a] # Free, NEW next, NEW status, NEW headers,
         Return(a, next, status, headers),
         UNCHANGED <<config, relay, object, written, noETag>>, late \subseteq late',
         next # "answered" => /\ put[a].at \in {"relay", "backend"}
                              /\ put[a].key \in late',
         status = 200 => IF "etag" \in headers THEN WasStored(put[a].key, put[a].version)
                                                ELSE noETag
  PROVE  Safe'
<1>1. put[a] \in Requests /\ RequestOK(put[a]) /\ AtifTypeOK
  BY Known DEF AInv
<1>2. PICK r : r = IF next = "answered" THEN Free
                   ELSE [put[a] EXCEPT !.bridge = FALSE, !.client = FALSE]
  OBVIOUS
<1>3. put' = [put EXCEPT ![a] = r]
  BY <1>1, <1>2 DEF Return, AtifTypeOK
<1>4. /\ \A s \in Sessions : s # put[a].key \/ ~put[a].client =>
           export'[s] = export[s] /\ acked'[s] = acked[s]
      /\ \A s \in Sessions : export'[s].version = export[s].version
      /\ \A s \in Sessions : export[s].version \in Nat
  <2>1. CASE put[a].client
    <3>1. PICK s \in Sessions : s = put[a].key
      BY <2>1, ClientWaits
    <3>2. /\ export' = [export EXCEPT ![s].state = IF status = 200 THEN "idle" ELSE "failed"]
          /\ acked' = [acked EXCEPT ![s] =
                         IF status = 200 /\ "etag" \in headers THEN export[s].version ELSE @]
      BY <2>1, <3>1 DEF Return, Receives
    <3> QED
      BY <1>1, <2>1, <3>1, <3>2 DEF AtifTypeOK
  <2>2. CASE ~put[a].client
    BY <1>1, <2>2 DEF Return, AtifTypeOK
  <2> QED
    BY <2>1, <2>2
<1>5. Grows
  BY <1>4 DEF Grows
<1>6. r # Free => RequestOK(r)' /\ ~r.client
  <2> SUFFICES ASSUME next # "answered" PROVE RequestOK(r)' /\ ~r.client
    BY <1>2
  <2>1. /\ ~r.client /\ r.key = put[a].key /\ r.at = put[a].at /\ r.version = put[a].version
        /\ r.status = put[a].status /\ r.etag = put[a].etag /\ r.method = put[a].method
        /\ r.size = put[a].size /\ r.ekey = put[a].ekey
    BY <1>1, <1>2 DEF Requests
  <2>2. Content(r)'
    BY <1>1, <1>4, <2>1 DEF RequestOK, Content
  <2>3. Hop(r)' /\ Waiting(r)'
    BY <1>1, <2>1 DEF RequestOK, Hop, Waiting
  <2>4. Reply(r)'
    BY <1>1, <2>1 DEF RequestOK, Reply, WasStored
  <2> QED
    BY <2>1, <2>2, <2>3, <2>4 DEF RequestOK
<1>7. AckedIsStored'
  <2>1. CASE put[a].client /\ status = 200 /\ "etag" \in headers
    <3>1. PICK s \in Sessions : s = put[a].key /\ export[s].version = put[a].version
      BY <2>1, ClientWaits
    <3>2. acked' = [acked EXCEPT ![s] = export[s].version]
      BY <2>1, <3>1 DEF Return, Receives
    <3>3. WasStored(s, acked'[s])
      BY <1>1, <2>1, <3>1, <3>2 DEF AtifTypeOK
    <3> QED
      BY <1>4, <3>1, <3>3 DEF AckedIsStored, WasStored, AInv, Safe
  <2>2. CASE ~(put[a].client /\ status = 200 /\ "etag" \in headers)
    <3>1. acked' = acked
      <4>1. CASE ~put[a].client
        BY <4>1 DEF Return
      <4>2. CASE put[a].client
        <5>1. PICK s \in Sessions : s = put[a].key
          BY <4>2, ClientWaits
        <5>2. acked' = [acked EXCEPT ![s] = @]
          BY <2>2, <4>2, <5>1 DEF Return, Receives
        <5> QED
          BY <1>1, <5>2 DEF AtifTypeOK
      <4> QED
        BY <4>1, <4>2
    <3> QED
      BY <1>5, <3>1, AckedStands
  <2> QED
    BY <2>1, <2>2
<1>8. DisabledOnlyByStore'
  BY DEF DisabledOnlyByStore, AInv, Safe, Return, Receives
<1> QED
  BY <1>3, <1>4, <1>5, <1>6, <1>7, <1>8, ReleaseSafe

\* The bridge forwards, fails or answers, and keeps the invariant.
LEMMA BridgeSafe == ASSUME AInv, NEW a \in Slots, Bridge(a) PROVE Safe'
<1>1. put[a] # Free
  <2>1. put[a].at \in {"bridge", "relay", "backend", "answered"}
    BY DEF Bridge, Forward, UpstreamError, UpstreamTimeout, UpstreamAnswers
  <2> QED
    BY <2>1, AtIsNotFree
<1>2. put[a] \in Requests /\ RequestOK(put[a]) /\ AtifTypeOK
  BY <1>1, Known DEF AInv
<1>3. CASE Forward(a)
  <2>1. PICK r : r = [put[a] EXCEPT !.at = "relay", !.token = issued]
    OBVIOUS
  <2>2. put' = [put EXCEPT ![a] = r]
    BY <1>2, <1>3, <2>1 DEF Forward, AtifTypeOK
  <2>3. UNCHANGED <<config, relay, export, acked, disabled, object, written, noETag, late>>
    BY <1>3 DEF Forward
  <2>4. Grows
    BY <1>2, <2>3 DEF Grows, AtifTypeOK
  <2>5. /\ r.at = "relay" /\ r.key = put[a].key /\ r.version = put[a].version
        /\ r.status = put[a].status /\ r.etag = put[a].etag /\ r.method = put[a].method
        /\ r.size = put[a].size /\ r.client = put[a].client
    BY <1>2, <2>1 DEF Requests
  <2>6. RequestOK(r)'
    <3>1. put[a].at = "bridge" /\ relay.up
      BY <1>3 DEF Forward
    <3>2. Content(r)' /\ Hop(r)'
      BY <1>2, <2>3, <2>5, <3>1 DEF RequestOK, Content, Hop
    <3>3. Waiting(r)' /\ Reply(r)'
      BY <1>2, <2>3, <2>5, <3>1 DEF RequestOK, Hop, Waiting, Reply
    <3> QED
      BY <3>2, <3>3 DEF RequestOK
  <2>7. \A b \in Slots \ {a} : put[b] # Free /\ put[b].client =>
          /\ export'[put[b].key] = export[put[b].key]
          /\ r # Free /\ r.client => r.key # put[b].key
    BY <1>1, <2>3, <2>5 DEF AInv, Safe, OneClient
  <2>8. RequestsOK' /\ OneClient'
    BY <2>2, <2>3, <2>4, <2>6, <2>7, OneSlot
  <2> QED
    BY <2>3, <2>4, <2>8, RelayStands, StoreStands, AckedStands
    DEF AInv, Safe, Started, DisabledOnlyByStore
<1>4. CASE UpstreamError(a)
  BY <1>1, <1>4, ReturnSafe DEF UpstreamError
<1>5. CASE UpstreamTimeout(a)
  <2>1. /\ Return(a, "timeout", 502, {}) /\ late' = late \cup {put[a].key}
        /\ put[a].at \in {"relay", "backend"}
        /\ UNCHANGED <<config, relay, object, written, noETag>>
    BY <1>5 DEF UpstreamTimeout
  <2> QED
    BY <1>1, <2>1, ReturnSafe
<1>6. CASE UpstreamAnswers(a)
  <2>1. PICK headers : headers = forwardable_headers({"content-length"} \cup
                                   IF put[a].etag THEN {"etag"} ELSE {})
    OBVIOUS
  <2>2. put[a].etag \in BOOLEAN
    BY <1>2 DEF Requests
  <2>3. "etag" \in headers <=> put[a].etag
    BY <2>1, <2>2 DEF forwardable_headers, HOP_BY_HOP
  <2>4. Return(a, "answered", put[a].status, headers)
    BY <1>6, <2>1 DEF UpstreamAnswers
  <2>5. put[a].status = 200 => IF "etag" \in headers THEN WasStored(put[a].key, put[a].version)
                                                      ELSE noETag
    BY <1>2, <2>3 DEF RequestOK, Reply
  <2>6. UNCHANGED <<config, relay, object, written, noETag, late>>
    BY <1>6 DEF UpstreamAnswers
  <2> QED
    BY <1>1, <2>4, <2>5, <2>6, ReturnSafe
<1> QED
  BY <1>3, <1>4, <1>5, <1>6 DEF Bridge

\* The relay's answer keeps who waits; one of 200 needs a stored object.
LEMMA AnswerSafe ==
  ASSUME AInv, Grows, NEW a \in Slots, put[a].at \in {"relay", "backend"},
         UNCHANGED <<relay, export>>, NEW status \in Statuses, NEW etag \in BOOLEAN,
         Answer(a, status, etag),
         status = 200 => /\ put[a].version > 0
                         /\ IF etag THEN \E w \in written' : /\ w[1][3] = put[a].key
                                                             /\ w[2] = put[a].version
                                    ELSE noETag'
  PROVE  RequestsOK' /\ OneClient'
<1>1. put[a] # Free
  BY AtIsNotFree
<1>2. put[a] \in Requests /\ RequestOK(put[a]) /\ AtifTypeOK
  BY <1>1, Known DEF AInv
<1>3. PICK p \in Requests : p = put[a]
  BY <1>2
<1>4. PICK r : r = IF p.bridge
                   THEN [p EXCEPT !.at = "answered", !.status = status, !.etag = etag]
                   ELSE Free
  OBVIOUS
<1>5. put' = [put EXCEPT ![a] = r]
  BY <1>2, <1>3, <1>4 DEF Answer, AtifTypeOK
<1>6. r # Free => /\ r.at = "answered" /\ r.key = p.key /\ r.version = p.version
                  /\ r.status = status /\ r.etag = etag /\ r.method = p.method
                  /\ r.size = p.size /\ r.client = p.client
  BY <1>3, <1>4 DEF Requests
<1>7. ASSUME r # Free PROVE RequestOK(r)'
  <2>1. Content(r)' /\ Hop(r)' /\ Waiting(r)'
    BY <1>2, <1>3, <1>6, <1>7 DEF RequestOK, Content, Hop, Waiting
  <2>2. Reply(r)'
    BY <1>2, <1>3, <1>6, <1>7 DEF Reply, WasStored
  <2> QED
    BY <2>1, <2>2 DEF RequestOK
<1>8. \A b \in Slots \ {a} : put[b] # Free /\ put[b].client =>
        /\ export'[put[b].key] = export[put[b].key]
        /\ r # Free /\ r.client => r.key # put[b].key
  BY <1>1, <1>3, <1>6 DEF AInv, Safe, OneClient
<1> QED
  BY <1>5, <1>7, <1>8, OneSlot

Errors == Statuses \ {0, 200}

\* An answer that is an error keeps what is asked of the requests.
LEMMA RefusalSafe ==
  ASSUME AInv, Grows, NEW a \in Slots, put[a].at \in {"relay", "backend"},
         UNCHANGED <<relay, export>>, NEW status \in Errors, Answer(a, status, FALSE)
  PROVE  RequestsOK' /\ OneClient'
<1>1. status \in Statuses /\ ~(status = 200)
  BY DEF Errors
<1>2. FALSE \in BOOLEAN
  OBVIOUS
<1> QED
  BY <1>1, <1>2, AnswerSafe

\* No backend is built on a plain-text endpoint of another host.
LEMMA SafeEndpoint == build_backend(config) => EndpointOf(config) # "http-remote"
BY DEF build_backend, S3FromEnv, MinioFromEnv, EndpointFromEnv, _validate_endpoint, EndpointOf,
       MinioEndpoint

\* A snapshot that somebody waits for is the newest of its session.
LEMMA StoresSafe ==
  ASSUME AInv, NEW a \in Slots, put[a].at = "backend", Stores(a),
         UNCHANGED <<config, export, late>>
  PROVE  /\ StoreOK' /\ written \subseteq written'
         /\ \E w \in written' : w[1][3] = put[a].key /\ w[2] = put[a].version
<1>1. put[a] # Free
  BY AtIsNotFree
<1>2. PICK r \in Requests : r = put[a] /\ RequestOK(r)
  BY <1>1, Known
<1>3. /\ r.version > 0 /\ r.version \in Nat /\ relay.up /\ relay.prefix \in Scopes
      /\ r.key \in Sessions /\ r.version <= export[r.key].version
      /\ r.ekey = <<config.bucket, relay.prefix, r.key>>
      /\ r.key \notin late => export[r.key].version = r.version
  <2>1. r.at = "backend"
    BY <1>2
  <2>2. r.version > 0 /\ relay.up /\ r.ekey = <<config.bucket, relay.prefix, r.key>>
    BY <1>2, <2>1 DEF RequestOK, Hop
  <2>3. r.key \in Sessions /\ r.version <= export[r.key].version
    BY <1>2, <2>2 DEF RequestOK, Content
  <2>4. r.key \notin late => r.client
    BY <1>2, <2>1, <2>2 DEF RequestOK, Waiting
  <2>5. r.client => export[r.key].version = r.version
    BY <1>1, <1>2, ClientWaits
  <2>6. relay.prefix \in Scopes
    BY <2>2 DEF AInv, Safe, RelayOK
  <2> QED
    BY <2>2, <2>3, <2>4, <2>5, <2>6 DEF Requests
<1>4. r.ekey[3] = r.key
  BY <1>3
<1>5. /\ object' = [k \in DOMAIN object \cup {r.ekey} |->
                      IF k = r.ekey THEN r.version ELSE object[k]]
      /\ written' = written \cup {<<r.ekey, r.version>>}
  BY <1>2 DEF Stores
<1>6. ASSUME NEW w \in written
      PROVE  /\ w[1] \in DOMAIN object /\ w[1][3] \in Sessions /\ w[2] \in Nat
             /\ w[2] <= export[w[1][3]].version
             /\ w[1][3] \in late \/ object[w[1]] >= w[2]
  <2>1. w[1] \in DOMAIN object /\ w[1] \in EKeys /\ w[2] \in Nat
    BY DEF AInv, AtifTypeOK
  <2> QED
    BY <2>1 DEF AInv, Safe, StoreOK, NewestUnlessLate, EKeys
<1>7. ASSUME NEW w \in written' PROVE w[2] <= export'[w[1][3]].version
  BY <1>3, <1>4, <1>5, <1>6, <1>7
<1>8. ASSUME NEW w \in written' PROVE w[1][3] \in late' \/ object'[w[1]] >= w[2]
  <2>1. CASE w = <<r.ekey, r.version>>
    BY <1>3, <1>5, <2>1
  <2>2. CASE w \in written /\ w[1] # r.ekey
    BY <1>5, <1>6, <2>2
  <2>3. CASE w \in written /\ w[1] = r.ekey
    <3>1. object'[w[1]] = r.version /\ w[1][3] = r.key
      BY <1>4, <1>5, <2>3
    <3>2. r.key \notin late => w[2] <= r.version
      BY <1>3, <1>6, <2>3, <3>1
    <3> QED
      BY <1>3, <1>6, <2>3, <3>1, <3>2
  <2> QED
    BY <1>5, <1>8, <2>1, <2>2, <2>3
<1>9. EndpointOf(config) # "http-remote"
  BY <1>3, SafeEndpoint DEF AInv, Safe, RelayOK
<1>10. EndpointOf(config)' # "http-remote"
  BY <1>9 DEF EndpointOf, MinioEndpoint
<1>11. StoreOK'
  BY <1>7, <1>8, <1>10 DEF StoreOK, NewestUnlessLate
<1>12. \E w \in written' : w[1][3] = r.key /\ w[2] = r.version
  <2>1. <<r.ekey, r.version>> \in written'
    BY <1>5
  <2> QED
    BY <1>4, <2>1
<1> QED
  BY <1>2, <1>5, <1>11, <1>12

\* The relay's handler and its backend keep the invariant.
LEMMA BackendSafe == ASSUME AInv, NEW a \in Slots, Reject(a) \/ Accept(a) \/ Backend(a) PROVE Safe'
<1>1. put[a].at \in {"relay", "backend"}
  BY DEF Reject, Accept, Backend, StorePuts, StoreRefuses, StoreFails
<1>2. put[a] # Free
  BY <1>1, AtIsNotFree
<1>3. put[a] \in Requests /\ RequestOK(put[a]) /\ AtifTypeOK
  BY <1>2, Known DEF AInv
<1>4. UNCHANGED <<config, relay, export, acked, disabled, late>>
  BY DEF Reject, Accept, Backend, StorePuts, StoreRefuses, StoreFails
<1>5. /\ noETag => noETag'
      /\ \/ written' = written /\ object' = object
         \/ put[a].at = "backend" /\ Stores(a)
  <2>1. CASE Reject(a) \/ Accept(a)
    <3>1. UNCHANGED <<noETag, written, object>>
      BY <2>1 DEF Reject, Accept
    <3> QED
      BY <3>1
  <2>2. CASE StorePuts(a)
    <3>1. noETag' = noETag \/ noETag' = TRUE
      BY <2>2 DEF StorePuts
    <3>2. put[a].at = "backend" /\ Stores(a)
      BY <2>2 DEF StorePuts
    <3> QED
      BY <3>1, <3>2
  <2>3. CASE StoreRefuses(a)
    BY <2>3 DEF StoreRefuses
  <2>4. CASE StoreFails(a)
    BY <2>4 DEF StoreFails
  <2> QED
    BY <2>1, <2>2, <2>3, <2>4 DEF Backend
<1>6. written \subseteq written'
  BY <1>4, <1>5, StoresSafe
<1>7. Grows
  BY <1>3, <1>4, <1>5, <1>6 DEF Grows, AtifTypeOK
<1>8. StoreOK'
  BY <1>4, <1>5, <1>7, StoresSafe, StoreStands
<1>9. RequestsOK' /\ OneClient'
  <2>1. CASE Reject(a)
    <3>1. Check(put[a]) \in Errors
      BY <2>1 DEF Reject, Check, Errors, Statuses
    <3>2. Answer(a, Check(put[a]), FALSE)
      BY <2>1 DEF Reject
    <3> QED
      BY <1>1, <1>4, <1>7, <3>1, <3>2, RefusalSafe
  <2>2. CASE Accept(a)
    <3>1. put[a].version > 0 /\ put[a].at = "relay"
      BY <1>2, <2>2, CheckedIsPut DEF Accept
    <3>2. PICK r : r = [put[a] EXCEPT !.at = "backend", !.ekey = EffectiveKey(put[a])]
      OBVIOUS
    <3>3. put' = [put EXCEPT ![a] = r]
      <4> DEFINE e == EffectiveKey(put[a])
      <4>1. put' = [put EXCEPT ![a].at = "backend", ![a].ekey = e]
        BY <2>2 DEF Accept
      <4>2. r = [put[a] EXCEPT !.at = "backend", !.ekey = e] /\ a \in DOMAIN put
        BY <1>3, <3>2 DEF AtifTypeOK
      <4> HIDE DEF e
      <4>3. put' = [put EXCEPT ![a] = r]
        BY <4>1, <4>2
      <4> QED
        BY <4>3
    <3>4. /\ r.at = "backend" /\ r.key = put[a].key /\ r.version = put[a].version
          /\ r.status = put[a].status /\ r.etag = put[a].etag /\ r.method = put[a].method
          /\ r.size = put[a].size /\ r.client = put[a].client
          /\ r.ekey = <<config.bucket, relay.prefix, put[a].key>>
      BY <1>3, <3>2 DEF Requests, EffectiveKey
    <3>5. Content(r)' /\ Hop(r)'
      BY <1>3, <1>4, <3>1, <3>4 DEF RequestOK, Content, Hop
    <3>6. Waiting(r)' /\ Reply(r)'
      BY <1>3, <1>4, <3>1, <3>4 DEF RequestOK, Hop, Waiting, Reply
    <3>7. RequestOK(r)'
      BY <3>5, <3>6 DEF RequestOK
    <3>8. \A b \in Slots \ {a} : put[b] # Free /\ put[b].client =>
            /\ export'[put[b].key] = export[put[b].key]
            /\ r # Free /\ r.client => r.key # put[b].key
      BY <1>2, <1>4, <3>4 DEF AInv, Safe, OneClient
    <3> QED
      BY <1>4, <1>7, <3>3, <3>7, <3>8, OneSlot
  <2>3. CASE StorePuts(a)
    <3>1. put[a].at = "backend" /\ Stores(a)
      BY <2>3 DEF StorePuts
    <3>2. put[a].version > 0
      BY <1>3, <3>1 DEF RequestOK, Hop
    <3>3. \E w \in written' : w[1][3] = put[a].key /\ w[2] = put[a].version
      BY <1>4, <3>1, StoresSafe
    <3>4. 200 \in Statuses
      BY DEF Statuses
    <3>5. CASE Answer(a, 200, TRUE)
      BY <1>1, <1>4, <1>7, <3>2, <3>3, <3>4, <3>5, AnswerSafe
    <3>6. CASE Answer(a, 200, FALSE) /\ noETag'
      BY <1>1, <1>4, <1>7, <3>2, <3>4, <3>6, AnswerSafe
    <3> QED
      BY <2>3, <3>5, <3>6 DEF StorePuts
  <2>4. CASE StoreRefuses(a)
    <3>1. 403 \in Errors
      BY DEF Errors, Statuses
    <3>2. Answer(a, 403, FALSE)
      BY <2>4 DEF StoreRefuses
    <3> QED
      BY <1>1, <1>4, <1>7, <3>1, <3>2, RefusalSafe
  <2>5. CASE StoreFails(a) /\ put[a].tries + 1 < MaxAttempts
    <3>1. PICK r : r = [put[a] EXCEPT !.tries = @ + 1]
      OBVIOUS
    <3>2. put' = [put EXCEPT ![a] = r]
      BY <1>3, <2>5, <3>1 DEF StoreFails, AtifTypeOK
    <3>3. /\ r.at = put[a].at /\ r.key = put[a].key /\ r.version = put[a].version
          /\ r.status = put[a].status /\ r.etag = put[a].etag /\ r.method = put[a].method
          /\ r.size = put[a].size /\ r.client = put[a].client /\ r.ekey = put[a].ekey
      BY <1>3, <3>1 DEF Requests
    <3>4. put[a].status = 0
      BY <1>1, <1>3 DEF RequestOK, Hop
    <3>5. Content(r)' /\ Hop(r)'
      BY <1>3, <1>4, <3>3 DEF RequestOK, Content, Hop
    <3>6. Waiting(r)' /\ Reply(r)'
      BY <1>3, <1>4, <3>3, <3>4 DEF RequestOK, Waiting, Reply
    <3>7. RequestOK(r)'
      BY <3>5, <3>6 DEF RequestOK
    <3>8. \A b \in Slots \ {a} : put[b] # Free /\ put[b].client =>
            /\ export'[put[b].key] = export[put[b].key]
            /\ r # Free /\ r.client => r.key # put[b].key
      BY <1>2, <1>4, <3>3 DEF AInv, Safe, OneClient
    <3> QED
      BY <1>4, <1>7, <3>2, <3>7, <3>8, OneSlot
  <2>6. CASE StoreFails(a) /\ ~(put[a].tries + 1 < MaxAttempts)
    <3>1. {502, 503} \subseteq Errors
      BY DEF Errors, Statuses
    <3>2. StoreFails(a) /\ ~(put[a].tries + 1 < MaxAttempts)
      BY <2>6
    <3>3. PICK status \in Errors : Answer(a, status, FALSE)
      BY <3>1, <3>2, Zenon DEF StoreFails
    <3> QED
      BY <1>1, <1>4, <1>7, <3>3, RefusalSafe
  <2> QED
    BY <2>1, <2>2, <2>3, <2>4, <2>5, <2>6 DEF Backend
<1>10. RelayOK' /\ Started' /\ AckedIsStored'
  BY <1>4, <1>7, RelayStands, AckedStands DEF AInv, Safe, Started
<1>11. DisabledOnlyByStore'
  BY <1>4, <1>5 DEF DisabledOnlyByStore, AInv, Safe
<1> QED
  BY <1>8, <1>9, <1>10, <1>11 DEF Safe

-----------------------------------------------------------------------------
\* Every step of the export keeps the invariant.
LEMMA AtifStep == AInv /\ [Next]_vars => AInv'
<1> SUFFICES ASSUME AInv, [Next]_vars PROVE AtifTypeOK' /\ Safe'
  BY DEF AInv
<1>1. CASE RelayStarts \/ ProbeFails \/ RotateToken \/ ReplaceInstance \/ UNCHANGED vars
  BY <1>1, RelayTypes, RelaySafe
<1>2. CASE RelayStops
  BY <1>2, RelayTypes, StopSafe
<1>3. CASE Stray
  BY <1>3, SinkTypes, StraySafe
<1>4. ASSUME NEW s \in Sessions, Export(s) \/ Retry(s) PROVE AtifTypeOK' /\ Safe'
  BY <1>4, SinkTypes, SendSafe
<1>5. ASSUME NEW a \in Slots, StopsWaiting(a) PROVE AtifTypeOK' /\ Safe'
  BY <1>5, SinkTypes, StopsWaitingSafe
<1>6. ASSUME NEW a \in Slots, Bridge(a) PROVE AtifTypeOK' /\ Safe'
  BY <1>6, BridgeTypes, BridgeSafe
<1>7. ASSUME NEW a \in Slots, Reject(a) \/ Accept(a) \/ Backend(a) PROVE AtifTypeOK' /\ Safe'
  BY <1>7, StoreTypes, BackendSafe
<1>8. ASSUME NEW a \in Slots, StoreStalls(a) PROVE AtifTypeOK' /\ Safe'
  BY <1>8, StallTypes, StallSafe
<1> QED
  BY <1>1, <1>2, <1>3, <1>4, <1>5, <1>6, <1>7, <1>8 DEF Next

\* The strengthened invariant holds in every behaviour of the export.
THEOREM AtifInductive == Spec => []AInv
<1> QED
  BY AtifInit, AtifStep, PTL DEF Spec

\* What the sink takes for stored was stored (the answers of forward and relay).
THEOREM AcknowledgedIsStored == Spec => []AckedIsStored
<1>1. AInv => AckedIsStored
  BY DEF AInv, Safe
<1> QED
  BY <1>1, AtifInductive, PTL

\* Snapshots of a session are stored in order unless somebody stopped waiting
\* for one, or for a try of one, that went on.
THEOREM NewestIsKept == Spec => []NewestUnlessLate
<1>1. AInv => NewestUnlessLate
  BY DEF AInv, Safe, StoreOK
<1> QED
  BY <1>1, AtifInductive, PTL

\* Only an answer without ETag filters the sink out.
THEOREM OnlyStoreDisables == Spec => []DisabledOnlyByStore
<1>1. AInv => DisabledOnlyByStore
  BY DEF AInv, Safe
<1> QED
  BY <1>1, AtifInductive, PTL

\* Everything stored is under the prefix of an instance in the relay's bucket,
\* over a safe endpoint.
THEOREM KeysAreScoped == Spec => []StoredInScope
<1>1. AInv => StoredInScope
  <2> SUFFICES ASSUME AInv, NEW w \in written
               PROVE  /\ w[1][1] = config.bucket
                      /\ config.prefixer = "ec2-instance-id" => w[1][2][1] \in Instances
                      /\ w[1][2][2] = config.static
                      /\ w[2] > 0
                      /\ EndpointOf(config) # "http-remote"
    BY DEF StoredInScope
  <2>1. w[1] \in EKeys /\ w[2] \in Nat \ {0}
    BY DEF AInv, AtifTypeOK
  <2>2. w[1][1] = config.bucket /\ w[1][2] \in Scopes
    BY <2>1 DEF EKeys
  <2>4. PICK q : /\ config.prefixer = "ec2-instance-id" => q \in Instances
                 /\ w[1][2] = <<q, config.static>>
    BY <2>2 DEF Scopes
  <2>5. w[1][2][1] = q /\ w[1][2][2] = config.static
    BY <2>4
  <2>3. EndpointOf(config) # "http-remote"
    BY DEF AInv, Safe, StoreOK
  <2> QED
    BY <2>1, <2>2, <2>3, <2>4, <2>5
<1> QED
  BY <1>1, AtifInductive, PTL

-----------------------------------------------------------------------------
(***************************************************************************)
(* The forums ETL, for every number of topics, posts and runs.  The        *)
(* inductive invariant follows the topics a run owes its readers through   *)
(* main: they are on a page to come or in todo, then in rows, then in the  *)
(* mirror.  Posts only move them to later pages, since the listing is      *)
(* sorted; and behind a topic older than the bound there is none of them.  *)
(***************************************************************************)
Running == {"list", "details", "load", "mark", "refresh"}

ForumsTypeOK ==
  /\ now \in Nat /\ listing \in Seq(Topics) /\ changed \in [Topics -> Nat]
  /\ upToDate \in [Copies -> SUBSET Topics]
  /\ lastSuccess \in Nat \cup {NoTime} /\ pending \in BOOLEAN
  /\ step \in {"begin", "sleep"} \cup Running
  /\ lower \in Int /\ page \in Nat /\ todo \subseteq Topics /\ rows \subseteq Topics
  /\ start \in Nat /\ disturbed \in BOOLEAN /\ touched \subseteq Topics /\ served \subseteq Topics

\* The listing has a topic once, and the most recent activity first.
Sorted ==
  /\ \A i, j \in 1..Len(listing) : listing[i] = listing[j] => i = j
  /\ \A i, j \in 1..Len(listing) : i <= j => changed[listing[i]] >= changed[listing[j]]
  /\ \A t \in Topics : changed[t] <= now

\* What main has noted is of this run, and nothing is noted between runs.
Noted ==
  /\ start <= now /\ (lastSuccess # NoTime => lastSuccess <= now)
  /\ step \in {"begin", "refresh", "sleep"} => page = 0 /\ todo = {} /\ rows = {}
  /\ step \in {"begin", "sleep"} => touched = {}
  /\ step = "list" => lower <= start - Backfill \/ lower <= start - Overlap
  /\ step = "list" => rows = {}
  /\ rows \subseteq todo
  /\ step \in {"details", "load"} => rows \ touched \subseteq upToDate["fetched"]

\* The topics a run owes its readers.
Due == {t \in Range(listing) \ touched : InReach(t)}

\* How far an undisturbed run has come with the topics it owes: on the pages to
\* come or in todo, then in todo, in rows, in the mirror.
Progress ==
  ~disturbed =>
    /\ step = "list" => \A j \in 1..Len(listing) :
         listing[j] \in Due \ todo => page * PageSize < j
    /\ step = "details" => Due \subseteq todo
    /\ step = "load" => Due \subseteq rows
    /\ step \in {"mark", "refresh"} =>
         Due \subseteq upToDate["mirror"] /\ (Due # {} => "forum-topics" \in tables)

Shown == served \subseteq upToDate["mirror"] /\ (served # {} => "forum-topics" \in views)

ForumsInv == ForumsTypeOK /\ Sorted /\ Noted /\ Progress /\ Shown

-----------------------------------------------------------------------------
\* What Max and Min of two numbers are.
LEMMA Extremes ==
  ASSUME NEW a \in Int, NEW b \in Int
  PROVE  /\ Max({a, b}) \in {a, b} /\ Max({a, b}) >= a /\ Max({a, b}) >= b
         /\ Min({a, b}) \in {a, b} /\ Min({a, b}) <= a /\ Min({a, b}) <= b
<1>1. \E x \in {a, b} : \A y \in {a, b} : x >= y
  <2>1. CASE a >= b BY <2>1
  <2>2. CASE b >= a BY <2>2
  <2> QED BY <2>1, <2>2
<1>2. \E x \in {a, b} : \A y \in {a, b} : x =< y
  <2>1. CASE a <= b BY <2>1
  <2>2. CASE b <= a BY <2>2
  <2> QED BY <2>1, <2>2
<1> QED BY <1>1, <1>2 DEF Max, Min

\* The places of the listing that are on a page.
LEMMA OnPage ==
  ASSUME NEW j \in Nat \ {0}, NEW p \in Nat
  PROVE  (j - 1) \div PageSize = p <=> p * PageSize < j /\ j <= p * PageSize + PageSize
<1>1. PageSize \in Nat \ {0} BY ForumsAssumption
<1> DEFINE d == (j - 1) \div PageSize  r == (j - 1) % PageSize
<1>2. d \in Int /\ r \in 0..(PageSize - 1) /\ j - 1 = PageSize * d + r BY <1>1
<1> QED BY <1>1, <1>2

\* What a concatenation of two sequences holds.
LEMMA Concatenated ==
  ASSUME NEW S, NEW a \in Seq(S), NEW b \in Seq(S)
  PROVE  /\ a \o b \in Seq(S) /\ Len(a \o b) = Len(a) + Len(b)
         /\ \A i \in 1..(Len(a) + Len(b)) :
              (a \o b)[i] = IF i <= Len(a) THEN a[i] ELSE b[i - Len(a)]
  OBVIOUS

\* A sequence without its k-th element.
LEMMA Removed ==
  ASSUME NEW S, NEW s \in Seq(S), NEW k \in 1..Len(s)
  PROVE  /\ RemoveAt(s, k) \in Seq(S) /\ Len(RemoveAt(s, k)) = Len(s) - 1
         /\ \A i \in 1..(Len(s) - 1) :
              RemoveAt(s, k)[i] = IF i < k THEN s[i] ELSE s[i + 1]
<1>1. SubSeq(s, 1, k - 1) \in Seq(S) /\ Len(SubSeq(s, 1, k - 1)) = k - 1 OBVIOUS
<1>2. \A i \in 1..(k - 1) : SubSeq(s, 1, k - 1)[i] = s[i] OBVIOUS
<1>3. SubSeq(s, k + 1, Len(s)) \in Seq(S) /\ Len(SubSeq(s, k + 1, Len(s))) = Len(s) - k
  OBVIOUS
<1>4. \A i \in 1..(Len(s) - k) : SubSeq(s, k + 1, Len(s))[i] = s[k + i] OBVIOUS
<1>5. PICK a, b : a = SubSeq(s, 1, k - 1) /\ b = SubSeq(s, k + 1, Len(s)) OBVIOUS
<1>6. a \in Seq(S) /\ Len(a) = k - 1 /\ \A i \in 1..(k - 1) : a[i] = s[i]
  BY <1>1, <1>2, <1>5
<1>7. b \in Seq(S) /\ Len(b) = Len(s) - k /\ \A i \in 1..(Len(s) - k) : b[i] = s[k + i]
  BY <1>3, <1>4, <1>5
<1>8. /\ a \o b \in Seq(S) /\ Len(a \o b) = Len(a) + Len(b)
      /\ \A i \in 1..(Len(a) + Len(b)) :
           (a \o b)[i] = IF i <= Len(a) THEN a[i] ELSE b[i - Len(a)]
  BY <1>6, <1>7, Concatenated, Zenon
<1>9. PICK r : /\ r = RemoveAt(s, k) /\ r \in Seq(S) /\ Len(r) = Len(a) + Len(b)
               /\ \A i \in 1..(Len(a) + Len(b)) :
                    r[i] = IF i <= Len(a) THEN a[i] ELSE b[i - Len(a)]
  BY <1>5, <1>8, Zenon DEF RemoveAt
<1>10. k \in Nat /\ 1 <= k /\ k <= Len(s) /\ Len(s) \in Nat OBVIOUS
<1>11. /\ Len(r) = Len(s) - 1
       /\ \A i \in 1..(Len(s) - 1) : r[i] = IF i < k THEN a[i] ELSE b[i - (k - 1)]
  <2>1. Len(a) = k - 1 /\ Len(b) = Len(s) - k BY <1>6, <1>7
  <2>2. Len(r) = Len(s) - 1 /\ Len(a) + Len(b) = Len(s) - 1 BY <1>9, <1>10, <2>1
  <2>3. \A i \in 1..(Len(s) - 1) : r[i] = IF i <= Len(a) THEN a[i] ELSE b[i - Len(a)]
    BY <1>9, <2>2
  <2>4. \A i \in Int : i <= Len(a) <=> i < k BY <1>10, <2>1
  <2> QED BY <1>10, <2>1, <2>2, <2>3, <2>4
<1>12. ASSUME NEW i \in 1..(Len(s) - 1) PROVE r[i] = IF i < k THEN s[i] ELSE s[i + 1]
  <2>1. CASE i < k
    <3>1. i \in 1..(k - 1) BY <1>10, <2>1
    <3> QED BY <1>6, <1>11, <2>1, <3>1
  <2>2. CASE i >= k
    <3>1. i - (k - 1) \in 1..(Len(s) - k) /\ k + (i - (k - 1)) = i + 1 BY <1>10, <2>2
    <3> QED BY <1>7, <1>10, <1>11, <2>2, <3>1
  <2> QED BY <1>10, <2>1, <2>2
<1> QED BY <1>9, <1>11, <1>12

\* The listing without a topic: what is behind its place moves up by one.
LEMMA WithoutIs ==
  ASSUME listing \in Seq(Topics), NEW t \in Topics,
         \A i, j \in 1..Len(listing) : listing[i] = listing[j] => i = j
  PROVE  \E k \in 1..(Len(listing) + 1) :
           /\ k <= Len(listing) => listing[k] = t
           /\ k > Len(listing) => t \notin Range(listing)
           /\ Without(t) \in Seq(Topics)
           /\ Len(Without(t)) = IF k <= Len(listing) THEN Len(listing) - 1 ELSE Len(listing)
           /\ \A i \in 1..Len(Without(t)) :
                Without(t)[i] = IF i < k THEN listing[i] ELSE listing[i + 1]
<1>1. CASE t \notin Range(listing)
  <2>1. \A i \in 1..Len(listing) : listing[i] # t BY <1>1 DEF Range
  <2>2. Without(t) = listing BY <2>1 DEF Without, RemoveFirst
  <2>3. Len(listing) + 1 \in 1..(Len(listing) + 1) OBVIOUS
  <2> QED BY <1>1, <2>2, <2>3
<1>2. CASE t \in Range(listing)
  <2>1. PICK k \in 1..Len(listing) : listing[k] = t BY <1>2 DEF Range
  <2>2. {i \in 1..Len(listing) : listing[i] = t} = {k} BY <2>1
  <2>3. Min({k}) = k BY <2>1 DEF Min
  <2>4. SelectInSeq(listing, LAMBDA v : v = t) = k BY <2>2, <2>3 DEF SelectInSeq
  <2>5. Without(t) = RemoveAt(listing, k) BY <2>1, <2>4 DEF Without, RemoveFirst
  <2>6. /\ Without(t) \in Seq(Topics) /\ Len(Without(t)) = Len(listing) - 1
        /\ \A i \in 1..(Len(listing) - 1) :
             Without(t)[i] = IF i < k THEN listing[i] ELSE listing[i + 1]
    <3>1. listing \in Seq(Topics) /\ k \in 1..Len(listing) BY <2>1
    <3>2. /\ RemoveAt(listing, k) \in Seq(Topics)
          /\ Len(RemoveAt(listing, k)) = Len(listing) - 1
          /\ \A i \in 1..(Len(listing) - 1) :
               RemoveAt(listing, k)[i] = IF i < k THEN listing[i] ELSE listing[i + 1]
      BY <3>1, Removed
    <3> QED BY <2>5, <3>2, Zenon
  <2>7. k \in 1..(Len(listing) + 1) /\ k <= Len(listing) BY <2>1
  <2> QED BY <2>1, <2>6, <2>7
<1> QED BY <1>1, <1>2

\* The invariant holds of a listing in any order and an empty mirror.
LEMMA ForumsStart == ForumsInit => ForumsInv
<1> SUFFICES ASSUME ForumsInit PROVE ForumsInv OBVIOUS
<1>1. PICK s \in SUBSET Topics : listing \in SetToSeqs(s)
  BY DEF ForumsInit, SetToAllKPermutations
<1>2. /\ listing \in [1..Cardinality(s) -> s]
      /\ \A i, j \in 1..Cardinality(s) : i # j => listing[i] # listing[j]
  BY <1>1 DEF SetToSeqs
<1>3. Cardinality(s) \in Nat BY ForumsAssumption, FS_Subset, FS_CardinalityType
<1>4. /\ listing \in Seq(Topics) /\ Len(listing) = Cardinality(s) BY <1>2, <1>3
<1>5. ForumsTypeOK
  <2>1. changed \in [Topics -> Nat] /\ upToDate \in [Copies -> SUBSET Topics]
    BY DEF ForumsInit
  <2>2. pending \in BOOLEAN /\ disturbed \in BOOLEAN BY DEF ForumsInit
  <2> QED BY <1>4, <2>1, <2>2 DEF ForumsInit, MirrorInit, ForumsTypeOK
<1>6. Sorted BY <1>2, <1>4 DEF ForumsInit, MirrorInit, Sorted
<1> QED
  BY <1>5, <1>6 DEF ForumsInit, MirrorInit, ForumsInv, Noted, Progress, Shown

\* What a run owes has changed since its lower bound.
LEMMA DueIsRecent ==
  ASSUME ForumsInv, step = "list", NEW t \in Topics, InReach(t)
  PROVE  TopicChangedAfter(t, lower)
<1> DEFINE m == Min({Backfill, Overlap})
<1>1. Backfill \in Int /\ Overlap \in Int BY MirrorAssumption, ForumsAssumption
<1>2. m \in Int /\ m <= Backfill /\ m <= Overlap BY <1>1, Extremes
<1> HIDE DEF m
<1>3. lower <= start - m BY <1>1, <1>2 DEF ForumsInv, Noted, ForumsTypeOK
<1>4. start <= changed[t] + m BY DEF InReach, m
<1> QED BY <1>2, <1>3, <1>4 DEF TopicChangedAfter, ForumsInv, ForumsTypeOK

\* The bound of a new run.
LEMMA BeginStep == ForumsInv /\ Begin => ForumsInv'
<1> SUFFICES ASSUME ForumsInv, Begin PROVE ForumsInv' OBVIOUS
<1> USE DEF ForumsInv, mirror, forum
<1>1. Backfill \in Int /\ Overlap \in Int BY MirrorAssumption, ForumsAssumption
<1>2. lower' \in Int /\ (lower' <= now - Backfill \/ lower' <= now - Overlap)
  <2>1. CASE lastSuccess = NoTime BY <1>1, <2>1 DEF Begin, GetLowerBound, ForumsTypeOK
  <2>2. CASE lastSuccess # NoTime
    <3>1. /\ now - Backfill \in Int /\ lastSuccess - Overlap \in Int
          /\ lastSuccess - Overlap <= now - Overlap
      BY <1>1, <2>2 DEF ForumsTypeOK, Noted
    <3>2. lower' \in {now - Backfill, lastSuccess - Overlap}
      BY <2>2, <3>1, Extremes DEF Begin, GetLowerBound
    <3> QED BY <3>1, <3>2
  <2> QED BY <2>1, <2>2
<1>3. ForumsTypeOK' BY <1>2 DEF Begin, NewRun, Enter, ForumsTypeOK, Running
<1>4. Sorted' /\ Shown' BY DEF Begin, Sorted, Shown
<1>5. Noted' BY <1>2 DEF Begin, NewRun, Enter, Noted, ForumsTypeOK
<1>6. Progress'
  <2>1. step' = "list" /\ page' = 0 BY DEF Begin, Enter, Noted
  <2>2. \A j \in 1..Len(listing') : page' * PageSize < j
    BY <2>1, ForumsAssumption
  <2> QED BY <2>1, <2>2 DEF Progress
<1> QED BY <1>3, <1>4, <1>5, <1>6

\* A page read: nothing that is owed and not in todo is on it or before it, and if
\* it was the last, nothing is behind it.
LEMMA PageStep == ForumsInv /\ FetchTagTopics => ForumsInv'
<1> SUFFICES ASSUME ForumsInv, FetchTagTopics PROVE ForumsInv' OBVIOUS
<1> USE DEF ForumsInv, mirror, forum, seen
<1> DEFINE recent == {t \in PageTopics : TopicChangedAfter(t, lower)}
<1>1. /\ step = "list" /\ todo' = todo \cup recent
      /\ IF PageTopics = {} \/ recent # PageTopics
           THEN step' = "details" /\ page' = page ELSE page' = page + 1 /\ step' = step
      /\ UNCHANGED <<now, mirror, forum, upToDate, lastSuccess, pending, lower, rows, seen,
                     served>>
  BY DEF FetchTagTopics, Enter
<1>2. PageTopics = {listing[i] : i \in {j \in 1..Len(listing) : page * PageSize < j
                                                 /\ j <= page * PageSize + PageSize}}
  <2>1. DOMAIN listing = 1..Len(listing) /\ page \in Nat BY DEF ForumsTypeOK
  <2>2. \A j \in 1..Len(listing) :
          (j - 1) \div PageSize = page <=> page * PageSize < j /\ j <= page * PageSize + PageSize
    BY <2>1, OnPage
  <2>3. {j \in DOMAIN listing : (j - 1) \div PageSize = page}
          = {j \in 1..Len(listing) : page * PageSize < j /\ j <= page * PageSize + PageSize}
    BY <2>1, <2>2
  <2> QED BY <2>3 DEF PageTopics
<1>3. PageTopics \subseteq Topics BY <1>2 DEF ForumsTypeOK
<1>4. page * PageSize \in Nat /\ PageSize \in Nat \ {0}
      /\ (page + 1) * PageSize = page * PageSize + PageSize
  BY ForumsAssumption DEF ForumsTypeOK
<1>5. ForumsTypeOK' BY <1>1, <1>3 DEF ForumsTypeOK, Running
<1>6. Sorted' /\ Shown' BY <1>1 DEF Sorted, Shown
<1>7. Noted' BY <1>1 DEF Noted
<1>8. Due' = Due BY <1>1 DEF Due, InReach
<1>9. ASSUME ~disturbed, NEW j \in 1..Len(listing), listing[j] \in Due \ todo'
      PROVE  /\ page * PageSize + PageSize < j /\ TopicChangedAfter(listing[j], lower)
             /\ listing[j] \in Topics
  <2>1. listing[j] \in Topics BY DEF ForumsTypeOK
  <2>2. TopicChangedAfter(listing[j], lower) BY <1>1, <1>9, <2>1, DueIsRecent DEF Due
  <2>3. page * PageSize < j BY <1>1, <1>9 DEF Progress
  <2>4. listing[j] \notin PageTopics BY <1>1, <1>9, <2>2
  <2> QED BY <1>2, <1>4, <2>1, <2>2, <2>3, <2>4
<1>10. Progress'
  <2> SUFFICES ASSUME ~disturbed PROVE Progress' BY <1>1 DEF Progress
  <2>1. CASE PageTopics = {} \/ recent # PageTopics
    <3> SUFFICES Due \subseteq todo' BY <1>1, <1>8, <2>1 DEF Progress
    <3> SUFFICES ASSUME NEW t \in Due, t \notin todo' PROVE FALSE OBVIOUS
    <3>1. PICK j \in 1..Len(listing) : listing[j] = t BY DEF Due, Range, ForumsTypeOK
    <3>2. page * PageSize + PageSize < j /\ changed[t] >= lower /\ t \in Topics
      BY <1>9, <3>1 DEF TopicChangedAfter
    <3>3. page * PageSize + 1 \in 1..Len(listing)
          /\ page * PageSize + 1 <= page * PageSize + PageSize
      BY <1>4, <3>1, <3>2 DEF ForumsTypeOK
    <3>4. listing[page * PageSize + 1] \in PageTopics
      <4>1. page * PageSize < page * PageSize + 1 BY <1>4
      <4> QED BY <1>2, <3>3, <4>1
    <3>5. PICK u \in PageTopics : ~(changed[u] >= lower)
      BY <2>1, <3>4 DEF TopicChangedAfter
    <3>6. PICK i \in 1..Len(listing) : listing[i] = u /\ i <= page * PageSize + PageSize
      BY <1>2
    <3>7. i <= j BY <1>4, <3>1, <3>2, <3>6
    <3>8. changed[u] >= changed[t] BY <3>1, <3>6, <3>7 DEF Sorted
    <3> QED BY <1>3, <3>2, <3>5, <3>8 DEF ForumsTypeOK
  <2>2. CASE ~(PageTopics = {} \/ recent # PageTopics)
    <3>1. step' = "list" /\ page' * PageSize = page * PageSize + PageSize
      BY <1>1, <1>4, <2>2
    <3>2. \A j \in 1..Len(listing) : listing[j] \in Due \ todo' => page' * PageSize < j
      BY <1>9, <3>1
    <3> QED BY <1>1, <1>8, <3>1, <3>2 DEF Progress
  <2> QED BY <2>1, <2>2
<1> QED BY <1>5, <1>6, <1>7, <1>10

\* Reading the details of the topics on a page keeps the invariant.
LEMMA DetailsStep == ForumsInv /\ FetchTopicDetails => ForumsInv'
<1> SUFFICES ASSUME ForumsInv, FetchTopicDetails PROVE ForumsInv' OBVIOUS
<1> USE DEF ForumsInv, mirror, forum, seen
<1>1. Due' = Due BY DEF FetchTopicDetails, Due, InReach
<1>2. Sorted' BY DEF FetchTopicDetails, Sorted
<1>3. CASE rows = todo
  <2>1. ForumsTypeOK' BY <1>3 DEF FetchTopicDetails, Enter, ForumsTypeOK, Running
  <2>2. Noted' /\ Shown' BY <1>3 DEF FetchTopicDetails, Enter, Noted, Shown
  <2>3. Progress' BY <1>1, <1>3 DEF FetchTopicDetails, Enter, Progress
  <2> QED BY <1>2, <2>1, <2>2, <2>3
<1>4. CASE rows # todo
  <2>1. PICK t \in todo \ rows :
          /\ rows' = rows \cup {t}
          /\ upToDate' = [upToDate EXCEPT !["fetched"] = @ \cup {t}]
    BY <1>4 DEF FetchTopicDetails
  <2>2. /\ upToDate' \in [Copies -> SUBSET Topics] /\ upToDate'["mirror"] = upToDate["mirror"]
        /\ upToDate'["fetched"] = upToDate["fetched"] \cup {t}
    BY <2>1 DEF ForumsTypeOK, Copies
  <2>3. ForumsTypeOK' BY <1>4, <2>1, <2>2 DEF FetchTopicDetails, ForumsTypeOK
  <2>4. Noted' BY <1>4, <2>1, <2>2 DEF FetchTopicDetails, Noted
  <2>5. Shown' /\ Progress' BY <1>1, <1>4, <2>2 DEF FetchTopicDetails, Progress, Shown
  <2> QED BY <1>2, <2>3, <2>4, <2>5
<1> QED BY <1>3, <1>4

\* The pipeline's load keeps the invariant.
LEMMA PipelineRunStep == ForumsInv /\ PipelineRun => ForumsInv'
<1> SUFFICES ASSUME ForumsInv, PipelineRun PROVE ForumsInv' OBVIOUS
<1> USE DEF ForumsInv, mirror, forum
<1>1. Due' = Due BY DEF PipelineRun, Due, InReach
<1>2. /\ upToDate' \in [Copies -> SUBSET Topics]
      /\ upToDate["mirror"] \subseteq upToDate'["mirror"]
      /\ ~pending => upToDate["fetched"] \subseteq upToDate'["mirror"]
  BY DEF PipelineRun, ForumsTypeOK, Copies
<1>3. ForumsTypeOK' BY <1>2 DEF PipelineRun, Enter, ForumsTypeOK, Running
<1>4. Sorted' BY DEF PipelineRun, Sorted
<1>5. Noted' BY DEF PipelineRun, Enter, Noted
<1>6. Shown' BY <1>2 DEF PipelineRun, Shown
<1>7. Progress'
  <2> SUFFICES ASSUME ~disturbed'
               PROVE  Due \subseteq upToDate'["mirror"] /\ (Due # {} => "forum-topics" \in tables')
    BY <1>1 DEF PipelineRun, Enter, Progress
  <2>1. ~pending /\ ~disturbed BY DEF PipelineRun
  <2>2. Due \subseteq rows /\ Due \cap touched = {} BY <2>1 DEF PipelineRun, Progress, Due
  <2>3. Due \subseteq upToDate["fetched"] BY <2>2 DEF PipelineRun, Noted
  <2> QED BY <1>2, <2>1, <2>2, <2>3 DEF PipelineRun
<1> QED BY <1>3, <1>4, <1>5, <1>6, <1>7

\* Marking a run as a success keeps the invariant.
LEMMA MarkStep == ForumsInv /\ MarkSuccess => ForumsInv'
<1> SUFFICES ASSUME ForumsInv, MarkSuccess PROVE ForumsInv' OBVIOUS
<1> USE DEF ForumsInv, mirror, forum, seen
<1>1. Due' = Due BY DEF MarkSuccess, Due, InReach
<1>2. ForumsTypeOK' BY DEF MarkSuccess, NoVariables, Enter, ForumsTypeOK, Running
<1>3. Sorted' /\ Shown' BY DEF MarkSuccess, Sorted, Shown
<1>4. Noted' BY DEF MarkSuccess, NoVariables, Enter, Noted, ForumsTypeOK
<1>5. Progress' BY <1>1 DEF MarkSuccess, Enter, Progress
<1> QED BY <1>2, <1>3, <1>4, <1>5

\* The end of a run: what it owed is in the mirror, and the view is there.
LEMMA RefreshStep == ForumsInv /\ RefreshApiViews => ForumsInv'
<1> SUFFICES ASSUME ForumsInv, RefreshApiViews PROVE ForumsInv' OBVIOUS
<1> USE DEF ForumsInv, forum
<1>1. Range(listing) \subseteq Topics BY DEF Range, ForumsTypeOK
<1>2. ForumsTypeOK'
  BY <1>1 DEF RefreshApiViews, RefreshViews, NewRun, Enter, ForumsTypeOK, Running
<1>3. Sorted' BY DEF RefreshApiViews, Sorted
<1>4. Noted'
  <2>1. page = 0 /\ todo = {} /\ rows = {} BY DEF RefreshApiViews, Noted
  <2> QED BY <2>1 DEF RefreshApiViews, NewRun, Enter, Noted, ForumsTypeOK
<1>5. Progress' BY DEF RefreshApiViews, Enter, Progress
<1>6. Shown'
  <2>1. served' = IF disturbed THEN served ELSE served \cup Due BY DEF RefreshApiViews, Due
  <2>2. views' = views \cup tables /\ upToDate' = upToDate /\ step = "refresh"
    BY DEF RefreshApiViews, RefreshViews
  <2> QED BY <2>1, <2>2 DEF Shown, Progress
<1> QED BY <1>2, <1>3, <1>4, <1>5, <1>6

\* A run that fails keeps the invariant: what it leaves is still pending.
LEMMA FailStep == ForumsInv /\ Fail => ForumsInv'
<1> SUFFICES ASSUME ForumsInv, Fail PROVE ForumsInv' OBVIOUS
<1> USE DEF ForumsInv, mirror, forum
<1>1. PICK left \in BOOLEAN :
        /\ pending' = (pending \/ left)
        /\ upToDate' = [upToDate EXCEPT !["fetched"] = {},
                                        !["package"] = IF left THEN upToDate["fetched"] ELSE @]
  BY DEF Fail
<1>2. upToDate' \in [Copies -> SUBSET Topics] /\ upToDate'["mirror"] = upToDate["mirror"]
  BY <1>1 DEF ForumsTypeOK, Copies
<1>3. ForumsTypeOK'
  <2>1. pending' \in BOOLEAN /\ disturbed' \in BOOLEAN BY <1>1 DEF Fail, NewRun
  <2>2. /\ step' = "begin" /\ lower' = 0 /\ page' = 0 /\ todo' = {} /\ rows' = {}
        /\ touched' = {} /\ start' = 0
        /\ UNCHANGED <<now, listing, changed, lastSuccess, served>>
    BY DEF Fail, NoVariables, NewRun, Enter
  <2> QED BY <1>2, <2>1, <2>2 DEF ForumsTypeOK
<1>4. Sorted' /\ Shown' BY <1>2 DEF Fail, Sorted, Shown
<1>5. Noted' BY DEF Fail, NoVariables, NewRun, Enter, Noted, ForumsTypeOK
<1>6. Progress' BY DEF Fail, Enter, Progress
<1> QED BY <1>3, <1>4, <1>5, <1>6

-----------------------------------------------------------------------------
\* A post moves its topic to the head, and nothing else forward.
LEMMA PostStep == ASSUME ForumsInv, NEW t \in Topics, Post(t) PROVE ForumsInv'
<1> USE DEF ForumsInv, mirror, main
<1>1. listing \in Seq(Topics)
      /\ \A i, j \in 1..Len(listing) : listing[i] = listing[j] => i = j
  BY DEF ForumsTypeOK, Sorted
<1>2. PICK k \in 1..(Len(listing) + 1) : \E w \in Seq(Topics) :
        /\ w = Without(t)
        /\ k <= Len(listing) => listing[k] = t
        /\ k > Len(listing) => t \notin Range(listing)
        /\ Len(w) = IF k <= Len(listing) THEN Len(listing) - 1 ELSE Len(listing)
        /\ \A i \in 1..Len(w) : w[i] = IF i < k THEN listing[i] ELSE listing[i + 1]
  BY <1>1, WithoutIs
<1>3. PICK w \in Seq(Topics) :
        /\ w = Without(t)
        /\ Len(w) = IF k <= Len(listing) THEN Len(listing) - 1 ELSE Len(listing)
        /\ \A i \in 1..Len(w) : w[i] = IF i < k THEN listing[i] ELSE listing[i + 1]
  BY <1>2
<1>4. PICK s \in Seq(Topics) : /\ s = listing' /\ Len(s) = Len(w) + 1 /\ s[1] = t
                               /\ \A i \in 1..Len(w) : s[i + 1] = w[i]
  <2>1. <<t>> \o w \in Seq(Topics) /\ Len(<<t>> \o w) = Len(w) + 1 BY <1>3
  <2>2. (<<t>> \o w)[1] = t /\ \A i \in 1..Len(w) : (<<t>> \o w)[i + 1] = w[i] BY <1>3
  <2> QED BY <1>3, <2>1, <2>2 DEF Post
<1> DEFINE From(i) == IF i <= k THEN i - 1 ELSE i    \* where the i-th entry was before
<1>5. ASSUME NEW i \in 2..Len(s)
      PROVE  /\ From(i) \in 1..Len(listing) /\ From(i) # k /\ From(i) <= i
             /\ s[i] = listing[From(i)] /\ s[i] # t
  <2>1. /\ i - 1 \in 1..Len(w) /\ (i - 1) + 1 = i
        /\ From(i) \in 1..Len(listing) /\ From(i) # k /\ From(i) <= i
    BY <1>1, <1>3, <1>4
  <2>2. s[i] = w[i - 1] BY <1>4, <2>1
  <2>3. w[i - 1] = listing[From(i)] BY <1>3, <2>1
  <2>4. listing[From(i)] # t
    <3>1. CASE k <= Len(listing)
      <4>1. k \in 1..Len(listing) /\ listing[k] = t BY <1>2, <3>1
      <4> QED BY <1>1, <2>1, <4>1
    <3>2. CASE k > Len(listing) BY <1>1, <1>2, <2>1, <3>2 DEF Range
    <3> QED BY <1>1, <3>1, <3>2
  <2> QED BY <2>1, <2>2, <2>3, <2>4
<1>6. ASSUME NEW i \in 2..Len(s), NEW j \in 2..Len(s), i < j PROVE From(i) < From(j)
  BY <1>6
<1> HIDE DEF From
<1>7. /\ changed' \in [Topics -> Nat] /\ changed'[t] = now
      /\ \A u \in Topics \ {t} : changed'[u] = changed[u]
      /\ \A u \in Topics : changed[u] \in Nat /\ changed[u] <= now
  BY DEF Post, ForumsTypeOK, Sorted
<1>8. /\ upToDate' \in [Copies -> SUBSET Topics]
      /\ \A c \in Copies : upToDate'[c] = upToDate[c] \ {t}
  BY DEF Post, ForumsTypeOK
<1>9. ForumsTypeOK' BY <1>4, <1>7, <1>8 DEF Post, ForumsTypeOK
<1>10. Sorted'
  <2>1. \A i \in 1..Len(s) : s[i] \in Topics /\ (i = 1 \/ i \in 2..Len(s)) BY <1>4
  <2>2. \A i, j \in 1..Len(s) : s[i] = s[j] => i = j
    <3> SUFFICES ASSUME NEW i \in 1..Len(s), NEW j \in 1..Len(s), s[i] = s[j], i < j
                 PROVE  FALSE
      BY <1>4
    <3>1. j \in 2..Len(s) BY <1>4
    <3>2. i # 1 BY <1>4, <1>5, <3>1
    <3>3. i \in 2..Len(s) BY <1>4, <3>2
    <3>4. From(i) < From(j) /\ From(i) = From(j) BY <1>1, <1>5, <1>6, <3>1, <3>3
    <3> QED BY <1>5, <3>1, <3>3, <3>4
  <2>3. \A i, j \in 1..Len(s) : i <= j => changed'[s[i]] >= changed'[s[j]]
    <3> SUFFICES ASSUME NEW i \in 1..Len(s), NEW j \in 1..Len(s), i < j
                 PROVE  changed'[s[i]] >= changed'[s[j]]
      BY <1>4, <1>7, <2>1
    <3>1. j \in 2..Len(s) BY <1>4
    <3>2. changed'[s[j]] = changed[s[j]] /\ s[j] \in Topics BY <1>5, <1>7, <2>1, <3>1
    <3>3. CASE i = 1 BY <1>4, <1>7, <3>2, <3>3
    <3>4. CASE i \in 2..Len(s)
      <4>1. changed'[s[i]] = changed[s[i]] BY <1>5, <1>7, <2>1, <3>4
      <4>2. From(i) <= From(j) BY <1>5, <1>6, <3>1, <3>4
      <4>3. changed[listing[From(i)]] >= changed[listing[From(j)]]
        BY <1>5, <3>1, <3>4, <4>2 DEF Sorted
      <4> QED BY <1>5, <3>1, <3>2, <3>4, <4>1, <4>3
    <3> QED BY <2>1, <3>3, <3>4
  <2>4. \A u \in Topics : changed'[u] <= now
    <3> SUFFICES ASSUME NEW u \in Topics PROVE changed'[u] <= now OBVIOUS
    <3>1. CASE u = t BY <1>7, <3>1 DEF ForumsTypeOK
    <3>2. CASE u # t BY <1>7, <3>2
    <3> QED BY <3>1, <3>2
  <2>5. now' = now /\ listing' = s BY <1>4 DEF Post
  <2> QED BY <2>2, <2>3, <2>4, <2>5 DEF Sorted
<1>11. Noted'
  BY <1>8 DEF Post, Noted, Running, ForumsTypeOK, Copies
<1>12. Shown' BY <1>8 DEF Post, Shown, Copies
<1>13. Progress'
  <2> SUFFICES ASSUME ~disturbed, step \notin {"begin", "sleep"} PROVE Progress'
    BY DEF Post, Progress
  <2>1. touched' = touched \cup {t} /\ start' = start BY DEF Post
  <2>2. ASSUME NEW j \in 1..Len(s), s[j] \in Due'
        PROVE  j \in 2..Len(s) /\ s[j] \in Due /\ s[j] # t
    <3>1. s[j] \notin touched' /\ start' <= changed'[s[j]] + Min({Backfill, Overlap})
      BY <2>2 DEF Due, InReach
    <3>2. j \in 2..Len(s) BY <1>4, <2>1, <3>1
    <3>3. s[j] \in Range(listing) /\ s[j] # t BY <1>1, <1>5, <3>2 DEF Range
    <3>4. changed'[s[j]] = changed[s[j]] BY <1>4, <1>7, <3>3
    <3> QED BY <2>1, <3>1, <3>2, <3>3, <3>4 DEF Due, InReach
  <2>3. Due' \subseteq Due \ {t}
    <3>1. \A u \in Due' : \E j \in 1..Len(s) : s[j] = u BY <1>4 DEF Due, Range
    <3> QED BY <2>2, <3>1
  <2>4. step = "list" => \A j \in 1..Len(s) : s[j] \in Due' \ todo => page * PageSize < j
    <3> SUFFICES ASSUME step = "list", NEW j \in 1..Len(s), s[j] \in Due' \ todo
                 PROVE  page * PageSize < j
      OBVIOUS
    <3>1. j \in 2..Len(s) /\ s[j] \in Due BY <2>2
    <3>2. page * PageSize < From(j) BY <1>5, <3>1 DEF Progress
    <3>3. page * PageSize \in Int BY ForumsAssumption DEF ForumsTypeOK
    <3> QED BY <1>5, <3>1, <3>2, <3>3
  <2>5. upToDate'["mirror"] = upToDate["mirror"] \ {t} BY <1>8 DEF Copies
  <2> QED BY <1>4, <2>3, <2>4, <2>5 DEF Post, Progress
<1> QED BY <1>9, <1>10, <1>11, <1>12, <1>13

\* A topic that loses its tag moves what follows it up: owed topics keep their
\* place only if no page is being read, and a run that reads is disturbed.
LEMMA UntagStep == ASSUME ForumsInv, NEW t \in Topics, Untag(t) PROVE ForumsInv'
<1> USE DEF ForumsInv, mirror, main
<1>1. listing \in Seq(Topics)
      /\ \A i, j \in 1..Len(listing) : listing[i] = listing[j] => i = j
  BY DEF ForumsTypeOK, Sorted
<1>2. PICK k \in 1..(Len(listing) + 1) : \E w \in Seq(Topics) :
        /\ w = Without(t)
        /\ Len(w) = IF k <= Len(listing) THEN Len(listing) - 1 ELSE Len(listing)
        /\ \A i \in 1..Len(w) : w[i] = IF i < k THEN listing[i] ELSE listing[i + 1]
  BY <1>1, WithoutIs
<1>3. PICK w \in Seq(Topics) :
        /\ w = Without(t)
        /\ Len(w) = IF k <= Len(listing) THEN Len(listing) - 1 ELSE Len(listing)
        /\ \A i \in 1..Len(w) : w[i] = IF i < k THEN listing[i] ELSE listing[i + 1]
  BY <1>2
<1> DEFINE From(i) == IF i < k THEN i ELSE i + 1    \* where the i-th entry was before
<1>4. \A i \in 1..Len(w) : From(i) \in 1..Len(listing) /\ w[i] = listing[From(i)]
  BY <1>1, <1>3
<1>5. \A i, j \in 1..Len(w) : i < j => From(i) < From(j) OBVIOUS
<1> HIDE DEF From
<1>6. listing' = w /\ UNCHANGED <<now, mirror, changed, upToDate, lastSuccess, pending, main,
                                  start, touched, served>>
  BY <1>3 DEF Untag
<1>7. disturbed' \in BOOLEAN /\ (~disturbed' => ~disturbed /\ step # "list")
  BY DEF Untag, ForumsTypeOK
<1>8. ForumsTypeOK' BY <1>3, <1>6, <1>7 DEF ForumsTypeOK
<1>9. Sorted'
  <2>1. \A i, j \in 1..Len(w) : w[i] = w[j] => i = j
    <3> SUFFICES ASSUME NEW i \in 1..Len(w), NEW j \in 1..Len(w), w[i] = w[j], i < j
                 PROVE  FALSE
      BY <1>3
    <3> QED BY <1>1, <1>4, <1>5
  <2>2. \A i, j \in 1..Len(w) : i <= j => changed[w[i]] >= changed[w[j]]
    <3> SUFFICES ASSUME NEW i \in 1..Len(w), NEW j \in 1..Len(w), i <= j
                 PROVE  changed[w[i]] >= changed[w[j]]
      OBVIOUS
    <3>1. From(i) <= From(j) BY <1>4, <1>5
    <3> QED BY <1>4, <3>1 DEF Sorted
  <2> QED BY <1>6, <2>1, <2>2 DEF Sorted
<1>10. Noted' /\ Shown' BY <1>6 DEF Noted, Shown
<1>11. Due' \subseteq Due
  <2> SUFFICES ASSUME NEW u \in Due' PROVE u \in Due OBVIOUS
  <2>1. PICK i \in 1..Len(w) : w[i] = u BY <1>3, <1>6 DEF Due, Range
  <2>2. u \in Range(listing) BY <1>1, <1>4, <2>1 DEF Range
  <2> QED BY <1>6, <2>2 DEF Due, InReach
<1>12. Progress' BY <1>6, <1>7, <1>11 DEF Progress
<1> QED BY <1>8, <1>9, <1>10, <1>12

\* The passing of time keeps the invariant.
LEMMA TickStep == ForumsInv /\ Tick => ForumsInv'
<1> SUFFICES ASSUME ForumsInv, Tick PROVE ForumsInv' OBVIOUS
<1> USE DEF ForumsInv, mirror, forum, seen
<1>1. ForumsTypeOK' BY DEF Tick, ForumsTypeOK
<1>2. Sorted'
  <2>1. \A u \in Topics : changed[u] <= now + 1 BY DEF Sorted, ForumsTypeOK
  <2> QED BY <2>1 DEF Tick, Sorted
<1>3. Noted' BY DEF Tick, Noted, ForumsTypeOK
<1>4. Due' = Due BY DEF Tick, Due, InReach
<1>5. Progress' /\ Shown' BY <1>4 DEF Tick, Progress, Shown
<1> QED BY <1>1, <1>2, <1>3, <1>5

\* Every step of the forums ETL keeps the invariant.
LEMMA ForumsStep == ForumsInv /\ [ForumsNext]_<<now, mirror, forumsVars>> => ForumsInv'
<1>1. ASSUME ForumsInv, UNCHANGED <<now, mirror, forumsVars>> PROVE ForumsInv'
  <2> USE <1>1 DEF ForumsInv, mirror, forumsVars, forum, main, seen
  <2>1. ForumsTypeOK' /\ Sorted' /\ Noted' /\ Shown' BY DEF ForumsTypeOK, Sorted, Noted, Shown
  <2>2. Due' = Due BY DEF Due, InReach
  <2> QED BY <2>1, <2>2 DEF Progress
<1> QED
  BY <1>1, BeginStep, PageStep, DetailsStep, PipelineRunStep, MarkStep, RefreshStep, FailStep,
     PostStep, UntagStep, TickStep DEF ForumsNext

\* A query shows what the forum has of every topic that a run which came to its
\* end was soon enough to read, however many topics move while the pages are
\* turned: for any number of topics, posts and runs, any page size and overlap.
THEOREM RunsShowChanges == ForumsSpec => []ChangesShown
<1>1. ForumsInv => ChangesShown BY DEF ForumsInv, Shown, ChangesShown, FetchRows
<1> QED BY <1>1, ForumsStart, ForumsStep, PTL DEF ForumsSpec

-----------------------------------------------------------------------------
(***************************************************************************)
(* The GitHub ETL, for every number of changes, failures and hours.  The   *)
(* inductive invariant says of the changes that the tap has written, and   *)
(* of those the state file covers, where they are.                         *)
(***************************************************************************)
Places == {"off", "runs", "done", "dead"}

GithubTypeOK ==
  /\ now \in Nat /\ when \in Seq(Nat) /\ file \in Nat \cup {NoState}
  /\ stage \in {"begin", "sync", "refresh", "sleep"}
  /\ tap \in Places /\ persist \in Places /\ target \in Places
  /\ position \in Nat /\ latestState \in Nat \cup {NoState}
  /\ position <= Len(when) /\ (file # NoState => file <= Len(when))

\* Changes are numbered in the order of their hours.
Dated ==
  /\ \A i \in Changes : when[i] <= now
  /\ \A i, j \in Changes : i <= j => when[i] <= when[j]

\* The pipeline runs in the stage of its own.
Piped ==
  /\ stage = "sync" => "off" \notin {tap, persist, target}
  /\ stage # "sync" => /\ tap = "off" /\ persist = "off" /\ target = "off"
                       /\ position = 0 /\ latestState = NoState /\ inFlight = {}
  /\ target = "done" => persist # "runs" /\ inFlight = {}

Explained == loaded \cup tooOld \cup failedLate

\* As long as persist_state reads, the target was given what the tap has written,
\* and no STATE was ahead of its records.
ReadCovered ==
  persist = "runs" => /\ 1..position \subseteq Explained \cup inFlight
                      /\ latestState # NoState => latestState <= position

\* What the file covers is explained; a target that still loads may hold a rest
\* of it once persist_state has saved.
FileCovered ==
  file # NoState =>
    1..file \subseteq Explained \cup (IF persist = "done" /\ target = "runs" THEN inFlight ELSE {})

GithubInv == GithubTypeOK /\ Dated /\ Piped /\ ReadCovered /\ FileCovered

-----------------------------------------------------------------------------
\* The first m numbers are a finite set of m.
LEMMA IntervalSize == \A m \in Nat : IsFiniteSet(1..m) /\ Cardinality(1..m) = m
<1> TAKE m \in Nat
<1> QED BY FS_Interval, 1 \in Int, m \in Int

\* What is older than a limit comes first, so their number is the last of them.
LEMMA OlderIsPrefix ==
  ASSUME GithubTypeOK, Dated, NEW limit \in Int
  PROVE  /\ Cardinality(Older(limit)) \in Nat
         /\ Cardinality(Older(limit)) <= Len(when)
         /\ Older(limit) = 1..Cardinality(Older(limit))
<1> DEFINE n == Cardinality(Older(limit))
<1>1. DOMAIN when = 1..Len(when) /\ Len(when) \in Nat BY DEF GithubTypeOK
<1>2. /\ IsFiniteSet(1..Len(when)) /\ Cardinality(1..Len(when)) = Len(when)
  BY <1>1, IntervalSize
<1>3. Older(limit) \subseteq 1..Len(when) BY <1>1 DEF Older, Changes
<1>4. IsFiniteSet(Older(limit)) /\ n <= Len(when) BY <1>2, <1>3, FS_Subset
<1>5. n \in Nat BY <1>4, FS_CardinalityType
<1>6. Older(limit) \subseteq 1..n
  <2> SUFFICES ASSUME NEW i \in Older(limit) PROVE i \in 1..n OBVIOUS
  <2>1. i \in 1..Len(when) /\ when[i] < limit BY <1>1 DEF Older, Changes
  <2>2. \A j \in 1..i : j \in Changes /\ when[j] <= when[i] BY <1>1, <2>1 DEF Dated, Changes
  <2>3. \A j \in 1..Len(when) : when[j] \in Int BY DEF GithubTypeOK
  <2>4. 1..i \subseteq Older(limit) BY <1>1, <2>1, <2>2, <2>3 DEF Older
  <2>5. Cardinality(1..i) = i BY <2>1, IntervalSize
  <2>6. 1..i \in SUBSET Older(limit) BY <2>4
  <2>7. Cardinality(1..i) <= n BY <1>4, <2>6, FS_Subset
  <2> QED BY <1>5, <2>1, <2>5, <2>7
<1>7. IsFiniteSet(1..n) /\ Cardinality(1..n) = n BY <1>5, IntervalSize
<1>8. Older(limit) = 1..n BY <1>6, <1>7, FS_Subset
<1> QED BY <1>4, <1>5, <1>8

\* The invariant holds of an empty mirror.
LEMMA GithubStart == GithubInit => GithubInv
BY DEF GithubInit, MirrorInit, GithubInv, GithubTypeOK, Dated, Piped, ReadCovered, FileCovered,
       Changes, Places

\* A run begins where the file ends, or after what is too old to be read.
LEMMA RunEtlStep == GithubInv /\ RunEtl => GithubInv'
<1> SUFFICES ASSUME GithubInv, RunEtl PROVE GithubInv' OBVIOUS
<1> USE DEF GithubInv
<1>1. now - Backfill \in Int BY MirrorAssumption DEF GithubTypeOK
<1>2. CASE file = NoState
  <2>1. /\ position' \in Nat /\ position' <= Len(when)
        /\ 1..position' = Older(now - Backfill) /\ tooOld' = tooOld \cup Older(now - Backfill)
    BY <1>1, <1>2, OlderIsPrefix DEF RunEtl
  <2> QED BY <1>2, <2>1 DEF RunEtl, GithubTypeOK, Dated, Piped, ReadCovered, FileCovered,
                            Explained, Changes, Places, Older
<1>3. CASE file # NoState
  <2>1. position' = file /\ file \in Nat /\ tooOld' = tooOld BY <1>3 DEF RunEtl, GithubTypeOK
  <2> QED BY <1>3, <2>1 DEF RunEtl, GithubTypeOK, Dated, Piped, ReadCovered, FileCovered,
                            Explained, Changes, Places
<1> QED BY <1>2, <1>3

\* The steps of the tap and of the target keep the invariant.
LEMMA PipelineStep ==
  GithubInv /\ (TapRecord \/ TapState \/ TapEnds \/ PersistState \/ TargetLoads \/ TargetEnds
                  \/ ProcessFails) => GithubInv'
<1> SUFFICES ASSUME GithubInv,
                    TapRecord \/ TapState \/ TapEnds \/ PersistState \/ TargetLoads
                      \/ TargetEnds \/ ProcessFails
             PROVE  GithubInv'
  OBVIOUS
<1> USE GithubAssumption DEF GithubInv, github, mirror, Places
<1>1. Dated'
  BY DEF Dated, Changes, TapRecord, TapState, TapEnds, PersistState, TargetLoads, TargetEnds,
         ProcessFails
<1>2. CASE TapRecord
  <2>1. GithubTypeOK' BY <1>2 DEF TapRecord, Written, GithubTypeOK
  <2>2. Piped' BY <1>2 DEF TapRecord, Written, Piped
  <2>3. ReadCovered'
    <3>1. 1..(position + 1) = (1..position) \cup {position + 1} BY DEF GithubTypeOK
    <3> QED BY <1>2, <3>1 DEF TapRecord, Written, ReadCovered, Explained, GithubTypeOK, Piped
  <2>4. FileCovered' BY <1>2 DEF TapRecord, Written, FileCovered, Explained
  <2> QED BY <1>1, <2>1, <2>2, <2>3, <2>4
<1>3. CASE TapState
  <2>1. GithubTypeOK' BY <1>3 DEF TapState, Written, GithubTypeOK
  <2>2. Piped' BY <1>3 DEF TapState, Written, Piped
  <2>3. ReadCovered' BY <1>3 DEF TapState, Written, ReadCovered, Explained, GithubTypeOK
  <2>4. FileCovered' BY <1>3 DEF TapState, Written, FileCovered, Explained
  <2> QED BY <1>1, <2>1, <2>2, <2>3, <2>4
<1>4. CASE TapEnds
  BY <1>1, <1>4 DEF TapEnds, GithubTypeOK, Piped, ReadCovered, FileCovered, Explained
<1>5. CASE PersistState
  <2>1. GithubTypeOK' BY <1>5 DEF PersistState, GithubTypeOK, ReadCovered
  <2>2. Piped' BY <1>5 DEF PersistState, Piped
  <2>3. ReadCovered' BY <1>5 DEF PersistState, ReadCovered
  <2>4. latestState # NoState => 1..latestState \subseteq Explained \cup inFlight
    BY <1>5 DEF PersistState, ReadCovered, GithubTypeOK
  <2>5. target # "done" /\ target # "off" BY <1>5 DEF PersistState, Piped
  <2>6. FileCovered' BY <1>5, <2>4, <2>5 DEF PersistState, FileCovered, Explained, GithubTypeOK
  <2> QED BY <1>1, <2>1, <2>2, <2>3, <2>6
<1>6. CASE TargetLoads
  <2>1. GithubTypeOK' BY <1>6 DEF TargetLoads, GithubTypeOK
  <2>2. Piped' BY <1>6 DEF TargetLoads, Piped
  <2>3. ReadCovered' BY <1>6 DEF TargetLoads, ReadCovered, Explained
  <2>4. FileCovered' BY <1>6 DEF TargetLoads, FileCovered, Explained
  <2> QED BY <1>1, <2>1, <2>2, <2>3, <2>4
<1>7. CASE TargetEnds
  BY <1>1, <1>7 DEF TargetEnds, GithubTypeOK, Piped, ReadCovered, FileCovered, Explained
<1>8. CASE ProcessFails
  <2>1. GithubTypeOK' BY <1>8 DEF ProcessFails, GithubTypeOK
  <2>2. Piped' BY <1>8 DEF ProcessFails, Piped
  <2>3. ReadCovered' BY <1>8 DEF ProcessFails, ReadCovered, Explained
  <2>4. FileCovered' BY <1>8 DEF ProcessFails, FileCovered, Explained
  <2> QED BY <1>1, <2>1, <2>2, <2>3, <2>4
<1> QED BY <1>2, <1>3, <1>4, <1>5, <1>6, <1>7, <1>8

\* The end of a run, the refresh, and changes at GitHub keep the invariant.
LEMMA StageStep ==
  GithubInv /\ (SyncEnds \/ GithubRefresh \/ Stopped \/ Change \/ Hour) => GithubInv'
<1> SUFFICES ASSUME GithubInv, SyncEnds \/ GithubRefresh \/ Stopped \/ Change \/ Hour
             PROVE  GithubInv'
  OBVIOUS
<1> USE GithubAssumption DEF GithubInv, mirror, pipeline, Places
<1>1. CASE SyncEnds
  BY <1>1 DEF SyncEnds, NoPipeline, GithubTypeOK, Dated, Piped, ReadCovered, FileCovered,
              Explained, Changes
<1>2. CASE GithubRefresh
  BY <1>2 DEF GithubRefresh, GithubTypeOK, Dated, Piped, ReadCovered, FileCovered,
              Explained, Changes
<1>3. CASE Stopped
  BY <1>3 DEF Stopped, NoPipeline, GithubTypeOK, Dated, Piped, ReadCovered, FileCovered,
              Explained, Changes
<1>4. CASE Change
  <2>1. /\ when' \in Seq(Nat) /\ Len(when') = Len(when) + 1
        /\ \A i \in 1..Len(when) : when'[i] = when[i]
        /\ when'[Len(when) + 1] = now
    BY <1>4 DEF Change, GithubTypeOK
  <2>2. DOMAIN when = 1..Len(when) /\ DOMAIN when' = 1..(Len(when) + 1) /\ Len(when) \in Nat
    BY <2>1 DEF GithubTypeOK
  <2>3. GithubTypeOK' BY <1>4, <2>1 DEF Change, GithubTypeOK
  <2>4. Dated' BY <1>4, <2>1, <2>2 DEF Change, Dated, Changes, GithubTypeOK
  <2> QED BY <1>4, <2>3, <2>4 DEF Change, Piped, ReadCovered, FileCovered, Explained
<1>5. CASE Hour
  <2>1. GithubTypeOK' BY <1>5 DEF Hour, GithubTypeOK
  <2>2. \A i \in Changes : when[i] \in Nat BY DEF Changes, GithubTypeOK
  <2>3. Dated' BY <1>5, <2>2 DEF Hour, Dated, Changes, GithubTypeOK
  <2> QED BY <1>5, <2>1, <2>3 DEF Hour, Piped, ReadCovered, FileCovered, Explained
<1> QED BY <1>1, <1>2, <1>3, <1>4, <1>5

\* Every step of the GitHub ETL keeps the invariant.
LEMMA GithubStep == GithubInv /\ [GithubNext]_<<now, mirror, githubVars>> => GithubInv'
<1>1. ASSUME GithubInv, UNCHANGED <<now, mirror, githubVars>> PROVE GithubInv'
  BY <1>1 DEF githubVars, github, pipeline, GithubInv, GithubTypeOK, Dated, Piped, ReadCovered,
              FileCovered, Explained, Changes
<1> QED BY <1>1, RunEtlStep, PipelineStep, StageStep DEF GithubNext

\* Whatever stops the GitHub ETL, the state file runs ahead of the tables only
\* when the target fails after persist_state has saved: for any number of changes,
\* failures and hours.
THEOREM SkipsAreExplained == GithubSpec => []SkipsExplained
<1>1. GithubInv => SkipsExplained
  BY DEF GithubInv, FileCovered, Explained, SkipsExplained, Behind
<1> QED BY <1>1, GithubStart, GithubStep, PTL DEF GithubSpec

-----------------------------------------------------------------------------
(***************************************************************************)
(* The live GitHub reader, for every repository, page size, limit and      *)
(* number of changes.  Its pages are cut by counting: the place of an item *)
(* in its list, and of an entry among those printed, is its rank in a      *)
(* finite order, and ranks leave no gap.  The inductive invariant says of  *)
(* what was on the list at the start that it is collected or still to      *)
(* come, of what is collected that it is not to come again, and, while     *)
(* the list stands still, that it is the list up to the page to ask for.   *)
(***************************************************************************)
\* Places in a finite order.

\* How many come before x.
Rank(S, R, x) == Cardinality({y \in S : <<y, x>> \in R})

StrictOrder(S, R) ==
  /\ \A x \in S : <<x, x>> \notin R
  /\ \A x, y \in S : x # y => <<x, y>> \in R \/ <<y, x>> \in R
  /\ \A x, y, z \in S : <<x, y>> \in R /\ <<y, z>> \in R => <<x, z>> \in R

\* In an order of finitely many the ranks are 0, 1, ... without a gap.
LEMMA RanksAreDense ==
  ASSUME NEW S, IsFiniteSet(S), NEW R, StrictOrder(S, R)
  PROVE  [x \in S |-> Rank(S, R, x)] \in Bijection(S, 0..(Cardinality(S) - 1))
<1> DEFINE prior(x) == {y \in S : <<y, x>> \in R}
           rank == [x \in S |-> Rank(S, R, x)]
<1>1. Cardinality(S) \in Nat BY FS_CardinalityType
<1>2. ASSUME NEW x \in S PROVE rank[x] \in Nat /\ rank[x] < Cardinality(S)
  <2>1. prior(x) \in SUBSET S /\ x \notin prior(x) BY DEF StrictOrder
  <2>2. IsFiniteSet(prior(x)) /\ Cardinality(prior(x)) <= Cardinality(S)
        /\ Cardinality(prior(x)) # Cardinality(S)
    BY <2>1, FS_Subset
  <2>3. Cardinality(prior(x)) \in Nat BY <2>2, FS_CardinalityType
  <2> QED BY <1>1, <2>2, <2>3 DEF Rank
<1>3. ASSUME NEW x \in S, NEW y \in S, <<x, y>> \in R PROVE rank[x] < rank[y]
  <2>1. prior(x) \in SUBSET prior(y) /\ x \in prior(y) /\ x \notin prior(x)
    BY <1>3 DEF StrictOrder
  <2>2. prior(y) \in SUBSET S OBVIOUS
  <2>3. IsFiniteSet(prior(y)) BY <2>2, FS_Subset
  <2>4. Cardinality(prior(x)) <= Cardinality(prior(y))
        /\ Cardinality(prior(x)) # Cardinality(prior(y))
    BY <2>1, <2>3, FS_Subset
  <2>5. rank[x] = Cardinality(prior(x)) /\ rank[y] = Cardinality(prior(y)) BY DEF Rank
  <2> QED BY <1>2, <2>4, <2>5
<1>4. rank \in [S -> 0..(Cardinality(S) - 1)] BY <1>1, <1>2
<1>5. \A x, y \in S : rank[x] = rank[y] => x = y
  <2> SUFFICES ASSUME NEW x \in S, NEW y \in S, x # y PROVE rank[x] # rank[y] OBVIOUS
  <2>1. <<x, y>> \in R \/ <<y, x>> \in R BY DEF StrictOrder
  <2> QED BY <1>2, <1>3, <2>1
<1>6. rank \in Injection(S, 0..(Cardinality(S) - 1)) BY <1>4, <1>5 DEF Injection, IsInjective
<1>7. IsFiniteSet(0..(Cardinality(S) - 1)) /\ Cardinality(0..(Cardinality(S) - 1)) = Cardinality(S)
  BY <1>1, FS_Interval
<1>8. rank \in Surjection(S, 0..(Cardinality(S) - 1)) BY <1>6, <1>7, FS_Injection
<1> QED BY <1>6, <1>8 DEF Bijection

\* Those with a rank from a up to b.
Ranked(S, R, a, b) == {x \in S : a <= Rank(S, R, x) /\ Rank(S, R, x) < b}

\* There are as many of them as there are numbers, if b is a rank or the end.
LEMMA RanksFrom ==
  ASSUME NEW S, IsFiniteSet(S), NEW R, StrictOrder(S, R),
         NEW a \in Nat, NEW b \in Nat, a <= b, b <= Cardinality(S)
  PROVE  Cardinality(Ranked(S, R, a, b)) = b - a
<1> DEFINE rank == [x \in S |-> Rank(S, R, x)]
           T == {x \in S : a <= Rank(S, R, x) /\ Rank(S, R, x) < b}
           f == [x \in T |-> rank[x]]
<1>1. rank \in Bijection(S, 0..(Cardinality(S) - 1)) BY RanksAreDense
<1>2. Cardinality(S) \in Nat BY FS_CardinalityType
<1>3. /\ rank \in [S -> 0..(Cardinality(S) - 1)]
      /\ \A x, y \in S : rank[x] = rank[y] => x = y
      /\ \A t \in 0..(Cardinality(S) - 1) : \E x \in S : rank[x] = t
  BY <1>1 DEF Bijection, Injection, Surjection, IsInjective
<1>4. \A x \in S : rank[x] = Rank(S, R, x) OBVIOUS
<1> HIDE DEF rank
<1>5. f \in [T -> a..(b - 1)]
  <2> SUFFICES ASSUME NEW x \in T PROVE rank[x] \in a..(b - 1) OBVIOUS
  <2> QED BY <1>3, <1>4
<1>6. f \in Injection(T, a..(b - 1)) BY <1>3, <1>5 DEF Injection, IsInjective
<1>7. ASSUME NEW t \in a..(b - 1) PROVE \E x \in T : f[x] = t
  <2>1. t \in 0..(Cardinality(S) - 1) BY <1>2
  <2>2. PICK x \in S : rank[x] = t BY <1>3, <2>1
  <2> QED BY <1>4, <2>2
<1>8. f \in Surjection(T, a..(b - 1)) BY <1>5, <1>7 DEF Surjection
<1>9. IsFiniteSet(a..(b - 1)) /\ Cardinality(a..(b - 1)) = b - a
  <2>1. a \in Int /\ b - 1 \in Int OBVIOUS
  <2>2. /\ IsFiniteSet(a..(b - 1))
        /\ Cardinality(a..(b - 1)) = IF a > b - 1 THEN 0 ELSE (b - 1) - a + 1
    BY <2>1, FS_Interval
  <2>3. (IF a > b - 1 THEN 0 ELSE (b - 1) - a + 1) = b - a OBVIOUS
  <2> QED BY <2>2, <2>3
<1>10. Cardinality(T) = b - a BY <1>6, <1>8, <1>9, FS_Injection
<1> QED BY <1>10 DEF Ranked

-----------------------------------------------------------------------------
\* Pages.

\* The newer items of a list.
Newer(list, i) == {j \in list : j > i}

Page(n, i) == PageNumber(List(n), question.pageSize, i)

\* The page of an item, by the number of the newer ones.
LEMMA PageBounds ==
  ASSUME NEW list \in SUBSET Nat, IsFiniteSet(list), NEW size \in Nat \ {0}, NEW i \in Nat
  PROVE  /\ Cardinality(Newer(list, i)) \in Nat
         /\ PageNumber(list, size, i) \in Nat \ {0}
         /\ (PageNumber(list, size, i) - 1) * size <= Cardinality(Newer(list, i))
         /\ Cardinality(Newer(list, i)) < PageNumber(list, size, i) * size
<1>1. Newer(list, i) \in SUBSET list BY DEF Newer
<1>2. Cardinality(Newer(list, i)) \in Nat BY <1>1, FS_Subset, FS_CardinalityType
<1>3. PICK c \in Nat : c = Cardinality(Newer(list, i)) BY <1>2
<1> DEFINE d == c \div size  r == c % size
<1>4. d \in Int /\ r \in 0..(size - 1) /\ c = size * d + r OBVIOUS
<1>5. PageNumber(list, size, i) = 1 + d BY <1>3 DEF PageNumber, Newer
<1>6. d \in Nat
  <2>1. CASE d < 0
    <3>1. d <= -1 BY <1>4, <2>1
    <3>2. size * d <= size * (-1) BY <1>4, <3>1
    <3> QED BY <1>4, <3>2
  <2> QED BY <1>4, <2>1
<1>7. PICK q \in Nat : q = d BY <1>6
<1>8. (q + 1 - 1) * size <= c /\ c < (q + 1) * size
  <2>1. (q + 1) * size = q * size + size /\ (q + 1 - 1) * size = q * size /\ size * q = q * size
    OBVIOUS
  <2> QED BY <1>4, <1>7, <2>1
<1>9. PageNumber(list, size, i) = q + 1 BY <1>5, <1>7
<1> QED BY <1>3, <1>8, <1>9

\* Multiples of a page size are ordered like their factors.
LEMMA Multiples ==
  ASSUME NEW size \in Nat \ {0}, NEW a \in Nat, NEW b \in Nat, a < b
  PROVE  a * size + size <= b * size
<1>1. PICK k \in Nat : b = a + 1 + k BY b - a - 1 \in Nat
<1>2. b * size = a * size + size + k * size BY <1>1
<1>3. k * size \in Nat OBVIOUS
<1> QED BY <1>2, <1>3

\* The page of an item is p if its number of newer ones is in the p-th interval.
LEMMA PageIs ==
  ASSUME NEW list \in SUBSET Nat, IsFiniteSet(list), NEW size \in Nat \ {0}, NEW i \in Nat,
         NEW p \in Nat \ {0}
  PROVE  PageNumber(list, size, i) = p <=>
           (p - 1) * size <= Cardinality(Newer(list, i)) /\ Cardinality(Newer(list, i)) < p * size
<1> DEFINE n == PageNumber(list, size, i)  c == Cardinality(Newer(list, i))
<1>1. /\ c \in Nat /\ n \in Nat \ {0} /\ (n - 1) * size <= c /\ c < n * size BY PageBounds
<1> HIDE DEF n, c
<1>2. ASSUME n < p PROVE c < (p - 1) * size
  <2>1. n * size + size <= p * size BY <1>1, <1>2, Multiples
  <2>2. (p - 1) * size = p * size - size OBVIOUS
  <2> QED BY <1>1, <2>1, <2>2
<1>3. ASSUME p < n PROVE p * size <= c
  <2>1. p * size + size <= n * size BY <1>1, <1>3, Multiples
  <2>2. (n - 1) * size = n * size - size BY <1>1
  <2> QED BY <1>1, <2>1, <2>2
<1>4. (p - 1) * size \in Int /\ p * size \in Int OBVIOUS
<1>5. CASE n < p BY <1>1, <1>2, <1>4, <1>5 DEF n, c
<1>6. CASE p < n BY <1>1, <1>3, <1>4, <1>6 DEF n, c
<1>7. CASE n = p BY <1>1, <1>7 DEF n, c
<1> QED BY <1>1, <1>5, <1>6, <1>7

\* In a longer list an item is on the same page or on a later one.
LEMMA PagesGrow ==
  ASSUME NEW list \in SUBSET Nat, IsFiniteSet(list), NEW more \in SUBSET Nat, IsFiniteSet(more),
         list \subseteq more, NEW size \in Nat \ {0}, NEW i \in Nat
  PROVE  PageNumber(list, size, i) <= PageNumber(more, size, i)
<1> DEFINE m == PageNumber(list, size, i)  n == PageNumber(more, size, i)
<1>1. /\ Cardinality(Newer(list, i)) \in Nat /\ m \in Nat \ {0}
      /\ (m - 1) * size <= Cardinality(Newer(list, i))
  BY PageBounds
<1>2. /\ Cardinality(Newer(more, i)) \in Nat /\ n \in Nat \ {0}
      /\ Cardinality(Newer(more, i)) < n * size
  BY PageBounds
<1>3. Cardinality(Newer(list, i)) <= Cardinality(Newer(more, i))
  <2>1. Newer(more, i) \in SUBSET more /\ Newer(list, i) \in SUBSET Newer(more, i)
    BY DEF Newer
  <2> QED BY <2>1, FS_Subset
<1> HIDE DEF m, n
<1>4. ASSUME n < m PROVE FALSE
  <2>1. n * size + size <= m * size BY <1>1, <1>2, <1>4, Multiples
  <2>2. (m - 1) * size = m * size - size BY <1>1
  <2>3. n * size \in Nat BY <1>2
  <2> QED BY <1>1, <1>2, <1>3, <2>1, <2>2, <2>3
<1> QED BY <1>1, <1>2, <1>4 DEF m, n

\* A page before the page of an item is full.
LEMMA EarlierPageIsFull ==
  ASSUME NEW list \in SUBSET Nat, IsFiniteSet(list), NEW size \in Nat \ {0}, NEW i \in list,
         NEW p \in Nat \ {0}, p < PageNumber(list, size, i)
  PROVE  Cardinality(PageOf(list, size, p)) = size
<1> DEFINE R == {w \in list \X list : w[1] > w[2]}
<1>1. StrictOrder(list, R) BY DEF StrictOrder
<1>2. \A j \in list : Rank(list, R, j) = Cardinality(Newer(list, j))
  <2> TAKE j \in list
  <2>1. {y \in list : <<y, j>> \in R} = Newer(list, j) BY DEF Newer
  <2> QED BY <2>1 DEF Rank
<1>3. PICK n \in Nat : n = PageNumber(list, size, i) BY PageBounds
<1>4. (n - 1) * size <= Cardinality(Newer(list, i)) /\ Cardinality(Newer(list, i)) \in Nat
  BY <1>3, PageBounds
<1>5. p * size <= Cardinality(Newer(list, i))
  <2>1. p * size + size <= n * size BY <1>3, Multiples
  <2>2. (n - 1) * size = n * size - size /\ p * size \in Nat OBVIOUS
  <2> QED BY <1>4, <2>1, <2>2
<1>6. p * size <= Cardinality(list)
  <2>1. Newer(list, i) \in SUBSET list BY DEF Newer
  <2>2. Cardinality(Newer(list, i)) <= Cardinality(list) /\ Cardinality(list) \in Nat
    BY <2>1, FS_Subset, FS_CardinalityType
  <2> QED BY <1>4, <1>5, <2>2
<1>7. /\ (p - 1) * size \in Nat /\ p * size \in Nat /\ (p - 1) * size <= p * size
      /\ p * size - (p - 1) * size = size
  <2>1. p - 1 \in Nat OBVIOUS
  <2>2. (p - 1) * size \in Nat BY <2>1
  <2>3. p * size = (p - 1) * size + size OBVIOUS
  <2> QED BY <2>2, <2>3
<1>8. PageOf(list, size, p) =
        {j \in list : (p - 1) * size <= Rank(list, R, j) /\ Rank(list, R, j) < p * size}
  <2>1. ASSUME NEW j \in list
        PROVE  PageNumber(list, size, j) = p <=>
                 (p - 1) * size <= Rank(list, R, j) /\ Rank(list, R, j) < p * size
    BY <1>2, PageIs
  <2> QED BY <2>1 DEF PageOf
<1> HIDE DEF R
<1>9. PICK a \in Nat, b \in Nat : a = (p - 1) * size /\ b = p * size BY <1>7
<1>11. a <= b /\ b <= Cardinality(list) BY <1>6, <1>7, <1>9
<1>10. Cardinality(Ranked(list, R, a, b)) = b - a BY <1>1, <1>11, RanksFrom
<1>12. b - a = size BY <1>7, <1>9
<1>13. Cardinality({j \in list : a <= Rank(list, R, j) /\ Rank(list, R, j) < b}) = size
  BY <1>10, <1>12 DEF Ranked
<1> QED BY <1>8, <1>9, <1>13

-----------------------------------------------------------------------------
\* What is collected.

\* The questions there are, whatever their sizes.
QuestionTypes ==
  [route : {"issues", "pulls", "item", "other"},
   lists : {<<"open">>, <<"closed">>, <<"all">>, <<"open", "closed">>},
   paginate : BOOLEAN, excludePulls : BOOLEAN, limit : {NoLimit} \cup (Nat \ {0}),
   pageSize : Nat \ {0}, start : Nat \ {0}, maxPages : Nat]

LiveTypeOK ==
  /\ kinds \in Seq({"issue", "pull"})
  /\ question # NoQuestion => question \in QuestionTypes /\ listNo \in DOMAIN question.lists
  /\ pageNo \in Nat \ {0}
  /\ IsFiniteSet(results) /\ results \subseteq Nat \X Nat \X Nat
  /\ grew \in BOOLEAN /\ shrank \in BOOLEAN /\ atStart \subseteq DOMAIN kinds

\* The item is listed, on a page that is still to be read: from page p of list n on.
After(i, n, p) ==
  \E m \in DOMAIN question.lists :
    i \in List(m) /\ (m > n \/ (m = n /\ Page(m, i) >= p))

ToCome(i) == After(i, listNo, pageNo)

NothingMissed ==
  question # NoQuestion /\ question.start = 1 /\ ~shrank =>
    \A i \in Kept(atStart) : i \in ItemsOf(results) \/ ToCome(i)

NothingTwice ==
  question # NoQuestion /\ ~grew =>
    \A e \in results :
      /\ ~ToCome(e[3])
      /\ \A f \in results : e[3] = f[3] => e = f

\* What is wanted of the pages before page p of list n.
WantedBefore(n, p) == {e \in Wanted : e[1] < n \/ (e[1] = n /\ e[2] < p)}

AsListed ==
  question # NoQuestion /\ question.start = 1 /\ ~grew /\ ~shrank =>
    results = WantedBefore(listNo, pageNo)

LiveInv == LiveTypeOK /\ NothingMissed /\ NothingTwice /\ AsListed /\ CompleteIsComplete

\* The commands ask questions of these types.
LEMMA QuestionsTyped == Questions \subseteq QuestionTypes
<1> SUFFICES ASSUME NEW q \in Questions PROVE q \in QuestionTypes OBVIOUS
<1>1. LivePage \in Nat \ {0} /\ PerPage \subseteq Nat \ {0} /\ LivePage \in PerPage
  BY LiveAssumption DEF PerPage
<1>2. CASE q \in GetQuestions
  <2>1. /\ {"issues", "pulls"} \subseteq {"issues", "pulls", "item", "other"}
        /\ {<<"open">>, <<"all">>} \subseteq {<<"open">>, <<"closed">>, <<"all">>, <<"open", "closed">>}
        /\ {NoLimit, LivePage} \subseteq {NoLimit} \cup (Nat \ {0})
        /\ 1..2 \subseteq Nat \ {0} /\ {0, 2} \subseteq Nat
    BY <1>1
  <2> QED BY <1>1, <1>2, <2>1 DEF GetQuestions, QuestionTypes
<1>3. ASSUME NEW route \in {"issues", "pulls", "item", "other"}, NEW state \in States
      PROVE  Plain(route, state) \in QuestionTypes
  BY <1>1 DEF Plain, QuestionTypes, States
<1>4. CASE q \in IssuesCommand
  <2>1. /\ {<<state>> : state \in States} \subseteq {<<"open">>, <<"closed">>, <<"all">>, <<"open", "closed">>}
        /\ PerPage \subseteq {NoLimit} \cup (Nat \ {0})
    BY <1>1 DEF States
  <2>2. PICK lists, limits, yes :
          lists = {<<state>> : state \in States} /\ limits = PerPage /\ yes = {TRUE}
    OBVIOUS
  <2>3. q \in [route : {"issues"}, lists : lists, paginate : yes, excludePulls : yes,
               limit : limits, pageSize : {LivePage}, start : {1}, maxPages : {0}]
    BY <1>4, <2>2 DEF IssuesCommand
  <2>4. /\ lists \subseteq {<<"open">>, <<"closed">>, <<"all">>, <<"open", "closed">>}
        /\ limits \subseteq {NoLimit} \cup (Nat \ {0}) /\ yes \subseteq BOOLEAN
    BY <2>1, <2>2
  <2> QED BY <1>1, <2>3, <2>4 DEF QuestionTypes
<1>5. CASE q = IssueCounts BY <1>3, <1>5 DEF IssueCounts, QuestionTypes, States
<1>6. CASE q \in PullCounts
  <2>1. PICK state \in States :
          q = [Plain("pulls", state) EXCEPT !.paginate = TRUE,
                 !.lists = IF state = "all" THEN <<"open", "closed">> ELSE <<state>>]
    BY <1>6 DEF PullCounts
  <2>2. (IF state = "all" THEN <<"open", "closed">> ELSE <<state>>) \in
          {<<"open">>, <<"closed">>, <<"all">>, <<"open", "closed">>}
    BY DEF States
  <2>3. Plain("pulls", state) \in QuestionTypes BY <1>3
  <2> QED BY <2>1, <2>2, <2>3 DEF QuestionTypes
<1>7. CASE q \in OnePageCommands
  <2>1. PICK state \in States, size \in PerPage : q = [Plain("pulls", state) EXCEPT !.pageSize = size]
    BY <1>7 DEF OnePageCommands
  <2> QED BY <1>1, <1>3, <2>1 DEF QuestionTypes
<1>8. CASE q \in {Plain("item", "open"), Plain("other", "open"),
                  [Plain("item", "open") EXCEPT !.paginate = TRUE]}
  BY <1>3, <1>8 DEF QuestionTypes, States
<1> QED BY <1>2, <1>4, <1>5, <1>6, <1>7, <1>8 DEF Questions

\* A list has finitely many items, and nothing is on two lists of a question.
LEMMA Listings ==
  ASSUME LiveTypeOK, question # NoQuestion
  PROVE  /\ DOMAIN question.lists \subseteq 1..2 /\ DOMAIN question.lists = 1..Len(question.lists)
         /\ \A n \in DOMAIN question.lists :
              /\ List(n) \subseteq 1..Len(kinds) /\ List(n) \in SUBSET Nat /\ IsFiniteSet(List(n))
              /\ \A m \in DOMAIN question.lists : m # n => List(m) \cap List(n) = {}
<1>1. question.lists \in {<<"open">>, <<"closed">>, <<"all">>, <<"open", "closed">>}
  BY DEF LiveTypeOK, QuestionTypes
<1>2. DOMAIN question.lists \subseteq 1..2 /\ DOMAIN question.lists = 1..Len(question.lists)
  BY <1>1
<1>3. Len(kinds) \in Nat /\ DOMAIN kinds = 1..Len(kinds) BY DEF LiveTypeOK
<1>4. IsFiniteSet(1..Len(kinds)) BY <1>3, FS_Interval
<1>5. ASSUME NEW n \in DOMAIN question.lists
      PROVE  List(n) \subseteq 1..Len(kinds) /\ List(n) \in SUBSET Nat /\ IsFiniteSet(List(n))
  <2>1. List(n) \in SUBSET (1..Len(kinds)) BY <1>3 DEF List, Listed
  <2>2. IsFiniteSet(List(n)) BY <1>4, <2>1, FS_Subset
  <2> QED BY <1>3, <2>1, <2>2
<1>6. ASSUME NEW n \in DOMAIN question.lists, NEW m \in DOMAIN question.lists, m # n
      PROVE  List(m) \cap List(n) = {}
  <2>1. question.lists = <<"open", "closed">> BY <1>1, <1>6
  <2>2. question.lists[1] = "open" /\ question.lists[2] = "closed" BY <2>1
  <2>3. (m = 1 /\ n = 2) \/ (m = 2 /\ n = 1) BY <1>2, <1>6
  <2> QED BY <2>2, <2>3 DEF List, Listed
<1> QED BY <1>2, <1>5, <1>6

\* The page of a listed item.
LEMMA PageTyped ==
  ASSUME LiveTypeOK, question # NoQuestion, NEW n \in DOMAIN question.lists, NEW i \in List(n)
  PROVE  Page(n, i) \in Nat \ {0} /\ i \in Nat
<1>1. question.pageSize \in Nat \ {0} BY DEF LiveTypeOK, QuestionTypes
<1>2. List(n) \in SUBSET Nat /\ IsFiniteSet(List(n)) BY Listings
<1> QED BY <1>1, <1>2, PageBounds DEF Page

\* What is kept of a page, item by item.
LEMMA KeptIs ==
  ASSUME NEW S, NEW i
  PROVE  i \in Kept(S) <=> i \in S /\ (question.excludePulls => kinds[i] = "issue")
BY DEF Kept, IssueOnly

\* What the next page shows, item by item.
LEMMA NextPageIs ==
  ASSUME NEW i
  PROVE  i \in NextPage <=> i \in List(listNo) /\ Page(listNo, i) = pageNo
BY DEF NextPage, PageOf, Page

\* What is wanted, entry by entry.
LEMMA WantedIs ==
  ASSUME NEW e
  PROVE  e \in Wanted <=> \E n \in DOMAIN question.lists : \E i \in Kept(List(n)) : e = <<n, Page(n, i), i>>
BY DEF Wanted, Page
\* What is still to come, before and after a page.
LEMMA AfterPage ==
  ASSUME LiveTypeOK, question # NoQuestion, NEW i
  PROVE  ToCome(i) <=> i \in NextPage \/ After(i, listNo, pageNo + 1)
<1>1. listNo \in DOMAIN question.lists /\ pageNo \in Nat BY DEF LiveTypeOK
<1>2. DOMAIN question.lists \subseteq Nat BY Listings
<1>3. ASSUME ToCome(i) PROVE i \in NextPage \/ After(i, listNo, pageNo + 1)
  <2>1. PICK m \in DOMAIN question.lists :
          i \in List(m) /\ (m > listNo \/ (m = listNo /\ Page(m, i) >= pageNo))
    BY <1>3 DEF ToCome, After
  <2>2. Page(m, i) \in Nat BY <2>1, PageTyped
  <2>3. CASE m = listNo /\ Page(m, i) = pageNo BY <2>1, <2>3, NextPageIs
  <2>4. CASE m > listNo \/ (m = listNo /\ Page(m, i) >= pageNo + 1) BY <2>1, <2>4 DEF After
  <2> QED BY <1>1, <2>1, <2>2, <2>3, <2>4
<1>4. ASSUME i \in NextPage PROVE ToCome(i)
  <2>1. i \in List(listNo) /\ Page(listNo, i) = pageNo BY <1>4, NextPageIs
  <2> QED BY <1>1, <2>1 DEF ToCome, After
<1>5. ASSUME After(i, listNo, pageNo + 1) PROVE ToCome(i)
  <2>1. PICK m \in DOMAIN question.lists :
          i \in List(m) /\ (m > listNo \/ (m = listNo /\ Page(m, i) >= pageNo + 1))
    BY <1>5 DEF After
  <2>2. Page(m, i) \in Nat BY <2>1, PageTyped
  <2>3. m > listNo \/ (m = listNo /\ Page(m, i) >= pageNo) BY <1>1, <2>1, <2>2
  <2> QED BY <2>1, <2>3 DEF ToCome, After
<1> QED BY <1>3, <1>4, <1>5

\* The entries of the next page are what is wanted of it.
LEMMA NextEntries ==
  ASSUME LiveTypeOK, question # NoQuestion, NEW e
  PROVE  /\ e \in Entries(Kept(NextPage)) <=>
              e \in Wanted /\ e[1] = listNo /\ e[2] = pageNo
         /\ e \in Entries(Kept(NextPage)) =>
              e = <<listNo, pageNo, e[3]>> /\ e[3] \in NextPage /\ e[3] \in Kept(NextPage)
<1>1. listNo \in DOMAIN question.lists BY DEF LiveTypeOK
<1>2. ASSUME e \in Entries(Kept(NextPage))
      PROVE  /\ e \in Wanted /\ e[1] = listNo /\ e[2] = pageNo
             /\ e = <<listNo, pageNo, e[3]>> /\ e[3] \in NextPage /\ e[3] \in Kept(NextPage)
  <2>1. e = <<listNo, pageNo, e[3]>> /\ e[3] \in Kept(NextPage) BY <1>2 DEF Entries
  <2>2. PICK i : i = e[3] OBVIOUS
  <2>3. i \in NextPage /\ (question.excludePulls => kinds[i] = "issue") BY <2>1, <2>2, KeptIs
  <2>4. i \in List(listNo) /\ Page(listNo, i) = pageNo BY <2>3, NextPageIs
  <2>5. i \in Kept(List(listNo)) BY <2>3, <2>4, KeptIs
  <2>6. e = <<listNo, Page(listNo, i), i>> BY <2>1, <2>2, <2>4
  <2> QED BY <1>1, <2>1, <2>2, <2>3, <2>5, <2>6, WantedIs
<1>3. ASSUME e \in Wanted, e[1] = listNo, e[2] = pageNo PROVE e \in Entries(Kept(NextPage))
  <2>1. PICK n, i : n \in DOMAIN question.lists /\ i \in Kept(List(n)) /\ e = <<n, Page(n, i), i>>
    BY <1>3, WantedIs
  <2>2. n = listNo /\ Page(listNo, i) = pageNo BY <1>3, <2>1
  <2>3. i \in List(listNo) /\ (question.excludePulls => kinds[i] = "issue") BY <2>1, <2>2, KeptIs
  <2>4. i \in NextPage BY <2>2, <2>3, NextPageIs
  <2>5. i \in Kept(NextPage) BY <2>3, <2>4, KeptIs
  <2> QED BY <2>1, <2>2, <2>5 DEF Entries
<1> QED BY <1>2, <1>3

\* A page is finite, and what is wanted of all pages is.
LEMMA NextFinite ==
  ASSUME LiveTypeOK, question # NoQuestion
  PROVE  /\ IsFiniteSet(Entries(Kept(NextPage)))
         /\ Entries(Kept(NextPage)) \subseteq Nat \X Nat \X Nat
<1>1. listNo \in DOMAIN question.lists /\ pageNo \in Nat BY DEF LiveTypeOK
<1>2. List(listNo) \in SUBSET Nat /\ IsFiniteSet(List(listNo)) /\ listNo \in Nat
  BY <1>1, Listings
<1>3. Kept(NextPage) \in SUBSET List(listNo)
  <2> SUFFICES ASSUME NEW i \in Kept(NextPage) PROVE i \in List(listNo) OBVIOUS
  <2> QED BY KeptIs, NextPageIs
<1>4. IsFiniteSet(Kept(NextPage)) BY <1>2, <1>3, FS_Subset
<1>5. {listNo} \X {pageNo} \X Kept(NextPage) \subseteq Nat \X Nat \X Nat BY <1>1, <1>2, <1>3
<1>6. IsFiniteSet({listNo} \X {pageNo} \X Kept(NextPage))
  <2> DEFINE K == Kept(NextPage)  T == {listNo} \X {pageNo} \X K
             f == [e \in T |-> e[3]]
  <2>1. f \in Injection(T, K) BY DEF Injection, IsInjective
  <2> QED BY <1>4, <2>1, FS_Injection
<1> QED BY <1>5, <1>6 DEF Entries

\* What holds of all that is collected with one page more.
LEMMA Collected ==
  ASSUME LiveInv, question # NoQuestion, NEW all, all = results \cup Entries(Kept(NextPage))
  PROVE  /\ IsFiniteSet(all) /\ all \subseteq Nat \X Nat \X Nat
         /\ question.start = 1 /\ ~shrank =>
              \A i \in Kept(atStart) : i \in ItemsOf(all) \/ After(i, listNo, pageNo + 1)
         /\ ~grew => \A e \in all : /\ ~After(e[3], listNo, pageNo + 1)
                                    /\ \A f \in all : e[3] = f[3] => e = f
         /\ question.start = 1 /\ ~grew /\ ~shrank => all = WantedBefore(listNo, pageNo + 1)
<1> USE DEF LiveInv
<1>1. IsFiniteSet(all) /\ all \subseteq Nat \X Nat \X Nat
  BY NextFinite, FS_Union DEF LiveTypeOK
<1>2. ASSUME question.start = 1, ~shrank, NEW i \in Kept(atStart)
      PROVE  i \in ItemsOf(all) \/ After(i, listNo, pageNo + 1)
  <2>1. i \in ItemsOf(results) \/ ToCome(i) BY <1>2 DEF NothingMissed
  <2>2. CASE i \in ItemsOf(results) BY <2>2 DEF ItemsOf
  <2>3. CASE i \in NextPage
    <3>1. i \in Kept(NextPage) BY <2>3, KeptIs
    <3>2. <<listNo, pageNo, i>> \in all /\ <<listNo, pageNo, i>>[3] = i BY <3>1 DEF Entries
    <3> QED BY <3>2 DEF ItemsOf
  <2> QED BY <2>1, <2>2, <2>3, AfterPage
<1>3. ASSUME ~grew, NEW e \in all
      PROVE  ~After(e[3], listNo, pageNo + 1) /\ \A f \in all : e[3] = f[3] => e = f
  <2>1. ASSUME NEW f \in results PROVE f[3] \notin NextPage /\ ~After(f[3], listNo, pageNo + 1)
    <3>1. ~ToCome(f[3]) BY <1>3 DEF NothingTwice
    <3> QED BY <3>1, AfterPage
  <2>2. ASSUME NEW f \in Entries(Kept(NextPage))
        PROVE  f = <<listNo, pageNo, f[3]>> /\ f[3] \in NextPage
    BY NextEntries
  <2>3. ASSUME NEW i \in NextPage PROVE ~After(i, listNo, pageNo + 1)
    <3> SUFFICES ASSUME After(i, listNo, pageNo + 1) PROVE FALSE OBVIOUS
    <3>1. PICK m \in DOMAIN question.lists :
            i \in List(m) /\ (m > listNo \/ (m = listNo /\ Page(m, i) >= pageNo + 1))
      BY DEF After
    <3>2. i \in List(listNo) /\ Page(listNo, i) = pageNo BY NextPageIs
    <3>3. listNo \in DOMAIN question.lists /\ pageNo \in Nat BY DEF LiveTypeOK
    <3>4. m = listNo BY <3>1, <3>2, <3>3, Listings
    <3> QED BY <3>1, <3>2, <3>3, <3>4, Listings
  <2>4. ~After(e[3], listNo, pageNo + 1) BY <2>1, <2>2, <2>3
  <2>5. ASSUME NEW f \in all, e[3] = f[3] PROVE e = f
    <3>1. CASE e \in results /\ f \in results BY <1>3, <2>5, <3>1 DEF NothingTwice
    <3>2. CASE e \in Entries(Kept(NextPage)) /\ f \in Entries(Kept(NextPage))
      BY <2>2, <2>5, <3>2
    <3>3. ~(e \in results /\ f \in Entries(Kept(NextPage))) BY <2>1, <2>2, <2>5
    <3>4. ~(f \in results /\ e \in Entries(Kept(NextPage))) BY <2>1, <2>2, <2>5
    <3> QED BY <3>1, <3>2, <3>3, <3>4
  <2> QED BY <2>4, <2>5
<1>4. ASSUME question.start = 1, ~grew, ~shrank PROVE all = WantedBefore(listNo, pageNo + 1)
  <2>1. results = WantedBefore(listNo, pageNo) BY <1>4 DEF AsListed
  <2>2. ASSUME NEW e \in Wanted PROVE e[1] \in Nat /\ e[2] \in Nat
    <3>1. PICK n, i : n \in DOMAIN question.lists /\ i \in Kept(List(n)) /\ e = <<n, Page(n, i), i>>
      BY WantedIs
    <3>2. i \in List(n) BY <3>1, KeptIs
    <3> QED BY <3>1, <3>2, PageTyped, Listings
  <2>3. pageNo \in Nat BY DEF LiveTypeOK
  <2>4. ASSUME NEW e PROVE e \in all <=> e \in WantedBefore(listNo, pageNo + 1)
    <3>1. e \in all <=> e \in WantedBefore(listNo, pageNo) \/ (e \in Wanted /\ e[1] = listNo /\ e[2] = pageNo)
      BY <2>1, NextEntries
    <3>2. ASSUME e \in Wanted
          PROVE  e[2] < pageNo + 1 <=> e[2] < pageNo \/ e[2] = pageNo
      BY <2>2, <2>3, <3>2
    <3> QED BY <3>1, <3>2 DEF WantedBefore
  <2> QED BY <2>4
<1> QED BY <1>1, <1>2, <1>3, <1>4

\* After the last page of a list nothing is to come but the lists after it.
LEMMA ListEnds ==
  ASSUME LiveTypeOK, question # NoQuestion, PageIsLast(NextPage)
  PROVE  /\ \A i : After(i, listNo, pageNo + 1) <=> After(i, listNo + 1, 1)
         /\ WantedBefore(listNo, pageNo + 1) = WantedBefore(listNo + 1, 1)
         /\ listNo = Len(question.lists) =>
              WantedBefore(listNo + 1, 1) = Wanted /\ \A i : ~After(i, listNo + 1, 1)
<1>1. /\ listNo \in DOMAIN question.lists /\ pageNo \in Nat \ {0}
      /\ question.pageSize \in Nat \ {0}
  BY DEF LiveTypeOK, QuestionTypes
<1>2. /\ DOMAIN question.lists \subseteq 1..2 /\ DOMAIN question.lists = 1..Len(question.lists)
      /\ List(listNo) \in SUBSET Nat /\ IsFiniteSet(List(listNo))
  BY <1>1, Listings
<1>3. ASSUME NEW i \in List(listNo) PROVE Page(listNo, i) <= pageNo
  <2>1. Page(listNo, i) \in Nat BY <1>1, PageTyped
  <2>2. CASE pageNo < Page(listNo, i)
    <3>1. Cardinality(NextPage) = question.pageSize
      BY <1>1, <1>2, <2>2, EarlierPageIsFull DEF NextPage, Page
    <3> QED BY <1>1, <3>1 DEF PageIsLast
  <2> QED BY <1>1, <2>1, <2>2
<1>4. ASSUME NEW i PROVE After(i, listNo, pageNo + 1) <=> After(i, listNo + 1, 1)
  <2>1. ASSUME NEW m \in DOMAIN question.lists, i \in List(m)
        PROVE  m > listNo \/ (m = listNo /\ Page(m, i) >= pageNo + 1)
                 <=> m > listNo + 1 \/ (m = listNo + 1 /\ Page(m, i) >= 1)
    <3>1. Page(m, i) \in Nat \ {0} BY <2>1, PageTyped
    <3>2. m = listNo => Page(m, i) <= pageNo BY <1>3, <2>1
    <3>3. m \in Nat /\ listNo \in Nat BY <1>1, <1>2
    <3> QED BY <1>1, <3>1, <3>2, <3>3
  <2> QED BY <2>1 DEF After
<1>5. ASSUME NEW e \in Wanted
      PROVE  /\ e[1] \in DOMAIN question.lists /\ e[2] \in Nat \ {0}
             /\ e[1] = listNo => e[2] <= pageNo
  <2>1. PICK n, i : n \in DOMAIN question.lists /\ i \in Kept(List(n)) /\ e = <<n, Page(n, i), i>>
    BY WantedIs
  <2>2. i \in List(n) BY <2>1, KeptIs
  <2> QED BY <1>3, <2>1, <2>2, PageTyped
<1>6. ASSUME NEW e \in Wanted
      PROVE  e[1] < listNo \/ (e[1] = listNo /\ e[2] < pageNo + 1)
               <=> e[1] < listNo + 1 \/ (e[1] = listNo + 1 /\ e[2] < 1)
  BY <1>1, <1>2, <1>5
<1>7. WantedBefore(listNo, pageNo + 1) = WantedBefore(listNo + 1, 1) BY <1>6 DEF WantedBefore
<1>8. ASSUME listNo = Len(question.lists)
      PROVE  WantedBefore(listNo + 1, 1) = Wanted /\ \A i : ~After(i, listNo + 1, 1)
  <2>1. \A m \in DOMAIN question.lists : m < listNo + 1 BY <1>1, <1>2, <1>8
  <2>2. WantedBefore(listNo + 1, 1) = Wanted BY <1>5, <2>1 DEF WantedBefore
  <2>3. \A m \in DOMAIN question.lists : m \in Nat BY <1>2
  <2> QED BY <1>1, <1>2, <2>1, <2>2, <2>3 DEF After
<1> QED BY <1>4, <1>7, <1>8
-----------------------------------------------------------------------------
(* The limit *)

Order == {w \in (Nat \X Nat \X Nat) \X (Nat \X Nat \X Nat) : Before(w[1], w[2])}

\* Entries are in a strict order.
LEMMA EntriesOrdered ==
  ASSUME NEW A \in SUBSET (Nat \X Nat \X Nat)
  PROVE  /\ StrictOrder(A, Order)
         /\ \A e, f \in A : <<e, f>> \in Order <=> Before(e, f)
<1>1. \A e, f \in A : <<e, f>> \in Order <=> Before(e, f) BY DEF Order
<1>2. \A e \in A : ~Before(e, e) BY DEF Before
<1>3. ASSUME NEW e \in A, NEW f \in A, e # f PROVE Before(e, f) \/ Before(f, e)
  <2>1. /\ e = <<e[1], e[2], e[3]>> /\ f = <<f[1], f[2], f[3]>>
        /\ e[1] \in Nat /\ e[2] \in Nat /\ e[3] \in Nat
        /\ f[1] \in Nat /\ f[2] \in Nat /\ f[3] \in Nat
    OBVIOUS
  <2>2. e[1] # f[1] \/ e[2] # f[2] \/ e[3] # f[3] BY <1>3, <2>1
  <2> QED BY <2>1, <2>2 DEF Before
<1>4. ASSUME NEW e \in A, NEW f \in A, NEW g \in A, Before(e, f), Before(f, g) PROVE Before(e, g)
  <2>1. /\ e[1] \in Nat /\ e[2] \in Nat /\ e[3] \in Nat
        /\ f[1] \in Nat /\ f[2] \in Nat /\ f[3] \in Nat
        /\ g[1] \in Nat /\ g[2] \in Nat /\ g[3] \in Nat
    OBVIOUS
  <2> QED BY <1>4, <2>1 DEF Before
<1> QED BY <1>1, <1>2, <1>3, <1>4 DEF StrictOrder

\* First gives as many as are asked for, if there are as many.
LEMMA FirstCounts ==
  ASSUME NEW A \in SUBSET (Nat \X Nat \X Nat), IsFiniteSet(A),
         NEW k \in Nat, k <= Cardinality(A)
  PROVE  Cardinality(First(A, k)) = k
<1>1. StrictOrder(A, Order) BY EntriesOrdered
<1>2. ASSUME NEW e \in A
      PROVE  Rank(A, Order, e) = Cardinality({f \in A : Before(f, e)}) /\ 0 <= Rank(A, Order, e)
  <2>1. {f \in A : <<f, e>> \in Order} = {f \in A : Before(f, e)} BY EntriesOrdered
  <2>2. {f \in A : Before(f, e)} \in SUBSET A OBVIOUS
  <2>3. Cardinality({f \in A : Before(f, e)}) \in Nat BY <2>2, FS_Subset, FS_CardinalityType
  <2>4. Rank(A, Order, e) = Cardinality({f \in A : <<f, e>> \in Order}) BY DEF Rank
  <2>5. PICK P : P = {f \in A : Before(f, e)} OBVIOUS
  <2>6. Rank(A, Order, e) = Cardinality(P) /\ Cardinality(P) \in Nat
    BY <2>1, <2>3, <2>4, <2>5, Zenon
  <2>7. 0 <= Rank(A, Order, e) BY <2>6
  <2> QED BY <2>5, <2>6, <2>7, Zenon
<1>3. First(A, k) = Ranked(A, Order, 0, k)
  <2>1. ASSUME NEW e
        PROVE  e \in First(A, k) <=> e \in A /\ Cardinality({f \in A : Before(f, e)}) < k
    BY Zenon DEF First
  <2>2. ASSUME NEW e
        PROVE  e \in Ranked(A, Order, 0, k)
               <=> e \in A /\ 0 <= Rank(A, Order, e) /\ Rank(A, Order, e) < k
    BY Zenon DEF Ranked
  <2>3. ASSUME NEW e PROVE e \in First(A, k) <=> e \in Ranked(A, Order, 0, k)
    BY <1>2, <2>1, <2>2, Zenon
  <2> QED BY <2>3, Zenon
<1>4. Cardinality(Ranked(A, Order, 0, k)) = k - 0 BY <1>1, RanksFrom, 0 \in Nat, 0 <= k
<1> QED BY <1>3, <1>4

\* The first entries of what is wanted are those of its head, if that has as many.
LEMMA FirstOfHead ==
  ASSUME NEW W \in SUBSET (Nat \X Nat \X Nat), IsFiniteSet(W), NEW A \in SUBSET W,
         \A e \in A, f \in W : Before(f, e) => f \in A,
         NEW k \in Nat, k <= Cardinality(A)
  PROVE  First(A, k) = First(W, k)
<1>1. ASSUME NEW e \in A PROVE {f \in A : Before(f, e)} = {f \in W : Before(f, e)}
  OBVIOUS
<1>2. ASSUME NEW e \in W, e \notin A PROVE ~(Cardinality({f \in W : Before(f, e)}) < k)
  <2>1. \A f \in A : Before(f, e)
    <3> SUFFICES ASSUME NEW f \in A, ~Before(f, e) PROVE FALSE OBVIOUS
    <3>1. f # e BY <1>2
    <3>2. <<f, e>> \in Order \/ <<e, f>> \in Order BY <3>1, EntriesOrdered DEF StrictOrder
    <3>3. Before(e, f) BY <3>2, EntriesOrdered
    <3> QED BY <1>2, <3>3
  <2>2. {f \in W : Before(f, e)} \in SUBSET W /\ A \in SUBSET {f \in W : Before(f, e)}
    BY <2>1
  <2>3. IsFiniteSet({f \in W : Before(f, e)}) BY <2>2, FS_Subset
  <2>4. Cardinality(A) <= Cardinality({f \in W : Before(f, e)}) BY <2>2, <2>3, FS_Subset
  <2>5. Cardinality(A) \in Nat /\ Cardinality({f \in W : Before(f, e)}) \in Nat
    BY <2>2, <2>3, FS_Subset, FS_CardinalityType
  <2> QED BY <2>4, <2>5
<1> QED BY <1>1, <1>2 DEF First

\* What is wanted is finite.
LEMMA WantedFinite ==
  ASSUME LiveTypeOK, question # NoQuestion
  PROVE  IsFiniteSet(Wanted) /\ Wanted \in SUBSET (Nat \X Nat \X Nat)
<1>1. ASSUME NEW e \in Wanted
      PROVE  e = <<e[1], e[2], e[3]>> /\ e[1] \in 1..2 /\ e[2] \in 1..(Len(kinds) + 1)
             /\ e[3] \in 1..Len(kinds)
  <2>1. PICK n, i : n \in DOMAIN question.lists /\ i \in Kept(List(n)) /\ e = <<n, Page(n, i), i>>
    BY WantedIs
  <2>2. i \in List(n) BY <2>1, KeptIs
  <2>3. n \in 1..2 /\ i \in 1..Len(kinds) /\ Page(n, i) \in Nat \ {0}
    BY <2>1, <2>2, Listings, PageTyped
  <2>4. question.pageSize \in Nat \ {0} /\ Len(kinds) \in Nat BY DEF LiveTypeOK, QuestionTypes
  <2>5. List(n) \in SUBSET Nat /\ IsFiniteSet(List(n)) /\ List(n) \in SUBSET (1..Len(kinds))
    BY <2>1, Listings
  <2>6. /\ (Page(n, i) - 1) * question.pageSize <= Cardinality(Newer(List(n), i))
        /\ Cardinality(Newer(List(n), i)) \in Nat
    BY <2>3, <2>4, <2>5, PageBounds, i \in Nat DEF Page
  <2>7. Cardinality(Newer(List(n), i)) <= Len(kinds)
    <3>1. Newer(List(n), i) \in SUBSET (1..Len(kinds)) BY <2>5 DEF Newer
    <3>2. IsFiniteSet(1..Len(kinds)) /\ Cardinality(1..Len(kinds)) = Len(kinds)
      BY <2>4, IntervalSize
    <3> QED BY <3>1, <3>2, FS_Subset
  <2>8. PICK p \in Nat, size \in Nat \ {0} : p = Page(n, i) - 1 /\ size = question.pageSize
    BY <2>3, <2>4
  <2>9. p <= p * size
    <3>1. PICK k \in Nat : size = 1 + k BY size - 1 \in Nat
    <3>2. p * size = p + p * k /\ p * k \in Nat BY <3>1
    <3> QED BY <3>2
  <2>10. p * size \in Nat OBVIOUS
  <2>11. Page(n, i) \in 1..(Len(kinds) + 1)
    BY <2>3, <2>4, <2>6, <2>7, <2>8, <2>9, <2>10
  <2> QED BY <2>1, <2>3, <2>11
<1>2. Len(kinds) \in Nat BY DEF LiveTypeOK
<1>3. PICK A, B, C : A = 1..2 /\ B = 1..(Len(kinds) + 1) /\ C = 1..Len(kinds) OBVIOUS
<1>4. IsFiniteSet(A) /\ IsFiniteSet(B) /\ IsFiniteSet(C)
  BY <1>2, <1>3, IntervalSize, Len(kinds) + 1 \in Nat, 2 \in Nat
<1>5. A \subseteq Nat /\ B \subseteq Nat /\ C \subseteq Nat BY <1>3
<1>6. Wanted \in SUBSET (A \X B \X C) BY <1>1, <1>3
<1>7. IsFiniteSet(A \X B \X C)
  <2>1. IsFiniteSet((A \X B) \X C) BY <1>4, FS_Product
  <2> DEFINE f == [e \in A \X B \X C |-> <<<<e[1], e[2]>>, e[3]>>]
  <2>2. f \in Injection(A \X B \X C, (A \X B) \X C) BY DEF Injection, IsInjective
  <2> QED BY <2>1, <2>2, FS_Injection
<1> QED BY <1>5, <1>6, <1>7, FS_Subset

\* The head of what is wanted has with an entry all before it.
LEMMA HeadIsClosed ==
  ASSUME LiveTypeOK, question # NoQuestion, NEW n \in Nat, NEW p \in Nat,
         NEW e \in WantedBefore(n, p), NEW f \in Wanted, Before(f, e)
  PROVE  f \in WantedBefore(n, p)
<1>1. e \in Wanted /\ (e[1] < n \/ (e[1] = n /\ e[2] < p)) BY DEF WantedBefore
<1>2. /\ e[1] \in Nat /\ e[2] \in Nat /\ e[3] \in Nat
      /\ f[1] \in Nat /\ f[2] \in Nat /\ f[3] \in Nat
  BY <1>1, WantedFinite
<1>3. f[1] < n \/ (f[1] = n /\ f[2] < p) BY <1>1, <1>2 DEF Before
<1> QED BY <1>3 DEF WantedBefore
-----------------------------------------------------------------------------
(* Steps *)

\* What the lists look like stands while the repository does.
LEMMA Unmoved ==
  ASSUME UNCHANGED <<kinds, opened, question>>
  PROVE  /\ \A n : List(n)' = List(n)
         /\ \A n, i : Page(n, i)' = Page(n, i)
         /\ \A n, p, i : After(i, n, p)' = After(i, n, p)
         /\ Wanted' = Wanted
         /\ \A n, p : WantedBefore(n, p)' = WantedBefore(n, p)
<1>1. \A n : List(n)' = List(n) BY DEF List, Listed
<1>2. \A n, i : Page(n, i)' = Page(n, i) BY <1>1 DEF Page, PageNumber
<1>3. \A n, p, i : After(i, n, p)' = After(i, n, p) BY <1>1, <1>2 DEF After
<1>4. \A S : {i \in S : kinds[i] = "issue"}' = {i \in S : kinds[i] = "issue"} OBVIOUS
<1>5. \A n : Kept(List(n))' = Kept(List(n)) BY <1>1 DEF Kept, IssueOnly
<1>6. Wanted' = Wanted
  <2>1. ASSUME NEW e
        PROVE  e \in Wanted' <=> \E n \in DOMAIN question.lists :
                 e \in {<<n, Page(n, i), i>> : i \in Kept(List(n))}'
    BY DEF Wanted, Page
  <2>2. ASSUME NEW e
        PROVE  e \in Wanted <=> \E n \in DOMAIN question.lists :
                 e \in {<<n, Page(n, i), i>> : i \in Kept(List(n))}
    BY DEF Wanted, Page
  <2>3. ASSUME NEW n, NEW e
        PROVE  e \in {<<n, Page(n, i), i>> : i \in Kept(List(n))}'
                 <=> e \in {<<n, Page(n, i), i>> : i \in Kept(List(n))}
    BY <1>2, <1>5
  <2> QED BY <2>1, <2>2, <2>3
<1>7. \A n, p : WantedBefore(n, p)' = WantedBefore(n, p) BY <1>6 DEF WantedBefore
<1> QED BY <1>1, <1>2, <1>3, <1>6, <1>7

\* Before the question, nothing is collected and nothing is owed.
LEMMA LiveStart == LiveInit => LiveInv
<1> SUFFICES ASSUME LiveInit PROVE LiveInv OBVIOUS
<1>1. IsFiniteSet({}) BY FS_EmptySet
<1>2. LiveTypeOK
  <2>1. kinds \in Seq({"issue", "pull"}) BY DEF LiveInit
  <2>2. IsFiniteSet(results) /\ results \subseteq Nat \X Nat \X Nat /\ atStart \subseteq DOMAIN kinds
    BY <1>1 DEF LiveInit
  <2>3. question = NoQuestion /\ pageNo = 1 BY DEF LiveInit
  <2>4. grew \in BOOLEAN /\ shrank \in BOOLEAN BY DEF LiveInit
  <2> QED BY <2>1, <2>2, <2>3, <2>4 DEF LiveTypeOK
<1>3. NothingMissed /\ NothingTwice /\ AsListed /\ CompleteIsComplete
  BY DEF LiveInit, NothingMissed, NothingTwice, AsListed, CompleteIsComplete
<1> QED BY <1>2, <1>3 DEF LiveInv

\* A question makes all that is listed to come, from its first page on.
LEMMA AskStep == ASSUME LiveInv, NEW q \in Questions, Ask(q) PROVE LiveInv'
<1>1. /\ question' = q /\ listNo' = 1 /\ pageNo' = q.start /\ results' = {}
      /\ atStart' = Matching(q) /\ answer' \in {NoAnswer, Exit}
      /\ UNCHANGED <<kinds, opened, grew, shrank>>
  BY DEF Ask, repository
<1>2. q \in QuestionTypes BY QuestionsTyped
<1>3. q.start \in Nat \ {0} /\ DOMAIN q.lists = 1..Len(q.lists) /\ 1 \in DOMAIN q.lists
  BY <1>2 DEF QuestionTypes
<1>4. Matching(q) \subseteq DOMAIN kinds BY DEF Matching, Listed
<1>5. LiveTypeOK'
  BY <1>1, <1>2, <1>3, <1>4, FS_EmptySet DEF LiveInv, LiveTypeOK
<1>6. NothingMissed'
  <2> SUFFICES ASSUME q.start = 1, NEW i \in Kept(atStart)' PROVE ToCome(i)'
    BY <1>1 DEF NothingMissed
  <2>1. i \in Matching(q) BY <1>1 DEF Kept, IssueOnly
  <2>2. PICK n \in DOMAIN q.lists : i \in Listed(q.route, q.lists[n]) BY <2>1 DEF Matching
  <2>3. n \in Nat \ {0} BY <1>3
  <2>4. List(n)' = Listed(q.route, q.lists[n]) BY <1>1 DEF List, Listed
  <2>5. Page(n, i)' \in Nat \ {0}
    <3>1. Len(kinds) \in Nat /\ DOMAIN kinds = 1..Len(kinds) BY DEF LiveInv, LiveTypeOK
    <3>2. Listed(q.route, q.lists[n]) \in SUBSET (1..Len(kinds)) BY <3>1 DEF Listed
    <3>3. IsFiniteSet(Listed(q.route, q.lists[n])) BY <3>1, <3>2, IntervalSize, FS_Subset
    <3>4. q.pageSize \in Nat \ {0} BY <1>2 DEF QuestionTypes
    <3>5. Listed(q.route, q.lists[n]) \in SUBSET Nat /\ i \in Nat BY <2>2, <3>2
    <3>6. PageNumber(Listed(q.route, q.lists[n]), q.pageSize, i) \in Nat \ {0}
      BY <3>3, <3>4, <3>5, PageBounds
    <3>7. Page(n, i)' = PageNumber(Listed(q.route, q.lists[n]), q.pageSize, i)
      BY <1>1, <2>4 DEF Page, PageNumber
    <3> QED BY <3>6, <3>7
  <2>6. n > 1 \/ (n = 1 /\ Page(n, i)' >= 1) BY <2>3, <2>5
  <2> QED BY <1>1, <2>2, <2>4, <2>6 DEF ToCome, After
<1>7. NothingTwice' BY <1>1 DEF NothingTwice
<1>8. AsListed'
  <2> SUFFICES ASSUME q.start = 1, NEW e \in Wanted' PROVE ~(e[1] < 1) /\ ~(e[2] < 1)
    BY <1>1 DEF AsListed, WantedBefore
  <2>1. PICK n, i : n \in DOMAIN q.lists /\ i \in Kept(List(n))'
                      /\ e = <<n, PageNumber(List(n), question.pageSize, i)', i>>
    BY <1>1 DEF Wanted
  <2>2. n \in Nat \ {0} BY <1>3, <2>1
  <2>3. i \in Listed(q.route, q.lists[n]) /\ List(n)' = Listed(q.route, q.lists[n])
    BY <1>1, <2>1 DEF List, Listed, Kept, IssueOnly
  <2>4. e[2] = PageNumber(Listed(q.route, q.lists[n]), q.pageSize, i)
    BY <1>1, <2>1, <2>3 DEF PageNumber
  <2>5. Len(kinds) \in Nat /\ DOMAIN kinds = 1..Len(kinds) BY DEF LiveInv, LiveTypeOK
  <2>6. Listed(q.route, q.lists[n]) \in SUBSET (1..Len(kinds)) BY <2>5 DEF Listed
  <2>7. IsFiniteSet(Listed(q.route, q.lists[n])) BY <2>5, <2>6, IntervalSize, FS_Subset
  <2>8. q.pageSize \in Nat \ {0} BY <1>2 DEF QuestionTypes
  <2>9. Listed(q.route, q.lists[n]) \in SUBSET Nat /\ i \in Nat BY <2>3, <2>6
  <2>10. e[2] \in Nat \ {0} BY <2>4, <2>7, <2>8, <2>9, PageBounds
  <2> QED BY <2>1, <2>2, <2>10
<1>9. CompleteIsComplete' BY <1>1 DEF CompleteIsComplete, Exit
<1> QED BY <1>5, <1>6, <1>7, <1>8, <1>9 DEF LiveInv

\* A step that only prints keeps the rest.
LEMMA PrintStep ==
  ASSUME LiveInv, UNCHANGED <<repository, question, listNo, pageNo, results, atStart, grew, shrank>>,
         CompleteIsComplete'
  PROVE  LiveInv'
<1>1. UNCHANGED <<kinds, opened, question>> BY DEF repository
<1>2. Kept(atStart)' = Kept(atStart) BY <1>1 DEF Kept, IssueOnly
<1>3. LiveTypeOK' BY <1>1 DEF LiveInv, LiveTypeOK
<1>4. NothingMissed' BY <1>1, <1>2, Unmoved DEF LiveInv, NothingMissed, ToCome, ItemsOf
<1>5. NothingTwice' BY <1>1, Unmoved DEF LiveInv, NothingTwice, ToCome
<1>6. AsListed' BY <1>1, Unmoved DEF LiveInv, AsListed
<1> QED BY <1>3, <1>4, <1>5, <1>6 DEF LiveInv

\* The answer once all that is wanted was collected, or as much as was asked for.
LEMMA CompleteStep ==
  ASSUME LiveInv, question # NoQuestion, NEW all, all = results \cup Entries(Kept(NextPage)),
         UNCHANGED <<repository, question, atStart, grew, shrank>>,
         \/ /\ question.limit # NoLimit /\ Cardinality(all) >= question.limit
            /\ answer' = Printed(First(all, question.limit), TRUE)
         \/ /\ ~(question.limit # NoLimit /\ Cardinality(all) >= question.limit)
            /\ PageIsLast(NextPage) /\ listNo = Len(question.lists)
            /\ answer' = Printed(all, TRUE)
  PROVE  CompleteIsComplete'
<1> DEFINE printed == answer'.rows
           cut == question.limit # NoLimit /\ Cardinality(printed) = question.limit
<1>1. UNCHANGED <<kinds, opened, question>> BY DEF repository
<1>2. Kept(atStart)' = Kept(atStart) BY <1>1 DEF Kept, IssueOnly
<1>3. Wanted' = Wanted BY <1>1, Unmoved
<1>4. LiveTypeOK BY DEF LiveInv
<1>5. /\ IsFiniteSet(all) /\ all \subseteq Nat \X Nat \X Nat
      /\ question.start = 1 /\ ~shrank =>
           \A i \in Kept(atStart) : i \in ItemsOf(all) \/ After(i, listNo, pageNo + 1)
      /\ ~grew => \A e \in all : \A f \in all : e[3] = f[3] => e = f
      /\ question.start = 1 /\ ~grew /\ ~shrank => all = WantedBefore(listNo, pageNo + 1)
  BY Collected
<1>6. CASE /\ question.limit # NoLimit /\ Cardinality(all) >= question.limit
           /\ answer' = Printed(First(all, question.limit), TRUE)
  <2>1. question.limit \in Nat /\ Cardinality(all) \in Nat
    BY <1>4, <1>5, <1>6, FS_CardinalityType DEF LiveTypeOK, QuestionTypes
  <2>2. printed = First(all, question.limit) BY <1>6 DEF Printed
  <2>3. cut BY <1>5, <1>6, <2>1, <2>2, FirstCounts
  <2>4. printed \subseteq all BY <2>2 DEF First
  <2>5. ASSUME question.start = 1, ~grew, ~shrank PROVE printed = First(Wanted, question.limit)
    <3>1. all = WantedBefore(listNo, pageNo + 1) BY <1>5, <2>5
    <3>2. all \in SUBSET Wanted BY <3>1 DEF WantedBefore
    <3>3. IsFiniteSet(Wanted) /\ Wanted \in SUBSET (Nat \X Nat \X Nat) BY <1>4, WantedFinite
    <3>4. listNo \in Nat /\ pageNo + 1 \in Nat BY <1>4, Listings DEF LiveTypeOK
    <3>5. \A e \in all, f \in Wanted : Before(f, e) => f \in all
      BY <1>4, <3>1, <3>4, HeadIsClosed
    <3>6. First(all, question.limit) = First(Wanted, question.limit)
      BY <1>6, <2>1, <3>2, <3>3, <3>5, FirstOfHead
    <3> QED BY <2>2, <3>6
  <2> HIDE DEF printed
  <2> QED BY <1>1, <1>2, <1>3, <1>5, <2>3, <2>4, <2>5 DEF CompleteIsComplete, printed
<1>7. CASE /\ ~(question.limit # NoLimit /\ Cardinality(all) >= question.limit)
           /\ PageIsLast(NextPage) /\ listNo = Len(question.lists)
           /\ answer' = Printed(all, TRUE)
  <2>1. printed = all BY <1>7 DEF Printed
  <2>2. /\ \A i : After(i, listNo, pageNo + 1) <=> After(i, listNo + 1, 1)
        /\ WantedBefore(listNo, pageNo + 1) = WantedBefore(listNo + 1, 1)
        /\ WantedBefore(listNo + 1, 1) = Wanted /\ \A i : ~After(i, listNo + 1, 1)
    BY <1>4, <1>7, ListEnds
  <2>3. ~cut
    <3>1. Cardinality(all) \in Nat BY <1>5, FS_CardinalityType
    <3>2. question.limit # NoLimit => question.limit \in Nat
      BY <1>4 DEF LiveTypeOK, QuestionTypes
    <3>3. ASSUME question.limit # NoLimit, Cardinality(all) = question.limit PROVE FALSE
      <4>1. Cardinality(all) >= question.limit BY <3>1, <3>3
      <4> QED BY <1>7, <3>3, <4>1
    <3> QED BY <2>1, <3>3
  <2>4. question.start = 1 /\ ~shrank => Kept(atStart) \subseteq ItemsOf(printed)
    BY <1>5, <2>1, <2>2
  <2>5. question.start = 1 /\ ~grew /\ ~shrank => printed = Wanted BY <1>5, <2>1, <2>2
  <2> HIDE DEF printed
  <2> QED BY <1>1, <1>2, <1>3, <1>5, <2>1, <2>3, <2>4, <2>5 DEF CompleteIsComplete, printed
<1> QED BY <1>6, <1>7

\* A page more, and on to the next page or to the next list.
LEMMA CollectOn ==
  ASSUME LiveInv, question # NoQuestion,
         UNCHANGED <<repository, question, atStart, grew, shrank, answer>>, answer = NoAnswer,
         results' = results \cup Entries(Kept(NextPage)),
         \/ listNo' = listNo /\ pageNo' = pageNo + 1
         \/ PageIsLast(NextPage) /\ listNo < Len(question.lists) /\ listNo' = listNo + 1 /\ pageNo' = 1
  PROVE  LiveInv'
<1>1. UNCHANGED <<kinds, opened, question>> BY DEF repository
<1>2. Kept(atStart)' = Kept(atStart) BY <1>1 DEF Kept, IssueOnly
<1>3. LiveTypeOK BY DEF LiveInv
<1>4. /\ IsFiniteSet(results') /\ results' \subseteq Nat \X Nat \X Nat
      /\ question.start = 1 /\ ~shrank =>
           \A i \in Kept(atStart) : i \in ItemsOf(results') \/ After(i, listNo, pageNo + 1)
      /\ ~grew => \A e \in results' : /\ ~After(e[3], listNo, pageNo + 1)
                                      /\ \A f \in results' : e[3] = f[3] => e = f
      /\ question.start = 1 /\ ~grew /\ ~shrank => results' = WantedBefore(listNo, pageNo + 1)
  BY Collected
<1>5. /\ \A i : After(i, listNo, pageNo + 1) <=> After(i, listNo', pageNo')
      /\ WantedBefore(listNo, pageNo + 1) = WantedBefore(listNo', pageNo')
  <2>1. CASE listNo' = listNo /\ pageNo' = pageNo + 1 BY <2>1
  <2>2. CASE PageIsLast(NextPage) /\ listNo' = listNo + 1 /\ pageNo' = 1
    BY <1>3, <2>2, ListEnds
  <2> QED BY <2>1, <2>2
<1>6. LiveTypeOK'
  <2>1. listNo \in Nat /\ DOMAIN question.lists = 1..Len(question.lists) /\ pageNo \in Nat
    BY <1>3, Listings DEF LiveTypeOK
  <2>2. Len(question.lists) \in Nat
    BY <1>3 DEF LiveTypeOK, QuestionTypes
  <2>3. listNo' \in DOMAIN question.lists /\ pageNo' \in Nat \ {0}
    BY <1>3, <2>1, <2>2 DEF LiveTypeOK
  <2> QED BY <1>1, <1>3, <1>4, <2>3 DEF LiveTypeOK
<1>7. \A i : ToCome(i)' <=> After(i, listNo, pageNo + 1)
  BY <1>1, <1>5, Unmoved DEF ToCome, After
<1>8. NothingMissed' BY <1>1, <1>2, <1>4, <1>7 DEF NothingMissed, ItemsOf
<1>9. NothingTwice' BY <1>1, <1>4, <1>7 DEF NothingTwice
<1>10. AsListed'
  <2>1. WantedBefore(listNo, pageNo)' = WantedBefore(listNo', pageNo')
    BY <1>1, Unmoved DEF WantedBefore
  <2> QED BY <1>1, <1>4, <1>5, <2>1 DEF AsListed
<1>11. CompleteIsComplete' BY DEF CompleteIsComplete
<1> QED BY <1>6, <1>8, <1>9, <1>10, <1>11 DEF LiveInv

\* Whichever way a page is taken, the invariant is kept.
LEMMA CollectStep == LiveInv /\ CollectPage => LiveInv'
<1> SUFFICES ASSUME LiveInv, CollectPage PROVE LiveInv' OBVIOUS
<1>1. /\ question # NoQuestion /\ answer = NoAnswer
      /\ UNCHANGED <<repository, question, atStart, grew, shrank>>
  BY DEF CollectPage, Reads
<1>2. PICK all : all = results \cup Entries(Kept(NextPage)) OBVIOUS
<1>3. CASE answer' = NoAnswer /\ UNCHANGED <<listNo, pageNo, results>>
  BY <1>1, <1>3, PrintStep DEF CompleteIsComplete
<1>4. CASE \/ /\ question.limit # NoLimit /\ Cardinality(all) >= question.limit
              /\ answer' = Printed(First(all, question.limit), TRUE)
              /\ UNCHANGED <<listNo, pageNo, results>>
           \/ /\ ~(question.limit # NoLimit /\ Cardinality(all) >= question.limit)
              /\ PageIsLast(NextPage) /\ ~(listNo < Len(question.lists))
              /\ answer' = Printed(all, TRUE) /\ UNCHANGED <<listNo, pageNo, results>>
  <2>1. ~(listNo < Len(question.lists)) => listNo = Len(question.lists)
    <3>1. listNo \in 1..Len(question.lists)
      BY <1>1, Listings DEF LiveInv, LiveTypeOK
    <3>2. Len(question.lists) \in Nat BY <1>1 DEF LiveInv, LiveTypeOK, QuestionTypes
    <3> QED BY <3>1, <3>2
  <2>2. CompleteIsComplete' BY <1>1, <1>2, <1>4, <2>1, CompleteStep
  <2> QED BY <1>1, <1>4, <2>2, PrintStep
<1>5. CASE answer' = Printed(all, FALSE) /\ UNCHANGED <<listNo, pageNo, results>>
  <2>1. CompleteIsComplete' BY <1>5 DEF CompleteIsComplete, Printed
  <2> QED BY <1>1, <1>5, <2>1, PrintStep
<1>6. CASE /\ results' = all /\ UNCHANGED answer
           /\ \/ listNo' = listNo /\ pageNo' = pageNo + 1
              \/ /\ PageIsLast(NextPage) /\ listNo < Len(question.lists)
                 /\ listNo' = listNo + 1 /\ pageNo' = 1
  BY <1>1, <1>2, <1>6, CollectOn
<1> QED BY <1>2, <1>4, <1>5, <1>6 DEF CollectPage

\* The repository changes between two pages.
LEMMA OthersStep == LiveInv /\ Others => LiveInv'
<1> SUFFICES ASSUME LiveInv, Others PROVE LiveInv' OBVIOUS
<1>1. /\ UNCHANGED <<question, listNo, pageNo, results, answer, atStart>>
      /\ answer = NoAnswer /\ NoteChange
  BY DEF Others, reading
<1>2. CompleteIsComplete' BY <1>1 DEF CompleteIsComplete
<1>3. /\ kinds \in Seq({"issue", "pull"}) /\ atStart \subseteq DOMAIN kinds
      /\ DOMAIN kinds = 1..Len(kinds) /\ Len(kinds) \in Nat
  BY DEF LiveInv, LiveTypeOK
<1>4. /\ kinds' \in Seq({"issue", "pull"}) /\ DOMAIN kinds \subseteq DOMAIN kinds'
      /\ \A i \in DOMAIN kinds : kinds'[i] = kinds[i]
  <2>1. CASE \E kind \in {"issue", "pull"} : Create(kind)
    BY <1>3, <2>1 DEF Create
  <2>2. CASE \E i \in DOMAIN kinds : CloseOrReopen(i) BY <1>3, <2>2 DEF CloseOrReopen
  <2> QED BY <2>1, <2>2 DEF Others
<1>5. grew' \in BOOLEAN /\ shrank' \in BOOLEAN /\ (grew => grew') /\ (shrank => shrank')
  BY <1>1 DEF NoteChange, LiveInv, LiveTypeOK
<1>6. LiveTypeOK' BY <1>1, <1>3, <1>4, <1>5 DEF LiveInv, LiveTypeOK
<1>7. CASE question = NoQuestion
  BY <1>1, <1>2, <1>6, <1>7 DEF LiveInv, NothingMissed, NothingTwice, AsListed
<1>8. CASE question # NoQuestion
  <2>1. ASSUME NEW n \in DOMAIN question.lists
        PROVE  /\ ~grew' => List(n)' \subseteq List(n)
               /\ ~shrank' => List(n) \subseteq List(n)'
    BY <1>1, <1>8 DEF NoteChange
  <2>2. question.pageSize \in Nat \ {0} BY <1>8 DEF LiveInv, LiveTypeOK, QuestionTypes
  <2>3. ASSUME NEW n \in DOMAIN question.lists
        PROVE  /\ List(n) \in SUBSET Nat /\ IsFiniteSet(List(n)) /\ List(n) \subseteq DOMAIN kinds
               /\ List(n)' \in SUBSET Nat /\ IsFiniteSet(List(n)')
    <3>1. List(n) \in SUBSET Nat /\ IsFiniteSet(List(n)) BY <1>8, Listings DEF LiveInv
    <3>2. List(n) \subseteq DOMAIN kinds BY DEF List, Listed
    <3>3. Len(kinds') \in Nat /\ DOMAIN kinds' = 1..Len(kinds') BY <1>4
    <3>4. List(n)' \in SUBSET (1..Len(kinds')) BY <3>3 DEF List, Listed
    <3>5. IsFiniteSet(List(n)') BY <3>3, <3>4, IntervalSize, FS_Subset
    <3> QED BY <3>1, <3>2, <3>3, <3>4, <3>5
  <2>4. ASSUME NEW n \in DOMAIN question.lists, NEW i \in Nat
        PROVE  /\ Page(n, i) \in Nat /\ Page(n, i)' \in Nat
               /\ List(n) \subseteq List(n)' => Page(n, i) <= Page(n, i)'
               /\ List(n)' \subseteq List(n) => Page(n, i)' <= Page(n, i)
    <3>1. PICK old, new : old = List(n) /\ new = List(n)' OBVIOUS
    <3>2. Page(n, i) = PageNumber(old, question.pageSize, i)
      BY <3>1 DEF Page
    <3>3. Page(n, i)' = PageNumber(new, question.pageSize, i)
      BY <1>1, <3>1 DEF Page, PageNumber
    <3>4. /\ old \in SUBSET Nat /\ IsFiniteSet(old) /\ new \in SUBSET Nat /\ IsFiniteSet(new)
      BY <2>3, <3>1
    <3>5. /\ PageNumber(old, question.pageSize, i) \in Nat
          /\ PageNumber(new, question.pageSize, i) \in Nat
      BY <2>2, <3>4, PageBounds
    <3>6. /\ old \subseteq new =>
               PageNumber(old, question.pageSize, i) <= PageNumber(new, question.pageSize, i)
          /\ new \subseteq old =>
               PageNumber(new, question.pageSize, i) <= PageNumber(old, question.pageSize, i)
      BY <2>2, <3>4, PagesGrow
    <3> QED BY <3>1, <3>2, <3>3, <3>5, <3>6
  <2>5. pageNo \in Nat BY DEF LiveInv, LiveTypeOK
  <2>6. NothingMissed'
    <3> SUFFICES ASSUME question.start = 1, ~shrank', NEW i \in Kept(atStart)'
                 PROVE  i \in ItemsOf(results) \/ ToCome(i)'
      BY <1>1 DEF NothingMissed, ItemsOf
    <3>1. i \in atStart /\ (question.excludePulls => kinds'[i] = "issue")
      BY <1>1 DEF Kept, IssueOnly
    <3>2. i \in DOMAIN kinds /\ kinds'[i] = kinds[i] BY <1>3, <1>4, <3>1
    <3>3. i \in Kept(atStart) BY <3>1, <3>2, KeptIs
    <3>4. i \in ItemsOf(results) \/ ToCome(i)
      BY <1>5, <1>8, <3>3 DEF LiveInv, NothingMissed
    <3>5. ASSUME ToCome(i) PROVE ToCome(i)'
      <4>1. PICK m \in DOMAIN question.lists :
              i \in List(m) /\ (m > listNo \/ (m = listNo /\ Page(m, i) >= pageNo))
        BY <3>5 DEF ToCome, After
      <4>2. i \in Nat BY <1>3, <3>2
      <4>3. i \in List(m)' /\ Page(m, i) <= Page(m, i)' /\ Page(m, i) \in Nat /\ Page(m, i)' \in Nat
        BY <2>1, <2>4, <4>1, <4>2
      <4>4. m > listNo \/ (m = listNo /\ Page(m, i)' >= pageNo) BY <2>5, <4>1, <4>3
      <4> QED BY <1>1, <4>1, <4>3, <4>4 DEF ToCome, After
    <3> QED BY <3>4, <3>5
  <2>7. NothingTwice'
    <3> SUFFICES ASSUME ~grew', NEW e \in results
                 PROVE  ~ToCome(e[3])' /\ \A f \in results : e[3] = f[3] => e = f
      BY <1>1 DEF NothingTwice
    <3>1. ~ToCome(e[3]) /\ \A f \in results : e[3] = f[3] => e = f
      BY <1>5, <1>8 DEF LiveInv, NothingTwice
    <3>2. ASSUME ToCome(e[3])' PROVE ToCome(e[3])
      <4>1. PICK m \in DOMAIN question.lists :
              e[3] \in List(m)' /\ (m > listNo \/ (m = listNo /\ Page(m, e[3])' >= pageNo))
        BY <1>1, <3>2 DEF ToCome, After
      <4>2. e[3] \in List(m) /\ e[3] \in Nat BY <2>1, <2>3, <4>1
      <4>3. Page(m, e[3])' <= Page(m, e[3]) /\ Page(m, e[3]) \in Nat /\ Page(m, e[3])' \in Nat
        BY <2>1, <2>4, <4>2
      <4>4. m > listNo \/ (m = listNo /\ Page(m, e[3]) >= pageNo) BY <2>5, <4>1, <4>3
      <4> QED BY <4>1, <4>2, <4>4 DEF ToCome, After
    <3> QED BY <3>1, <3>2
  <2>8. AsListed'
    <3> SUFFICES ASSUME question.start = 1, ~grew', ~shrank'
                 PROVE  results = WantedBefore(listNo, pageNo)'
      BY <1>1 DEF AsListed, WantedBefore
    <3>1. results = WantedBefore(listNo, pageNo) BY <1>5, <1>8 DEF LiveInv, AsListed
    <3>2. \A n \in DOMAIN question.lists : List(n)' = List(n) BY <2>1
    <3>3. ASSUME NEW n \in DOMAIN question.lists, NEW i
          PROVE  /\ i \in Kept(List(n))' <=> i \in Kept(List(n))
                 /\ Page(n, i)' = Page(n, i)
      <4>1. PICK list : list = List(n) /\ list = List(n)' BY <3>2
      <4>2. list \subseteq DOMAIN kinds BY <2>3, <4>1
      <4>3. i \in Kept(List(n)) <=> i \in list /\ (question.excludePulls => kinds[i] = "issue")
        BY <4>1, KeptIs
      <4>4. i \in Kept(List(n))' <=> i \in list /\ (question.excludePulls => kinds'[i] = "issue")
        BY <1>1, <4>1 DEF Kept, IssueOnly
      <4>5. Page(n, i)' = Page(n, i) BY <1>1, <4>1 DEF Page, PageNumber
      <4> QED BY <1>4, <4>2, <4>3, <4>4, <4>5
    <3>4. Wanted' = Wanted
      <4>1. ASSUME NEW e
            PROVE  e \in Wanted' <=> \E n \in DOMAIN question.lists :
                     e \in {<<n, Page(n, i), i>> : i \in Kept(List(n))}'
        BY <1>1 DEF Wanted, Page
      <4>2. ASSUME NEW e
            PROVE  e \in Wanted <=> \E n \in DOMAIN question.lists :
                     e \in {<<n, Page(n, i), i>> : i \in Kept(List(n))}
        BY DEF Wanted, Page
      <4>3. ASSUME NEW n \in DOMAIN question.lists, NEW e
            PROVE  e \in {<<n, Page(n, i), i>> : i \in Kept(List(n))}'
                     <=> e \in {<<n, Page(n, i), i>> : i \in Kept(List(n))}
        BY <3>3
      <4> QED BY <4>1, <4>2, <4>3
    <3> QED BY <1>1, <3>1, <3>4 DEF WantedBefore
  <2> QED BY <1>2, <1>6, <2>6, <2>7, <2>8 DEF LiveInv
<1> QED BY <1>7, <1>8

\* Every step of the reader and of the repository keeps the invariant.
LEMMA LiveStep == LiveInv /\ [LiveNext]_liveVars => LiveInv'
<1> SUFFICES ASSUME LiveInv, [LiveNext]_liveVars PROVE LiveInv' OBVIOUS
<1>1. CASE \E q \in Questions : Ask(q) BY <1>1, AskStep
<1>2. CASE GetFails \/ NotAList
  <2>1. /\ answer' = Exit
        /\ UNCHANGED <<repository, question, listNo, pageNo, results, atStart, grew, shrank>>
    BY <1>2 DEF GetFails, NotAList
  <2>2. CompleteIsComplete' BY <2>1 DEF CompleteIsComplete, Exit
  <2> QED BY <2>1, <2>2, PrintStep
<1>3. CASE GetOnce
  <2>1. PICK got : answer' = Printed(got, FALSE) BY <1>3 DEF GetOnce
  <2>2. UNCHANGED <<repository, question, listNo, pageNo, results, atStart, grew, shrank>>
    BY <1>3 DEF GetOnce
  <2>3. CompleteIsComplete' BY <2>1 DEF CompleteIsComplete, Printed
  <2> QED BY <2>2, <2>3, PrintStep
<1>4. CASE CollectPage BY <1>4, CollectStep
<1>5. CASE Others BY <1>5, OthersStep
<1>6. CASE UNCHANGED liveVars
  <2>1. /\ UNCHANGED <<repository, question, listNo, pageNo, results, atStart, grew, shrank, answer>>
        /\ UNCHANGED <<kinds, opened, question>>
    BY <1>6 DEF liveVars, reading, repository
  <2>2. Kept(atStart)' = Kept(atStart) BY <2>1 DEF Kept, IssueOnly
  <2>3. CompleteIsComplete'
    BY <2>1, <2>2, Unmoved DEF LiveInv, CompleteIsComplete
  <2> QED BY <2>1, <2>3, PrintStep
<1> QED BY <1>1, <1>2, <1>3, <1>4, <1>5, <1>6 DEF LiveNext

\* An answer of the live reader that says it is complete is: if nothing left the
\* lists while they were read, everything is there that was on them when the
\* question was asked, unless --limit cut it; if nothing came, nothing is there
\* twice; if neither happened, it is the list, or its head.
THEOREM CompleteAnswers == LiveSpec => []CompleteIsComplete
<1>1. LiveInv => CompleteIsComplete BY DEF LiveInv
<1> QED BY <1>1, LiveStart, LiveStep, PTL DEF LiveSpec
=============================================================================
