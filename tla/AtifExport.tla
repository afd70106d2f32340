----------------------------- MODULE AtifExport -----------------------------
(***************************************************************************)
(* Trajectory export: nemo-relay's object_store sink in the sandbox sends  *)
(* a snapshot of a session with PUT to atif-bridge.py, which forwards it   *)
(* to relay.py on the host, which puts it into an object store.  Every hop *)
(* may give up, die or lose an answer after the next one has done its work.*)
(***************************************************************************)
EXTENDS Naturals, FiniteSets

CONSTANTS Sessions,     \* a session's key; each export of it is a new version
          Instances,    \* EC2 instance ids
          Configs,      \* environments the relay may be given
          Slots,        \* requests that can be under way
          MaxVersion,   \* exports of a session
          MaxAttempts,  \* tries of one put_object by boto3: 3 in the code
          MaxEvents     \* failures, stops and other moves of the environment

ASSUME AtifAssumption ==
  /\ MaxVersion \in Nat /\ MaxEvents \in Nat /\ MaxAttempts \in Nat \ {0}
  /\ Configs \subseteq [downstream : {"s3", "minio", "s3-compatible", "other"},
                        prefixer : {"none", "ec2-instance-id", "other"},
                        static : STRING, bucket : STRING, token : STRING,
                        region : BOOLEAN, keys : BOOLEAN, creds : BOOLEAN, tls : BOOLEAN,
                        endpoint : {"", "https", "http-loopback", "http-remote"}]

VARIABLES
  config,    \* the relay's environment
  instance,  \* the instance id that the metadata service reports
  issued,    \* number of the token the L7 proxy substitutes
  relay,     \* the relay process: up, its token, its memoized prefix
  put,       \* requests under way, by slot
  export,    \* the sink, by session: newest version and what became of it
  acked,     \* by session: newest version the sink knows to be stored
  disabled,  \* the sink was filtered out for a missing ETag
  object,    \* the store: version of each object, by bucket, prefix and key
  written,   \* history: every object version ever stored
  noETag,    \* history: the store answered without an ETag
  late,      \* history: sessions with a request nobody waited for any more
  events     \* moves of the environment so far

vars == <<config, instance, issued, relay, put, export, acked, disabled,
          object, written, noETag, late, events>>

Placeholder == "atif-export"   \* the bucket segment the sandbox sends
NoKey == "no key"
Free == [at |-> "free"]
\* The slot of the next request, if there is one.
Slot == LET free == {a \in Slots : put[a] = Free}
        IN IF free = {} THEN {} ELSE {CHOOSE a \in free : TRUE}
Live(a) == put[a].at \notin {"free", "answered"}

\* The environment moves MaxEvents times.
Event == events < MaxEvents /\ events' = events + 1

-----------------------------------------------------------------------------
(* Relay start: relay.py's configuration, backends/ and main *)

\* The endpoint a backend uses; MinIO has a local default.
MinioEndpoint(c) == IF c.endpoint = "" THEN "http-loopback" ELSE c.endpoint
EndpointOf(c) ==
  CASE c.downstream = "s3" -> "https"
    [] c.downstream = "minio" -> MinioEndpoint(c)
    [] OTHER -> c.endpoint

_validate_endpoint(endpoint) == endpoint \in {"https", "http-loopback"}

build_prefixer(name) == name \in {"none", "ec2-instance-id"}

\* The from_env that build_backend calls either builds the backend or exits.
S3FromEnv(c) == c.region /\ build_prefixer(c.prefixer)
EndpointFromEnv(c) ==
  c.endpoint # "" /\ c.keys /\ build_prefixer(c.prefixer) /\ _validate_endpoint(c.endpoint)
MinioFromEnv(c) == build_prefixer(c.prefixer) /\ _validate_endpoint(MinioEndpoint(c))

build_backend(c) ==
  \/ c.downstream = "s3" /\ S3FromEnv(c)
  \/ c.downstream = "minio" /\ MinioFromEnv(c)
  \/ c.downstream = "s3-compatible" /\ EndpointFromEnv(c)

Required(c) == c.bucket # "" /\ c.token # ""
_probe(c) == c.downstream = "s3" => c.creds

\* Ec2InstanceIdPrefixer and NonePrefixer: what compute() memoizes.
Compute(c) == IF c.prefixer = "none" THEN "" ELSE instance

Prefix(c) == <<Compute(c), c.static>>

\* main: configuration, health probe (which resolves the prefix), certificate and
\* key, then listen.
RelayStarts ==
  /\ ~relay.up
  /\ Required(config) /\ build_backend(config) /\ _probe(config) /\ config.tls
  /\ relay' = [up |-> TRUE, token |-> issued, prefix |-> Prefix(config)]
  /\ UNCHANGED <<config, instance, issued, put, export, acked, disabled, object,
                 written, noETag, late, events>>

\* The metadata service does not answer: health_probe raises and main exits.
ProbeFails ==
  /\ ~relay.up
  /\ Required(config) /\ build_backend(config) /\ config.prefixer = "ec2-instance-id"
  /\ Event
  /\ UNCHANGED <<config, instance, issued, relay, put, export, acked, disabled,
                 object, written, noETag, late>>

-----------------------------------------------------------------------------
(* The sink (external): one request per session at a time, as often as it   *)
(* likes until one is acknowledged; it may stop waiting.                    *)

Request(s, v, method, size) ==
  [at |-> "bridge", key |-> s, version |-> v, method |-> method, size |-> size,
   token |-> 0, ekey |-> <<>>, tries |-> 0, status |-> 0, etag |-> FALSE,
   bridge |-> TRUE, client |-> TRUE]

Sends(s, v) ==
  \E a \in Slot :
    /\ put' = [put EXCEPT ![a] = Request(s, v, "PUT", "fits")]
    /\ export' = [export EXCEPT ![s] = [version |-> v, state |-> "waits"]]
    /\ UNCHANGED <<config, instance, issued, relay, acked, disabled, object,
                   written, noETag, late, events>>

Export(s) ==
  /\ ~disabled
  /\ export[s].state # "waits"
  /\ export[s].version < MaxVersion
  /\ Sends(s, export[s].version + 1)

Retry(s) ==
  /\ ~disabled
  /\ export[s].state = "failed"
  /\ Sends(s, export[s].version)

\* Anything else in the sandbox may talk to the bridge, which forwards it.
Stray ==
  \E a \in Slot, r \in {Request(CHOOSE s \in Sessions : TRUE, 0, "GET", "fits"),
                         Request(NoKey, 0, "PUT", "fits"),
                         Request(CHOOSE s \in Sessions : TRUE, 0, "PUT", "huge")} :
    /\ put' = [put EXCEPT ![a] = [r EXCEPT !.client = FALSE]]
    /\ Event
    /\ UNCHANGED <<config, instance, issued, relay, export, acked, disabled,
                   object, written, noETag, late>>

\* What the sink makes of an answer; one without ETag filters it out for good.
Receives(s, status, etag) ==
  /\ export' = [export EXCEPT ![s].state = IF status = 200 THEN "idle" ELSE "failed"]
  /\ acked' = [acked EXCEPT ![s] =
                 IF status = 200 /\ etag THEN export[s].version ELSE @]
  /\ disabled' = (disabled \/ (status = 200 /\ ~etag))

StopsWaiting(a) ==
  /\ put[a].at # "free" /\ put[a].client
  /\ Event
  /\ put' = [put EXCEPT ![a].client = FALSE]
  /\ export' = [export EXCEPT ![put[a].key].state = "failed"]
  /\ late' = IF Live(a) THEN late \cup {put[a].key} ELSE late
  /\ UNCHANGED <<config, instance, issued, relay, acked, disabled, object,
                 written, noETag>>

-----------------------------------------------------------------------------
(* atif-bridge.py *)

\* forwardable_headers keeps everything that is not hop by hop.
HOP_BY_HOP == {"connection", "host", "content-length", "transfer-encoding"}
forwardable_headers_NoETag(headers) == headers \ (HOP_BY_HOP \cup {"etag"})
forwardable_headers(headers) == headers \ HOP_BY_HOP

\* The end of forward: the caller gets the answer if it is still there.
Return(a, next, status, headers) ==
  /\ put' = [put EXCEPT ![a] = IF next = "answered" THEN Free
                               ELSE [@ EXCEPT !.bridge = FALSE, !.client = FALSE]]
  /\ IF put[a].client THEN Receives(put[a].key, status, "etag" \in headers)
     ELSE UNCHANGED <<export, acked, disabled>>

\* The body is buffered and sent; the L7 proxy puts in the token on the way.
Forward(a) ==
  /\ put[a].at = "bridge"
  /\ relay.up
  /\ put' = [put EXCEPT ![a].at = "relay", ![a].token = issued]
  /\ UNCHANGED <<config, instance, issued, relay, export, acked, disabled, object,
                 written, noETag, late, events>>

\* No connection, or one that breaks before an answer: 502.
UpstreamError_OnConnect(a) ==
  /\ put[a].at = "bridge" /\ ~relay.up
  /\ Return(a, "answered", 502, {})
  /\ UNCHANGED <<config, instance, issued, relay, object, written, noETag, late, events>>
UpstreamError(a) ==
  /\ \/ put[a].at = "bridge" /\ (relay.up => events < MaxEvents)
     \/ put[a].at = "answered" /\ put[a].status = 0
  /\ events' = IF put[a].at = "bridge" /\ relay.up THEN events + 1 ELSE events
  /\ Return(a, "answered", 502, {})
  /\ UNCHANGED <<config, instance, issued, relay, object, written, noETag, late>>

\* The session's total timeout: 502, while the relay goes on.
UpstreamTimeout(a) ==
  /\ put[a].at \in {"relay", "backend"} /\ put[a].bridge
  /\ Return(a, "timeout", 502, {})
  /\ late' = late \cup {put[a].key}
  /\ Event
  /\ UNCHANGED <<config, instance, issued, relay, object, written, noETag>>

UpstreamAnswers(a) ==
  /\ put[a].at = "answered" /\ put[a].status # 0
  /\ Return(a, "answered", put[a].status,
            forwardable_headers({"content-length"} \cup IF put[a].etag THEN {"etag"} ELSE {}))
  /\ UNCHANGED <<config, instance, issued, relay, object, written, noETag, late, events>>

-----------------------------------------------------------------------------
(* relay.py and S3CompatibleBackend *)

\* The checks of relay, in order; 200 stands for none of them.
Check(r) == IF r.method # "PUT" THEN 405
            ELSE IF r.token # relay.token THEN 403
            ELSE IF r.key = NoKey THEN 400
            ELSE IF r.size = "huge" THEN 413 ELSE 200

\* The relay's answer reaches the bridge, or nobody.
Answer(a, status, etag) ==
  put' = [put EXCEPT ![a] = IF @.bridge
                            THEN [@ EXCEPT !.at = "answered", !.status = status, !.etag = etag]
                            ELSE Free]

Reject(a) ==
  /\ put[a].at = "relay"
  /\ Check(put[a]) # 200
  /\ Answer(a, Check(put[a]), FALSE)
  /\ UNCHANGED <<config, instance, issued, relay, export, acked, disabled, object,
                 written, noETag, late, events>>

\* The request's bucket is ignored; the key gets the memoized prefix.
EffectiveKey_RequestBucket(r) == <<Placeholder, relay.prefix, r.key>>
EffectiveKey(r) == <<config.bucket, relay.prefix, r.key>>

\* Mutant: the put is left to a background task, if there is room, and answered at once.
Accept_Async(a) ==
  /\ put[a].at = "relay"
  /\ Check(put[a]) = 200
  /\ LET accepted == [put[a] EXCEPT !.at = "backend", !.ekey = EffectiveKey(put[a])]
     IN IF Slot = {} THEN put' = [put EXCEPT ![a] = accepted]
        ELSE \E b \in Slot :
               put' = [put EXCEPT ![a].at = "answered", ![a].status = 200, ![a].etag = TRUE,
                                  ![b] = [accepted EXCEPT !.bridge = FALSE, !.client = FALSE]]
  /\ UNCHANGED <<config, instance, issued, relay, export, acked, disabled, object,
                 written, noETag, late, events>>

Accept(a) ==
  /\ put[a].at = "relay"
  /\ Check(put[a]) = 200
  /\ put' = [put EXCEPT ![a].at = "backend", ![a].ekey = EffectiveKey(put[a])]
  /\ UNCHANGED <<config, instance, issued, relay, export, acked, disabled, object,
                 written, noETag, late, events>>

\* External: the instance role may write under its own prefix only.
Permits(ekey) == (config.downstream = "s3" /\ config.prefixer = "ec2-instance-id")
                   => ekey[2][1] = instance

Stores(a) ==
  /\ object' = [k \in DOMAIN object \cup {put[a].ekey} |->
                  IF k = put[a].ekey THEN put[a].version ELSE object[k]]
  /\ written' = written \cup {<<put[a].ekey, put[a].version>>}

\* put_object in the executor's thread succeeds, with an ETag or without.
StorePuts(a) ==
  /\ put[a].at = "backend" /\ Permits(put[a].ekey)
  /\ Stores(a)
  /\ \/ /\ Answer(a, 200, TRUE)
        /\ UNCHANGED <<noETag, events>>
     \/ /\ Answer(a, 200, FALSE)
        /\ noETag' = TRUE
        /\ Event
  /\ UNCHANGED <<config, instance, issued, relay, export, acked, disabled, late>>

StoreRefuses(a) ==
  /\ put[a].at = "backend" /\ ~Permits(put[a].ekey)
  /\ Answer(a, 403, FALSE)
  /\ UNCHANGED <<config, instance, issued, relay, export, acked, disabled, object,
                 written, noETag, late, events>>

\* A try fails, before or after the object was stored.  boto3 tries again, and
\* after the last try the error is a transport error or the store's own.
StoreFails_Swallowed(a) ==
  /\ put[a].at = "backend"
  /\ Event
  /\ Answer(a, 200, TRUE)
  /\ UNCHANGED <<config, instance, issued, relay, object, written, export, acked,
                 disabled, noETag, late>>
StoreFails(a) ==
  /\ put[a].at = "backend"
  /\ Event
  /\ \/ Permits(put[a].ekey) /\ Stores(a)
     \/ UNCHANGED <<object, written>>
  /\ IF put[a].tries + 1 < MaxAttempts
     THEN put' = [put EXCEPT ![a].tries = @ + 1]
     ELSE \E status \in {502, 503} : Answer(a, status, FALSE)
  /\ UNCHANGED <<config, instance, issued, relay, export, acked, disabled, noETag, late>>

\* boto3 stops waiting for a try, which is a failed one to it, and the store goes on
\* with that.
StoreStalls(a) ==
  /\ put[a].at = "backend"
  /\ Event
  /\ \E b \in Slot : put' = [put EXCEPT ![b] = [put[a] EXCEPT !.bridge = FALSE, !.client = FALSE]]
  /\ late' = late \cup {put[a].key}
  /\ UNCHANGED <<config, instance, issued, relay, export, acked, disabled, object, written, noETag>>

\* A stop ends what the relay was doing; the bridge sees a broken connection.
Broken(r) == IF r.at \notin {"relay", "backend"} THEN r
             ELSE IF r.bridge THEN [r EXCEPT !.at = "answered"] ELSE Free

RelayStops ==
  /\ relay.up
  /\ Event
  /\ relay' = [relay EXCEPT !.up = FALSE]
  /\ put' = [a \in Slots |-> Broken(put[a])]
  /\ UNCHANGED <<config, instance, issued, export, acked, disabled, object,
                 written, noETag, late>>

-----------------------------------------------------------------------------
(* What changes around them *)

RotateToken ==
  /\ Event
  /\ issued' = issued + 1
  /\ UNCHANGED <<config, instance, relay, put, export, acked, disabled, object,
                 written, noETag, late>>

ReplaceInstance ==
  /\ Event
  /\ instance' \in Instances \ {instance}
  /\ UNCHANGED <<config, issued, relay, put, export, acked, disabled, object,
                 written, noETag, late>>

Init ==
  /\ config \in Configs
  /\ instance \in Instances
  /\ issued = 1
  /\ relay = [up |-> FALSE, token |-> 0, prefix |-> <<>>]
  /\ put = [a \in Slots |-> Free]
  /\ export = [s \in Sessions |-> [version |-> 0, state |-> "idle"]]
  /\ acked = [s \in Sessions |-> 0]
  /\ disabled = FALSE
  /\ object = [k \in {} |-> 0]
  /\ written = {}
  /\ noETag = FALSE
  /\ late = {}
  /\ events = 0

Bridge(a) == Forward(a) \/ UpstreamError(a) \/ UpstreamTimeout(a) \/ UpstreamAnswers(a)
Backend(a) == StorePuts(a) \/ StoreRefuses(a) \/ StoreFails(a)

Next ==
  \/ RelayStarts \/ ProbeFails \/ RelayStops
  \/ RotateToken \/ ReplaceInstance \/ Stray
  \/ \E s \in Sessions : Export(s) \/ Retry(s)
  \/ \E a \in Slots : StopsWaiting(a) \/ Bridge(a) \/ Reject(a) \/ Accept(a) \/ Backend(a)
                         \/ StoreStalls(a)

\* The bridge and the relay run every ready handler; a thread's call ends.
Fairness == \A a \in Slots : WF_vars(Bridge(a)) /\ WF_vars(Reject(a) \/ Accept(a))
                               /\ WF_vars(Backend(a))

Spec == Init /\ [][Next]_vars /\ Fairness

-----------------------------------------------------------------------------
(* Properties *)

\* What the sink takes for stored was stored: lost answers, retries and
\* restarts never turn into an acknowledgement of something that is not there.
AckedIsStored ==
  \A s \in Sessions : acked[s] > 0 =>
    \E w \in written : w[1][3] = s /\ w[2] = acked[s]

\* A snapshot replaces a newer one of its session only if somebody stopped
\* waiting for a request, or a try of one, that went on: boto3's other retries,
\* lost answers and restarts of the relay keep the order.
NewestUnlessLate ==
  \A w \in written : w[1][3] \in late \/ object[w[1]] >= w[2]

\* The sink is filtered out for good only if the store gave no ETag: no other
\* failure on the way looks to it like an answer without one.
DisabledOnlyByStore == disabled => noETag

\* Everything stored is in the relay's bucket under the prefix of an instance,
\* if the relay is told to scope keys so, and no unsafe endpoint was used.
StoredInScope ==
  \A w \in written :
    /\ w[1][1] = config.bucket
    /\ config.prefixer = "ec2-instance-id" => w[1][2][1] \in Instances
    /\ w[1][2][2] = config.static
    /\ w[2] > 0
    /\ EndpointOf(config) # "http-remote"

\* Every request that reaches the bridge is answered, whatever the relay does.
PutsAnswered == \A s \in Sessions : (export[s].state = "waits") ~> (export[s].state # "waits")
=============================================================================
