---------------------------- MODULE RelayPlugin ----------------------------
(***************************************************************************)
(* The tool-call hooks of the nemo-relay plugin (agents/hermes/plugins/    *)
(* nemo-relay/__init__.py).  Hermes calls on_pre_tool_call without an id   *)
(* and on_post_tool_call with the provider's; the gateway makes one span   *)
(* of the two events only when they carry the same id.  The plugin makes   *)
(* an id up at the pre, queues it under (task_id, tool_name) and echoes    *)
(* the oldest queued id at the post.                                       *)
(*                                                                         *)
(* Tool calls run on threads: the queues are read and written under a      *)
(* lock, the events are forwarded outside it.  A queue holds the calls     *)
(* whose ids were queued; the id of call c is Id[c].                       *)
(***************************************************************************)
EXTENDS Naturals, Sequences, FiniteSets

CONSTANTS
  Calls,        \* the tool calls of a behaviour
  Keys,         \* pairs (task_id, tool_name)
  Key,          \* Key[c]: the pair call c is made under
  Id,           \* Id[c]: digest of the pair and the arguments of c
  Cap,          \* _PENDING_MAX_PER_KEY
  MaxOpen,      \* calls Hermes dispatches at a time
  None          \* no call

ASSUME RelayAssumption ==
  /\ IsFiniteSet(Calls)
  /\ Key \in [Calls -> Keys]
  /\ \A c, d \in Calls : Id[c] = Id[d] => Key[c] = Key[d]
  /\ Cap \in Nat \ {0} /\ MaxOpen \in Nat \ {0}
  /\ None \notin Calls

VARIABLES
  stage,        \* stage[c]: how far call c has come
  pending,      \* _PENDING_PRE
  echo,         \* echo[c]: the call whose id the post of c carries, None if its own
  begun,        \* history: the calls in the order of their pre events
  disturbed     \* history: keys under which the queue and the calls got out of step

vars == <<stage, pending, echo, begun, disturbed>>

\* "new": not dispatched; "queued": its id is queued, the pre event not sent;
\* "running": the tool may run; "popped": its post has an id, not sent yet.
CallStages == {"new", "queued", "running", "popped", "done", "blocked"}

\* The bucket of key k; a missing bucket is empty.
Bucket(k) == IF k \in DOMAIN pending THEN pending[k] ELSE <<>>

\* deque(maxlen=Cap).append: a full deque drops its oldest entry.
Appended(q, c) == Append(IF Len(q) = Cap THEN Tail(q) ELSE q, c)

\* _PENDING_PRE with q as the bucket of k; an empty bucket is deleted.
WithBucket(k, q) ==
  LET keys == IF q = <<>> THEN DOMAIN pending \ {k} ELSE DOMAIN pending \cup {k}
  IN  [j \in keys |-> IF j = k THEN q ELSE pending[j]]

\* Hermes dispatches c only when fewer than MaxOpen calls are open.
MayBegin(c) ==
  /\ stage[c] = "new"
  /\ Cardinality({d \in Calls : stage[d] \in {"queued", "running", "popped"}}) < MaxOpen

\* A call of c's key that began before c and whose post is still to come.
Overtakes(c) ==
  \E i, j \in 1..Len(begun) :
    /\ i < j /\ begun[j] = c
    /\ Key[begun[i]] = Key[c]
    /\ stage[begun[i]] \in {"queued", "running"}

-----------------------------------------------------------------------------
\* Mutant of PrePush: a plain list is the bucket.
PrePush_Unbounded(c) ==
  /\ MayBegin(c)
  /\ stage' = [stage EXCEPT ![c] = "queued"]
  /\ begun' = Append(begun, c)
  /\ pending' = WithBucket(Key[c], Append(Bucket(Key[c]), c))
  /\ UNCHANGED <<echo, disturbed>>

\* on_pre_tool_call, under the lock.
PrePush(c) ==
  /\ MayBegin(c)
  /\ stage' = [stage EXCEPT ![c] = "queued"]
  /\ begun' = Append(begun, c)
  /\ pending' = WithBucket(Key[c], Appended(Bucket(Key[c]), c))
  /\ disturbed' = IF Len(Bucket(Key[c])) = Cap THEN disturbed \cup {Key[c]} ELSE disturbed
  /\ UNCHANGED echo

\* on_pre_tool_call, the rest: the event is forwarded, or lost (_forward
\* swallows every error); Hermes goes on either way.
PreForward(c) ==
  /\ stage[c] = "queued"
  /\ stage' = [stage EXCEPT ![c] = "running"]
  /\ UNCHANGED <<pending, echo, begun, disturbed>>

\* The pre of c was missed: the call began before the plugin was loaded.
PreMissed(c) ==
  /\ MayBegin(c)
  /\ stage' = [stage EXCEPT ![c] = "running"]
  /\ disturbed' = disturbed \cup {Key[c]}
  /\ UNCHANGED <<pending, echo, begun>>

\* Hermes blocks the tool after the pre event: there is no post.
Block(c) ==
  /\ stage[c] = "running"
  /\ stage' = [stage EXCEPT ![c] = "blocked"]
  /\ disturbed' = disturbed \cup {Key[c]}
  /\ UNCHANGED <<pending, echo, begun>>

\* What on_post_tool_call takes from a bucket, and what it leaves.
Popped_Last(q) == q[Len(q)]           \* mutant of Popped: pop instead of popleft
Popped(q) == Head(q)
Left_Peek(q) == q                     \* mutant of Left: the entry stays
Left(q) == Tail(q)

\* on_post_tool_call, under the lock: the oldest id of the key, or the call's
\* own when nothing is queued.
PostPop(c) ==
  LET q == Bucket(Key[c])
  IN  /\ stage[c] = "running"
      /\ stage' = [stage EXCEPT ![c] = "popped"]
      /\ IF q = <<>>
           THEN UNCHANGED <<pending, echo>>
           ELSE /\ pending' = WithBucket(Key[c], Left(q))
                /\ echo' = [echo EXCEPT ![c] = Popped(q)]
      /\ disturbed' = IF Overtakes(c) THEN disturbed \cup {Key[c]} ELSE disturbed
      /\ UNCHANGED begun

PostForward(c) ==
  /\ stage[c] = "popped"
  /\ stage' = [stage EXCEPT ![c] = "done"]
  /\ UNCHANGED <<pending, echo, begun, disturbed>>

Init ==
  /\ stage = [c \in Calls |-> "new"]
  /\ pending = [k \in {} |-> <<>>]
  /\ echo = [c \in Calls |-> None]
  /\ begun = <<>>
  /\ disturbed = {}

Call(c) ==
  PrePush(c) \/ PreForward(c) \/ PreMissed(c) \/ Block(c) \/ PostPop(c) \/ PostForward(c)

Next == \E c \in Calls : Call(c)

Spec == Init /\ [][Next]_vars

-----------------------------------------------------------------------------
PluginTypeOK ==
  /\ stage \in [Calls -> CallStages]
  /\ DOMAIN pending \subseteq Keys
  /\ \A k \in DOMAIN pending : pending[k] \in Seq(Calls)
  /\ echo \in [Calls -> Calls \cup {None}]
  /\ begun \in Seq(Calls)
  /\ disturbed \subseteq Keys

HasPost(c) == stage[c] \in {"popped", "done"}

\* A queue entry is echoed by one post at most, so that a span never gets two ends
\* from one pre, however calls overlap, are blocked or are evicted.
EchoedOnce ==
  \A c, d \in Calls : echo[c] # None /\ echo[c] = echo[d] => c = d

\* As long as the calls of a key end in the order they began, none is blocked
\* and none is evicted, every post carries the id of its own pre.
PairedInStep ==
  \A c \in Calls : HasPost(c) /\ Key[c] \notin disturbed => echo[c] = c

\* The queues stay within their bound and hold no bucket for nothing: a call
\* that has its post, or never had a pre, is not in a bucket of an undisturbed
\* key, and no bucket is empty.
BucketsBounded ==
  \A k \in DOMAIN pending :
    /\ Len(pending[k]) \in 1..Cap
    /\ k \notin disturbed =>
         \A i \in 1..Len(pending[k]) : stage[pending[k][i]] \in {"queued", "running"}
=============================================================================
