------------------------- MODULE RelayPluginProofs -------------------------
(***************************************************************************)
(* The pairing of tool-call events, for every set of calls, keys and       *)
(* arguments, every capacity of the queues and every number of open calls. *)
(* The inductive invariant says what a bucket holds: distinct calls of its *)
(* own key that began and that no post has echoed; and, as long as a key   *)
(* is not disturbed, exactly its open calls in the order they began.       *)
(***************************************************************************)
EXTENDS RelayHooks, TLAPS

Open(c)      == stage[c] \in {"queued", "running"}
Begun(c)     == \E i \in 1..Len(begun) : begun[i] = c
Before(c, d) == \E i, j \in 1..Len(begun) : i < j /\ begun[i] = c /\ begun[j] = d

\* Call c is the i-th entry of the bucket of key k.
At(k, i, c)  == i \in 1..Len(Bucket(k)) /\ Bucket(k)[i] = c
Waits(c)     == \E i \in Nat : At(Key[c], i, c)

\* No bucket is empty, and none is longer than the capacity.
NoEmptyBucket == \A k \in DOMAIN pending : pending[k] # <<>>
WithinCap     == \A k \in Keys : Len(Bucket(k)) <= Cap

\* A bucket holds calls of its key that began, each of them once.
Filed ==
  \A k \in Keys, i \in Nat, c \in Calls :
    At(k, i, c) => /\ Key[c] = k /\ Begun(c)
                   /\ \A j \in Nat : At(k, j, c) => i = j

\* A call that is new has not begun.
NewNotBegun == \A c \in Calls : stage[c] = "new" => ~Begun(c)

\* A call whose id was echoed began and is not queued any more.
EchoedIsOut == \A c, d \in Calls : echo[c] = d => Begun(d) /\ ~Waits(d)

\* The bucket of an undisturbed key: its open calls, in the order they began.
InStep ==
  \A k \in Keys \ disturbed :
    /\ \A c \in Calls : Key[c] = k /\ Open(c) => Waits(c)
    /\ \A i \in Nat, c \in Calls : At(k, i, c) => Open(c)
    /\ \A i, j \in Nat, c, d \in Calls :
         At(k, i, c) /\ At(k, j, d) /\ i < j => Before(c, d)

PInv == /\ PluginTypeOK /\ NoEmptyBucket /\ WithinCap /\ Filed /\ NewNotBegun
        /\ EchoedIsOut /\ EchoedOnce /\ InStep /\ PairedInStep

-----------------------------------------------------------------------------
\* What the appended deque holds: the call last, and before it the old entries,
\* without the oldest one when the deque was full.
LEMMA AppendedEntries ==
  ASSUME NEW q \in Seq(Calls), NEW c \in Calls, Len(q) <= Cap
  PROVE  /\ Appended(q, c) \in Seq(Calls)
         /\ Len(Appended(q, c)) \in 1..Cap
         /\ Appended(q, c)[Len(Appended(q, c))] = c
         /\ \E s \in {0, 1} :
              /\ s = 0 <=> Len(q) < Cap
              /\ Len(Appended(q, c)) = Len(q) + 1 - s
              /\ \A i \in 1..(Len(Appended(q, c)) - 1) :
                   /\ i + s \in 1..Len(q)
                   /\ Appended(q, c)[i] = q[i + s]
  <1> USE RelayAssumption DEF Appended
  <1>1. CASE Len(q) = Cap
    <2> DEFINE r == Append(Tail(q), c)
    <2>1. q # <<>> /\ Len(Tail(q)) = Len(q) - 1 /\ Tail(q) \in Seq(Calls)
      BY <1>1
    <2>2. \A i \in 1..Len(Tail(q)) : Tail(q)[i] = q[i + 1]
      BY <2>1
    <2>3. r \in Seq(Calls) /\ Len(r) = Len(q) /\ r[Len(r)] = c
      BY <2>1
    <2>4. \A i \in 1..(Len(r) - 1) : r[i] = q[i + 1] /\ i + 1 \in 1..Len(q)
      BY <2>1, <2>2, <2>3
    <2>5. QED
      BY <1>1, <2>3, <2>4
  <1>2. CASE Len(q) # Cap
    BY <1>2
  <1>3. QED
    BY <1>1, <1>2

\* What a write of _PENDING_PRE does to the buckets.
LEMMA BucketWritten ==
  ASSUME PluginTypeOK, NEW k \in Keys, NEW q \in Seq(Calls), pending' = WithBucket(k, q)
  PROVE  /\ DOMAIN pending' \subseteq Keys
         /\ \A j \in DOMAIN pending' : pending'[j] \in Seq(Calls)
         /\ \A j \in Keys : Bucket(j)' = IF j = k THEN q ELSE Bucket(j)
         /\ NoEmptyBucket => NoEmptyBucket'
  <1> DEFINE keys == IF q = <<>> THEN DOMAIN pending \ {k} ELSE DOMAIN pending \cup {k}
  <1>1. pending' = [j \in keys |-> IF j = k THEN q ELSE pending[j]]
    BY DEF WithBucket
  <1>2. DOMAIN pending' = keys
    BY <1>1
  <1>3. \A j \in keys : pending'[j] = IF j = k THEN q ELSE pending[j]
    BY <1>1
  <1>4. QED
    BY <1>2, <1>3 DEF PluginTypeOK, Bucket, NoEmptyBucket

\* A bucket is a sequence of calls.
LEMMA BucketType ==
  ASSUME PluginTypeOK, NEW k \in Keys PROVE Bucket(k) \in Seq(Calls)
  BY DEF PluginTypeOK, Bucket

\* Appending to begun keeps what began and in which order.
LEMMA BegunGrows ==
  ASSUME PluginTypeOK, NEW c \in Calls, begun' = Append(begun, c)
  PROVE  /\ begun' \in Seq(Calls)
         /\ \A d \in Calls : Begun(d)' <=> Begun(d) \/ d = c
         /\ \A d, e \in Calls : Before(d, e) => Before(d, e)'
         /\ \A d \in Calls : Begun(d) => Before(d, c)'
  <1>1. begun \in Seq(Calls)
    BY DEF PluginTypeOK
  <1>2. /\ begun' \in Seq(Calls) /\ Len(begun') = Len(begun) + 1
        /\ begun'[Len(begun) + 1] = c
        /\ \A i \in 1..Len(begun) : begun'[i] = begun[i]
    BY <1>1
  <1>3. \A d \in Calls : Begun(d)' <=> Begun(d) \/ d = c
    BY <1>1, <1>2 DEF Begun
  <1>4. \A d, e \in Calls : Before(d, e) => Before(d, e)'
    BY <1>1, <1>2 DEF Before
  <1>5. \A d \in Calls : Begun(d) => Before(d, c)'
    BY <1>1, <1>2 DEF Before, Begun
  <1>6. QED
    BY <1>2, <1>3, <1>4, <1>5

-----------------------------------------------------------------------------
\* The plugin starts with no queue.
LEMMA PluginInit == Init => PInv
  <1> SUFFICES ASSUME Init PROVE PInv
    OBVIOUS
  <1> USE RelayAssumption DEF Init
  <1>1. \A k : Bucket(k) = <<>>
    BY DEF Bucket
  <1>2. PluginTypeOK /\ NoEmptyBucket
    BY DEF PluginTypeOK, NoEmptyBucket, CallStages
  <1>3. WithinCap /\ Filed /\ NewNotBegun
    BY <1>1 DEF WithinCap, Filed, NewNotBegun, Begun, At
  <1>4. EchoedIsOut /\ EchoedOnce /\ PairedInStep
    BY DEF EchoedIsOut, EchoedOnce, PairedInStep, HasPost
  <1>5. InStep
    BY <1>1 DEF InStep, Open, At
  <1>6. QED
    BY <1>2, <1>3, <1>4, <1>5 DEF PInv

\* The actions that touch no queue: they move one call on, and what takes an
\* open call out of step disturbs its key.
LEMMA QuietStep ==
  ASSUME PInv, NEW c \in Calls, PreForward(c) \/ PreMissed(c) \/ Block(c) \/ PostForward(c)
  PROVE  PInv'
  <1> USE RelayAssumption DEF PInv
  <1>1. UNCHANGED <<pending, echo, begun>> /\ disturbed \subseteq disturbed'
    BY DEF PreForward, PreMissed, Block, PostForward
  <1>2. /\ \A k, i, d : At(k, i, d)' <=> At(k, i, d)
        /\ \A d : Begun(d)' <=> Begun(d)
        /\ \A d, e : Before(d, e)' <=> Before(d, e)
        /\ \A d : Waits(d)' <=> Waits(d)
    BY <1>1 DEF At, Begun, Before, Waits, Bucket
  <1>3. PluginTypeOK'
    BY DEF PluginTypeOK, CallStages, PreForward, PreMissed, Block, PostForward, MayBegin
  <1>4. NoEmptyBucket' /\ WithinCap' /\ EchoedOnce'
    BY <1>1 DEF NoEmptyBucket, WithinCap, EchoedOnce, Bucket
  <1>5. Filed' /\ EchoedIsOut'
    BY <1>1, <1>2 DEF Filed, EchoedIsOut
  <1>6. \A d \in Calls : stage'[d] = "new" => stage[d] = "new"
    BY DEF PluginTypeOK, PreForward, PreMissed, Block, PostForward, MayBegin
  <1>7. NewNotBegun'
    BY <1>2, <1>6 DEF NewNotBegun
  <1>8. \A d \in Calls : Key[d] \notin disturbed' =>
          (Open(d)' <=> Open(d)) /\ (HasPost(d)' <=> HasPost(d))
    BY DEF PluginTypeOK, PreForward, PreMissed, Block, PostForward, MayBegin, Open, HasPost
  <1>9. PairedInStep'
    BY <1>1, <1>8 DEF PairedInStep
  <1>10. InStep'
    BY <1>1, <1>2, <1>8 DEF InStep, Filed
  <1>11. QED
    BY <1>3, <1>4, <1>5, <1>7, <1>9, <1>10

\* What a push does to the positions: the new call comes last; with the deque
\* full the others move up by one.
LEMMA PushPositions ==
  ASSUME PInv, NEW c \in Calls, PrePush(c)
  PROVE  /\ (PluginTypeOK /\ NoEmptyBucket /\ WithinCap)'
         /\ \E s \in {0, 1}, last \in Nat \ {0} :
              /\ Key[c] \notin disturbed' => s = 0
              /\ \A k \in Keys, i \in Nat, d \in Calls :
                   At(k, i, d)' <=>
                     IF k = Key[c] THEN \/ i = last /\ d = c
                                        \/ i \in 1..(last - 1) /\ At(k, i + s, d)
                                   ELSE At(k, i, d)
              /\ \A i \in Nat, d \in Calls : At(Key[c], i, d) => i < last + s
  <1> DEFINE k0 == Key[c]
             q  == Bucket(k0)
             r  == Appended(q, c)
  <1> USE RelayAssumption DEF PInv
  <1>1. k0 \in Keys /\ q \in Seq(Calls) /\ Len(q) <= Cap
    BY BucketType DEF WithinCap
  <1>2. PICK s \in {0, 1} :
          /\ s = 0 <=> Len(q) < Cap
          /\ r \in Seq(Calls) /\ Len(r) \in 1..Cap /\ r[Len(r)] = c
          /\ Len(r) = Len(q) + 1 - s
          /\ \A i \in 1..(Len(r) - 1) : i + s \in 1..Len(q) /\ r[i] = q[i + s]
    <2> HIDE DEF q
    <2>1. /\ Appended(q, c) \in Seq(Calls) /\ Len(Appended(q, c)) \in 1..Cap
          /\ Appended(q, c)[Len(Appended(q, c))] = c
          /\ \E s \in {0, 1} :
               /\ s = 0 <=> Len(q) < Cap
               /\ Len(Appended(q, c)) = Len(q) + 1 - s
               /\ \A i \in 1..(Len(Appended(q, c)) - 1) :
                    i + s \in 1..Len(q) /\ Appended(q, c)[i] = q[i + s]
      BY <1>1, AppendedEntries
    <2> HIDE DEF r
    <2>2. Appended(q, c) = r
      BY DEF r
    <2>3. QED
      BY <2>1, <2>2
  <1>3. /\ DOMAIN pending' \subseteq Keys
        /\ \A j \in DOMAIN pending' : pending'[j] \in Seq(Calls)
        /\ \A j \in Keys : Bucket(j)' = IF j = k0 THEN r ELSE Bucket(j)
        /\ NoEmptyBucket'
    <2>1. pending' = WithBucket(k0, r)
      BY DEF PrePush
    <2> HIDE DEF k0, q, r
    <2>2. QED
      BY <1>1, <1>2, <2>1, BucketWritten
  <1>4. /\ stage' = [stage EXCEPT ![c] = "queued"]
        /\ echo' = echo
        /\ disturbed' = IF Len(q) = Cap THEN disturbed \cup {k0} ELSE disturbed
        /\ begun' \in Seq(Calls)
    BY BegunGrows DEF PrePush
  <1>5. \A i \in Nat, d \in Calls : At(k0, i, d) <=> i \in 1..Len(q) /\ q[i] = d
    BY DEF At
  <1>6. \A i \in Nat, d \in Calls : At(k0, i, d)' <=> i \in 1..Len(r) /\ r[i] = d
    <2> HIDE DEF r
    <2> QED BY <1>1, <1>3 DEF At
  <1>7. \A k \in Keys, i \in Nat, d \in Calls : k # k0 => (At(k, i, d)' <=> At(k, i, d))
    BY <1>3 DEF At
  <1> HIDE DEF k0, q, r
  <1>8. PluginTypeOK'
    BY <1>1, <1>3, <1>4 DEF PluginTypeOK, CallStages
  <1>9. WithinCap'
    BY <1>2, <1>3 DEF WithinCap
  <1>10. k0 \notin disturbed' => s = 0
    BY <1>1, <1>2, <1>4
  <1>11. \A i \in Nat, d \in Calls :
           At(k0, i, d)' <=> \/ i = Len(r) /\ d = c
                             \/ i \in 1..(Len(r) - 1) /\ At(k0, i + s, d)
    BY <1>1, <1>2, <1>5, <1>6
  <1>12. \A i \in Nat, d \in Calls : At(k0, i, d) => i < Len(r) + s
    BY <1>1, <1>2, <1>5
  <1>13. Len(r) \in Nat \ {0}
    BY <1>2
  <1>14. \A k \in Keys, i \in Nat, d \in Calls :
           At(k, i, d)' <=> IF k = k0 THEN \/ i = Len(r) /\ d = c
                                           \/ i \in 1..(Len(r) - 1) /\ At(k, i + s, d)
                                      ELSE At(k, i, d)
    BY <1>7, <1>11
  <1>15. \E t \in {0, 1}, last \in Nat \ {0} :
           /\ k0 \notin disturbed' => t = 0
           /\ \A k \in Keys, i \in Nat, d \in Calls :
                At(k, i, d)' <=> IF k = k0 THEN \/ i = last /\ d = c
                                                \/ i \in 1..(last - 1) /\ At(k, i + t, d)
                                           ELSE At(k, i, d)
           /\ \A i \in Nat, d \in Calls : At(k0, i, d) => i < last + t
    <2> WITNESS s \in {0, 1}, Len(r) \in Nat \ {0}
    <2> QED
      BY <1>10, <1>12, <1>14
  <1>16. QED
    BY <1>3, <1>8, <1>9, <1>15 DEF k0

\* Queueing an id: the new call is filed last in its bucket, and an eviction
\* disturbs the key.
LEMMA PushStep ==
  ASSUME PInv, NEW c \in Calls, PrePush(c) PROVE PInv'
  <1> USE RelayAssumption DEF PInv
  <1>1. PICK s \in {0, 1}, last \in Nat \ {0} :
          /\ Key[c] \notin disturbed' => s = 0
          /\ \A k \in Keys, i \in Nat, d \in Calls :
               At(k, i, d)' <=>
                 IF k = Key[c] THEN \/ i = last /\ d = c
                                    \/ i \in 1..(last - 1) /\ At(k, i + s, d)
                               ELSE At(k, i, d)
          /\ \A i \in Nat, d \in Calls : At(Key[c], i, d) => i < last + s
    BY PushPositions
  <1>2. PluginTypeOK' /\ NoEmptyBucket' /\ WithinCap'
    BY PushPositions
  <1>3. /\ stage' = [stage EXCEPT ![c] = "queued"] /\ stage[c] = "new"
        /\ echo' = echo
        /\ disturbed \subseteq disturbed'
    BY DEF PrePush, MayBegin
  <1>4. /\ \A d \in Calls : Begun(d)' <=> Begun(d) \/ d = c
        /\ \A d, e \in Calls : Before(d, e) => Before(d, e)'
        /\ \A d \in Calls : Begun(d) => Before(d, c)'
    BY BegunGrows DEF PrePush
  <1>5. ~Begun(c)
    BY <1>3 DEF NewNotBegun
  <1>6. \A k \in Keys, i \in Nat : ~At(k, i, c)
    BY <1>5 DEF Filed
  <1>7. \A d \in Calls : Open(d)' <=> Open(d) \/ d = c
    BY <1>3 DEF Open, PluginTypeOK
  <1>8. \A d \in Calls : HasPost(d)' => HasPost(d)
    BY <1>3 DEF HasPost, PluginTypeOK
  <1>9. Filed'
    <2> SUFFICES ASSUME NEW k \in Keys, NEW i \in Nat, NEW d \in Calls, At(k, i, d)'
                 PROVE  /\ Key[d] = k /\ Begun(d)'
                        /\ \A j \in Nat : At(k, j, d)' => i = j
      BY DEF Filed
    <2>1. CASE k # Key[c]
      BY <1>1, <1>4, <2>1 DEF Filed
    <2>2. CASE k = Key[c] /\ d = c
      BY <1>1, <1>4, <1>6, <2>2
    <2>3. CASE k = Key[c] /\ d # c
      BY <1>1, <1>4, <2>3 DEF Filed
    <2>4. QED
      BY <2>1, <2>2, <2>3
  <1>10. NewNotBegun'
    BY <1>3, <1>4 DEF NewNotBegun, PluginTypeOK
  <1>11. EchoedIsOut'
    <2> SUFFICES ASSUME NEW d \in Calls, NEW e \in Calls, echo[d] = e
                 PROVE  Begun(e)' /\ ~Waits(e)'
      BY <1>3 DEF EchoedIsOut
    <2>1. Begun(e) /\ ~Waits(e) /\ e # c /\ Key[e] \in Keys
      BY <1>5 DEF EchoedIsOut
    <2>2. \A i \in Nat : ~At(Key[e], i, e)
      BY <2>1 DEF Waits
    <2>3. \A i \in Nat : ~At(Key[e], i, e)'
      BY <1>1, <2>1, <2>2
    <2>4. QED
      BY <1>4, <2>1, <2>3 DEF Waits
  <1>12. EchoedOnce'
    BY <1>3 DEF EchoedOnce
  <1>13. InStep'
    <2> SUFFICES ASSUME NEW k \in Keys, k \notin disturbed'
                 PROVE  /\ \A d \in Calls : Key[d] = k /\ Open(d)' => Waits(d)'
                        /\ \A i \in Nat, d \in Calls : At(k, i, d)' => Open(d)'
                        /\ \A i, j \in Nat, d, e \in Calls :
                             At(k, i, d)' /\ At(k, j, e)' /\ i < j => Before(d, e)'
      BY DEF InStep
    <2>1. /\ \A d \in Calls : Key[d] = k /\ Open(d) => Waits(d)
          /\ \A i \in Nat, d \in Calls : At(k, i, d) => Open(d)
          /\ \A i, j \in Nat, d, e \in Calls :
               At(k, i, d) /\ At(k, j, e) /\ i < j => Before(d, e)
      BY <1>3 DEF InStep
    <2>2. CASE k # Key[c]
      BY <1>1, <1>4, <1>7, <2>1, <2>2 DEF Waits
    <2>3. CASE k = Key[c]
      <3>1. \A i \in Nat, d \in Calls :
              At(k, i, d)' <=> (i = last /\ d = c) \/ (i \in 1..(last - 1) /\ At(k, i, d))
        BY <1>1, <2>3
      <3>2. \A i \in Nat, d \in Calls : At(k, i, d) => i \in 1..(last - 1) /\ Begun(d)
        BY <1>1, <2>3 DEF Filed, At
      <3>3. \A d \in Calls : Key[d] = k /\ Open(d)' => Waits(d)'
        <4> TAKE d \in Calls
        <4> HAVE Key[d] = k /\ Open(d)'
        <4>1. CASE d = c
          BY <2>3, <3>1, <4>1 DEF Waits
        <4>2. CASE d # c
          <5>1. PICK i \in Nat : At(k, i, d)
            BY <1>7, <2>1, <4>2 DEF Waits
          <5>2. QED
            BY <3>1, <3>2, <5>1 DEF Waits
        <4>3. QED
          BY <4>1, <4>2
      <3>4. \A i \in Nat, d \in Calls : At(k, i, d)' => Open(d)'
        BY <1>7, <2>1, <3>1
      <3>5. \A i, j \in Nat, d, e \in Calls :
              At(k, i, d)' /\ At(k, j, e)' /\ i < j => Before(d, e)'
        BY <1>4, <2>1, <3>1, <3>2
      <3>6. QED
        BY <3>3, <3>4, <3>5
    <2>4. QED
      BY <2>2, <2>3
  <1>14. PairedInStep'
    BY <1>3, <1>8 DEF PairedInStep
  <1>15. QED
    BY <1>2, <1>9, <1>10, <1>11, <1>12, <1>13, <1>14

\* What a pop does to the positions: the oldest entry is echoed, the others of
\* the bucket move up.
LEMMA PopPositions ==
  ASSUME PInv, NEW c \in Calls, PostPop(c), Bucket(Key[c]) # <<>>
  PROVE  /\ (NoEmptyBucket /\ WithinCap)'
         /\ DOMAIN pending' \subseteq Keys
         /\ \A j \in DOMAIN pending' : pending'[j] \in Seq(Calls)
         /\ \A k \in Keys, i \in Nat, d \in Calls :
              At(k, i, d)' <=> IF k = Key[c] THEN i > 0 /\ At(k, i + 1, d) ELSE At(k, i, d)
         /\ \E h \in Calls : At(Key[c], 1, h) /\ echo' = [echo EXCEPT ![c] = h]
  <1> DEFINE k0 == Key[c]
             q  == Bucket(k0)
             r  == Tail(q)
  <1> USE RelayAssumption DEF PInv
  <1>1. k0 \in Keys /\ q \in Seq(Calls) /\ Len(q) <= Cap /\ q # <<>>
    BY BucketType DEF WithinCap
  <1>2. /\ r \in Seq(Calls) /\ Len(q) \in Nat \ {0} /\ Len(r) = Len(q) - 1
        /\ \A i \in 1..Len(r) : r[i] = q[i + 1]
    BY <1>1
  <1>3. /\ DOMAIN pending' \subseteq Keys
        /\ \A j \in DOMAIN pending' : pending'[j] \in Seq(Calls)
        /\ \A j \in Keys : Bucket(j)' = IF j = k0 THEN r ELSE Bucket(j)
        /\ NoEmptyBucket'
    <2>1. pending' = WithBucket(k0, r)
      BY <1>1 DEF PostPop, Left
    <2> HIDE DEF k0, q, r
    <2>2. QED
      BY <1>1, <1>2, <2>1, BucketWritten
  <1>4. echo' = [echo EXCEPT ![c] = Head(q)]
    BY <1>1 DEF PostPop, Popped
  <1>5. \A i \in Nat, d \in Calls : At(k0, i, d) <=> i \in 1..Len(q) /\ q[i] = d
    BY DEF At
  <1>6. \A i \in Nat, d \in Calls : At(k0, i, d)' <=> i \in 1..Len(r) /\ r[i] = d
    <2> HIDE DEF r
    <2> QED BY <1>1, <1>3 DEF At
  <1>7. \A k \in Keys, i \in Nat, d \in Calls : k # k0 => (At(k, i, d)' <=> At(k, i, d))
    BY <1>3 DEF At
  <1>8. Head(q) \in Calls /\ At(k0, 1, Head(q))
    BY <1>1, <1>5
  <1>9. WithinCap'
    <2>1. Len(r) <= Cap
      BY <1>1, <1>2
    <2> HIDE DEF k0, q, r
    <2>2. QED
      BY <1>3, <2>1 DEF WithinCap
  <1>10. \A i \in Nat, d \in Calls : At(k0, i, d)' <=> i > 0 /\ At(k0, i + 1, d)
    <2> TAKE i \in Nat, d \in Calls
    <2>1. i \in 1..Len(r) <=> i > 0 /\ i + 1 \in 1..Len(q)
      BY <1>2
    <2>2. i \in 1..Len(r) => r[i] = q[i + 1]
      BY <1>2
    <2> HIDE DEF k0, q, r
    <2>3. QED
      BY <1>5, <1>6, <2>1, <2>2
  <1> HIDE DEF k0, q, r
  <1>11. \A k \in Keys, i \in Nat, d \in Calls :
           At(k, i, d)' <=> IF k = k0 THEN i > 0 /\ At(k, i + 1, d) ELSE At(k, i, d)
    BY <1>7, <1>10
  <1>12. QED
    BY <1>3, <1>4, <1>8, <1>9, <1>11 DEF k0

\* In an undisturbed key, a call that overtakes none is the oldest of its bucket.
LEMMA OldestInStep ==
  ASSUME PInv, NEW c \in Calls, stage[c] = "running", Key[c] \notin disturbed, ~Overtakes(c)
  PROVE  At(Key[c], 1, c)
  <1> USE RelayAssumption DEF PInv
  <1>1. PICK p \in Nat : At(Key[c], p, c)
    BY DEF InStep, Open, Waits
  <1>2. CASE p = 1
    BY <1>1, <1>2
  <1>3. CASE p # 1
    <2>1. PICK h \in Calls : At(Key[c], 1, h)
      BY <1>1, BucketType DEF At
    <2>2. 1 < p
      BY <1>1, <1>3 DEF At
    <2>3. Key[h] = Key[c] /\ Open(h) /\ Before(h, c)
      BY <1>1, <2>1, <2>2 DEF Filed, InStep
    <2>4. Overtakes(c)
      BY <2>3 DEF Overtakes, Before, Open
    <2>5. QED
      BY <2>4
  <1>4. QED
    BY <1>2, <1>3

\* Answering a post from a queue: the echoed id leaves the queue with it, and
\* out-of-order ends disturb the key.
LEMMA PopStep ==
  ASSUME PInv, NEW c \in Calls, PostPop(c) PROVE PInv'
  <1> USE RelayAssumption DEF PInv
  <1>1. /\ stage' = [stage EXCEPT ![c] = "popped"] /\ stage[c] = "running"
        /\ begun' = begun
        /\ disturbed \subseteq disturbed' /\ disturbed' \subseteq Keys
        /\ Key[c] \notin disturbed' => ~Overtakes(c)
    <2>1. stage' = [stage EXCEPT ![c] = "popped"] /\ stage[c] = "running" /\ begun' = begun
      BY DEF PostPop
    <2>2. disturbed' = IF Overtakes(c) THEN disturbed \cup {Key[c]} ELSE disturbed
      BY DEF PostPop
    <2>3. Key[c] \in Keys /\ disturbed \subseteq Keys
      BY DEF PluginTypeOK
    <2>4. QED
      BY <2>1, <2>2, <2>3
  <1>2. (\A d \in Calls : Begun(d)' <=> Begun(d))
        /\ (\A d, e \in Calls : Before(d, e)' <=> Before(d, e))
    BY <1>1 DEF Begun, Before
  <1>3. \A d \in Calls : /\ Open(d)' <=> Open(d) /\ d # c
                         /\ HasPost(d)' <=> HasPost(d) \/ d = c
    BY <1>1 DEF Open, HasPost, PluginTypeOK
  <1>4. NewNotBegun'
    BY <1>1, <1>2 DEF NewNotBegun, PluginTypeOK
  <1>5. CASE Bucket(Key[c]) = <<>>
    <2>1. UNCHANGED <<pending, echo>>
      BY <1>5 DEF PostPop
    <2>2. /\ \A k \in Keys, i \in Nat, d \in Calls : At(k, i, d)' <=> At(k, i, d)
          /\ \A d \in Calls : Waits(d)' <=> Waits(d)
      BY <2>1 DEF At, Waits, Bucket
    <2>3. Key[c] \in disturbed'
      <3> SUFFICES ASSUME Key[c] \notin disturbed' PROVE FALSE
        OBVIOUS
      <3>1. At(Key[c], 1, c)
        BY <1>1, OldestInStep
      <3>2. QED
        BY <1>5, <3>1 DEF At
    <2>4. PluginTypeOK' /\ NoEmptyBucket' /\ WithinCap'
      BY <1>1, <2>1 DEF PluginTypeOK, CallStages, NoEmptyBucket, WithinCap, Bucket
    <2>5. Filed' /\ EchoedIsOut' /\ EchoedOnce'
      BY <1>2, <2>1, <2>2 DEF Filed, EchoedIsOut, EchoedOnce
    <2>6. InStep'
      BY <1>1, <1>2, <1>3, <2>2, <2>3 DEF InStep, Filed
    <2>7. PairedInStep'
      BY <1>1, <1>3, <2>1, <2>3 DEF PairedInStep
    <2>8. QED
      BY <1>4, <2>4, <2>5, <2>6, <2>7
  <1>6. CASE Bucket(Key[c]) # <<>>
    <2>1. PICK h \in Calls : At(Key[c], 1, h) /\ echo' = [echo EXCEPT ![c] = h]
      BY <1>6, PopPositions
    <2>2. \A k \in Keys, i \in Nat, d \in Calls :
            At(k, i, d)' <=> IF k = Key[c] THEN i > 0 /\ At(k, i + 1, d) ELSE At(k, i, d)
      BY <1>6, PopPositions
    <2>3. PluginTypeOK' /\ NoEmptyBucket' /\ WithinCap'
      BY <1>1, <1>6, <2>1, PopPositions DEF PluginTypeOK, CallStages
    <2>4. Key[h] = Key[c] /\ Begun(h) /\ \A i \in Nat : At(Key[c], i, h) => i = 1
      BY <2>1 DEF Filed
    <2>5. Filed'
      <3> SUFFICES ASSUME NEW k \in Keys, NEW i \in Nat, NEW d \in Calls, At(k, i, d)'
                   PROVE  /\ Key[d] = k /\ Begun(d)'
                          /\ \A j \in Nat : At(k, j, d)' => i = j
        BY DEF Filed
      <3>1. CASE k # Key[c]
        BY <1>2, <2>2, <3>1 DEF Filed
      <3>2. CASE k = Key[c]
        <4>1. At(k, i + 1, d) /\ i + 1 \in Nat
          BY <2>2, <3>2
        <4>2. \A j \in Nat : At(k, j, d)' => j + 1 \in Nat /\ At(k, j + 1, d)
          BY <2>2, <3>2
        <4>3. QED
          BY <1>2, <4>1, <4>2 DEF Filed
      <3>3. QED
        BY <3>1, <3>2
    <2>6. \A d \in Calls : Waits(d)' => Waits(d) /\ d # h
      <3> SUFFICES ASSUME NEW d \in Calls, NEW i \in Nat, At(Key[d], i, d)'
                   PROVE  Waits(d) /\ d # h
        BY DEF Waits
      <3>1. CASE Key[d] = Key[c]
        BY <2>2, <2>4, <3>1 DEF Waits
      <3>2. CASE Key[d] # Key[c]
        BY <2>2, <2>4, <3>2 DEF Waits
      <3>3. QED
        BY <3>1, <3>2
    <2>7. EchoedIsOut'
      BY <1>2, <2>1, <2>4, <2>6 DEF EchoedIsOut, PluginTypeOK
    <2>8. Waits(h)
      BY <2>1, <2>4 DEF Waits
    <2>9. EchoedOnce'
      BY <2>1, <2>8 DEF EchoedOnce, EchoedIsOut, PluginTypeOK
    <2>10. Key[c] \notin disturbed' => h = c
      <3> SUFFICES ASSUME Key[c] \notin disturbed' PROVE h = c
        OBVIOUS
      <3>1. At(Key[c], 1, c)
        BY <1>1, OldestInStep
      <3>2. QED
        BY <2>1, <3>1 DEF At
    <2>11. PairedInStep'
      BY <1>1, <1>3, <2>1, <2>10 DEF PairedInStep, PluginTypeOK
    <2>12. InStep'
      <3> SUFFICES ASSUME NEW k \in Keys, k \notin disturbed'
                   PROVE  /\ \A d \in Calls : Key[d] = k /\ Open(d)' => Waits(d)'
                          /\ \A i \in Nat, d \in Calls : At(k, i, d)' => Open(d)'
                          /\ \A i, j \in Nat, d, e \in Calls :
                               At(k, i, d)' /\ At(k, j, e)' /\ i < j => Before(d, e)'
        BY DEF InStep
      <3>1. /\ \A d \in Calls : Key[d] = k /\ Open(d) => Waits(d)
            /\ \A i \in Nat, d \in Calls : At(k, i, d) => Open(d)
            /\ \A i, j \in Nat, d, e \in Calls :
                 At(k, i, d) /\ At(k, j, e) /\ i < j => Before(d, e)
        BY <1>1 DEF InStep
      <3>2. CASE k # Key[c]
        BY <1>2, <1>3, <2>2, <3>1, <3>2 DEF Waits, Filed
      <3>3. CASE k = Key[c]
        <4>1. h = c
          BY <2>10, <3>3
        <4>2. \A d \in Calls : Key[d] = k /\ Open(d)' => Waits(d)'
          <5> TAKE d \in Calls
          <5> HAVE Key[d] = k /\ Open(d)'
          <5>1. PICK i \in Nat : At(k, i, d)
            BY <1>3, <3>1 DEF Waits
          <5>2. i # 1 /\ i > 0
            BY <1>3, <2>1, <3>3, <4>1, <5>1 DEF At
          <5>3. i - 1 \in Nat /\ i - 1 > 0 /\ (i - 1) + 1 = i
            BY <5>2
          <5>4. At(k, i - 1, d)'
            BY <2>2, <3>3, <5>1, <5>3
          <5>5. QED
            BY <5>3, <5>4 DEF Waits
        <4>3. \A i \in Nat, d \in Calls : At(k, i, d)' => Open(d)'
          <5> TAKE i \in Nat, d \in Calls
          <5> HAVE At(k, i, d)'
          <5>1. i > 0 /\ At(k, i + 1, d) /\ i + 1 \in Nat
            BY <2>2, <3>3
          <5>2. d # c
            BY <2>4, <3>3, <4>1, <5>1
          <5>3. QED
            BY <1>3, <3>1, <5>1, <5>2
        <4>4. \A i, j \in Nat, d, e \in Calls :
                At(k, i, d)' /\ At(k, j, e)' /\ i < j => Before(d, e)'
          <5> TAKE i, j \in Nat, d, e \in Calls
          <5> HAVE At(k, i, d)' /\ At(k, j, e)' /\ i < j
          <5>1. /\ At(k, i + 1, d) /\ At(k, j + 1, e)
                /\ i + 1 \in Nat /\ j + 1 \in Nat /\ i + 1 < j + 1
            BY <2>2, <3>3
          <5>2. QED
            BY <1>2, <3>1, <5>1
        <4>5. QED
          BY <4>2, <4>3, <4>4
      <3>4. QED
        BY <3>2, <3>3
    <2>13. QED
      BY <1>4, <2>3, <2>5, <2>7, <2>9, <2>11, <2>12
  <1>7. QED
    BY <1>5, <1>6

-----------------------------------------------------------------------------
\* The invariant holds however the tool calls of any number of threads overlap,
\* are missed, blocked or evicted.
THEOREM PluginInductive == Spec => []PInv
  <1>1. PInv /\ [Next]_vars => PInv'
    <2> SUFFICES ASSUME PInv, [Next]_vars PROVE PInv'
      OBVIOUS
    <2>1. ASSUME NEW c \in Calls, Call(c) PROVE PInv'
      BY <2>1, PushStep, PopStep, QuietStep DEF Call
    <2>2. CASE UNCHANGED vars
      BY <2>2 DEF vars, PInv, PluginTypeOK, NoEmptyBucket, WithinCap, Filed, NewNotBegun,
                  EchoedIsOut, EchoedOnce, InStep, PairedInStep, At, Waits, Bucket, Begun,
                  Before, Open, HasPost
    <2>3. QED
      BY <2>1, <2>2 DEF Next
  <1>2. QED
    BY PluginInit, <1>1, PTL DEF Spec

\* No queued entry ends two spans.
THEOREM NoIdEchoedTwice == Spec => []EchoedOnce
  <1>1. PInv => EchoedOnce
    BY DEF PInv
  <1>2. QED
    BY PluginInductive, <1>1, PTL

\* Calls of a key that end in the order they began, with none blocked, missed or
\* evicted, all get the ids of their own pre events.
THEOREM PairsWhileInStep == Spec => []PairedInStep
  <1>1. PInv => PairedInStep
    BY DEF PInv
  <1>2. QED
    BY PluginInductive, <1>1, PTL

\* _PENDING_PRE keeps its per-key bound and no empty bucket, and in an
\* undisturbed key nothing but open calls.
THEOREM QueuesStayBounded == Spec => []BucketsBounded
  <1>1. PInv => BucketsBounded
    <2> SUFFICES ASSUME PInv, NEW k \in DOMAIN pending
                 PROVE  /\ Len(pending[k]) \in 1..Cap
                        /\ k \notin disturbed =>
                             \A i \in 1..Len(pending[k]) : Open(pending[k][i])
      BY DEF BucketsBounded, Open
    <2>1. k \in Keys /\ pending[k] = Bucket(k) /\ Bucket(k) \in Seq(Calls)
      BY BucketType DEF PInv, PluginTypeOK, Bucket
    <2>2. Len(pending[k]) \in 1..Cap
      BY <2>1, RelayAssumption DEF PInv, NoEmptyBucket, WithinCap
    <2>3. ASSUME k \notin disturbed, NEW i \in 1..Len(Bucket(k)) PROVE Open(Bucket(k)[i])
      BY <2>1, <2>3 DEF PInv, InStep, At
    <2>4. QED
      BY <2>1, <2>2, <2>3
  <1>2. QED
    BY PluginInductive, <1>1, PTL

-----------------------------------------------------------------------------
(* The four hooks.  Their tool-call half is the specification above; what    *)
(* they send is told by the stage of each call and by the latch.             *)

\* What was looked up is what the environment says.
LatchOK == latch.looked_up => latch.url = gateway

\* Nothing is sent but the events of calls that came that far.
SentInStage ==
  \A e \in sent \cup lost :
    \/ \E c \in Calls : /\ e.of = c
                        /\ e = PreTool(c) \/ (e = PostTool(c) /\ stage[c] = "done")
    \/ \E a \in ApiCalls : e.of = a /\ e \in {PreApi(a), PostApi(a)}

\* With a gateway, what a hook has returned from was tried.
ToolTried ==
  gateway # None =>
    \A c \in Calls :
      /\ stage[c] \in {"running", "popped", "done"} /\ Key[c] \notin disturbed =>
           PreTool(c) \in sent \cup lost
      /\ stage[c] = "done" => PostTool(c) \in sent \cup lost
ApiTried ==
  gateway # None =>
    \A a \in ApiCalls :
      /\ api[a] \in {"asked", "done"} => PreApi(a) \in sent \cup lost
      /\ api[a] = "done" => PostApi(a) \in sent \cup lost

ApiTyped == api \in [ApiCalls -> ApiStages]

HooksInv == LatchOK /\ ApiTyped /\ SentInStage /\ ToolTried /\ ApiTried

\* A hook whose call of _forward gives way to another thread.
Paused == UNCHANGED <<vars, api, gateway, sent, lost>> /\ LatchOK'

\* A hook that returns after _forward of e.
Tried(e) ==
  /\ LatchOK' /\ UNCHANGED gateway
  /\ sent \subseteq sent' /\ sent' \subseteq sent \cup {e}
  /\ lost \subseteq lost' /\ lost' \subseteq lost \cup {e}
  /\ gateway # None => e \in sent' \cup lost'

\* A step of the hooks is a step of one hook, which starts, pauses or returns.
LEMMA HookSteps ==
  ASSUME LatchOK, [HooksNext]_allVars
  PROVE  \/ Paused
         \/ /\ UNCHANGED <<api, gateway, sent, lost>> /\ LatchOK'
            /\ \E c \in Calls : PrePush(c) \/ PreMissed(c) \/ Block(c) \/ PostPop(c)
         \/ UNCHANGED api /\ \E c \in Calls : \/ PreForward(c) /\ Tried(PreTool(c))
                                              \/ PostForward(c) /\ Tried(PostTool(c))
         \/ UNCHANGED vars /\ \E a \in ApiCalls :
              \/ api[a] = "new" /\ Moves(a, "asked") /\ Tried(PreApi(a))
              \/ api[a] = "asked" /\ Moves(a, "done") /\ Tried(PostApi(a))
  <1> USE DEF _forward, _gateway_url, Post, Lose, Paused, Tried, LatchOK
  <1>1. ASSUME NEW a \in ApiCalls, on_pre_api_request(a)
        PROVE  Paused \/ (Moves(a, "asked") /\ api[a] = "new" /\ Tried(PreApi(a)))
    BY <1>1 DEF on_pre_api_request
  <1>2. ASSUME NEW a \in ApiCalls, on_post_api_request(a)
        PROVE  Paused \/ (Moves(a, "done") /\ api[a] = "asked" /\ Tried(PostApi(a)))
    BY <1>2 DEF on_post_api_request
  <1>3. ASSUME NEW c \in Calls, on_pre_tool_call(c)
        PROVE  \/ Paused
               \/ PrePush(c) /\ UNCHANGED hookVars
               \/ UNCHANGED api /\ PreForward(c) /\ Tried(PreTool(c))
    BY <1>3 DEF on_pre_tool_call
  <1>4. ASSUME NEW c \in Calls, on_post_tool_call(c)
        PROVE  \/ Paused
               \/ PostPop(c) /\ UNCHANGED hookVars
               \/ UNCHANGED api /\ PostForward(c) /\ Tried(PostTool(c))
    BY <1>4 DEF on_post_tool_call
  <1>5. CASE UNCHANGED allVars
    BY <1>5 DEF allVars, hookVars
  <1>6. QED
    BY <1>1, <1>2, <1>3, <1>4, <1>5 DEF HooksNext, NoHook, hookVars, Moves

\* The hooks keep the tool-call specification: what they add is a stutter to it.
LEMMA HooksStepsArePlugins == ASSUME LatchOK, [HooksNext]_allVars PROVE [Next]_vars
  <1>1. \/ UNCHANGED vars
        \/ \E c \in Calls : \/ PrePush(c) \/ PreMissed(c) \/ Block(c) \/ PostPop(c)
                            \/ PreForward(c) \/ PostForward(c)
    BY HookSteps DEF Paused
  <1>2. QED
    BY <1>1 DEF Next, Call

\* An event is told from the others by its hook and its call.
LEMMA ToolEventsApart ==
  ASSUME NEW c \in Calls
  PROVE  PreTool(c).of = c /\ PostTool(c).of = c /\ c \notin ApiCalls
  BY HooksAssumption DEF PreTool, PostTool, Event

\* The events of a model call name that call, which is never a tool call.
LEMMA ApiEventsApart ==
  ASSUME NEW a \in ApiCalls
  PROVE  PreApi(a).of = a /\ PostApi(a).of = a /\ a \notin Calls
  BY HooksAssumption DEF PreApi, PostApi, Event

\* A post keeps its event once it has it: only PostPop changes what a post echoes.
LEMMA PostKeepsEvent ==
  ASSUME PluginTypeOK, NEW c \in Calls, [HooksNext]_allVars, LatchOK,
         stage[c] \in {"popped", "done"}
  PROVE  PostTool(c)' = PostTool(c) /\ (stage[c] = "done" => stage'[c] = "done")
  <1> USE DEF PluginTypeOK
  <1>1. ASSUME NEW d \in Calls,
               PrePush(d) \/ PreMissed(d) \/ Block(d) \/ PreForward(d) \/ PostForward(d)
        PROVE  echo'[c] = echo[c] /\ (stage[c] = "done" => stage'[c] = "done")
    BY <1>1 DEF PrePush, PreMissed, Block, PreForward, PostForward, MayBegin
  <1>2. ASSUME NEW d \in Calls, PostPop(d)
        PROVE  echo'[c] = echo[c] /\ (stage[c] = "done" => stage'[c] = "done")
    BY <1>2 DEF PostPop
  <1>3. CASE UNCHANGED vars
    BY <1>3 DEF vars, PostTool
  <1>4. QED
    BY <1>1, <1>2, <1>3, HookSteps DEF PostTool, _stable_tool_call_id, Paused

\* One step of the hooks keeps the invariant about what was sent.
LEMMA HooksKeepInv ==
  ASSUME PInv, HooksInv, [HooksNext]_allVars PROVE HooksInv'
  <1> USE DEF HooksInv
  <1>1. PluginTypeOK /\ \A c : PreTool(c)' = PreTool(c)
    BY DEF PInv, PreTool, _stable_tool_call_id
  <1>2. \A a : PreApi(a)' = PreApi(a) /\ PostApi(a)' = PostApi(a)
    BY DEF PreApi, PostApi
  <1>3. \A c \in Calls : stage[c] \in {"popped", "done"} =>
          PostTool(c)' = PostTool(c) /\ (stage[c] = "done" => stage'[c] = "done")
    BY <1>1, PostKeepsEvent
  <1>4. disturbed \subseteq disturbed' /\ gateway' = gateway
    BY HookSteps DEF PrePush, PreMissed, Block, PostPop, PreForward, PostForward,
                     Paused, Tried, vars
  <1>5. CASE Paused
    BY <1>1, <1>2, <1>5 DEF Paused, vars, ApiTyped, SentInStage, ToolTried, ApiTried, PostTool
  <1>6. ASSUME NEW c \in Calls, PrePush(c) \/ PreMissed(c) \/ Block(c) \/ PostPop(c),
               UNCHANGED <<api, gateway, sent, lost>>, LatchOK'
        PROVE  HooksInv'
    <2>1. /\ \A d \in Calls \ {c} : stage'[d] = stage[d]
          /\ \/ stage'[c] \in {"queued", "popped", "blocked"} /\ stage[c] \in {"new", "running"}
             \/ stage'[c] = "running" /\ Key[c] \in disturbed'
          /\ stage'[c] = "popped" => stage[c] = "running"
      BY <1>1, <1>6 DEF PrePush, PreMissed, Block, PostPop, PluginTypeOK, MayBegin
    <2>2. ToolTried'
      BY <1>1, <1>3, <1>4, <1>6, <2>1 DEF ToolTried
    <2>3. ApiTyped' /\ SentInStage' /\ ApiTried'
      BY <1>1, <1>2, <1>3, <1>6 DEF ApiTyped, SentInStage, ApiTried
    <2>4. QED
      BY <1>6, <2>2, <2>3
  <1>7. ASSUME NEW c \in Calls, UNCHANGED api,
               \/ PreForward(c) /\ Tried(PreTool(c))
               \/ PostForward(c) /\ Tried(PostTool(c))
        PROVE  HooksInv'
    <2>1. /\ \A d \in Calls \ {c} : stage'[d] = stage[d]
          /\ \A d : PostTool(d)' = PostTool(d)
          /\ UNCHANGED disturbed
      BY <1>1, <1>7 DEF PreForward, PostForward, PluginTypeOK, PostTool, _stable_tool_call_id
    <2>2. \/ stage[c] = "queued" /\ stage'[c] = "running" /\ Tried(PreTool(c))
          \/ /\ stage[c] = "popped" /\ stage'[c] = "done" /\ Tried(PostTool(c))
      BY <1>1, <1>7 DEF PreForward, PostForward, PluginTypeOK
    <2>3. ToolTried'
      BY <1>1, <2>1, <2>2 DEF ToolTried, Tried
    <2>4. SentInStage'
      <3> SUFFICES ASSUME NEW e \in sent' \cup lost'
                   PROVE  \/ \E d \in Calls : /\ e.of = d
                                               /\ \/ e = PreTool(d)
                                                  \/ e = PostTool(d) /\ stage'[d] = "done"
                          \/ \E a \in ApiCalls : e.of = a /\ e \in {PreApi(a), PostApi(a)}
        BY <1>1, <1>2, <2>1 DEF SentInStage
      <3>1. CASE e \in sent \cup lost
        BY <2>1, <2>2, <3>1 DEF SentInStage
      <3>2. CASE e \notin sent \cup lost
        <4>1. e = PreTool(c) \/ (e = PostTool(c) /\ stage'[c] = "done")
          BY <2>2, <3>2 DEF Tried
        <4>2. e.of = c
          BY <4>1 DEF PreTool, PostTool, Event
        <4>3. QED
          BY <4>1, <4>2
      <3>3. QED
        BY <3>1, <3>2
    <2>5. ApiTyped' /\ ApiTried'
      BY <1>2, <1>7, <2>2 DEF ApiTyped, ApiTried, Tried
    <2>6. QED
      BY <2>2, <2>3, <2>4, <2>5 DEF Tried
  <1>8. ASSUME NEW a \in ApiCalls, UNCHANGED vars,
               \/ api[a] = "new" /\ Moves(a, "asked") /\ Tried(PreApi(a))
               \/ api[a] = "asked" /\ Moves(a, "done") /\ Tried(PostApi(a))
        PROVE  HooksInv'
    <2>1. /\ \A d : PostTool(d)' = PostTool(d)
          /\ UNCHANGED <<stage, disturbed>>
      BY <1>8 DEF vars, PostTool
    <2>2. ToolTried'
      BY <1>1, <1>8, <2>1 DEF ToolTried, Tried
    <2>3. SentInStage'
      <3> SUFFICES ASSUME NEW e \in sent' \cup lost'
                   PROVE  \/ \E d \in Calls : /\ e.of = d
                                               /\ \/ e = PreTool(d)
                                                  \/ e = PostTool(d) /\ stage[d] = "done"
                          \/ \E b \in ApiCalls : e.of = b /\ e \in {PreApi(b), PostApi(b)}
        BY <1>1, <1>2, <2>1 DEF SentInStage
      <3>1. CASE e \in sent \cup lost
        BY <3>1 DEF SentInStage
      <3>2. CASE e \notin sent \cup lost
        <4>1. e \in {PreApi(a), PostApi(a)}
          BY <1>8, <3>2 DEF Tried
        <4>2. e.of = a
          BY <4>1 DEF PreApi, PostApi, Event
        <4>3. QED
          BY <4>1, <4>2
      <3>3. QED
        BY <3>1, <3>2
    <2>4. ApiTyped' /\ ApiTried'
      BY <1>2, <1>8 DEF ApiTyped, ApiStages, ApiTried, Tried, Moves
    <2>5. QED
      BY <1>8, <2>2, <2>3, <2>4 DEF Tried
  <1>9. QED
    BY <1>5, <1>6, <1>7, <1>8, HookSteps

\* The whole plugin implements the tool-call specification: model requests, the
\* latch and events that are lost change nothing about its queues.
THEOREM HooksImplementPlugin == HooksSpec => Spec
  <1>1. HooksInit => Init /\ LatchOK
    BY DEF HooksInit, LatchOK
  <1>2. LatchOK /\ [HooksNext]_allVars => LatchOK'
    <2> SUFFICES ASSUME LatchOK, [HooksNext]_allVars PROVE LatchOK'
      OBVIOUS
    <2> QED
      BY HookSteps DEF Paused, Tried, Moves, LatchOK
  <1>3. LatchOK /\ [HooksNext]_allVars => [Next]_vars
    BY HooksStepsArePlugins
  <1>4. QED
    BY <1>1, <1>2, <1>3, PTL DEF HooksSpec, Spec

\* What the gateway sees is what the calls did: whichever hook looks the URL up
\* first, whatever is lost on the way and however the calls overlap.
THEOREM GatewaySeesPairs == HooksSpec => []SpansPaired
  <1>1. HooksInit => HooksInv
    BY DEF HooksInit, Init, HooksInv, LatchOK, ApiTyped, ApiStages, SentInStage, ToolTried, ApiTried
  <1>2. PInv /\ HooksInv /\ [HooksNext]_allVars => HooksInv'
    BY HooksKeepInv
  <1>3. PInv /\ HooksInv => SpansPaired
    <2> SUFFICES ASSUME PInv, HooksInv, gateway # None PROVE SpansPaired
      BY DEF SpansPaired
    <2> USE DEF HooksInv, EventsOf
    <2>1. ASSUME NEW c \in Calls, stage[c] = "done", Key[c] \notin disturbed,
                 EventsOf(c, lost) = {}
          PROVE  EventsOf(c, sent) = {PreTool(c), Event("post_tool_call", c, PreTool(c).id, None)}
      <3>1. echo[c] = c /\ c # None
        BY <2>1, RelayAssumption DEF PInv, PairedInStep, HasPost
      <3>2. PostTool(c) = Event("post_tool_call", c, PreTool(c).id, None)
        BY <3>1 DEF PostTool, PreTool, Event
      <3>3. PreTool(c) \in sent /\ PostTool(c) \in sent
        BY <2>1, ToolEventsApart DEF ToolTried
      <3>4. \A e \in sent : e.of = c => e \in {PreTool(c), PostTool(c)}
        BY ToolEventsApart, ApiEventsApart DEF SentInStage
      <3>5. QED
        BY <3>2, <3>3, <3>4, ToolEventsApart
    <2>2. ASSUME NEW a \in ApiCalls, api[a] = "done", EventsOf(a, lost) = {}
          PROVE  EventsOf(a, sent) = {PreApi(a), PostApi(a)}
      <3>1. PreApi(a) \in sent /\ PostApi(a) \in sent
        BY <2>2, ApiEventsApart DEF ApiTried
      <3>2. \A e \in sent : e.of = a => e \in {PreApi(a), PostApi(a)}
        BY ToolEventsApart, ApiEventsApart DEF SentInStage
      <3>3. QED
        BY <3>1, <3>2, ApiEventsApart
    <2>3. QED
      BY <2>1, <2>2 DEF SpansPaired
  <1>4. QED
    BY <1>1, <1>2, <1>3, HooksImplementPlugin, PluginInductive, PTL DEF HooksSpec

\* So the plugin as a whole echoes no queued id twice.
THEOREM HooksEchoOnce == HooksSpec => []EchoedOnce
  BY HooksImplementPlugin, NoIdEchoedTwice, PTL
=============================================================================
