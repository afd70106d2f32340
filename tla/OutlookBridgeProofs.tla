------------------------ MODULE OutlookBridgeProofs ------------------------
(***************************************************************************)
(* Proofs about the two halves of the Outlook bridge.  Mail, for every set *)
(* of messages, senders and bounds: the types, the handler tasks, the      *)
(* semaphore, and that no mail is lost silently.  Scheduled jobs, for      *)
(* every set of jobs and times and every length of the day.                *)
(***************************************************************************)
EXTENDS OutlookBridge, OutlookJobs, FiniteSetTheorems, TLAPS

-----------------------------------------------------------------------------
(* The inductive invariant *)

Started == Stages \ {"idle", "created"}

\* _in_flight holds exactly the ids of the handlers that began to run.
InFlightExact ==
  inFlight = {m \in Messages : \E k \in Slots : run[<<m, k>>] \in Started}

\* A poll under way finds no task that has not begun to run.
NoneCreated == poll # "sleeping" => \A h \in Handlers : run[h] # "created"

\* While the process is down there is no task, no poll and no link in memory.
DownIsIdle == ~up => /\ poll = "sleeping"
                     /\ deltaLink = NoLink
                     /\ \A h \in Handlers : run[h] = "idle"

TaskInv == InFlightExact /\ NoneCreated /\ DownIsIdle /\ OneHandlerPerMessage

\* The saved link is the one in memory or an older one.
SavedIsOlder ==
  /\ up /\ savedLink.status = "live" =>
       deltaLink.status = "live" /\ deltaLink.news \subseteq savedLink.news
  /\ poll = "paging" /\ savedLink.status = "live" =>
       round.next.status = "live" /\ round.next.news \subseteq savedLink.news

\* NoSilentLoss for the link in memory, for the link a round will end with, and
\* for the saved one while the process is down.
Accounted(m) ==
  mailbox[m] = "unread" =>
    /\ up /\ PastLink(deltaLink, m) => InHand(m)
    /\ poll = "paging" /\ PastLink(round.next, m) /\ m \notin round.todo =>
         InHand(m) \/ m \in round.batch
    /\ ~up /\ PastLink(savedLink, m) => m \in unmarked

LossInv == \A m \in Messages : Accounted(m)

\* A handler that is about to mark allowed mail has answered it or failed to.
MarksAnswered ==
  \A h \in Handlers : run[h] = "marking" /\ h[1] \in Allowed =>
    replies[h[1]] > 0 \/ h[1] \in unanswered

AnswerInv == MarksAnswered /\ ReadIsAnswered

IInv == TypeOK /\ TaskInv /\ PermitsAccounted /\ SavedIsOlder /\ LossInv /\ AnswerInv

-----------------------------------------------------------------------------
(* Lemmas about the operators *)

\* A link stays a link when a message changes or Graph forgets it.
LEMMA LinkType ==
  ASSUME NEW l \in Links, NEW m \in Messages
  PROVE  Bump(l, m) \in Links /\ Expired(l) \in Links
  BY DEF Bump, Expired, Links

\* A round stays a round when one of its pages arrives.
LEMMA ReceiveType ==
  ASSUME NEW todo \in SUBSET Messages, NEW batch \in SUBSET Messages,
         NEW next \in Links, NEW page \in Pages(todo),
         deltaLink \in Links,
         Receive(todo, batch, next, page)
  PROVE  /\ poll' \in {"paging", "saving"}
         /\ deltaLink' \in Links
         /\ round' \in [todo : SUBSET Messages, batch : SUBSET Messages, next : Links]
  <1>1. page \in SUBSET Messages /\ Kept(page) \in SUBSET Messages
    BY DEF Pages, Kept
  <1> QED BY <1>1 DEF Receive, NoRound, NoLink, Links

\* Handlers are finitely many, hence so are those that hold a permit.
LEMMA HoldersFinite == IsFiniteSet(Handlers) /\ IsFiniteSet(Holders)
  <1>1. IsFiniteSet(Handlers)
    BY BridgeAssumption, FS_Product DEF Handlers
  <1>2. Holders \subseteq Handlers
    BY DEF Holders
  <1> QED BY <1>1, <1>2, FS_Subset

-----------------------------------------------------------------------------
(* Types *)

\* Every step keeps the types; that a permit given back is one that was taken
\* bounds the semaphore from above.
LEMMA TypeStep ==
  ASSUME TypeOK, PermitsAccounted, [Next]_vars
  PROVE  TypeOK'
  <1> USE BridgeAssumption
  <1>1. ASSUME NEW m \in Messages, Changed(m)
        PROVE  /\ deltaLink' \in Links /\ savedLink' \in Links
               /\ round' \in [todo : SUBSET Messages, batch : SUBSET Messages, next : Links]
    <2>1. Bump(deltaLink, m) \in Links /\ Bump(savedLink, m) \in Links
          /\ Bump(round.next, m) \in Links
      BY LinkType DEF TypeOK
    <2> QED BY <1>1, <2>1 DEF TypeOK, Changed
  <1>2. ASSUME NEW m \in Messages, Arrive(m) PROVE TypeOK'
    BY <1>1, <1>2 DEF TypeOK, Arrive, taskVars, historyVars, boundVars
  <1>3. ASSUME NEW m \in Messages, Touch(m) PROVE TypeOK'
    BY <1>1, <1>3 DEF TypeOK, Touch, taskVars
  <1>4. ASSUME NEW m \in Messages, Remove(m) PROVE TypeOK'
    BY <1>1, <1>4 DEF TypeOK, Remove, taskVars, historyVars
  <1>5. CASE ExpireLinks
    <2>1. Expired(deltaLink) \in Links /\ Expired(savedLink) \in Links
          /\ Expired(round.next) \in Links
      BY DEF TypeOK, Expired, Links
    <2> QED BY <1>5, <2>1 DEF TypeOK, ExpireLinks, taskVars, historyVars
  <1>6. CASE FirstPage
    <2>1. PICK page \in Pages(Listing(deltaLink)) :
            Receive(Listing(deltaLink), {}, FreshLink, page)
      BY <1>6 DEF FirstPage
    <2>2. Listing(deltaLink) \in SUBSET Messages /\ FreshLink \in Links
      BY DEF TypeOK, Listing, Present, FreshLink, Links
    <2>3. /\ poll' \in {"paging", "saving"}
          /\ deltaLink' \in Links
          /\ round' \in [todo : SUBSET Messages, batch : SUBSET Messages, next : Links]
      BY <2>1, <2>2, ReceiveType DEF TypeOK
    <2> QED BY <1>6, <2>3 DEF TypeOK, FirstPage, taskVars, historyVars, boundVars
  <1>7. CASE NextPage
    <2>1. PICK page \in Pages(round.todo) :
            Receive(round.todo, round.batch, round.next, page)
      BY <1>7 DEF NextPage
    <2>2. /\ poll' \in {"paging", "saving"}
          /\ deltaLink' \in Links
          /\ round' \in [todo : SUBSET Messages, batch : SUBSET Messages, next : Links]
      BY <2>1, ReceiveType DEF TypeOK
    <2> QED BY <1>7, <2>2 DEF TypeOK, NextPage, taskVars, historyVars, boundVars
  <1>8. CASE LinkRefused
    BY <1>8 DEF TypeOK, LinkRefused, PollDone, NoLink, Links, taskVars, boundVars
  <1>9. CASE PollFails
    BY <1>9 DEF TypeOK, PollFails, PollDone, NoRound, NoLink, Links, linkVars, taskVars, historyVars
  <1>10. CASE SaveAndSpawn
    <2>1. Spawned(NewMessages) \in [Handlers -> Stages]
      BY DEF TypeOK, Spawned, Stages
    <2>2. savedLink' \in Links /\ faults' \in 0..MaxFaults
      BY <1>10 DEF TypeOK, SaveAndSpawn, NoLink, Links
    <2> QED BY <1>10, <2>1, <2>2
          DEF TypeOK, SaveAndSpawn, PollDone, NoRound, NoLink, Links, historyVars
  <1>11. ASSUME NEW h \in Handlers, Start(h) PROVE TypeOK'
    BY <1>11 DEF TypeOK, Start, Handlers, Stages, linkVars, pollVars, historyVars, boundVars
  <1>12. ASSUME NEW h \in Handlers, Acquire(h) PROVE TypeOK'
    BY <1>12 DEF TypeOK, Acquire, Stages, Holding, linkVars, pollVars, historyVars, boundVars
  <1>13. ASSUME NEW h \in Handlers, Ask(h) PROVE TypeOK'
    BY <1>13 DEF TypeOK, Ask, Handlers, Stages, Holding, linkVars, pollVars
  <1>14. ASSUME NEW h \in Handlers, Reply(h) PROVE TypeOK'
    <2>1. h[1] \in Messages
      BY DEF Handlers
    <2> QED BY <1>14, <2>1 DEF TypeOK, Reply, Stages, Holding, linkVars, pollVars
  <1>15. ASSUME NEW h \in Handlers, MarkRead(h) \/ Raises(h) PROVE TypeOK'
    <2>1. h[1] \in Messages
      BY DEF Handlers
    <2>2. permits < MaxConcurrent
      <3>1. h \in Holders
        BY <1>15 DEF MarkRead, Raises, Holders, Holding
      <3>2. Cardinality(Holders) \in Nat /\ Cardinality(Holders) # 0
        BY <3>1, HoldersFinite, FS_CardinalityType, FS_EmptySet
      <3> QED BY <3>2 DEF PermitsAccounted, TypeOK
    <2>3. /\ run' \in [Handlers -> Stages]
          /\ permits' \in 0..MaxConcurrent
          /\ inFlight' \in SUBSET Messages
      BY <1>15, <2>2 DEF TypeOK, MarkRead, Raises, Leave, Stages
    <2>4. /\ mailbox' \in [Messages -> {"absent", "unread", "read", "removed"}]
          /\ deltaLink' \in Links /\ savedLink' \in Links
          /\ round' \in [todo : SUBSET Messages, batch : SUBSET Messages, next : Links]
      BY <1>1, <1>15, <2>1 DEF TypeOK, MarkRead, Raises, pollVars, linkVars
    <2> QED BY <1>15, <2>1, <2>3, <2>4 DEF TypeOK, MarkRead, Raises, pollVars
  <1>16. CASE Stop
    <2>1. savedLink' \in Links
      BY <1>16 DEF TypeOK, Stop, LinksLeft, NoLink, Links
    <2>2. run' \in [Handlers -> Stages]
      BY <1>16 DEF Stop, Stages
    <2>3. relistings' \in [Messages -> Nat]
      BY <1>16 DEF Stop, TypeOK
    <2>4. unmarked' \in SUBSET Messages
      BY <1>16 DEF Stop, TypeOK
    <2>5. deltaLink' \in Links
          /\ round' \in [todo : SUBSET Messages, batch : SUBSET Messages, next : Links]
      BY <1>16 DEF Stop, NoLink, NoRound, Links
    <2>6. permits' \in 0..MaxConcurrent /\ emptyPolls' \in 0..BackoffAfter
          /\ stops' \in 0..MaxStops
      BY <1>16 DEF Stop, TypeOK
    <2> QED BY <1>16, <2>1, <2>2, <2>3, <2>4, <2>5, <2>6 DEF TypeOK, Stop
  <1>17. CASE Boot
    BY <1>17 DEF TypeOK, Boot, pollVars, taskVars, historyVars, boundVars
  <1>18. CASE UNCHANGED vars
    BY <1>18 DEF TypeOK, vars
  <1> QED
    BY <1>2, <1>3, <1>4, <1>5, <1>6, <1>7, <1>8, <1>9, <1>10, <1>11, <1>12, <1>13,
       <1>14, <1>15, <1>16, <1>17, <1>18 DEF Next, Environment, Poll, Handle

-----------------------------------------------------------------------------
(* Handler tasks *)

\* When the poll loop spawns, no message it spawns a task for has one already.
LEMMA NewAreIdle ==
  ASSUME TypeOK, TaskInv, poll = "saving",
         NEW m \in NewMessages
  PROVE  m \in Messages /\ \A k \in Slots : run[<<m, k>>] = "idle"
  <1>1. m \in Messages /\ m \notin inFlight
    BY DEF NewMessages, TypeOK
  <1>2. ASSUME NEW k \in Slots PROVE run[<<m, k>>] = "idle"
    <2>1. <<m, k>> \in Handlers
      BY <1>1 DEF Handlers
    <2>2. run[<<m, k>>] # "created"
      BY <2>1 DEF TaskInv, NoneCreated
    <2>3. run[<<m, k>>] \notin Started
      BY <1>1 DEF TaskInv, InFlightExact
    <2> QED BY <2>1, <2>2, <2>3 DEF TypeOK, Started
  <1> QED BY <1>1, <1>2

\* Spawning creates one task for each new message and touches no other task.
LEMMA SpawnedTasks ==
  ASSUME TypeOK, TaskInv, poll = "saving",
         NEW m \in Messages, NEW k \in Slots
  PROVE  /\ m \in NewMessages => FreeSlot(m) \in Slots /\ run[<<m, k>>] = "idle"
         /\ Spawned(NewMessages)[<<m, k>>] =
              IF m \in NewMessages /\ k = FreeSlot(m) THEN "created" ELSE run[<<m, k>>]
  <1>1. <<m, k>> \in Handlers
    BY DEF Handlers
  <1>2. m \in NewMessages => \A j \in Slots : run[<<m, j>>] = "idle"
    BY NewAreIdle
  <1>3. m \in NewMessages => FreeSlot(m) \in Slots
    BY <1>2, BridgeAssumption DEF FreeSlot
  <1> QED BY <1>1, <1>2, <1>3 DEF Spawned

\* Every step keeps the handler tasks in order.
LEMMA TaskStep ==
  ASSUME TypeOK, TaskInv, [Next]_vars
  PROVE  TaskInv'
  <1>1. ASSUME UNCHANGED <<run, inFlight, poll, up>>, ~up => deltaLink' = deltaLink
        PROVE  TaskInv'
    BY <1>1 DEF TaskInv, InFlightExact, NoneCreated, DownIsIdle, OneHandlerPerMessage
  <1>2. ASSUME NEW m \in Messages, Changed(m)
        PROVE  ~up => deltaLink' = deltaLink
    BY <1>2 DEF TaskInv, DownIsIdle, Changed, Bump, NoLink
  <1>3. CASE Environment
    <2>1. ASSUME NEW m \in Messages, Arrive(m) \/ Touch(m) \/ Remove(m) PROVE TaskInv'
      BY <1>1, <1>2, <2>1 DEF Arrive, Touch, Remove, taskVars
    <2>2. CASE ExpireLinks
      BY <1>1, <2>2 DEF ExpireLinks, Expired, TaskInv, DownIsIdle, NoLink, taskVars
    <2> QED BY <1>3, <2>1, <2>2 DEF Environment
  <1>4. CASE FirstPage \/ NextPage \/ LinkRefused \/ PollFails
    <2>1. up /\ up' /\ run' = run /\ inFlight' = inFlight
      BY <1>4 DEF FirstPage, NextPage, LinkRefused, PollFails, MayPoll, taskVars
    <2>2. poll' # "sleeping" => \A h \in Handlers : run[h] # "created"
      <3>1. CASE FirstPage
        BY <3>1 DEF FirstPage, MayPoll
      <3>2. CASE NextPage
        BY <3>2 DEF NextPage, TaskInv, NoneCreated
      <3>3. CASE LinkRefused \/ PollFails
        BY <3>3 DEF LinkRefused, PollFails, PollDone
      <3> QED BY <1>4, <3>1, <3>2, <3>3
    <2> QED BY <2>1, <2>2
          DEF TaskInv, InFlightExact, NoneCreated, DownIsIdle, OneHandlerPerMessage
  <1>5. CASE SaveAndSpawn
    <2>0. poll = "saving" /\ up /\ up' /\ poll' = "sleeping" /\ inFlight' = inFlight
          /\ run' = Spawned(NewMessages)
      BY <1>5 DEF SaveAndSpawn, PollDone
    <2>1. ASSUME NEW m \in Messages, NEW k \in Slots
          PROVE  run'[<<m, k>>] =
                   IF m \in NewMessages /\ k = FreeSlot(m) THEN "created" ELSE run[<<m, k>>]
      BY <2>0, SpawnedTasks
    <2>2. InFlightExact'
      <3>1. ASSUME NEW m \in Messages, NEW k \in Slots
            PROVE  run'[<<m, k>>] \in Started <=> run[<<m, k>>] \in Started
        BY <2>0, <2>1, SpawnedTasks DEF Started
      <3> QED BY <2>0, <3>1 DEF TaskInv, InFlightExact
    <2>3. OneHandlerPerMessage'
      <3> SUFFICES ASSUME NEW m \in Messages, NEW j \in Slots, NEW k \in Slots,
                          run'[<<m, j>>] # "idle", run'[<<m, k>>] # "idle"
                   PROVE  j = k
        BY DEF OneHandlerPerMessage
      <3>1. CASE m \in NewMessages
        BY <2>0, <2>1, <3>1, SpawnedTasks
      <3>2. CASE m \notin NewMessages
        BY <2>1, <3>2 DEF TaskInv, OneHandlerPerMessage
      <3> QED BY <3>1, <3>2
    <2> QED BY <2>0, <2>2, <2>3 DEF TaskInv, NoneCreated, DownIsIdle
  <1>6. ASSUME NEW h \in Handlers, Start(h) \/ Acquire(h) \/ Ask(h) \/ Reply(h)
        PROVE  TaskInv'
    <2>1. PICK m \in Messages, k \in Slots : h = <<m, k>>
      BY DEF Handlers
    <2>2. up /\ up' /\ poll' = poll
      BY <1>6 DEF Start, Acquire, Ask, Reply, pollVars
    <2>3. PICK s \in Started : run' = [run EXCEPT ![h] = s]
      BY <1>6 DEF Start, Acquire, Ask, Reply, Started, Stages, Holding
    <2>4. run[h] # "idle" /\ inFlight' = inFlight \cup {m}
      <3>1. CASE Start(h)
        BY <2>1, <3>1 DEF Start
      <3>2. CASE Acquire(h) \/ Ask(h) \/ Reply(h)
        <4>1. run[h] \in Started /\ inFlight' = inFlight
          BY <3>2 DEF Acquire, Ask, Reply, Started, Stages, Holding
        <4>2. m \in inFlight
          BY <2>1, <4>1 DEF TaskInv, InFlightExact
        <4> QED BY <4>1, <4>2 DEF Started
      <3> QED BY <1>6, <3>1, <3>2
    <2>5. ASSUME NEW n \in Messages, NEW j \in Slots
          PROVE  run'[<<n, j>>] = IF n = m /\ j = k THEN s ELSE run[<<n, j>>]
      BY <2>1, <2>3 DEF TypeOK, Handlers
    <2>6. s # "idle" /\ s # "created"
      BY DEF Started
    <2>7. InFlightExact'
      BY <2>1, <2>4, <2>5 DEF TaskInv, InFlightExact
    <2>8. OneHandlerPerMessage'
      BY <2>1, <2>4, <2>5 DEF TaskInv, OneHandlerPerMessage
    <2>9. NoneCreated'
      BY <2>2, <2>3, <2>6 DEF TaskInv, NoneCreated, TypeOK
    <2> QED BY <2>2, <2>7, <2>8, <2>9 DEF TaskInv, DownIsIdle
  <1>7. ASSUME NEW h \in Handlers, MarkRead(h) \/ Raises(h) PROVE TaskInv'
    <2>1. PICK m \in Messages, k \in Slots : h = <<m, k>>
      BY DEF Handlers
    <2>2. up /\ up' /\ poll' = poll /\ run[h] \in {"asking", "marking"}
          /\ run' = [run EXCEPT ![h] = "idle"] /\ inFlight' = inFlight \ {m}
      BY <1>7, <2>1 DEF MarkRead, Raises, pollVars, Leave
    <2>3. ASSUME NEW n \in Messages, NEW j \in Slots
          PROVE  run'[<<n, j>>] = IF n = m /\ j = k THEN "idle" ELSE run[<<n, j>>]
      BY <2>1, <2>2 DEF TypeOK, Handlers
    <2>4. ASSUME NEW j \in Slots PROVE run'[<<m, j>>] = "idle"
      BY <2>1, <2>2, <2>3 DEF TaskInv, OneHandlerPerMessage
    <2>5. InFlightExact'
      <3>1. ASSUME NEW n \in Messages
            PROVE  n \in inFlight' <=> \E j \in Slots : run'[<<n, j>>] \in Started
        <4>1. CASE n = m
          BY <2>2, <2>4, <4>1 DEF Started
        <4>2. CASE n # m
          BY <2>2, <2>3, <4>2 DEF TaskInv, InFlightExact
        <4> QED BY <4>1, <4>2
      <3>2. inFlight' \subseteq Messages
        BY <2>2 DEF TypeOK
      <3> QED BY <3>1, <3>2 DEF InFlightExact
    <2>6. OneHandlerPerMessage'
      BY <2>3 DEF TaskInv, OneHandlerPerMessage
    <2>7. NoneCreated'
      BY <2>2 DEF TaskInv, NoneCreated, TypeOK
    <2> QED BY <2>2, <2>5, <2>6, <2>7 DEF TaskInv, DownIsIdle
  <1>8. CASE Stop
    <2>1. poll' = "sleeping" /\ inFlight' = {} /\ deltaLink' = NoLink
          /\ \A h \in Handlers : run'[h] = "idle"
      BY <1>8 DEF Stop
    <2>2. \A m \in Messages, k \in Slots : run'[<<m, k>>] = "idle"
      BY <2>1 DEF Handlers
    <2> QED BY <2>1, <2>2
          DEF TaskInv, InFlightExact, NoneCreated, DownIsIdle, OneHandlerPerMessage, Started
  <1>9. CASE Boot
    BY <1>9 DEF Boot, TaskInv, InFlightExact, NoneCreated, DownIsIdle, OneHandlerPerMessage,
                pollVars, taskVars
  <1>10. CASE UNCHANGED vars
    BY <1>1, <1>10 DEF vars
  <1> QED
    BY <1>3, <1>4, <1>5, <1>6, <1>7, <1>8, <1>9, <1>10 DEF Next, Poll, Handle

-----------------------------------------------------------------------------
(* The semaphore *)

\* The permits change only as handlers start or stop holding one.
LEMMA PermitStep ==
  ASSUME TypeOK, TaskInv, PermitsAccounted, [Next]_vars
  PROVE  PermitsAccounted'
  <1>1. ASSUME \A h \in Handlers : run'[h] \in Holding <=> run[h] \in Holding,
               permits' = permits
        PROVE  PermitsAccounted'
    <2>1. Holders' = Holders
      BY <1>1 DEF Holders
    <2> QED BY <1>1, <2>1 DEF PermitsAccounted
  <1>2. CASE Environment \/ FirstPage \/ NextPage \/ LinkRefused \/ PollFails \/ Boot
    BY <1>1, <1>2 DEF Environment, Arrive, Touch, Remove, ExpireLinks, FirstPage, NextPage,
                      LinkRefused, PollFails, Boot, taskVars
  <1>3. CASE SaveAndSpawn
    <2>1. permits' = permits /\ poll = "saving" /\ run' = Spawned(NewMessages)
      BY <1>3 DEF SaveAndSpawn
    <2>2. ASSUME NEW h \in Handlers PROVE run'[h] \in Holding <=> run[h] \in Holding
      <3>1. PICK m \in Messages, k \in Slots : h = <<m, k>>
        BY DEF Handlers
      <3> QED BY <2>1, <3>1, SpawnedTasks DEF Holding
    <2> QED BY <1>1, <2>1, <2>2
  <1>4. ASSUME NEW h \in Handlers, Start(h) \/ Ask(h) \/ Reply(h) PROVE PermitsAccounted'
    <2>1. permits' = permits
      BY <1>4 DEF Start, Ask, Reply
    <2>2. CASE Start(h)
      BY <1>1, <2>1, <2>2 DEF Start, Holding, TypeOK
    <2>3. CASE Ask(h)
      BY <1>1, <2>1, <2>3 DEF Ask, Holding, TypeOK
    <2>4. CASE Reply(h)
      BY <1>1, <2>1, <2>4 DEF Reply, Holding, TypeOK
    <2> QED BY <1>4, <2>2, <2>3, <2>4
  <1>5. ASSUME NEW h \in Handlers, Acquire(h) PROVE PermitsAccounted'
    <2>1. h \notin Holders
      BY <1>5 DEF Acquire, Holders, Holding
    <2>2. Holders' = Holders \cup {h}
      BY <1>5 DEF Acquire, Holders, Holding, TypeOK
    <2>3. Cardinality(Holders') = Cardinality(Holders) + 1
      BY <2>1, <2>2, HoldersFinite, FS_AddElement
    <2>4. permits' = permits - 1 /\ permits \in Nat /\ Cardinality(Holders) \in Nat
      BY <1>5, HoldersFinite, FS_CardinalityType, BridgeAssumption DEF Acquire, TypeOK
    <2> QED BY <2>3, <2>4, BridgeAssumption DEF PermitsAccounted
  <1>6. ASSUME NEW h \in Handlers, MarkRead(h) \/ Raises(h) PROVE PermitsAccounted'
    <2>1. h \in Holders
      BY <1>6 DEF MarkRead, Raises, Holders, Holding
    <2>2. Holders' = Holders \ {h}
      BY <1>6 DEF MarkRead, Raises, Leave, Holders, Holding, TypeOK
    <2>3. Cardinality(Holders') = Cardinality(Holders) - 1
      BY <2>1, <2>2, HoldersFinite, FS_RemoveElement
    <2>4. permits' = permits + 1 /\ permits \in Nat /\ Cardinality(Holders) \in Nat
      BY <1>6, HoldersFinite, FS_CardinalityType, BridgeAssumption DEF MarkRead, Raises, Leave, TypeOK
    <2> QED BY <2>3, <2>4, BridgeAssumption DEF PermitsAccounted
  <1>7. CASE Stop
    <2>1. Holders' = {}
      BY <1>7 DEF Stop, Holders, Holding
    <2>2. Cardinality(Holders') = 0
      BY <2>1, FS_EmptySet, Zenon
    <2>3. permits' = MaxConcurrent
      BY <1>7 DEF Stop
    <2> QED BY <2>2, <2>3, BridgeAssumption DEF PermitsAccounted
  <1>8. CASE UNCHANGED vars
    BY <1>1, <1>8 DEF vars
  <1> QED
    BY <1>2, <1>3, <1>4, <1>5, <1>6, <1>7, <1>8 DEF Next, Poll, Handle

-----------------------------------------------------------------------------
(* Delta links and the mail they cover *)

\* A message that changes becomes news for every live link alike.
LEMMA BumpKeepsOrder ==
  ASSUME NEW l \in Links, NEW k \in Links, NEW m \in Messages
  PROVE  /\ Bump(l, m).status = l.status
         /\ l.status = "live" /\ k.status = "live" /\ l.news \subseteq k.news
              => Bump(l, m).news \subseteq Bump(k, m).news
         /\ \A n \in Messages : PastLink(Bump(l, m), n) <=> PastLink(l, n) /\ n # m
  BY DEF Bump, Links, PastLink

\* The link in the file never gets ahead of the link in memory.
LEMMA SavedStep ==
  ASSUME TypeOK, TaskInv, SavedIsOlder, [Next]_vars
  PROVE  SavedIsOlder'
  <1>1. ASSUME NEW m \in Messages, Changed(m), up' = up, poll' = poll PROVE SavedIsOlder'
    <2>1. /\ deltaLink' = Bump(deltaLink, m) /\ savedLink' = Bump(savedLink, m)
          /\ round.next' = Bump(round.next, m)
      BY <1>1 DEF Changed, TypeOK
    <2>2. deltaLink \in Links /\ savedLink \in Links /\ round.next \in Links
      BY DEF TypeOK
    <2> QED BY <1>1, <2>1, <2>2, BumpKeepsOrder DEF SavedIsOlder
  <1>2. CASE Environment
    <2>1. ASSUME NEW m \in Messages, Arrive(m) \/ Touch(m) \/ Remove(m) PROVE SavedIsOlder'
      BY <1>1, <2>1 DEF Arrive, Touch, Remove
    <2>2. CASE ExpireLinks
      <3>1. savedLink'.status # "live"
        BY <2>2 DEF ExpireLinks, Expired, TypeOK, Links
      <3> QED BY <3>1 DEF SavedIsOlder
    <2> QED BY <1>2, <2>1, <2>2 DEF Environment
  <1>3. CASE FirstPage
    <2>1. PICK page \in Pages(Listing(deltaLink)) :
            Receive(Listing(deltaLink), {}, FreshLink, page)
      BY <1>3 DEF FirstPage
    <2>2. up /\ up' /\ savedLink' = savedLink
      BY <1>3 DEF FirstPage, MayPoll
    <2>3. FreshLink.status = "live" /\ FreshLink.news = {}
      BY DEF FreshLink
    <2>4. CASE page = Listing(deltaLink)
      BY <2>1, <2>2, <2>3, <2>4 DEF Receive, SavedIsOlder
    <2>5. CASE page # Listing(deltaLink)
      <3>1. deltaLink' = deltaLink /\ round.next' = FreshLink
        BY <2>1, <2>5 DEF Receive
      <3> QED BY <2>2, <2>3, <3>1 DEF SavedIsOlder
    <2> QED BY <2>4, <2>5
  <1>4. CASE NextPage
    <2>1. PICK page \in Pages(round.todo) :
            Receive(round.todo, round.batch, round.next, page)
      BY <1>4 DEF NextPage
    <2>2. up /\ up' /\ savedLink' = savedLink /\ poll = "paging"
      BY <1>4 DEF NextPage
    <2>3. CASE page = round.todo
      BY <2>1, <2>2, <2>3 DEF Receive, SavedIsOlder
    <2>4. CASE page # round.todo
      <3>1. deltaLink' = deltaLink /\ round.next' = round.next
        BY <2>1, <2>4 DEF Receive
      <3> QED BY <2>2, <3>1 DEF SavedIsOlder
    <2> QED BY <2>3, <2>4
  <1>5. CASE LinkRefused
    BY <1>5 DEF LinkRefused, MayPoll, PollDone, SavedIsOlder
  <1>6. CASE PollFails
    BY <1>6 DEF PollFails, PollDone, linkVars, SavedIsOlder
  <1>7. CASE SaveAndSpawn
    <2>1. /\ savedLink' \in {deltaLink, savedLink, NoLink} /\ deltaLink' = deltaLink
          /\ up /\ poll' = "sleeping"
      BY <1>7 DEF SaveAndSpawn, PollDone
    <2> QED BY <2>1 DEF SavedIsOlder, NoLink
  <1>8. ASSUME NEW h \in Handlers, Start(h) \/ Acquire(h) \/ Ask(h) \/ Reply(h)
        PROVE  SavedIsOlder'
    BY <1>8 DEF Start, Acquire, Ask, Reply, linkVars, pollVars, SavedIsOlder
  <1>9. ASSUME NEW h \in Handlers, MarkRead(h) \/ Raises(h) PROVE SavedIsOlder'
    <2>1. h[1] \in Messages /\ up' = up /\ poll' = poll
      BY <1>9 DEF MarkRead, Raises, pollVars, Handlers
    <2>2. CASE Changed(h[1])
      BY <1>1, <2>1, <2>2
    <2>3. CASE UNCHANGED <<deltaLink, savedLink, round>>
      BY <2>1, <2>3 DEF SavedIsOlder
    <2> QED BY <1>9, <2>2, <2>3 DEF MarkRead, Raises, pollVars, linkVars
  <1>10. CASE Stop
    BY <1>10 DEF Stop, SavedIsOlder
  <1>11. CASE Boot
    <2>1. poll = "sleeping" /\ poll' = poll /\ deltaLink' = savedLink /\ savedLink' = savedLink
      BY <1>11 DEF Boot, pollVars, TaskInv, DownIsIdle
    <2> QED BY <2>1 DEF SavedIsOlder
  <1>12. CASE UNCHANGED vars
    BY <1>12 DEF vars, SavedIsOlder
  <1> QED
    BY <1>2, <1>3, <1>4, <1>5, <1>6, <1>7, <1>8, <1>9, <1>10, <1>11, <1>12
       DEF Next, Poll, Handle

\* An arrived page is kept, listed later, or was not listed at all.
LEMMA PageAccounted ==
  ASSUME TypeOK, poll # "saving",
         NEW todo \in SUBSET Messages, NEW batch \in SUBSET Messages, NEW next \in Links,
         NEW page \in Pages(todo), Receive(todo, batch, next, page),
         up, up', UNCHANGED <<mailbox, run, unmarked>>,
         NEW m \in Messages, Accounted(m),
         mailbox[m] = "unread" /\ PastLink(next, m) /\ m \notin todo => InHand(m) \/ m \in batch
  PROVE  Accounted(m)'
  <1> SUFFICES ASSUME mailbox[m] = "unread" PROVE Accounted(m)'
    BY DEF Accounted
  <1>1. m \in page => m \in Kept(page)
    BY DEF Kept
  <1>2. InHand(m) => InHand(m)'
    BY DEF InHand, Active
  <1>3. CASE page = todo
    <2>1. poll' = "saving" /\ deltaLink' = next /\ round'.batch = batch \cup Kept(page)
      BY <1>3 DEF Receive, NoRound
    <2>2. PastLink(next, m) => InHand(m)'
      BY <1>1, <1>2, <1>3, <2>1 DEF InHand
    <2> QED BY <2>1, <2>2 DEF Accounted
  <1>4. CASE page # todo
    <2>1. poll' = "paging" /\ deltaLink' = deltaLink
          /\ round' = [todo |-> todo \ page, batch |-> batch \cup Kept(page), next |-> next]
      BY <1>4 DEF Receive
    <2>2. PastLink(deltaLink', m) => InHand(m)'
      BY <1>2, <2>1 DEF Accounted
    <2>3. PastLink(round'.next, m) /\ m \notin round'.todo => InHand(m)' \/ m \in round'.batch
      BY <1>1, <1>2, <2>1
    <2> QED BY <2>1, <2>2, <2>3 DEF Accounted
  <1> QED BY <1>3, <1>4

\* Every step keeps unread mail accounted for.
LEMMA LossStep ==
  ASSUME TypeOK, TaskInv, SavedIsOlder, LossInv, [Next]_vars
  PROVE  LossInv'
  <1> SUFFICES ASSUME NEW m \in Messages PROVE Accounted(m)'
    BY DEF LossInv
  <1>0. Accounted(m)
    BY DEF LossInv
  <1>1. ASSUME NEW n \in Messages, Changed(n), UNCHANGED <<up, poll, run, unmarked>>,
               m # n => mailbox'[m] = mailbox[m]
        PROVE  Accounted(m)'
    <2>1. /\ deltaLink' = Bump(deltaLink, n) /\ savedLink' = Bump(savedLink, n)
          /\ round'.next = Bump(round.next, n)
          /\ round'.todo = round.todo /\ round'.batch = round.batch
      BY <1>1 DEF Changed, TypeOK
    <2>2. deltaLink \in Links /\ savedLink \in Links /\ round.next \in Links
      BY DEF TypeOK
    <2>3. /\ PastLink(deltaLink', m) <=> PastLink(deltaLink, m) /\ m # n
          /\ PastLink(savedLink', m) <=> PastLink(savedLink, m) /\ m # n
          /\ PastLink(round'.next, m) <=> PastLink(round.next, m) /\ m # n
      BY <2>1, <2>2, BumpKeepsOrder
    <2>4. InHand(m)' <=> InHand(m)
      BY <1>1, <2>1 DEF InHand, Active
    <2> QED BY <1>0, <1>1, <2>1, <2>3, <2>4 DEF Accounted
  <1>2. CASE Environment
    <2>1. ASSUME NEW n \in Messages, Arrive(n) \/ Touch(n) \/ Remove(n) PROVE Accounted(m)'
      BY <1>1, <2>1 DEF Arrive, Touch, Remove, taskVars, historyVars, TypeOK
    <2>2. CASE ExpireLinks
      <3>1. deltaLink'.status # "live" /\ savedLink'.status # "live" /\ round'.next.status # "live"
        BY <2>2 DEF ExpireLinks, Expired, TypeOK, Links
      <3> QED BY <3>1 DEF Accounted, PastLink
    <2> QED BY <1>2, <2>1, <2>2 DEF Environment
  <1>3. CASE FirstPage
    <2>1. PICK page \in Pages(Listing(deltaLink)) :
            Receive(Listing(deltaLink), {}, FreshLink, page)
      BY <1>3 DEF FirstPage
    <2>2. /\ up /\ up' /\ poll = "sleeping" /\ deltaLink.status # "expired"
          /\ UNCHANGED <<mailbox, run, unmarked>>
      BY <1>3 DEF FirstPage, MayPoll, taskVars, historyVars
    <2>3. Listing(deltaLink) \in SUBSET Messages /\ FreshLink \in Links
      BY DEF TypeOK, Listing, Present, FreshLink, Links
    <2>4. mailbox[m] = "unread" /\ m \notin Listing(deltaLink) => InHand(m)
      <3>1. deltaLink.status \in {"none", "live"}
        BY <2>2 DEF TypeOK, Links
      <3> QED BY <1>0, <2>2, <3>1 DEF Accounted, Listing, Present, PastLink
    <2> QED BY <1>0, <2>1, <2>2, <2>3, <2>4, PageAccounted
  <1>4. CASE NextPage
    <2>1. PICK page \in Pages(round.todo) :
            Receive(round.todo, round.batch, round.next, page)
      BY <1>4 DEF NextPage
    <2>2. up /\ up' /\ poll = "paging" /\ UNCHANGED <<mailbox, run, unmarked>>
      BY <1>4 DEF NextPage, taskVars, historyVars
    <2>3. /\ round.todo \in SUBSET Messages /\ round.batch \in SUBSET Messages
          /\ round.next \in Links
      BY DEF TypeOK
    <2>4. mailbox[m] = "unread" /\ PastLink(round.next, m) /\ m \notin round.todo
            => InHand(m) \/ m \in round.batch
      BY <1>0, <2>2 DEF Accounted
    <2> QED BY <1>0, <2>1, <2>2, <2>3, <2>4, PageAccounted
  <1>5. CASE LinkRefused \/ PollFails
    <2>1. /\ up /\ up' /\ poll # "saving" /\ poll' = "sleeping"
          /\ UNCHANGED <<mailbox, run, unmarked>>
          /\ deltaLink' = deltaLink \/ deltaLink' = NoLink
      BY <1>5 DEF LinkRefused, PollFails, PollDone, MayPoll, linkVars, taskVars, historyVars
    <2>2. InHand(m) => InHand(m)'
      BY <2>1 DEF InHand, Active
    <2> QED BY <1>0, <2>1, <2>2 DEF Accounted, PastLink, NoLink
  <1>6. CASE SaveAndSpawn
    <2>1. /\ up /\ up' /\ poll = "saving" /\ poll' = "sleeping"
          /\ UNCHANGED <<mailbox, deltaLink, inFlight, unmarked>>
          /\ run' = Spawned(NewMessages)
      BY <1>6 DEF SaveAndSpawn, PollDone, historyVars
    <2>2. Active(m) => Active(m)'
      BY <2>1, SpawnedTasks DEF Active
    <2>3. m \in round.batch => Active(m)'
      <3>1. CASE m \in NewMessages
        <4>1. FreeSlot(m) \in Slots
          BY <2>1, <3>1, SpawnedTasks, BridgeAssumption
        <4>2. run'[<<m, FreeSlot(m)>>] = "created"
          BY <2>1, <3>1, <4>1, SpawnedTasks
        <4> QED BY <4>1, <4>2 DEF Active
      <3>2. CASE m \in inFlight
        <4>1. Active(m)
          BY <3>2 DEF TaskInv, InFlightExact, Active, Started
        <4> QED BY <2>2, <4>1
      <3> QED BY <3>1, <3>2 DEF NewMessages
    <2> QED BY <1>0, <2>1, <2>2, <2>3 DEF Accounted, InHand
  <1>7. ASSUME NEW h \in Handlers, Start(h) \/ Acquire(h) \/ Ask(h) \/ Reply(h)
        PROVE  Accounted(m)'
    <2>1. UNCHANGED <<mailbox, deltaLink, savedLink, up, poll, round, unmarked>>
      BY <1>7 DEF Start, Acquire, Ask, Reply, linkVars, pollVars, historyVars
    <2>2. PICK s \in Started : run' = [run EXCEPT ![h] = s]
      BY <1>7 DEF Start, Acquire, Ask, Reply, Started, Stages, Holding
    <2>3. Active(m) => Active(m)'
      BY <2>2 DEF Active, TypeOK, Handlers, Started
    <2> QED BY <1>0, <2>1, <2>3 DEF Accounted, InHand
  <1>8. ASSUME NEW h \in Handlers, MarkRead(h) \/ Raises(h) PROVE Accounted(m)'
    <2>1. PICK n \in Messages, k \in Slots : h = <<n, k>>
      BY DEF Handlers
    <2>2. UNCHANGED <<up, poll>> /\ run' = [run EXCEPT ![h] = "idle"] /\ up
      BY <1>8 DEF MarkRead, Raises, pollVars, Leave
    <2>3. m # n => (Active(m)' <=> Active(m))
      BY <2>1, <2>2 DEF Active, TypeOK, Handlers
    <2>4. CASE mailbox[n] = "unread" /\ mailbox' = [mailbox EXCEPT ![n] = "read"]
               /\ Changed(n) /\ unmarked' = unmarked
      <3>1. CASE m = n
        BY <2>4, <3>1 DEF Accounted, TypeOK
      <3>2. CASE m # n
        <4>1. /\ deltaLink' = Bump(deltaLink, n) /\ round'.next = Bump(round.next, n)
              /\ round'.todo = round.todo /\ round'.batch = round.batch
          BY <2>4 DEF Changed, TypeOK
        <4>2. deltaLink \in Links /\ round.next \in Links
          BY DEF TypeOK
        <4>3. /\ PastLink(deltaLink', m) <=> PastLink(deltaLink, m)
              /\ PastLink(round'.next, m) <=> PastLink(round.next, m)
          BY <3>2, <4>1, <4>2, BumpKeepsOrder
        <4>4. mailbox'[m] = mailbox[m]
          BY <2>4, <3>2 DEF TypeOK
        <4>5. InHand(m)' <=> InHand(m)
          BY <2>2, <2>3, <2>4, <3>2, <4>1 DEF InHand
        <4> QED BY <1>0, <2>2, <4>1, <4>3, <4>4, <4>5 DEF Accounted
      <3> QED BY <3>1, <3>2
    <2>5. CASE mailbox[n] # "unread" /\ UNCHANGED <<mailbox, deltaLink, savedLink, round, unmarked>>
      BY <1>0, <2>2, <2>3, <2>5 DEF Accounted, InHand
    <2>6. CASE unmarked' = unmarked \cup {n} /\ UNCHANGED <<mailbox, deltaLink, savedLink, round>>
      BY <1>0, <2>2, <2>3, <2>6 DEF Accounted, InHand
    <2> QED BY <1>8, <2>1, <2>4, <2>5, <2>6 DEF MarkRead, Raises, pollVars, linkVars
  <1>9. CASE Stop
    <2>1. /\ up /\ ~up' /\ poll' = "sleeping" /\ mailbox' = mailbox
          /\ unmarked' = unmarked \cup {n \in Messages : Active(n)}
                                  \cup (IF poll = "saving" THEN round.batch ELSE {})
      BY <1>9 DEF Stop
    <2>2. InHand(m) => m \in unmarked'
      BY <2>1 DEF InHand
    <2>3. PastLink(savedLink', m) => PastLink(deltaLink, m)
      BY <1>9, <2>1 DEF Stop, LinksLeft, SavedIsOlder, PastLink, NoLink
    <2> QED BY <1>0, <2>1, <2>2, <2>3 DEF Accounted
  <1>10. CASE Boot
    <2>1. /\ ~up /\ up' /\ poll = "sleeping" /\ poll' = poll /\ deltaLink' = savedLink
          /\ UNCHANGED <<mailbox, unmarked>>
      BY <1>10 DEF Boot, pollVars, historyVars, TaskInv, DownIsIdle
    <2> QED BY <1>0, <2>1 DEF Accounted, InHand
  <1>11. CASE UNCHANGED vars
    BY <1>0, <1>11 DEF vars, Accounted, InHand, Active
  <1> QED
    BY <1>2, <1>3, <1>4, <1>5, <1>6, <1>7, <1>8, <1>9, <1>10, <1>11 DEF Next, Poll, Handle

-----------------------------------------------------------------------------
(* Answers *)

\* Mail is marked only by a handler that has answered it or failed to.
LEMMA AnswerStep ==
  ASSUME TypeOK, TaskInv, AnswerInv, [Next]_vars
  PROVE  AnswerInv'
  <1>1. ASSUME UNCHANGED <<replies, unanswered>>,
               \A h \in Handlers : run'[h] = "marking" => run[h] = "marking" \/ h[1] \notin Allowed,
               \A m \in Messages : mailbox'[m] = "read" => mailbox[m] = "read"
        PROVE  AnswerInv'
    BY <1>1, BridgeAssumption DEF AnswerInv, MarksAnswered, ReadIsAnswered
  <1>2. CASE Environment \/ FirstPage \/ NextPage \/ LinkRefused \/ PollFails \/ Boot
    <2>1. UNCHANGED <<run, replies, unanswered>>
      BY <1>2 DEF Environment, Arrive, Touch, Remove, ExpireLinks, FirstPage, NextPage,
                  LinkRefused, PollFails, Boot, taskVars, historyVars
    <2>2. \A m \in Messages : mailbox'[m] = "read" => mailbox[m] = "read"
      BY <1>2 DEF Environment, Arrive, Touch, Remove, ExpireLinks, FirstPage, NextPage,
                  LinkRefused, PollFails, Boot, TypeOK
    <2> QED BY <1>1, <2>1, <2>2
  <1>3. CASE SaveAndSpawn
    <2>1. UNCHANGED <<mailbox, replies, unanswered>> /\ poll = "saving"
          /\ run' = Spawned(NewMessages)
      BY <1>3 DEF SaveAndSpawn, historyVars
    <2>2. ASSUME NEW h \in Handlers, run'[h] = "marking" PROVE run[h] = "marking"
      BY <2>1, <2>2 DEF Spawned
    <2> QED BY <1>1, <2>1, <2>2
  <1>4. ASSUME NEW h \in Handlers, Start(h) \/ Acquire(h) PROVE AnswerInv'
    <2>1. UNCHANGED <<mailbox, replies, unanswered>>
      BY <1>4 DEF Start, Acquire, historyVars
    <2>2. ASSUME NEW g \in Handlers, run'[g] = "marking"
          PROVE  run[g] = "marking" \/ g[1] \notin Allowed
      BY <1>4, <2>2 DEF Start, Acquire, TypeOK
    <2> QED BY <1>1, <2>1, <2>2
  <1>5. ASSUME NEW h \in Handlers, Ask(h) \/ Reply(h) PROVE AnswerInv'
    <2>1. /\ mailbox' = mailbox
          /\ \A m \in Messages : replies'[m] >= replies[m] /\ replies'[m] \in Nat
          /\ \A m \in Messages : replies[m] \in Nat
          /\ unanswered \subseteq unanswered'
      BY <1>5 DEF Ask, Reply, TypeOK
    <2>2. ASSUME NEW g \in Handlers, run'[g] = "marking"
          PROVE  run[g] = "marking" \/ replies'[g[1]] > 0 \/ g[1] \in unanswered'
      <3>0. g[1] \in Messages /\ h[1] \in Messages
        BY DEF Handlers
      <3>1. CASE g = h
        BY <1>5, <2>2, <3>0, <3>1 DEF Ask, Reply, TypeOK
      <3>2. CASE g # h
        BY <1>5, <2>2, <3>2 DEF Ask, Reply, TypeOK
      <3> QED BY <3>1, <3>2
    <2>3. MarksAnswered'
      <3> SUFFICES ASSUME NEW g \in Handlers, run'[g] = "marking", g[1] \in Allowed
                   PROVE  replies'[g[1]] > 0 \/ g[1] \in unanswered'
        BY DEF MarksAnswered
      <3>0. g[1] \in Messages
        BY DEF Handlers
      <3>1. CASE run[g] = "marking"
        BY <2>1, <3>0, <3>1 DEF AnswerInv, MarksAnswered
      <3> QED BY <2>2, <3>1
    <2>4. ReadIsAnswered'
      BY <2>1, BridgeAssumption DEF AnswerInv, ReadIsAnswered
    <2> QED BY <2>3, <2>4 DEF AnswerInv
  <1>6. ASSUME NEW h \in Handlers, MarkRead(h) PROVE AnswerInv'
    <2>1. UNCHANGED <<replies, unanswered>> /\ run[h] = "marking" /\ h[1] \in Messages
          /\ run' = [run EXCEPT ![h] = "idle"]
      BY <1>6 DEF MarkRead, Leave, Handlers
    <2>2. MarksAnswered'
      BY <2>1 DEF AnswerInv, MarksAnswered, TypeOK
    <2>3. ASSUME NEW m \in Messages, mailbox'[m] = "read" PROVE mailbox[m] = "read" \/ m = h[1]
      BY <1>6, <2>3 DEF MarkRead, TypeOK
    <2>4. ReadIsAnswered'
      BY <2>1, <2>3, BridgeAssumption DEF AnswerInv, MarksAnswered, ReadIsAnswered
    <2> QED BY <2>2, <2>4 DEF AnswerInv
  <1>9. ASSUME NEW h \in Handlers, Raises(h) PROVE AnswerInv'
    BY <1>1, <1>9 DEF Raises, Leave, TypeOK
  <1>7. CASE Stop
    BY <1>1, <1>7 DEF Stop
  <1>8. CASE UNCHANGED vars
    BY <1>1, <1>8 DEF vars
  <1> QED
    BY <1>2, <1>3, <1>4, <1>5, <1>6, <1>7, <1>8, <1>9 DEF Next, Poll, Handle

-----------------------------------------------------------------------------
(* Replies *)

\* What may still become a reply to m: a handler that has not sent one, a place
\* in the batch or ahead in the round, a place in what a link lists (a message
\* that has not arrived will have one).
Unsent       == {"created", "queued", "asking", "replying"}
Open(m)      == IF \E k \in Slots : run[<<m, k>>] \in Unsent THEN 1 ELSE 0
Batched(m)   == IF m \in round.batch THEN 1 ELSE 0
Ahead(m)     == IF m \in round.batch \/ (mailbox[m] = "unread" /\ m \in round.todo) THEN 1 ELSE 0
Listed(l, m) ==
  IF mailbox[m] = "absent" \/ (mailbox[m] = "unread" /\ l.status # "expired" /\ m \in Listing(l))
  THEN 1 ELSE 0

\* The replies to m, and n more, are paid for by its arrival and its relistings.
Room(m, n) == replies[m] + n <= 1 + relistings[m]

\* While a poll pages, it may still fail, and the old link lists everything
\* again, or come through, and the new link lists what changed meanwhile.
Paid(m) ==
  /\ up /\ poll # "saving" => Room(m, Open(m) + Listed(deltaLink, m))
  /\ poll = "saving" => Room(m, Open(m) + Batched(m) + Listed(deltaLink, m))
  /\ poll = "paging" => Room(m, Open(m) + Ahead(m) + Listed(round.next, m))
  /\ ~up => Room(m, Listed(savedLink, m))

\* No link and no round lists a message before it arrives.
Unheard(m) == mailbox[m] = "absent" => /\ m \notin deltaLink.news /\ m \notin savedLink.news
                                       /\ m \notin round.next.news /\ m \notin round.todo
ListInv == \A m \in Messages : Unheard(m) /\ Paid(m)

\* The numbers a budget adds up.
LEMMA Numbers ==
  ASSUME TypeOK, NEW m \in Messages
  PROVE  /\ Open(m) \in {0, 1} /\ Batched(m) \in {0, 1} /\ Ahead(m) \in {0, 1}
         /\ \A l : Listed(l, m) \in {0, 1}
         /\ replies[m] \in Nat /\ relistings[m] \in Nat
  BY DEF TypeOK, Open, Batched, Ahead, Listed

\* Links and rounds list what is there.
LEMMA UnheardStep ==
  ASSUME TypeOK, ListInv, [Next]_vars, NEW m \in Messages
  PROVE  Unheard(m)'
  <1>0. Unheard(m) /\ mailbox[m] \in {"absent", "unread", "read", "removed"}
    BY DEF ListInv, TypeOK
  <1>1. ASSUME NEW n \in Messages, Arrive(n) \/ Touch(n) \/ Remove(n) PROVE Unheard(m)'
    <2>1. /\ Changed(n) /\ mailbox'[n] # "absent"
          /\ m # n => mailbox'[m] = mailbox[m]
      BY <1>1 DEF Arrive, Touch, Remove, Present, TypeOK
    <2> QED BY <1>0, <2>1 DEF Unheard, Changed, Bump, TypeOK, Links
  <1>2. CASE ExpireLinks
    BY <1>0, <1>2 DEF Unheard, ExpireLinks, Expired, TypeOK, Links
  <1>3. CASE FirstPage
    BY <1>0, <1>3 DEF Unheard, FirstPage, Receive, Pages, Listing, Present, FreshLink,
                      NoRound, NoLink
  <1>4. CASE NextPage
    BY <1>0, <1>4 DEF Unheard, NextPage, Receive, Pages, NoRound, NoLink
  <1>5. CASE LinkRefused \/ PollFails
    BY <1>0, <1>5 DEF Unheard, LinkRefused, PollFails, NoRound, NoLink, linkVars
  <1>6. CASE SaveAndSpawn
    BY <1>0, <1>6 DEF Unheard, SaveAndSpawn, NoRound, NoLink
  <1>7. ASSUME NEW h \in Handlers, Start(h) \/ Acquire(h) \/ Ask(h) \/ Reply(h)
        PROVE  Unheard(m)'
    BY <1>0, <1>7 DEF Unheard, Start, Acquire, Ask, Reply, linkVars, pollVars
  <1>8. ASSUME NEW h \in Handlers, MarkRead(h) \/ Raises(h) PROVE Unheard(m)'
    <2>1. CASE UNCHANGED <<mailbox, deltaLink, savedLink, round>>
      BY <1>0, <2>1 DEF Unheard
    <2>2. CASE /\ mailbox[h[1]] = "unread" /\ Changed(h[1])
               /\ mailbox' = [mailbox EXCEPT ![h[1]] = "read"]
      BY <1>0, <2>2 DEF Unheard, Changed, Bump, TypeOK, Links
    <2> QED BY <1>8, <2>1, <2>2 DEF MarkRead, Raises, pollVars, linkVars
  <1>9. CASE Stop
    BY <1>0, <1>9 DEF Unheard, Stop, LinksLeft, NoRound, NoLink
  <1>10. CASE Boot
    BY <1>0, <1>10 DEF Unheard, Boot, pollVars
  <1>11. CASE UNCHANGED vars
    BY <1>0, <1>11 DEF Unheard, vars
  <1> QED
    BY <1>1, <1>2, <1>3, <1>4, <1>5, <1>6, <1>7, <1>8, <1>9, <1>10, <1>11
    DEF Next, Environment, Poll, Handle

\* A budget that is owed no more than before still suffices.
LEMMA LessOwed ==
  ASSUME TypeOK, NEW m \in Messages, Paid(m), UNCHANGED <<up, poll>>,
         replies'[m] <= replies[m], relistings'[m] >= relistings[m],
         Open(m)' <= Open(m), Batched(m)' <= Batched(m), Ahead(m)' <= Ahead(m),
         Listed(deltaLink, m)' <= Listed(deltaLink, m),
         Listed(savedLink, m)' <= Listed(savedLink, m),
         Listed(round.next, m)' <= Listed(round.next, m),
         TypeOK'
  PROVE  Paid(m)'
  <1>1. /\ Open(m) \in {0, 1} /\ Batched(m) \in {0, 1} /\ Ahead(m) \in {0, 1}
        /\ Listed(deltaLink, m) \in {0, 1} /\ Listed(savedLink, m) \in {0, 1}
        /\ Listed(round.next, m) \in {0, 1}
        /\ replies[m] \in Nat /\ relistings[m] \in Nat
    BY Numbers
  <1>2. /\ Open(m)' \in {0, 1} /\ Batched(m)' \in {0, 1} /\ Ahead(m)' \in {0, 1}
        /\ Listed(deltaLink, m)' \in {0, 1} /\ Listed(savedLink, m)' \in {0, 1}
        /\ Listed(round.next, m)' \in {0, 1}
        /\ replies'[m] \in Nat /\ relistings'[m] \in Nat
    BY DEF Open, Batched, Ahead, Listed, TypeOK
  <1> QED BY <1>1, <1>2 DEF Paid, Room

\* The mailbox: a new message is owed a reply before it arrives, and a touch
\* pays for the listing it makes.
LEMMA OwnerPaid ==
  ASSUME TypeOK, TypeOK', ListInv, NEW n \in Messages, Arrive(n) \/ Touch(n) \/ Remove(n),
         NEW m \in Messages
  PROVE  Paid(m)'
  <1>0. /\ Unheard(m) /\ Paid(m)
        /\ deltaLink \in Links /\ savedLink \in Links /\ round.next \in Links
        /\ mailbox[m] \in {"absent", "unread", "read", "removed"}
    BY DEF ListInv, TypeOK
  <1>1. /\ Changed(n) /\ UNCHANGED <<up, poll, run, replies>>
        /\ round'.todo = round.todo /\ round'.batch = round.batch
    BY DEF Arrive, Touch, Remove, Changed, taskVars, historyVars, TypeOK
  <1>2. Open(m)' = Open(m) /\ Batched(m)' = Batched(m)
    BY <1>1 DEF Open, Batched
  <1>3. CASE m # n \/ Remove(n)
    <2>1. /\ mailbox'[m] = mailbox[m] \/ mailbox'[m] = "removed"
          /\ relistings'[m] = relistings[m]
      BY <1>3 DEF Arrive, Touch, Remove, historyVars, TypeOK
    <2>2. Ahead(m)' <= Ahead(m)
      BY <1>1, <2>1 DEF Ahead
    <2>3. /\ Listed(deltaLink, m)' <= Listed(deltaLink, m)
          /\ Listed(savedLink, m)' <= Listed(savedLink, m)
          /\ Listed(round.next, m)' <= Listed(round.next, m)
      BY <1>0, <1>1, <1>3, <2>1 DEF Changed, Bump, Links, Listed, Listing, Present, Remove, TypeOK
    <2>4. /\ Open(m)' <= Open(m) /\ Batched(m)' <= Batched(m)
          /\ replies'[m] <= replies[m] /\ relistings'[m] >= relistings[m]
      BY <1>1, <1>2, <2>1, Numbers DEF TypeOK
    <2> QED BY <1>0, <1>1, <2>2, <2>3, <2>4, LessOwed
  <1>4. CASE m = n /\ Arrive(n)
    <2>1. mailbox[m] = "absent" /\ mailbox'[m] = "unread" /\ relistings' = relistings
      BY <1>4 DEF Arrive, historyVars, TypeOK
    <2>2. Ahead(m)' <= Ahead(m)
      BY <1>0, <1>1, <2>1 DEF Ahead, Unheard
    <2>3. /\ Listed(deltaLink, m) = 1 /\ Listed(savedLink, m) = 1 /\ Listed(round.next, m) = 1
          /\ Listed(deltaLink, m)' <= 1 /\ Listed(savedLink, m)' <= 1
          /\ Listed(round.next, m)' <= 1
      BY <2>1 DEF Listed
    <2>4. /\ Open(m)' <= Open(m) /\ Batched(m)' <= Batched(m)
          /\ replies'[m] <= replies[m] /\ relistings'[m] >= relistings[m]
      BY <1>1, <1>2, <2>1, Numbers DEF TypeOK
    <2>5. /\ Listed(deltaLink, m)' <= Listed(deltaLink, m)
          /\ Listed(savedLink, m)' <= Listed(savedLink, m)
          /\ Listed(round.next, m)' <= Listed(round.next, m)
      BY <2>3
    <2> QED BY <1>0, <1>1, <2>2, <2>4, <2>5, LessOwed
  <1>5. CASE m = n /\ Touch(n)
    <2>1. mailbox' = mailbox /\ relistings'[m] = relistings[m] + 1
      BY <1>5 DEF Touch, TypeOK
    <2>2. Ahead(m)' = Ahead(m)
      BY <1>1, <2>1 DEF Ahead
    <2>3. /\ Listed(deltaLink, m)' \in {0, 1} /\ Listed(savedLink, m)' \in {0, 1}
          /\ Listed(round.next, m)' \in {0, 1}
      BY DEF Listed
    <2>4. /\ Open(m) \in {0, 1} /\ Batched(m) \in {0, 1} /\ Ahead(m) \in {0, 1}
          /\ Listed(deltaLink, m) \in {0, 1} /\ Listed(savedLink, m) \in {0, 1}
          /\ Listed(round.next, m) \in {0, 1}
          /\ replies[m] \in Nat /\ relistings[m] \in Nat
      BY Numbers
    <2> QED BY <1>0, <1>1, <1>2, <2>1, <2>2, <2>3, <2>4 DEF Paid, Room
  <1> QED BY <1>3, <1>4, <1>5

\* The poll: what a page brings was owed as part of the listing.
LEMMA PollPaid ==
  ASSUME TypeOK, TypeOK', TaskInv, ListInv, NEW m \in Messages,
         FirstPage \/ NextPage \/ LinkRefused \/ PollFails
  PROVE  Paid(m)'
  <1>0. /\ Unheard(m) /\ Paid(m)
        /\ Open(m) \in {0, 1} /\ Batched(m) \in {0, 1} /\ Ahead(m) \in {0, 1}
        /\ \A l : Listed(l, m) \in {0, 1}
        /\ replies[m] \in Nat /\ relistings[m] \in Nat
    BY Numbers DEF ListInv
  <1>1. /\ up /\ up' /\ UNCHANGED <<mailbox, run, replies>> /\ Open(m)' = Open(m)
        /\ Batched(m)' \in {0, 1} /\ Ahead(m)' \in {0, 1}
    BY DEF FirstPage, NextPage, LinkRefused, PollFails, MayPoll, taskVars, historyVars,
           linkVars, Open, Batched, Ahead
  <1>2. \A l : Listed(l, m)' = Listed(l, m)
    BY <1>1 DEF Listed, Listing, Present
  <1>3. CASE FirstPage
    <2>1. PICK page \in Pages(Listing(deltaLink)) :
            Receive(Listing(deltaLink), {}, FreshLink, page)
      BY <1>3 DEF FirstPage
    <2>2. /\ page \subseteq Listing(deltaLink) /\ deltaLink.status # "expired"
          /\ relistings' = relistings /\ poll = "sleeping"
      BY <1>3, <2>1 DEF FirstPage, MayPoll, Pages, historyVars
    <2>3. Listed(FreshLink, m) = 1 => mailbox[m] = "absent" /\ Listed(deltaLink, m) = 1
      BY DEF Listed, Listing, FreshLink
    <2>4. CASE poll' = "saving"
      <3>1. deltaLink' = FreshLink /\ round'.batch = Kept(page)
        BY <2>1, <2>4 DEF Receive, NoRound
      <3>2. Batched(m)' = 1 => mailbox[m] = "unread" /\ Listed(deltaLink, m) = 1
        BY <2>2, <3>1 DEF Batched, Kept, Listed
      <3>3. Listed(deltaLink, m)' = Listed(FreshLink, m)
        BY <1>2, <3>1
      <3> QED BY <1>0, <1>1, <2>2, <2>3, <2>4, <3>2, <3>3 DEF Paid, Room
    <2>5. CASE poll' = "paging"
      <3>1. /\ deltaLink' = deltaLink /\ round'.next = FreshLink
            /\ round'.batch = Kept(page) /\ round'.todo \subseteq Listing(deltaLink)
        BY <2>1, <2>5 DEF Receive
      <3>2. Ahead(m)' = 1 => mailbox[m] = "unread" /\ Listed(deltaLink, m) = 1
        BY <1>1, <2>2, <3>1 DEF Ahead, Kept, Listed
      <3>3. /\ Listed(deltaLink, m)' = Listed(deltaLink, m)
            /\ Listed(round.next, m)' = Listed(FreshLink, m)
        BY <1>2, <3>1
      <3> QED BY <1>0, <1>1, <2>2, <2>3, <2>5, <3>2, <3>3 DEF Paid, Room
    <2> QED BY <2>1, <2>4, <2>5 DEF Receive
  <1>4. CASE NextPage
    <2>1. PICK page \in Pages(round.todo) :
            Receive(round.todo, round.batch, round.next, page)
      BY <1>4 DEF NextPage
    <2>2. page \subseteq round.todo /\ relistings' = relistings /\ poll = "paging"
      BY <1>4, <2>1 DEF NextPage, Pages, historyVars
    <2>3. CASE poll' = "saving"
      <3>1. deltaLink' = round.next /\ round'.batch = round.batch \cup Kept(page)
        BY <2>1, <2>3 DEF Receive, NoRound
      <3>2. Batched(m)' <= Ahead(m)
        BY <2>2, <3>1 DEF Batched, Ahead, Kept
      <3>3. Listed(deltaLink, m)' = Listed(round.next, m)
        BY <1>2, <3>1
      <3> QED BY <1>0, <1>1, <2>2, <2>3, <3>2, <3>3 DEF Paid, Room
    <2>4. CASE poll' = "paging"
      <3>1. /\ deltaLink' = deltaLink /\ round'.next = round.next
            /\ round'.batch = round.batch \cup Kept(page) /\ round'.todo \subseteq round.todo
        BY <2>1, <2>4 DEF Receive
      <3>2. Ahead(m)' <= Ahead(m)
        BY <1>1, <2>2, <3>1 DEF Ahead, Kept
      <3>3. /\ Listed(deltaLink, m)' = Listed(deltaLink, m)
            /\ Listed(round.next, m)' = Listed(round.next, m)
        BY <1>2, <3>1
      <3> QED BY <1>0, <1>1, <2>2, <2>4, <3>2, <3>3 DEF Paid, Room
    <2> QED BY <2>1, <2>3, <2>4 DEF Receive
  <1>5. CASE LinkRefused
    <2>1. /\ poll = "sleeping" /\ poll' = "sleeping" /\ deltaLink' = NoLink
          /\ relistings'[m] = IF m \in Present THEN relistings[m] + 1 ELSE relistings[m]
      BY <1>5 DEF LinkRefused, PollDone, MayPoll
    <2>2. Listed(deltaLink, m)' = Listed(NoLink, m)
      BY <1>2, <2>1
    <2>3. Listed(NoLink, m) = 1 /\ m \notin Present => Listed(deltaLink, m) = 1
      BY DEF Listed, Present
    <2> QED BY <1>0, <1>1, <2>1, <2>2, <2>3 DEF Paid, Room
  <1>6. CASE PollFails
    <2>1. poll # "saving" /\ poll' = "sleeping" /\ deltaLink' = deltaLink
          /\ relistings' = relistings
      BY <1>6 DEF PollFails, PollDone, MayPoll, linkVars, historyVars
    <2>2. Listed(deltaLink, m)' = Listed(deltaLink, m)
      BY <1>2, <2>1
    <2> QED BY <1>0, <1>1, <2>1, <2>2 DEF Paid, Room
  <1> QED BY <1>3, <1>4, <1>5, <1>6

\* The handlers: a reply uses up what its handler was owed, and a batch becomes
\* handlers of messages that have none.
LEMMA HandlersPaid ==
  ASSUME TypeOK, TypeOK', TaskInv, ListInv, NEW m \in Messages,
         SaveAndSpawn \/ \E h \in Handlers : Handle(h)
  PROVE  Paid(m)'
  <1>0. /\ Unheard(m) /\ Paid(m)
        /\ Open(m) \in {0, 1} /\ Batched(m) \in {0, 1} /\ Ahead(m) \in {0, 1}
        /\ \A l : Listed(l, m) \in {0, 1}
        /\ replies[m] \in Nat /\ relistings[m] \in Nat
        /\ mailbox[m] \in {"absent", "unread", "read", "removed"}
    BY Numbers DEF ListInv, TypeOK
  <1>1. CASE SaveAndSpawn
    <2>1. /\ up /\ up' /\ poll = "saving" /\ poll' = "sleeping"
          /\ UNCHANGED <<mailbox, deltaLink, replies, relistings>>
          /\ run' = Spawned(NewMessages)
      BY <1>1 DEF SaveAndSpawn, PollDone, historyVars
    <2>2. Listed(deltaLink, m)' = Listed(deltaLink, m)
      BY <2>1 DEF Listed, Listing, Present
    <2>3. Open(m)' \in {0, 1}
      BY DEF Open
    <2>4. Open(m)' <= Open(m) + Batched(m)
      <3>1. CASE m \in NewMessages
        BY <1>0, <2>3, <3>1 DEF NewMessages, Batched
      <3>2. CASE m \notin NewMessages
        <4>1. \A k \in Slots : run'[<<m, k>>] = run[<<m, k>>]
          BY <2>1, <3>2, SpawnedTasks
        <4> QED BY <1>0, <4>1 DEF Open
      <3> QED BY <3>1, <3>2
    <2> QED BY <1>0, <2>1, <2>2, <2>3, <2>4 DEF Paid, Room
  <1>2. ASSUME NEW h \in Handlers, Start(h) \/ Acquire(h) \/ Ask(h) PROVE Paid(m)'
    <2>1. UNCHANGED <<mailbox, deltaLink, savedLink, up, poll, round, replies, relistings>>
      BY <1>2 DEF Start, Acquire, Ask, linkVars, pollVars, historyVars
    <2>2. /\ run[h] \in Unsent
          /\ \A g \in Handlers : g # h => run'[g] = run[g]
      BY <1>2 DEF Start, Acquire, Ask, Unsent, TypeOK
    <2>3. Open(m)' <= Open(m)
      BY <2>2 DEF Open, Handlers
    <2>4. /\ Batched(m)' = Batched(m) /\ Ahead(m)' = Ahead(m)
          /\ Listed(deltaLink, m)' = Listed(deltaLink, m)
          /\ Listed(savedLink, m)' = Listed(savedLink, m)
          /\ Listed(round.next, m)' = Listed(round.next, m)
      BY <2>1 DEF Batched, Ahead, Listed, Listing, Present
    <2> QED BY <1>0, <2>1, <2>3, <2>4, LessOwed
  <1>3. ASSUME NEW h \in Handlers, Reply(h) PROVE Paid(m)'
    <2>1. PICK n \in Messages, k \in Slots : h = <<n, k>>
      BY DEF Handlers
    <2>2. /\ UNCHANGED <<mailbox, deltaLink, savedLink, up, poll, round, relistings>> /\ up
          /\ run[<<n, k>>] = "replying" /\ run' = [run EXCEPT ![<<n, k>>] = "marking"]
          /\ replies'[m] <= IF m = n THEN replies[m] + 1 ELSE replies[m]
          /\ replies'[m] \in Nat
      BY <1>0, <1>3, <2>1 DEF Reply, linkVars, pollVars, TypeOK
    <2>3. /\ Batched(m)' = Batched(m) /\ Ahead(m)' = Ahead(m)
          /\ Listed(deltaLink, m)' = Listed(deltaLink, m)
          /\ Listed(savedLink, m)' = Listed(savedLink, m)
          /\ Listed(round.next, m)' = Listed(round.next, m)
      BY <2>2 DEF Batched, Ahead, Listed, Listing, Present
    <2>4. CASE m # n
      <3>1. Open(m)' = Open(m)
        BY <2>2, <2>4 DEF Open, TypeOK, Handlers
      <3> QED BY <1>0, <2>2, <2>3, <2>4, <3>1 DEF Paid, Room
    <2>5. CASE m = n
      <3>1. Open(m) = 1
        BY <2>2, <2>5 DEF Open, Unsent
      <3>2. \A j \in Slots : run'[<<m, j>>] \in {"idle", "marking"}
        BY <2>2, <2>5 DEF TaskInv, OneHandlerPerMessage, TypeOK, Handlers
      <3>3. Open(m)' = 0
        BY <3>2 DEF Open, Unsent
      <3> QED BY <1>0, <2>2, <2>3, <2>5, <3>1, <3>3 DEF Paid, Room
    <2> QED BY <2>4, <2>5
  <1>4. ASSUME NEW h \in Handlers, MarkRead(h) \/ Raises(h) PROVE Paid(m)'
    <2>1. /\ UNCHANGED <<up, poll, replies, relistings>>
          /\ run' = [run EXCEPT ![h] = "idle"] /\ h[1] \in Messages
      BY <1>4 DEF MarkRead, Raises, pollVars, Leave, Handlers
    <2>2. Open(m)' <= Open(m)
      <3>1. \A k \in Slots : run'[<<m, k>>] = run[<<m, k>>] \/ run'[<<m, k>>] = "idle"
        BY <2>1 DEF TypeOK, Handlers
      <3> QED BY <3>1 DEF Open, Unsent
    <2>3. CASE UNCHANGED <<mailbox, deltaLink, savedLink, round>>
      <3>1. /\ Batched(m)' = Batched(m) /\ Ahead(m)' = Ahead(m)
            /\ Listed(deltaLink, m)' = Listed(deltaLink, m)
            /\ Listed(savedLink, m)' = Listed(savedLink, m)
            /\ Listed(round.next, m)' = Listed(round.next, m)
        BY <2>3 DEF Batched, Ahead, Listed, Listing, Present
      <3> QED BY <1>0, <2>1, <2>2, <3>1, LessOwed
    <2>4. CASE /\ mailbox[h[1]] = "unread" /\ Changed(h[1])
               /\ mailbox' = [mailbox EXCEPT ![h[1]] = "read"]
      <3>1. /\ round'.batch = round.batch /\ round'.todo = round.todo
            /\ deltaLink' = Bump(deltaLink, h[1]) /\ savedLink' = Bump(savedLink, h[1])
            /\ round'.next = Bump(round.next, h[1])
            /\ deltaLink \in Links /\ savedLink \in Links /\ round.next \in Links
        BY <2>4 DEF Changed, TypeOK
      <3>2. (mailbox'[m] = mailbox[m] /\ m # h[1]) \/ mailbox'[m] = "read"
        BY <2>1, <2>4 DEF TypeOK
      <3>3. Batched(m)' <= Batched(m) /\ Ahead(m)' <= Ahead(m)
        BY <3>1, <3>2 DEF Batched, Ahead
      <3>4. /\ Listed(deltaLink, m)' <= Listed(deltaLink, m)
            /\ Listed(savedLink, m)' <= Listed(savedLink, m)
            /\ Listed(round.next, m)' <= Listed(round.next, m)
        BY <3>1, <3>2 DEF Bump, Links, Listed, Listing, Present
      <3> QED BY <1>0, <2>1, <2>2, <3>3, <3>4, LessOwed
    <2> QED BY <1>4, <2>3, <2>4 DEF MarkRead, Raises, pollVars, linkVars
  <1> QED BY <1>1, <1>2, <1>3, <1>4 DEF Handle

\* Stops and starts: a saved link that is behind lists again what is paid for,
\* one that is ahead does not exist.
LEMMA RestartPaid ==
  ASSUME TypeOK, TypeOK', TaskInv, SavedIsOlder, ListInv, NEW m \in Messages, Stop \/ Boot
  PROVE  Paid(m)'
  <1>0. /\ Unheard(m) /\ Paid(m)
        /\ Open(m) \in {0, 1} /\ Batched(m) \in {0, 1} /\ Ahead(m) \in {0, 1}
        /\ \A l : Listed(l, m) \in {0, 1}
        /\ replies[m] \in Nat /\ relistings[m] \in Nat
    BY Numbers DEF ListInv
  <1>1. mailbox' = mailbox /\ replies' = replies
    BY DEF Stop, Boot, historyVars
  <1>2. \A l : Listed(l, m)' = Listed(l, m)
    BY <1>1 DEF Listed, Listing, Present
  <1>3. CASE Stop
    <2>1. /\ up /\ ~up' /\ poll' = "sleeping" /\ savedLink' \in {savedLink, deltaLink, NoLink}
          /\ relistings'[m] = IF m \in ListedAgain(savedLink', deltaLink)
                                THEN relistings[m] + 1 ELSE relistings[m]
      BY <1>3 DEF Stop, LinksLeft
    <2>2. Listed(savedLink, m)' = Listed(savedLink', m)
      BY <1>2
    <2>3. Room(m, Listed(deltaLink, m))
      BY <1>0, <2>1 DEF Paid, Room
    <2>4. Listed(savedLink', m) = 1 /\ Listed(deltaLink, m) = 0
            => m \in ListedAgain(savedLink', deltaLink)
      <3> SUFFICES ASSUME Listed(savedLink', m) = 1, Listed(deltaLink, m) = 0
                   PROVE  m \in ListedAgain(savedLink', deltaLink)
        OBVIOUS
      <3>1. mailbox[m] = "unread" /\ m \in Listing(savedLink')
            /\ savedLink'.status # "expired"
            /\ (deltaLink.status = "expired" \/ m \notin Listing(deltaLink))
        BY DEF Listed
      <3>2. m \in Present /\ deltaLink.status # "none"
        BY <3>1 DEF Listing, Present
      <3>3. CASE savedLink' = NoLink
        BY <3>2, <3>3 DEF ListedAgain, NoLink
      <3>4. CASE savedLink' = savedLink /\ savedLink.status = "none"
        <4>1. ListedAgain(savedLink, deltaLink) = Present
          BY <3>2, <3>4 DEF ListedAgain
        <4> QED BY <3>2, <3>4, <4>1
      <3>5. CASE savedLink' = savedLink /\ savedLink.status = "live"
        <4>1. deltaLink.status = "live"
          BY <2>1, <3>5 DEF SavedIsOlder
        <4>2. m \in savedLink.news /\ m \notin deltaLink.news
          BY <3>1, <3>5, <4>1 DEF Listing
        <4>3. ListedAgain(savedLink, deltaLink) = savedLink.news \ deltaLink.news
          BY <3>5, <4>1 DEF ListedAgain
        <4> QED BY <3>5, <4>2, <4>3
      <3>6. CASE savedLink' = savedLink /\ savedLink.status = "expired"
        BY <3>1, <3>6
      <3> QED BY <2>1, <3>1, <3>3, <3>4, <3>5, <3>6 DEF TypeOK, Links
    <2> QED BY <1>0, <1>1, <2>1, <2>2, <2>3, <2>4 DEF Paid, Room
  <1>4. CASE Boot
    <2>1. /\ ~up /\ up' /\ poll = "sleeping" /\ UNCHANGED <<poll, run, relistings>>
          /\ deltaLink' = savedLink
      BY <1>4 DEF Boot, TaskInv, DownIsIdle, pollVars, taskVars, historyVars
    <2>2. Open(m)' = 0
      BY <2>1 DEF Open, Unsent, TaskInv, DownIsIdle, Handlers
    <2>3. Listed(deltaLink, m)' = Listed(savedLink, m)
      BY <1>2, <2>1
    <2> QED BY <1>0, <1>1, <2>1, <2>2, <2>3 DEF Paid, Room
  <1> QED BY <1>3, <1>4

\* Every step keeps the budget of every message.
LEMMA ListStep ==
  ASSUME IInv, IInv', ListInv, [Next]_vars
  PROVE  ListInv'
  <1> SUFFICES ASSUME NEW m \in Messages PROVE Paid(m)'
    BY UnheardStep DEF ListInv, IInv
  <1> USE DEF IInv
  <1>1. ASSUME NEW n \in Messages, Arrive(n) \/ Touch(n) \/ Remove(n) PROVE Paid(m)'
    BY <1>1, OwnerPaid
  <1>2. CASE ExpireLinks
    <2>1. /\ UNCHANGED <<mailbox, up, poll, run, replies, relistings>>
          /\ round'.todo = round.todo /\ round'.batch = round.batch
          /\ deltaLink' = Expired(deltaLink) /\ savedLink' = Expired(savedLink)
          /\ round'.next = Expired(round.next)
          /\ deltaLink \in Links /\ savedLink \in Links /\ round.next \in Links
      BY <1>2 DEF ExpireLinks, taskVars, historyVars, TypeOK
    <2>2. Open(m)' = Open(m) /\ Batched(m)' = Batched(m) /\ Ahead(m)' = Ahead(m)
      BY <2>1 DEF Open, Batched, Ahead
    <2>3. /\ Listed(deltaLink, m)' <= Listed(deltaLink, m)
          /\ Listed(savedLink, m)' <= Listed(savedLink, m)
          /\ Listed(round.next, m)' <= Listed(round.next, m)
      BY <2>1 DEF Expired, Links, Listed, Listing, Present
    <2>4. /\ Open(m)' <= Open(m) /\ Batched(m)' <= Batched(m) /\ Ahead(m)' <= Ahead(m)
          /\ replies'[m] <= replies[m] /\ relistings'[m] >= relistings[m]
      BY <2>1, <2>2, Numbers DEF TypeOK
    <2> QED BY <2>1, <2>3, <2>4, LessOwed DEF ListInv
  <1>3. CASE FirstPage \/ NextPage \/ LinkRefused \/ PollFails
    BY <1>3, PollPaid
  <1>4. CASE SaveAndSpawn \/ \E h \in Handlers : Handle(h)
    BY <1>4, HandlersPaid
  <1>5. CASE Stop \/ Boot
    BY <1>5, RestartPaid
  <1>6. CASE UNCHANGED vars
    BY <1>6 DEF vars, ListInv, Paid, Room, Open, Batched, Ahead, Listed, Listing, Present
  <1> QED BY <1>1, <1>2, <1>3, <1>4, <1>5, <1>6 DEF Next, Environment, Poll

\* Before anything arrives nothing but the arrival is owed.
LEMMA InitListInv == Init => ListInv
  <1> SUFFICES ASSUME Init, NEW m \in Messages PROVE Unheard(m) /\ Paid(m)
    BY DEF ListInv
  <1>1. Unheard(m)
    BY DEF Init, Unheard, NoLink, NoRound
  <1>2. Listed(savedLink, m) \in {0, 1}
    BY DEF Listed
  <1> QED BY <1>1, <1>2 DEF Init, Paid, Room

-----------------------------------------------------------------------------
(* The theorems *)

\* The bridge starts in order, whatever is in the mailbox.
LEMMA InitIInv == Init => IInv
  <1> SUFFICES ASSUME Init PROVE IInv
    OBVIOUS
  <1> USE BridgeAssumption
  <1>1. TypeOK
    <2>1. NoLink \in Links
      BY DEF NoLink, Links
    <2>2. round \in [todo : SUBSET Messages, batch : SUBSET Messages, next : Links]
      BY <2>1 DEF Init, NoRound
    <2>3. mailbox \in [Messages -> {"absent", "unread", "read", "removed"}]
      BY DEF Init
    <2>4. run \in [Handlers -> Stages]
      BY DEF Init, Stages
    <2>5. permits \in 0..MaxConcurrent /\ emptyPolls \in 0..BackoffAfter
          /\ faults \in 0..MaxFaults /\ disturbances \in 0..MaxDisturbances
          /\ stops \in 0..MaxStops
      BY DEF Init
    <2> QED BY <2>1, <2>2, <2>3, <2>4, <2>5 DEF Init, TypeOK
  <1>2. TaskInv
    BY DEF Init, TaskInv, InFlightExact, NoneCreated, DownIsIdle, OneHandlerPerMessage,
           Handlers, Started
  <1>3. PermitsAccounted
    <2>1. Holders = {}
      BY DEF Init, Holders, Holding
    <2>2. Cardinality(Holders) = 0
      BY <2>1, FS_EmptySet, Zenon
    <2> QED BY <2>2 DEF Init, PermitsAccounted
  <1>4. SavedIsOlder /\ LossInv
    BY DEF Init, SavedIsOlder, LossInv, Accounted, PastLink, NoLink
  <1>5. AnswerInv
    BY DEF Init, AnswerInv, MarksAnswered, ReadIsAnswered
  <1> QED BY <1>1, <1>2, <1>3, <1>4, <1>5 DEF IInv

\* The inductive invariant of the bridge, in which all its parts hold together.
THEOREM Inductive == Spec => []IInv
  <1>1. IInv /\ [Next]_vars => IInv'
    BY TypeStep, TaskStep, PermitStep, SavedStep, LossStep, AnswerStep DEF IInv
  <1> QED BY InitIInv, <1>1, PTL DEF Spec

\* Every variable of the bridge has its type in every reachable state.
THEOREM TypeCorrect == Spec => []TypeOK
  <1>1. IInv => TypeOK
    BY DEF IInv
  <1> QED BY <1>1, Inductive, PTL

\* Free permits and permits held add up to MAX_CONCURRENT_MESSAGES, for every
\* limit and any number of messages.
THEOREM SemaphoreCorrect == Spec => []PermitsAccounted
  <1>1. IInv => PermitsAccounted
    BY DEF IInv
  <1> QED BY <1>1, Inductive, PTL

\* No message is ever in the hands of two handlers.
THEOREM OneHandler == Spec => []OneHandlerPerMessage
  <1>1. IInv => OneHandlerPerMessage
    BY DEF IInv, TaskInv
  <1> QED BY <1>1, Inductive, PTL

\* Unread mail behind the link is in hand or was given up, whatever is lost,
\* refused or stopped, and for however many messages and restarts.
THEOREM NoMailLostSilently == Spec => []NoSilentLoss
  <1>1. IInv => NoSilentLoss
    <2> SUFFICES ASSUME IInv, NEW m \in Messages, mailbox[m] = "unread"
                 PROVE  /\ PastLink(deltaLink, m) => InHand(m)
                        /\ PastLink(savedLink, m) => InHand(m)
      BY DEF NoSilentLoss
    <2>1. Accounted(m)
      BY DEF IInv, LossInv
    <2>2. CASE up
      <3>1. PastLink(savedLink, m) => PastLink(deltaLink, m)
        BY <2>2 DEF IInv, SavedIsOlder, PastLink
      <3> QED BY <2>1, <2>2, <3>1 DEF Accounted
    <2>3. CASE ~up
      <3>1. ~PastLink(deltaLink, m)
        BY <2>3 DEF IInv, TaskInv, DownIsIdle, PastLink, NoLink
      <3> QED BY <2>1, <2>3, <3>1 DEF Accounted, InHand
    <2> QED BY <2>2, <2>3 DEF IInv, TypeOK
  <1> QED BY <1>1, Inductive, PTL

\* Mail of an allowed sender is marked as read only when it was answered, or
\* when the ask or the reply failed.
THEOREM ReadMailIsAnswered == Spec => []ReadIsAnswered
  <1>1. IInv => ReadIsAnswered
    BY DEF IInv, AnswerInv
  <1> QED BY <1>1, Inductive, PTL

\* Beyond the first, every reply to a message is paid for by an event that put
\* the message in front of the poll again, over any polls, failures, links and
\* restarts.
THEOREM RepliesArePaidFor == Spec => []ReplyPerListing
  <1>1. IInv /\ ListInv => ReplyPerListing
    <2> SUFFICES ASSUME IInv, ListInv, NEW m \in Messages
                 PROVE  replies[m] <= 1 + relistings[m]
      BY DEF ReplyPerListing
    <2>1. /\ Open(m) \in {0, 1} /\ Batched(m) \in {0, 1} /\ Listed(deltaLink, m) \in {0, 1}
          /\ Listed(savedLink, m) \in {0, 1} /\ replies[m] \in Nat /\ relistings[m] \in Nat
      BY Numbers DEF IInv
    <2> QED BY <2>1 DEF ListInv, Paid, Room
  <1>2. IInv /\ IInv' /\ ListInv /\ [Next]_vars => ListInv'
    BY ListStep
  <1> QED BY <1>1, <1>2, InitListInv, Inductive, PTL DEF Spec

-----------------------------------------------------------------------------
(* Scheduled jobs.  The inductive invariant relates _fired_today and         *)
(* last_day, which the loop keeps, to how often a job really ran on the day. *)

\* The loop has never ticked on a later day than today; a stopped process
\* remembers no day.
DaysInOrder == lastDay <= day /\ (~up => lastDay = -1)

\* A job that the loop does not remember for today ran only before restarts.
RunsRemembered ==
  \A j \in Jobs : lastDay # day \/ j \notin firedToday => firings[j] <= restarts

\* A job that the loop remembers for today did run today.
MemoryIsTrue == \A j \in Jobs : lastDay = day /\ j \in firedToday => firings[j] >= 1

\* Once the loop has ticked in a job's minute it remembers the job.
TickRemembers ==
  \A j \in jobs : Looping /\ minute = Time[j] /\ lastDay = day /\ ~tickDue => j \in firedToday

JInv == /\ JobsTypeOK /\ DaysInOrder /\ RunsRemembered /\ MemoryIsTrue /\ TickRemembers
        /\ OncePerDay

-----------------------------------------------------------------------------
\* The bridge starts with nothing remembered and nothing run.
LEMMA JobsStart == JobsInit => JInv
  <1> SUFFICES ASSUME JobsInit PROVE JInv
    OBVIOUS
  <1> USE JobsAssumption DEF JobsInit, StartInit
  <1>1. \A j \in Jobs : firings[j] = 0
    OBVIOUS
  <1>2. lastDay = -1 /\ day = 1 /\ restarts = 0 /\ up = FALSE
    OBVIOUS
  <1>3. jobRun \in [Jobs -> {"idle", "asking", "sending"}] /\ firings \in [Jobs -> Nat]
    OBVIOUS
  <1>4. JobsTypeOK
    <2>1. day \in 1..(MaxDays + 1) /\ lastDay \in {-1} \cup 1..(MaxDays + 1)
      BY <1>2
    <2>2. /\ StartTypeOK /\ up = (boot = "loops") /\ jobs \in {Jobs, {}}
          /\ tickDue \in BOOLEAN /\ minute \in 0..LastMinute /\ firedToday \subseteq Jobs
      <3>1. HealthRetries \in Nat \ {0} /\ MaxBadStarts \in Nat
        BY StartAssumption
      <3>2. boot \in BootStages /\ boot # "loops" /\ shutdown \in BOOLEAN /\ setting \in Settings
        BY DEF BootStages
      <3>3. attempt \in 0..(HealthRetries - 1) /\ badStarts \in Nat
        BY <3>1
      <3>4. QED
        BY <3>2, <3>3 DEF StartTypeOK
    <2>3. /\ clockSets \in 0..MaxClockSets /\ jobFaults \in 0..MaxJobFaults
          /\ restarts \in 0..MaxRestarts
      OBVIOUS
    <2>4. QED
      BY <1>3, <2>1, <2>2, <2>3 DEF JobsTypeOK
  <1>5. DaysInOrder /\ RunsRemembered /\ MemoryIsTrue /\ TickRemembers /\ OncePerDay
    BY <1>1, <1>2 DEF DaysInOrder, RunsRemembered, MemoryIsTrue, TickRemembers, OncePerDay, Looping
  <1>6. QED
    BY <1>4, <1>5 DEF JInv

\* Midnight clears the count of the day, and the tick of the new minute is due.
LEMMA MinuteStep == JInv /\ AdvanceMinute => JInv'
  <1> SUFFICES ASSUME JInv, AdvanceMinute PROVE JInv'
    OBVIOUS
  <1> USE JobsAssumption DEF JInv
  <1>1. CASE Midnight
    <2>1. JobsTypeOK'
      BY <1>1 DEF AdvanceMinute, JobsTypeOK, StartTypeOK, startVars, Looping
    <2>2. DaysInOrder' /\ lastDay' # day'
      BY <1>1 DEF AdvanceMinute, JobsTypeOK, DaysInOrder
    <2>3. \A j \in Jobs : firings'[j] = 0
      BY <1>1 DEF AdvanceMinute
    <2>4. QED
      BY <2>1, <2>2, <2>3 DEF RunsRemembered, MemoryIsTrue, TickRemembers, OncePerDay,
                              JobsTypeOK
  <1>2. CASE ~Midnight
    <2>1. JobsTypeOK'
      BY <1>2 DEF AdvanceMinute, JobsTypeOK, StartTypeOK, startVars, Looping, Midnight
    <2>2. QED
      BY <1>2, <2>1 DEF AdvanceMinute, DaysInOrder, RunsRemembered, MemoryIsTrue,
                        TickRemembers, OncePerDay, Looping, startVars
  <1>3. QED
    BY <1>1, <1>2

\* Setting the clock within the day makes a tick due and forgets nothing.
LEMMA ClockStep ==
  ASSUME JInv, NEW t \in 0..LastMinute, SetClock(t) PROVE JInv'
  <1> USE JobsAssumption DEF JInv
  <1>1. JobsTypeOK'
    BY DEF SetClock, JobsTypeOK, StartTypeOK, startVars, Looping, loopVars
  <1>2. QED
    BY <1>1 DEF SetClock, DaysInOrder, RunsRemembered, MemoryIsTrue, TickRemembers,
                OncePerDay, loopVars, startVars, Looping

\* A tick runs the jobs it does not remember for today, and remembers them.
LEMMA TickStep == JInv /\ JobTick => JInv'
  <1> SUFFICES ASSUME JInv, JobTick PROVE JInv'
    OBVIOUS
  <1> DEFINE due == DueJobs(FiredBefore)
  <1> USE JobsAssumption DEF JInv
  <1>1. /\ up /\ up' = up /\ minute' = minute /\ day' = day /\ restarts' = restarts
        /\ UNCHANGED <<startVars, jobs>> /\ jobs \subseteq Jobs
        /\ lastDay' = day /\ tickDue' = FALSE
        /\ firedToday' = FiredBefore \cup due
        /\ firings' = [j \in Jobs |-> IF j \in due THEN firings[j] + 1 ELSE firings[j]]
        /\ jobRun' = [j \in Jobs |-> IF j \in due THEN "asking" ELSE jobRun[j]]
        /\ UNCHANGED <<clockSets, jobFaults>>
    BY DEF JobTick, Looping, JobsTypeOK
  <1>2. due = {j \in jobs : Time[j] = minute /\ j \notin FiredBefore} /\ FiredBefore \subseteq Jobs
    BY DEF DueJobs, FiredBefore, JobsTypeOK
  <1>3. \A j \in Jobs : j \notin FiredBefore => firings[j] <= restarts
    BY DEF FiredBefore, RunsRemembered
  <1>4. \A j \in Jobs : j \in FiredBefore => firings[j] >= 1
    BY DEF FiredBefore, MemoryIsTrue
  <1> HIDE DEF due
  <1>5. JobsTypeOK'
    <2>1. jobRun' \in [Jobs -> {"idle", "asking", "sending"}]
      BY <1>1 DEF JobsTypeOK
    <2>2. firings' \in [Jobs -> Nat]
      BY <1>1 DEF JobsTypeOK
    <2>3. firedToday' \subseteq Jobs
      BY <1>1, <1>2
    <2>4. QED
      BY <1>1, <2>1, <2>2, <2>3 DEF JobsTypeOK, StartTypeOK, startVars
  <1>6. DaysInOrder'
    BY <1>1 DEF JobsTypeOK, DaysInOrder
  <1>7. \A j \in Jobs : firings[j] \in Nat /\ restarts \in Nat
    BY DEF JobsTypeOK
  <1>8. RunsRemembered' /\ OncePerDay'
    BY <1>1, <1>2, <1>3, <1>7 DEF RunsRemembered, OncePerDay
  <1>9. MemoryIsTrue'
    BY <1>1, <1>2, <1>4, <1>7 DEF MemoryIsTrue
  <1>10. TickRemembers'
    BY <1>1, <1>2 DEF TickRemembers, Looping
  <1>11. QED
    BY <1>5, <1>6, <1>8, <1>9, <1>10

\* A stop forgets the day, and is the one event a second run can follow.
LEMMA StopStep == JInv /\ JobsStop => JInv'
  <1> SUFFICES ASSUME JInv, JobsStop PROVE JInv'
    OBVIOUS
  <1> USE JobsAssumption DEF JInv
  <1>1. JobsTypeOK'
    <2>1. jobRun' \in [Jobs -> {"idle", "asking", "sending"}]
      BY DEF JobsStop
    <2>2. /\ StartTypeOK' /\ up' = (boot' = "loops") /\ jobs' \in {Jobs, {}}
          /\ tickDue' \in BOOLEAN /\ lastDay' = -1 /\ firedToday' = {}
      BY DEF JobsStop, LeaveLoops, StartTypeOK, BootStages, JobsTypeOK
    <2>3. restarts' \in 0..MaxRestarts
      BY DEF JobsStop, JobsTypeOK
    <2>4. UNCHANGED <<minute, day, firings, clockSets, jobFaults>>
      BY DEF JobsStop
    <2>5. QED
      BY <2>1, <2>2, <2>3, <2>4 DEF JobsTypeOK
  <1>2. restarts' = restarts + 1 /\ firings' = firings /\ day' = day /\ lastDay' = -1
        /\ up' = FALSE
    BY DEF JobsStop
  <1>3. lastDay' # day' /\ DaysInOrder'
    BY <1>2 DEF DaysInOrder, JobsTypeOK
  <1>4. RunsRemembered' /\ OncePerDay'
    BY <1>2 DEF RunsRemembered, OncePerDay, JobsTypeOK
  <1>5. QED
    BY <1>1, <1>2, <1>3, <1>4 DEF MemoryIsTrue, TickRemembers, Looping

\* The start-up changes nothing that the loop remembers, and ends where the
\* loop has not ticked yet.
LEMMA StartStep == JInv /\ (StartUp \/ _load_jobs) => JInv'
  <1> SUFFICES ASSUME JInv, StartUp \/ _load_jobs PROVE JInv'
    OBVIOUS
  <1> USE JobsAssumption DEF JInv
  <1>1. UNCHANGED <<minute, day, clockSets, loopVars, jobRun, jobFaults, restarts>>
    BY DEF StartUp, _load_jobs, clockVars
  <1>2. /\ jobs' \in {Jobs, {}} /\ tickDue' \in BOOLEAN
        /\ StartTypeOK' /\ up' = (boot' = "loops")
    <2>1. CASE StartUp
      <3>1. HealthRetries \in Nat \ {0} /\ MaxBadStarts \in Nat
        BY StartAssumption
      <3>2. UNCHANGED <<up, jobs>> /\ tickDue' \in BOOLEAN
        BY <2>1 DEF StartUp, JobsTypeOK
      <3>3. /\ boot \in BootStages /\ attempt \in 0..(HealthRetries - 1)
            /\ shutdown \in BOOLEAN /\ setting \in Settings
            /\ badStarts \in Nat /\ up = (boot = "loops")
        BY DEF JobsTypeOK, StartTypeOK
      <3> SUFFICES /\ boot' \in BootStages /\ attempt' \in 0..(HealthRetries - 1)
                   /\ shutdown' \in BOOLEAN /\ setting' \in Settings
                   /\ badStarts' \in Nat /\ up = (boot' = "loops")
        BY <3>2 DEF StartTypeOK, JobsTypeOK
      <3>4. CASE main
        <4>1. boot = "down" /\ boot' = "health" /\ attempt' = 0 /\ shutdown' = FALSE
              /\ setting' = setting /\ badStarts' = badStarts
          BY <3>4 DEF main
        <4>2. 0 \in 0..(HealthRetries - 1)
          BY <3>1
        <4>3. QED
          BY <3>3, <4>1, <4>2 DEF BootStages
      <3>5. CASE Signal
        BY <3>3, <3>5 DEF Signal, BootStages
      <3>6. CASE wait_for_hermes
        BY <3>1, <3>3, <3>6 DEF wait_for_hermes, Exit, BootStages
      <3>7. CASE initialize_allowed_senders
        BY <3>1, <3>3, <3>7 DEF initialize_allowed_senders, Exit, BootStages
      <3>8. QED
        BY <2>1, <3>4, <3>5, <3>6, <3>7 DEF StartUp
    <2>2. CASE _load_jobs
      BY <2>2 DEF _load_jobs, EnterLoops, clockVars, JobsTypeOK, StartTypeOK, BootStages
    <2>3. QED
      BY <2>1, <2>2
  <1>3. JobsTypeOK'
    BY <1>1, <1>2 DEF JobsTypeOK, loopVars
  <1>4. DaysInOrder' /\ RunsRemembered' /\ MemoryIsTrue' /\ OncePerDay'
    BY <1>1, <1>2 DEF StartUp, _load_jobs, loopVars, DaysInOrder, RunsRemembered,
                      MemoryIsTrue, OncePerDay
  <1>5. TickRemembers'
    <2>1. CASE StartUp
      <3>1. /\ UNCHANGED <<up, jobs, minute, day, lastDay, firedToday>>
            /\ tickDue' = (tickDue /\ ~shutdown')
        BY <2>1 DEF StartUp, loopVars
      <3>2. up => shutdown' = shutdown \/ shutdown'
        BY <2>1 DEF StartUp, main, Signal, wait_for_hermes, initialize_allowed_senders, Exit,
                    JobsTypeOK
      <3>3. QED
        BY <3>1, <3>2 DEF TickRemembers, Looping, JobsTypeOK
    <2>2. CASE _load_jobs
      <3>1. ~up
        BY <2>2 DEF _load_jobs, EnterLoops, JobsTypeOK
      <3>2. lastDay' # day'
        BY <1>1, <3>1 DEF DaysInOrder, JobsTypeOK, loopVars
      <3>3. QED
        BY <3>2 DEF TickRemembers
    <2>3. QED
      BY <2>1, <2>2
  <1>6. QED
    BY <1>3, <1>4, <1>5

\* The steps of a job's own task.
LEMMA JobTaskStep == JInv /\ (\E j \in Jobs : JobAsk(j) \/ JobSend(j)) => JInv'
  <1> SUFFICES ASSUME JInv, NEW j \in Jobs, JobAsk(j) \/ JobSend(j) PROVE JInv'
    OBVIOUS
  <1> QED
    BY JobsAssumption
    DEF JInv, JobAsk, JobSend, clockVars, loopVars, startVars, JobsTypeOK, StartTypeOK,
        DaysInOrder, RunsRemembered, MemoryIsTrue, TickRemembers, OncePerDay, Looping

\* The invariant holds in every schedule of ticks, clock changes and restarts.
THEOREM JobsInductive == JobsSpec => []JInv
  <1>1. JInv /\ UNCHANGED allJobVars => JInv'
    BY DEF allJobVars, jobVars, startVars, JInv, JobsTypeOK, StartTypeOK, DaysInOrder,
           RunsRemembered, MemoryIsTrue, TickRemembers, OncePerDay, Looping
  <1>2. JInv /\ [JobsNext]_allJobVars => JInv'
    BY <1>1, MinuteStep, ClockStep, TickStep, StopStep, StartStep, JobTaskStep
    DEF JobsNext, Clock, JobSteps
  <1>3. QED
    BY JobsStart, <1>2, PTL DEF JobsSpec

\* A job runs once a day, plus at most once for every restart of the process.
THEOREM JobsRunOncePerDay == JobsSpec => []OncePerDay
  <1>1. JInv => OncePerDay
    BY DEF JInv
  <1>2. QED
    BY JobsInductive, <1>1, PTL

\* Once the loop has ticked in a job's minute, the job has run on that day.
THEOREM NoJobSkipped == JobsSpec => []NoDaySkipped
  <1>1. JInv => NoDaySkipped
    BY DEF JInv, JobsTypeOK, MemoryIsTrue, TickRemembers, NoDaySkipped, Looping
  <1>2. QED
    BY JobsInductive, <1>1, PTL
=============================================================================
