--------------------------- MODULE OutlookBridge ---------------------------
(***************************************************************************)
(* The Outlook email bridge (agents/hermes/bridges/outlook/                *)
(* outlook-bridge.py): one asyncio process that polls a mailbox through    *)
(* the Microsoft Graph delta query, spawns one task per new message, asks  *)
(* the Hermes agent for a reply, sends it and marks the message as read.   *)
(*                                                                         *)
(* One action is one stretch of code between two awaits.  The poll loop    *)
(* and the handler tasks interleave at the awaits, the mailbox changes     *)
(* under them, every call to Graph or Hermes may fail, and the process may *)
(* be stopped anywhere and started again from the delta link it saved.     *)
(*                                                                         *)
(* A delta link is represented by what it stands for on the server: the    *)
(* messages that changed since the link was issued.                        *)
(***************************************************************************)
EXTENDS OutlookProcess, Naturals, FiniteSets

CONSTANTS
  Messages,          \* message ids that may arrive in the mailbox
  Allowed,           \* the messages whose sender is in ALLOWED_SENDERS
  Slots,             \* names for tasks that handle the same message
  MaxConcurrent,     \* MAX_CONCURRENT_MESSAGES
  BackoffAfter,      \* BACKOFF_AFTER
  MaxFaults,         \* bound: failing calls in a behaviour
  MaxDisturbances,   \* bound: touches, removals and link expiries
  MaxStops           \* bound: stops of the process

ASSUME BridgeAssumption ==
  /\ IsFiniteSet(Messages)
  /\ Allowed \subseteq Messages
  /\ IsFiniteSet(Slots) /\ Slots # {}
  /\ MaxConcurrent \in Nat \ {0}
  /\ BackoffAfter \in Nat \ {0}
  /\ MaxFaults \in Nat /\ MaxDisturbances \in Nat /\ MaxStops \in Nat

VARIABLES
  mailbox,      \* mailbox[m]: the server's view of message m
  deltaLink,    \* _delta_link, in memory
  savedLink,    \* delta-link.json
  poll,         \* where the poll loop is
  round,        \* the poll under way: what is still to list, what was kept
  run,          \* run[<<m, k>>]: where the k-th task for message m is
  inFlight,     \* _in_flight
  permits,      \* the value of _sem
  emptyPolls,   \* _consecutive_empty, saturated at BackoffAfter
  replies,      \* history: replies sent to each message
  relistings,   \* history: events that put a message in front of the poll again
  unanswered,   \* history: messages for which the ask or the reply failed
  unmarked,     \* history: messages given up unread (mark failed, raised, or stopped)
  faults, disturbances, stops   \* what is used up of each bound

serverVars  == <<mailbox>>
linkVars    == <<deltaLink, savedLink>>
pollVars    == <<poll, round, emptyPolls>>
taskVars    == <<run, inFlight, permits>>
historyVars == <<replies, relistings, unanswered, unmarked>>
boundVars   == <<faults, disturbances, stops>>
vars == <<mailbox, deltaLink, savedLink, up, poll, round, run, inFlight, permits,
          emptyPolls, replies, relistings, unanswered, unmarked,
          faults, disturbances, stops>>

Handlers == Messages \X Slots

\* "idle": no such task; "created": spawned, not yet run; "queued": in
\* `async with _sem`; the other stages hold a permit of _sem.
Holding == {"asking", "replying", "marking"}
Stages  == {"idle", "created", "queued"} \cup Holding

Holders    == {h \in Handlers : run[h] \in Holding}
Active(m)  == \E k \in Slots : run[<<m, k>>] # "idle"
Present    == {m \in Messages : mailbox[m] \in {"unread", "read"}}

-----------------------------------------------------------------------------
(* Delta links *)

NoLink    == [status |-> "none", news |-> {}]
FreshLink == [status |-> "live", news |-> {}]
Links     == [status : {"none", "live", "expired"}, news : SUBSET Messages]
NoRound   == [todo |-> {}, batch |-> {}, next |-> NoLink]

\* A change of m is news for a live link and for no other.
Bump(l, m) == IF l.status = "live" THEN [l EXCEPT !.news = @ \cup {m}] ELSE l

Expired(l) == IF l.status = "live" THEN [status |-> "expired", news |-> {}] ELSE l

\* The server's side of a change to message m.
Changed(m) ==
  /\ deltaLink' = Bump(deltaLink, m)
  /\ savedLink' = Bump(savedLink, m)
  /\ round' = [round EXCEPT !.next = Bump(@, m)]

\* What a delta query lists: without a link, the whole folder.
Listing(l) == IF l.status = "none" THEN Present ELSE l.news

-----------------------------------------------------------------------------
(* The mailbox and its owner *)

Arrive(m) ==
  /\ mailbox[m] = "absent"
  /\ mailbox' = [mailbox EXCEPT ![m] = "unread"]
  /\ Changed(m)
  /\ UNCHANGED <<up, poll, emptyPolls, taskVars, historyVars, boundVars>>

\* The owner flags or files the message: it changes and stays as (un)read.
Touch(m) ==
  /\ m \in Present /\ disturbances < MaxDisturbances
  /\ disturbances' = disturbances + 1
  /\ relistings' = [relistings EXCEPT ![m] = @ + 1]
  /\ Changed(m)
  /\ UNCHANGED <<mailbox, up, poll, emptyPolls, taskVars,
                 replies, unanswered, unmarked, faults, stops>>

Remove(m) ==
  /\ m \in Present /\ disturbances < MaxDisturbances
  /\ disturbances' = disturbances + 1
  /\ mailbox' = [mailbox EXCEPT ![m] = "removed"]
  /\ Changed(m)
  /\ UNCHANGED <<up, poll, emptyPolls, taskVars, historyVars, faults, stops>>

\* Graph forgets the links it issued so far.
ExpireLinks ==
  /\ disturbances < MaxDisturbances
  /\ disturbances' = disturbances + 1
  /\ deltaLink' = Expired(deltaLink)
  /\ savedLink' = Expired(savedLink)
  /\ round' = [round EXCEPT !.next = Expired(@)]
  /\ UNCHANGED <<mailbox, up, poll, emptyPolls, taskVars, historyVars, faults, stops>>

-----------------------------------------------------------------------------
(* poll_inbox and _poll_loop *)

\* _poll_loop after poll_inbox returned count: the next wait is the quiet
\* one once BackoffAfter polls in a row brought nothing.
PollDone(count) ==
  /\ poll' = "sleeping"
  /\ emptyPolls' = IF count > 0 THEN 0
                   ELSE IF emptyPolls < BackoffAfter THEN emptyPolls + 1 ELSE emptyPolls

\* Messages of a page that poll_inbox keeps: not @removed and not isRead.
Kept(page) == {m \in page : mailbox[m] = "unread"}

\* Mutant of Receive: the link moves on with the first page.
Receive_LinkFirst(todo, batch, next, page) ==
  /\ deltaLink' = next
  /\ IF page = todo
       THEN poll' = "saving" /\ round' = [NoRound EXCEPT !.batch = batch \cup Kept(page)]
       ELSE poll' = "paging" /\ round' = [todo |-> todo \ page,
                                         batch |-> batch \cup Kept(page), next |-> next]

\* Mutant of Receive: the link in memory never moves on.
Receive_LinkStays(todo, batch, next, page) ==
  /\ deltaLink' = deltaLink
  /\ IF page = todo
       THEN poll' = "saving" /\ round' = [NoRound EXCEPT !.batch = batch \cup Kept(page)]
       ELSE poll' = "paging" /\ round' = [todo |-> todo \ page,
                                         batch |-> batch \cup Kept(page), next |-> next]

\* A page arrived.  After the last one the new link is in memory and is about
\* to be saved; before that, the poll goes on to the next page.
Receive(todo, batch, next, page) ==
  IF page = todo
    THEN /\ poll' = "saving"
         /\ deltaLink' = next
         /\ round' = [NoRound EXCEPT !.batch = batch \cup Kept(page)]
    ELSE /\ poll' = "paging"
         /\ deltaLink' = deltaLink
         /\ round' = [todo |-> todo \ page, batch |-> batch \cup Kept(page), next |-> next]

\* A page is empty only when there is nothing to list.
Pages(todo) == IF todo = {} THEN {{}} ELSE SUBSET todo \ {{}}

\* The loop slept at least MIN_POLL_INTERVAL, so every task it spawned last
\* time has run to its first await.
MayPoll ==
  /\ up /\ poll = "sleeping"
  /\ \A h \in Handlers : run[h] # "created"

FirstPage ==
  /\ MayPoll
  /\ deltaLink.status # "expired"
  /\ \E page \in Pages(Listing(deltaLink)) :
       Receive(Listing(deltaLink), {}, FreshLink, page)
  /\ UNCHANGED <<mailbox, savedLink, up, emptyPolls, taskVars, historyVars, boundVars>>

NextPage ==
  /\ up /\ poll = "paging"
  /\ \E page \in Pages(round.todo) :
       Receive(round.todo, round.batch, round.next, page)
  /\ UNCHANGED <<mailbox, savedLink, up, emptyPolls, taskVars, historyVars, boundVars>>

\* Mutant of LinkRefused: a refused link is treated like any other error.
LinkRefused_Kept ==
  /\ MayPoll
  /\ deltaLink.status = "expired"
  /\ PollDone(0)
  /\ UNCHANGED <<mailbox, linkVars, up, round, taskVars, historyVars, boundVars>>

\* 400 or 410 for the link: forget it, so that the next poll lists everything.
LinkRefused ==
  /\ MayPoll
  /\ deltaLink.status = "expired"
  /\ deltaLink' = NoLink
  /\ relistings' = [m \in Messages |-> IF m \in Present THEN relistings[m] + 1
                                                        ELSE relistings[m]]
  /\ PollDone(0)
  /\ UNCHANGED <<mailbox, savedLink, up, round, taskVars,
                 replies, unanswered, unmarked, boundVars>>

\* Any other error, on any page: the exception leaves poll_inbox.
PollFails ==
  /\ MayPoll \/ (up /\ poll = "paging")
  /\ faults < MaxFaults
  /\ faults' = faults + 1
  /\ round' = NoRound
  /\ PollDone(0)
  /\ UNCHANGED <<mailbox, linkVars, up, taskVars, historyVars, disturbances, stops>>

\* Mutant of NewMessages: _in_flight is not consulted.
NewMessages_All == round.batch

NewMessages == round.batch \ inFlight

\* A name for a new task of m.
FreeSlot(m) == CHOOSE k \in Slots : run[<<m, k>>] = "idle"

Spawned(new) ==
  [h \in Handlers |-> IF h[1] \in new /\ h[2] = FreeSlot(h[1]) THEN "created" ELSE run[h]]

\* The link is written (or the OSError is logged; the file may then hold the
\* old link, or nothing that parses), and a task is spawned for each message
\* that no running task already handles.
SaveAndSpawn ==
  /\ up /\ poll = "saving"
  /\ \/ /\ savedLink' = deltaLink
        /\ faults' = faults
     \/ /\ faults < MaxFaults
        /\ faults' = faults + 1
        /\ savedLink' \in {savedLink, NoLink}
  /\ run' = Spawned(NewMessages)
  /\ round' = NoRound
  /\ PollDone(Cardinality(NewMessages))
  /\ UNCHANGED <<mailbox, deltaLink, up, inFlight, permits, historyVars, disturbances, stops>>

Poll == FirstPage \/ NextPage \/ LinkRefused \/ PollFails \/ SaveAndSpawn

-----------------------------------------------------------------------------
(* _handle_message_guarded, _handle_message *)

\* Entering _handle_message_guarded.
Start(h) ==
  /\ up /\ run[h] = "created"
  /\ run' = [run EXCEPT ![h] = "queued"]
  /\ inFlight' = inFlight \cup {h[1]}
  /\ UNCHANGED <<mailbox, linkVars, up, pollVars, permits, historyVars, boundVars>>

\* Mutant of Acquire: the sender's address is compared without lower().
Acquire_CaseSensitive(h) ==
  /\ up /\ run[h] = "queued"
  /\ permits > 0
  /\ permits' = permits - 1
  /\ \E next \in IF h[1] \in Allowed THEN {"asking", "marking"} ELSE {"marking"} :
       run' = [run EXCEPT ![h] = next]
  /\ UNCHANGED <<mailbox, linkVars, up, pollVars, inFlight, historyVars, boundVars>>

\* _sem is acquired; mail of a sender who is not allowed is only marked.
Acquire(h) ==
  /\ up /\ run[h] = "queued"
  /\ permits > 0
  /\ permits' = permits - 1
  /\ run' = [run EXCEPT ![h] = IF h[1] \in Allowed THEN "asking" ELSE "marking"]
  /\ UNCHANGED <<mailbox, linkVars, up, pollVars, inFlight, historyVars, boundVars>>

\* ask_hermes returned a reply, or nothing (any exception, an empty answer).
Ask(h) ==
  /\ up /\ run[h] = "asking"
  /\ \/ /\ run' = [run EXCEPT ![h] = "replying"]
        /\ UNCHANGED <<unanswered, faults>>
     \/ /\ faults < MaxFaults
        /\ faults' = faults + 1
        /\ unanswered' = unanswered \cup {h[1]}
        /\ run' = [run EXCEPT ![h] = "marking"]
  /\ UNCHANGED <<mailbox, linkVars, up, pollVars, inFlight, permits,
                 replies, relistings, unmarked, disturbances, stops>>

\* _send_reply: an exception is logged and the handler goes on.
Reply(h) ==
  /\ up /\ run[h] = "replying"
  /\ run' = [run EXCEPT ![h] = "marking"]
  /\ \/ /\ h[1] \in Present
        /\ replies' = [replies EXCEPT ![h[1]] = @ + 1]
        /\ UNCHANGED <<unanswered, faults>>
     \/ /\ h[1] \notin Present
        /\ unanswered' = unanswered \cup {h[1]}
        /\ UNCHANGED <<replies, faults>>
     \/ /\ faults < MaxFaults
        /\ faults' = faults + 1
        /\ unanswered' = unanswered \cup {h[1]}
        /\ UNCHANGED replies
  /\ UNCHANGED <<mailbox, linkVars, up, pollVars, inFlight, permits,
                 relistings, unmarked, disturbances, stops>>

\* Mutants of Leave: the permit is kept, or it is given back twice.
Leave_KeepsPermit(h) ==
  /\ run' = [run EXCEPT ![h] = "idle"]
  /\ permits' = permits
  /\ inFlight' = inFlight \ {h[1]}

Leave_ReleasesTwice(h) ==
  /\ run' = [run EXCEPT ![h] = "idle"]
  /\ permits' = permits + 2
  /\ inFlight' = inFlight \ {h[1]}

\* Leaving the handler: `async with _sem` releases, `finally` discards the id.
Leave(h) ==
  /\ run' = [run EXCEPT ![h] = "idle"]
  /\ permits' = permits + 1
  /\ inFlight' = inFlight \ {h[1]}

\* _mark_read, and the end of the handler whether or not it worked.
MarkRead(h) ==
  /\ up /\ run[h] = "marking"
  /\ Leave(h)
  /\ \/ /\ mailbox[h[1]] = "unread"
        /\ mailbox' = [mailbox EXCEPT ![h[1]] = "read"]
        /\ Changed(h[1])
        /\ UNCHANGED <<unmarked, faults>>
     \/ /\ mailbox[h[1]] # "unread"
        /\ UNCHANGED <<mailbox, linkVars, round, unmarked, faults>>
     \/ /\ faults < MaxFaults
        /\ faults' = faults + 1
        /\ unmarked' = unmarked \cup {h[1]}
        /\ UNCHANGED <<mailbox, linkVars, round>>
  /\ UNCHANGED <<up, poll, emptyPolls, replies, relistings, unanswered, disturbances, stops>>

\* _handle_message raises: a message without the fields it reads.
Raises(h) ==
  /\ up /\ run[h] = "asking"
  /\ Leave(h)
  /\ faults < MaxFaults /\ faults' = faults + 1
  /\ unmarked' = unmarked \cup {h[1]}
  /\ UNCHANGED <<mailbox, linkVars, up, pollVars, replies, relistings, unanswered, disturbances,
                 stops>>

Handle(h) == Start(h) \/ Acquire(h) \/ Ask(h) \/ Reply(h) \/ MarkRead(h) \/ Raises(h)

-----------------------------------------------------------------------------
(* _async_main: stopping and starting *)

\* What Stop leaves in delta-link.json: a stop inside the write can leave the
\* old link, the new one, or a truncated file.
LinksLeft == IF poll = "saving" THEN {savedLink, deltaLink, NoLink} ELSE {savedLink}

\* Messages that link l lists again although link k had moved past them.
ListedAgain(l, k) ==
  CASE l.status = "live" /\ k.status = "live" -> l.news \ k.news
    [] l.status = "none" /\ k.status # "none" -> Present
    [] OTHER -> {}

\* SIGTERM, a crash of the process or of the sandbox: the loops end and every
\* task is cancelled where it is; only delta-link.json is left.
Stop ==
  /\ up /\ stops < MaxStops
  /\ stops' = stops + 1
  /\ up' = FALSE
  /\ unmarked' = unmarked \cup {m \in Messages : Active(m)}
                          \cup (IF poll = "saving" THEN round.batch ELSE {})
  /\ savedLink' \in LinksLeft
  /\ relistings' = [m \in Messages |-> IF m \in ListedAgain(savedLink', deltaLink)
                                         THEN relistings[m] + 1 ELSE relistings[m]]
  /\ deltaLink' = NoLink
  /\ poll' = "sleeping"
  /\ round' = NoRound
  /\ run' = [h \in Handlers |-> "idle"]
  /\ inFlight' = {}
  /\ permits' = MaxConcurrent
  /\ emptyPolls' = 0
  /\ UNCHANGED <<mailbox, replies, unanswered, faults, disturbances>>

\* _async_main once Hermes is healthy: the saved link is restored.
Boot ==
  /\ ~up
  /\ up' = TRUE
  /\ deltaLink' = savedLink
  /\ UNCHANGED <<mailbox, savedLink, pollVars, taskVars, historyVars, boundVars>>

-----------------------------------------------------------------------------
Init ==
  /\ mailbox \in [Messages -> {"absent", "unread"}]
  /\ deltaLink = NoLink
  /\ savedLink = NoLink
  /\ up = FALSE
  /\ poll = "sleeping"
  /\ round = NoRound
  /\ run = [h \in Handlers |-> "idle"]
  /\ inFlight = {}
  /\ permits = MaxConcurrent
  /\ emptyPolls = 0
  /\ replies = [m \in Messages |-> 0]
  /\ relistings = [m \in Messages |-> 0]
  /\ unanswered = {}
  /\ unmarked = {}
  /\ faults = 0 /\ disturbances = 0 /\ stops = 0

Environment ==
  \/ \E m \in Messages : Arrive(m) \/ Touch(m) \/ Remove(m)
  \/ ExpireLinks

Next ==
  \/ Environment
  \/ Poll
  \/ \E h \in Handlers : Handle(h)
  \/ Stop
  \/ Boot

Spec == Init /\ [][Next]_vars

\* asyncio runs every ready task, every request has a timeout, and waiters on
\* an asyncio.Semaphore are served in order: hence WF for the steps and SF for
\* the acquisition, for which the handlers compete.
Fairness ==
  /\ WF_vars(Boot)
  /\ WF_vars(Poll)
  /\ \A h \in Handlers : /\ WF_vars(Start(h) \/ Ask(h) \/ Reply(h) \/ MarkRead(h))
                         /\ SF_vars(Acquire(h))

FairSpec == Spec /\ Fairness

-----------------------------------------------------------------------------
(* Properties *)

TypeOK ==
  /\ mailbox \in [Messages -> {"absent", "unread", "read", "removed"}]
  /\ deltaLink \in Links /\ savedLink \in Links
  /\ up \in BOOLEAN
  /\ poll \in {"sleeping", "paging", "saving"}
  /\ round \in [todo : SUBSET Messages, batch : SUBSET Messages, next : Links]
  /\ run \in [Handlers -> Stages]
  /\ inFlight \in SUBSET Messages
  /\ permits \in 0..MaxConcurrent
  /\ emptyPolls \in 0..BackoffAfter
  /\ replies \in [Messages -> Nat] /\ relistings \in [Messages -> Nat]
  /\ unanswered \in SUBSET Messages /\ unmarked \in SUBSET Messages
  /\ faults \in 0..MaxFaults
  /\ disturbances \in 0..MaxDisturbances
  /\ stops \in 0..MaxStops

\* Every path through a handler, whatever fails on it, gives back the permit it
\* took and no other: the free permits and the handlers between acquisition
\* and release always add up to MAX_CONCURRENT_MESSAGES.
PermitsAccounted == Cardinality(Holders) + permits = MaxConcurrent

\* The _in_flight check keeps a message from being handled by two tasks at the
\* same time, although the list it is applied to was read pages ago and a
\* message can be listed again while its handler runs.
OneHandlerPerMessage ==
  \A m \in Messages : \A j, k \in Slots :
    run[<<m, j>>] # "idle" /\ run[<<m, k>>] # "idle" => j = k

\* Unread mail the next poll will not list is in a handler's hands, is about to
\* be, or was given up because marking it failed or the process was stopped.
\* The link moves on before the messages it covers are handled, so nothing
\* else may stand between the two.
InHand(m)      == Active(m) \/ (poll = "saving" /\ m \in round.batch) \/ m \in unmarked
PastLink(l, m) == l.status = "live" /\ m \notin l.news
NoSilentLoss ==
  \A m \in Messages :
    mailbox[m] = "unread" =>
      /\ PastLink(deltaLink, m) => InHand(m)
      /\ PastLink(savedLink, m) => InHand(m)

\* A message gets a second reply only after something put it in front of the
\* poll again: the owner touched it, a link was refused or lost, or the saved
\* link was behind at a stop.  One event pays for at most one more reply.
ReplyPerListing == \A m \in Messages : replies[m] <= 1 + relistings[m]

\* Mail of an allowed sender is marked as read only when it was answered, or
\* when the ask or the reply for it failed.
ReadIsAnswered ==
  \A m \in Allowed : mailbox[m] = "read" => replies[m] > 0 \/ m \in unanswered

\* A task that was spawned comes to its end: no failure, and no competition for
\* the semaphore, leaves a handler or its entry in _in_flight behind.
HandlersFinish == \A h \in Handlers : run[h] # "idle" ~> run[h] = "idle"

\* Unless it is given up, unread mail is eventually dealt with, whatever polls
\* fail and whichever links expire in between.
MailSettles ==
  \A m \in Messages : mailbox[m] = "unread" ~> mailbox[m] # "unread" \/ m \in unmarked

=============================================================================
