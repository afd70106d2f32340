----------------------------- MODULE ForumsEtl ------------------------------
(***************************************************************************)
(* The forums ETL (forums-etl/etl.py, started every hour by entrypoint.sh):*)
(* it lists the topics of a tag page by page, most recent activity first,  *)
(* until a page holds a topic that has not changed since a lower bound,    *)
(* fetches each topic, merges the rows and notes the time of its success.  *)
(*                                                                         *)
(* Meanwhile people post, and a topic loses its tag.  Any step may raise:  *)
(* the container exits and is started again.  Contents are not modelled,   *)
(* only which copies of a topic are up to date.                            *)
(***************************************************************************)
EXTENDS SourceMirror, FiniteSets, SequencesExt

CONSTANTS
  Topics,
  Overlap,      \* hours before the last success that are read again
  PageSize,
  NoTime,       \* no success is on record
  MaxActivity,  \* bound: posts after the start
  MaxUntags,    \* bound: topics that lose their tag
  MaxFailures   \* bound: steps that raise

ASSUME ForumsAssumption ==
  /\ IsFiniteSet(Topics) /\ Overlap \in Nat /\ PageSize \in Nat \ {0}
  /\ NoTime \notin Int /\ MaxActivity \in Nat /\ MaxUntags \in Nat /\ MaxFailures \in Nat

VARIABLES
  listing,      \* the topics of the tag, most recent activity first
  changed,      \* changed[t]: the hour of its last activity
  upToDate,     \* upToDate[c]: topics whose content in copy c is the forum's
  lastSuccess,  \* last_success_at
  pending,      \* a load that was cut short left its package behind
  step, lower, page, todo, rows,       \* main: where it is, and its variables
  start, disturbed, touched, served,   \* history, see ChangesShown
  activity, untags, failures

forum  == <<listing, changed, activity, untags>>
main   == <<step, lower, page, todo, rows>>
seen   == <<start, disturbed, touched>>
forumsVars == <<forum, upToDate, lastSuccess, pending, main, seen, served, failures>>

Copies == {"mirror", "fetched", "package"}

-----------------------------------------------------------------------------
GetLowerBound_NoOverlap ==              \* mutant of GetLowerBound
  LET floor == now - Backfill IN
  IF lastSuccess = NoTime THEN floor ELSE Max({floor, lastSuccess})

GetLowerBound ==
  LET floor == now - Backfill IN
  IF lastSuccess = NoTime THEN floor ELSE Max({floor, lastSuccess - Overlap})

TopicChangedAfter(t, bound) == changed[t] >= bound

Enter(next) == step' = next

\* A process begins, or ends, without the variables of main.
NoVariables == lower' = 0 /\ page' = 0 /\ todo' = {} /\ rows' = {}

\* History of a run: when it began, and what it could not know.
NewRun == disturbed' = FALSE /\ touched' = {}

Begin ==
  /\ step = "begin"
  /\ lower' = GetLowerBound
  /\ start' = now /\ NewRun
  /\ Enter("list")
  /\ UNCHANGED <<now, mirror, forum, upToDate, lastSuccess, pending, page, todo, rows, served,
                 failures>>

PageTopics ==
  {listing[i] : i \in {j \in DOMAIN listing : (j - 1) \div PageSize = page}}

\* One page of the listing, as it is now.
FetchTagTopics ==
  /\ step = "list"
  /\ LET recent == {t \in PageTopics : TopicChangedAfter(t, lower)} IN
     /\ todo' = todo \cup recent
     /\ IF PageTopics = {} \/ recent # PageTopics
          THEN Enter("details") /\ UNCHANGED page
          ELSE page' = page + 1 /\ UNCHANGED step
  /\ UNCHANGED <<now, mirror, forum, upToDate, lastSuccess, pending, lower, rows, seen,
                 served, failures>>

\* One topic as it is now, with its first posts: what one request for it gives.
FetchTopicDetails ==
  /\ step = "details"
  /\ IF rows = todo
       THEN Enter("load") /\ UNCHANGED <<rows, upToDate>>
       ELSE \E t \in todo \ rows :
              /\ rows' = rows \cup {t}
              /\ upToDate' = [upToDate EXCEPT !["fetched"] = @ \cup {t}]
              /\ UNCHANGED step
  /\ UNCHANGED <<now, mirror, forum, lastSuccess, pending, lower, page, todo, seen, served,
                 failures>>

\* pipeline.run: a package that was left behind is loaded, and nothing else.
PipelineRun ==
  /\ step = "load"
  /\ LET copy == IF pending THEN "package" ELSE "fetched" IN
     upToDate' = [c \in Copies |->
                    IF c = "mirror" THEN upToDate[c] \cup upToDate[copy] ELSE {}]
  /\ tables' = IF pending \/ rows # {} THEN tables \cup {"forum-topics"} ELSE tables
  /\ pending' = FALSE
  /\ disturbed' = (disturbed \/ pending)
  /\ Enter("mark")
  /\ UNCHANGED <<now, views, forum, lastSuccess, lower, page, todo, rows, start, touched,
                 served, failures>>

MarkSuccess ==
  /\ step = "mark"
  /\ lastSuccess' = now
  /\ Enter("refresh") /\ NoVariables
  /\ UNCHANGED <<now, mirror, forum, upToDate, pending, seen, served, failures>>

\* The run began soon enough after these changes to have read them.
InReach(t) == start <= changed[t] + Min({Backfill, Overlap})

RefreshApiViews ==
  /\ step = "refresh"
  /\ RefreshViews
  /\ Enter("sleep") /\ NewRun
  /\ served' = IF disturbed THEN served
                 ELSE served \cup {t \in Range(listing) \ touched : InReach(t)}
  /\ start' = 0
  /\ UNCHANGED <<now, tables, forum, upToDate, lastSuccess, pending, lower, page, todo, rows,
                 failures>>

\* An exception, or the container stopped: set -e ends entrypoint.sh, and the
\* container is started again.  A load may leave its package behind.
Fail ==
  /\ step \notin {"begin", "sleep"} /\ failures < MaxFailures
  /\ failures' = failures + 1
  /\ Enter("begin") /\ NoVariables /\ NewRun /\ start' = 0
  /\ LET kept == step = "load" /\ ~pending /\ rows # {} IN
     \E left \in IF kept THEN BOOLEAN ELSE {FALSE} :
       /\ pending' = (pending \/ left)
       /\ upToDate' = [upToDate EXCEPT !["fetched"] = {},
                                       !["package"] = IF left THEN upToDate["fetched"] ELSE @]
  /\ UNCHANGED <<now, mirror, forum, lastSuccess, served>>

-----------------------------------------------------------------------------
(* The forum. *)

Without(t) == RemoveFirst(listing, t)   \* it is there once

\* A post: the topic, a new one perhaps, moves to the head of the listing.
Post(t) ==
  /\ activity < MaxActivity /\ activity' = activity + 1
  /\ listing' = <<t>> \o Without(t)
  /\ changed' = [changed EXCEPT ![t] = now]
  /\ upToDate' = [c \in Copies |-> upToDate[c] \ {t}]
  /\ touched' = (IF step \in {"begin", "sleep"} THEN touched ELSE touched \cup {t})
  /\ served' = served \ {t}
  /\ UNCHANGED <<now, mirror, untags, lastSuccess, pending, main, start, disturbed, failures>>

\* A topic loses its tag: what follows it moves up, onto pages already read.
Untag(t) ==
  /\ t \in Range(listing) /\ untags < MaxUntags /\ untags' = untags + 1
  /\ listing' = Without(t)
  /\ disturbed' = (disturbed \/ step = "list")
  /\ UNCHANGED <<now, mirror, changed, activity, upToDate, lastSuccess, pending, main, start,
                 touched, served, failures>>

\* entrypoint.sh sleeps until the next hour begins.
Tick ==
  /\ now < MaxNow /\ now' = now + 1
  /\ step' = IF step = "sleep" THEN "begin" ELSE step
  /\ UNCHANGED <<mirror, forum, upToDate, lastSuccess, pending, lower, page, todo, rows, seen,
                 served, failures>>

ForumsInit ==
  /\ MirrorInit
  /\ listing \in SetToAllKPermutations(Topics)
  /\ changed = [t \in Topics |-> 0]
  /\ upToDate = [c \in Copies |-> {}]
  /\ lastSuccess = NoTime /\ pending = FALSE
  /\ step = "begin" /\ lower = 0 /\ page = 0 /\ todo = {} /\ rows = {}
  /\ start = 0 /\ disturbed = FALSE /\ touched = {} /\ served = {}
  /\ activity = 0 /\ untags = 0 /\ failures = 0

ForumsNext ==
  \/ Begin \/ FetchTagTopics \/ FetchTopicDetails \/ PipelineRun \/ MarkSuccess
  \/ RefreshApiViews \/ Fail \/ Tick
  \/ \E t \in Topics : Post(t) \/ Untag(t)

ForumsSpec == ForumsInit /\ [][ForumsNext]_<<now, mirror, forumsVars>>

-----------------------------------------------------------------------------
\* What a query shows of a topic and its first posts is what the forum has, once
\* a run began within reach of the topic's last change and came to its end,
\* however many topics moved while it turned the pages.  A run is left out if a
\* topic lost its tag while it did so, or if it loaded what an earlier one had
\* left behind.
ChangesShown == served \subseteq FetchRows("forum-topics", upToDate["mirror"]).rows
=============================================================================
