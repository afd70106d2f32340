----------------------------- MODULE GithubLive -----------------------------
(***************************************************************************)
(* The live GitHub reader of the agent (github-readonly-live,              *)
(* github_readonly.py): a process per question, which reads one list of    *)
(* the repository page by page with GET requests and prints what it has    *)
(* collected.  Nothing holds the list still: issues and pull requests are  *)
(* created, closed and reopened between two pages.                         *)
(*                                                                         *)
(* Items are numbered in the order of their creation, and GitHub lists the *)
(* newest first.  LivePage stands for the 100 of a page.                   *)
(*                                                                         *)
(* What is collected is a set of entries <<n, p, i>>: item i on page p of  *)
(* list n.  It is printed by list, by page, the newest first.              *)
(***************************************************************************)
EXTENDS Integers, FiniteSets, Sequences

CONSTANTS
  NoLimit,     \* no --limit
  NoQuestion,  \* nothing asked yet
  NoAnswer,    \* nothing printed yet
  LivePage,    \* items of a full page
  MaxItems,    \* bound: items of the repository
  MaxMoves     \* bound: changes while a question is answered

ASSUME LiveAssumption ==
  /\ NoLimit \notin Nat /\ LivePage \in Nat \ {0} /\ MaxItems \in Nat /\ MaxMoves \in Nat

VARIABLES
  kinds,       \* the repository: a sequence of "issue" and "pull"
  opened,      \* the items that are open
  question,    \* what was asked, see GetQuestions
  listNo,      \* the list being read, of those the question names
  pageNo,      \* the page to ask for next
  results,     \* entries collected so far
  answer,      \* what is printed at the end
  atStart, grew, shrank, moves   \* history: the list when asked, and its changes

repository == <<kinds, opened>>
reading == <<question, listNo, pageNo, results, answer>>
liveVars == <<repository, reading, atStart, grew, shrank, moves>>

-----------------------------------------------------------------------------
\* GitHub's answer to a list route; /issues lists the pull requests as well.
Listed(route, state) ==
  {i \in DOMAIN kinds : /\ route = "pulls" => kinds[i] = "pull"
                        /\ state \in {"all", IF i \in opened THEN "open" ELSE "closed"}}

\* The page an item is on depends on how many newer ones are listed.
PageNumber(list, size, i) == 1 + Cardinality({j \in list : j > i}) \div size

PageOf(list, size, number) == {i \in list : PageNumber(list, size, i) = number}

\* issue_only
IssueOnly(items) == {i \in items : kinds[i] = "issue"}

Kept(items) == IF question.excludePulls THEN IssueOnly(items) ELSE items

\* The order of what is printed, and its first entries.
Before(e, f) ==
  \/ e[1] < f[1]
  \/ e[1] = f[1] /\ e[2] < f[2]
  \/ e[1] = f[1] /\ e[2] = f[2] /\ e[3] > f[3]

First(entries, count) ==
  {e \in entries : Cardinality({f \in entries : Before(f, e)}) < count}

ItemsOf(entries) == {e[3] : e \in entries}

-----------------------------------------------------------------------------
\* per_page: what --limit may be for a page.
PerPage == 1..LivePage

\* What "get" takes for a list; --count implies --paginate.  Two more routes
\* are "item", to one thing, and "other", outside of the policy.
GetQuestions ==
  [route : {"issues", "pulls"}, lists : {<<"open">>, <<"all">>},
   paginate : BOOLEAN, excludePulls : BOOLEAN, limit : {NoLimit, LivePage},
   pageSize : PerPage, start : 1..2, maxPages : {0, 2}]

\* clean_repo_route: GENERIC_ROOTS
RouteAllowed(route) == route # "other"

\* The other commands are questions of the same form.
Plain(route, state) ==
  [route |-> route, lists |-> <<state>>, paginate |-> FALSE, excludePulls |-> FALSE,
   limit |-> NoLimit, pageSize |-> LivePage, start |-> 1, maxPages |-> 0]

States == {"open", "closed", "all"}

\* "issues": a loop of its own, over pages of 100, up to the limit.
IssuesCommand ==
  [route : {"issues"}, lists : {<<state>> : state \in States}, paginate : {TRUE},
   excludePulls : {TRUE}, limit : PerPage, pageSize : {LivePage}, start : {1}, maxPages : {0}]

IssueCounts == [Plain("issues", "all") EXCEPT !.paginate = TRUE, !.excludePulls = TRUE]

\* "pull-counts" of all reads the open ones, and the closed ones after them.
PullCounts ==
  {[Plain("pulls", state) EXCEPT !.paginate = TRUE,
      !.lists = IF state = "all" THEN <<"open", "closed">> ELSE <<state>>] : state \in States}

\* "pulls", "milestones", "labels", "commits", ...: one page of per_page items.
OnePageCommands ==
  {[Plain("pulls", state) EXCEPT !.pageSize = size] : state \in States, size \in PerPage}

Questions ==
  GetQuestions \cup IssuesCommand \cup PullCounts \cup OnePageCommands
  \cup {IssueCounts, Plain("item", "open"), Plain("other", "open"),
        [Plain("item", "open") EXCEPT !.paginate = TRUE]}

\* generic_get: list_mode
ListMode == question.paginate \/ question.limit # NoLimit \/ question.excludePulls

-----------------------------------------------------------------------------
Printed(rows, complete) == [rows |-> rows, complete |-> complete, exit |-> FALSE]
Exit == [rows |-> {}, complete |-> FALSE, exit |-> TRUE]

Matching(q) == UNION {Listed(q.route, q.lists[n]) : n \in DOMAIN q.lists}

\* The lists of the question as they are now, and the page that is read next.
List(n) == Listed(question.route, question.lists[n])

NextPage == PageOf(List(listNo), question.pageSize, pageNo)

Entries(items) == {listNo} \X {pageNo} \X items

Ask(q) ==
  /\ question = NoQuestion /\ question' = q
  /\ listNo' = 1 /\ pageNo' = q.start /\ results' = {}
  /\ answer' = IF RouteAllowed(q.route) THEN NoAnswer ELSE Exit
  /\ atStart' = Matching(q)
  /\ UNCHANGED <<repository, grew, shrank, moves>>

Reads == question # NoQuestion /\ answer = NoAnswer

\* get_json: GitHub refuses, or cannot be reached.
GetFails ==
  /\ Reads
  /\ answer' = Exit
  /\ UNCHANGED <<repository, question, listNo, pageNo, results, atStart, grew, shrank, moves>>

\* One GET that gives one thing or one page, without list mode.
GetOnce ==
  /\ Reads /\ ~ListMode
  /\ answer' = Printed(IF question.route = "item" THEN {} ELSE Entries(NextPage), FALSE)
  /\ UNCHANGED <<repository, question, listNo, pageNo, results, atStart, grew, shrank, moves>>

\* unexpected GitHub list response
NotAList ==
  /\ Reads /\ ListMode /\ question.route = "item"
  /\ answer' = Exit
  /\ UNCHANGED <<repository, question, listNo, pageNo, results, atStart, grew, shrank, moves>>

\* Mutant of PageIsLast: the page is measured after the pull requests are taken out.
PageIsLast_Filtered(items) == Cardinality(Kept(items)) < question.pageSize

PageIsLast(items) == Cardinality(items) < question.pageSize

\* collect_items, one page: enough, the last page, one page only, too many, on.
CollectPage ==
  /\ Reads /\ ListMode /\ question.route # "item"
  /\ LET all == results \cup Entries(Kept(NextPage))
         enough == question.limit # NoLimit /\ Cardinality(all) >= question.limit
     IN \/ /\ enough
           /\ answer' = Printed(First(all, question.limit), TRUE)
           /\ UNCHANGED <<listNo, pageNo, results>>
        \/ /\ ~enough /\ PageIsLast(NextPage)
           /\ IF listNo < Len(question.lists)
                THEN results' = all /\ listNo' = listNo + 1 /\ pageNo' = 1 /\ UNCHANGED answer
                ELSE answer' = Printed(all, TRUE) /\ UNCHANGED <<listNo, pageNo, results>>
        \/ /\ ~enough /\ ~PageIsLast(NextPage)
           /\ IF ~question.paginate \/ (question.maxPages # 0 /\ pageNo + 1 > question.maxPages)
                THEN answer' = Printed(all, FALSE) /\ UNCHANGED <<listNo, pageNo, results>>
                ELSE results' = all /\ pageNo' = pageNo + 1 /\ UNCHANGED <<listNo, answer>>
  /\ UNCHANGED <<repository, question, atStart, grew, shrank, moves>>

-----------------------------------------------------------------------------
\* Whether a list that is being read, or is to be, gains or loses an item.
NoteChange ==
  IF question = NoQuestion THEN UNCHANGED <<grew, shrank, moves>>
  ELSE /\ moves < MaxMoves /\ moves' = moves + 1
       /\ grew' = (grew \/ \E n \in DOMAIN question.lists : ~(List(n)' \subseteq List(n)))
       /\ shrank' = (shrank \/ \E n \in DOMAIN question.lists : ~(List(n) \subseteq List(n)'))

Create(kind) ==
  /\ Len(kinds) < MaxItems
  /\ kinds' = Append(kinds, kind) /\ opened' = opened \cup {Len(kinds) + 1}

CloseOrReopen(i) ==
  /\ opened' = IF i \in opened THEN opened \ {i} ELSE opened \cup {i}
  /\ UNCHANGED kinds

\* What others do in the repository.
Others ==
  /\ answer = NoAnswer /\ UNCHANGED <<reading, atStart>>
  /\ (\E kind \in {"issue", "pull"} : Create(kind)) \/ (\E i \in DOMAIN kinds : CloseOrReopen(i))
  /\ NoteChange

LiveInit ==
  /\ kinds = <<>> /\ opened = {}
  /\ question = NoQuestion /\ listNo = 1 /\ pageNo = 1 /\ results = {} /\ answer = NoAnswer
  /\ atStart = {} /\ grew = FALSE /\ shrank = FALSE /\ moves = 0

LiveNext ==
  \/ \E q \in Questions : Ask(q)
  \/ GetFails \/ GetOnce \/ NotAList \/ CollectPage \/ Others

LiveSpec == LiveInit /\ [][LiveNext]_liveVars

-----------------------------------------------------------------------------
\* The entries the question is about, as they are listed now.
Wanted == UNION {{<<n, PageNumber(List(n), question.pageSize, i), i>> : i \in Kept(List(n))} :
                   n \in DOMAIN question.lists}

\* What "complete" is worth in an answer that was read from the first page on,
\* although the list changed between two pages.  If nothing left the list,
\* everything that was on it is there, unless --limit cut it; if nothing came,
\* nothing is there (or counted) twice; and if neither happened, the answer is
\* the list, or its head.
CompleteIsComplete ==
  answer # NoAnswer /\ answer.complete /\ question.start = 1 =>
    LET rows == answer.rows
        cut == question.limit # NoLimit /\ Cardinality(rows) = question.limit
    IN /\ ~shrank /\ ~cut => Kept(atStart) \subseteq ItemsOf(rows)
       /\ ~grew => \A e, f \in rows : e[3] = f[3] => e = f
       /\ ~shrank /\ ~grew => rows = IF cut THEN First(Wanted, question.limit) ELSE Wanted
=============================================================================
