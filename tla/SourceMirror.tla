---------------------------- MODULE SourceMirror ----------------------------
(***************************************************************************)
(* What the source ETLs (extras/source-etls) share: the clock, the tables  *)
(* in Postgres and the views over them that PostgREST serves to the        *)
(* source-etl-query skill.  ForumsEtl and GithubEtl fill the tables.       *)
(***************************************************************************)
EXTENDS Integers

CONSTANTS
  Backfill,   \* hours a first run looks back
  MaxNow      \* bound: the hours a behaviour lasts

ASSUME MirrorAssumption == Backfill \in Nat /\ MaxNow \in Nat

VARIABLES
  now,        \* the hour
  tables,     \* sources whose table is there
  views       \* sources whose view is there

mirror == <<tables, views>>

\* api.refresh_views(): a view for every table there is; none is dropped.
RefreshViews == views' = views \cup tables

\* What the skill prints for a kind: rows, or that the query failed.
FetchRows(source, rows) ==
  IF source \in views THEN [ok |-> TRUE, rows |-> rows] ELSE [ok |-> FALSE, rows |-> {}]

MirrorInit == now = 0 /\ tables = {} /\ views = {}
=============================================================================
