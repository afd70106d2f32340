----------------------------- MODULE Watchtower -----------------------------
(***************************************************************************)
(* Sweeps of Watchtower (skills/watchtower/SKILL.md with diff_state.py and *)
(* commit_state.py): search the topics of a watchlist, drop what the       *)
(* ledger state/seen.json has seen, write a digest and a changelog of what *)
(* is new, and only then append it to the ledger.                          *)
(*                                                                         *)
(* The cron job and one-shot sweeps share the ledger and may overlap.  The *)
(* ledger is read by the diff and again by the commit, and replaced as a   *)
(* whole by the commit; nothing locks it.  A sweep may die anywhere.  What *)
(* a search finds and what the agent thinks worth reporting is free.       *)
(***************************************************************************)
EXTENDS FiniteSets, Naturals, Sequences

CONSTANTS
  Sweeps,       \* sweeps that can be under way at a time
  Topics, Urls,
  Watchlists,   \* the topics of each watchlist
  Host,         \* Host[u]: the host of a URL, as the sequence of its labels
  Excludes      \* Excludes[t]: the exclude_domains of topic t, written likewise

ASSUME WatchAssumption == Watchlists \subseteq SUBSET Topics

Items == [topic : Topics, url : Urls]

\* A domain covers itself and its subdomains, and no other host that ends like it.
HostInDomains(host, domains) ==
  \E n \in 0..Len(host) : SubSeq(host, n + 1, Len(host)) \in domains

\* What the topics of the watchlists exclude.
Excluded == {i \in Items : HostInDomains(Host[i.url], Excludes[i.topic])}

VARIABLES
  phase,        \* phase[s]: how far sweep s has come
  watch,        \* watch[s]: the topics of its watchlist
  batch,        \* batch[s]: its candidates, then survivors, then digested items
  base,         \* base[s]: the ledger its commit has loaded
  items,        \* the items of state/seen.json
  reported,     \* history: items in a digest and changelog that are both written
  committed,    \* history: the URLs of every commit that was made
  known,        \* history: known[s]: committed when s filtered its candidates
  stale,        \* history: stale[s]: the ledger was replaced since s loaded it
  disrupted     \* history: a stale ledger was written back

vars == <<phase, watch, batch, base, items, reported, committed, known, stale, disrupted>>

Phases == {"idle", "found", "filtered", "digest", "written", "loaded"}

UrlsOf(s) == {i.url : i \in s}

Enter(s, p) == phase' = [phase EXCEPT ![s] = p]

\* The sweep is over and what it held is gone.
End(s) ==
  /\ Enter(s, "idle")
  /\ watch' = [watch EXCEPT ![s] = {}]
  /\ batch' = [batch EXCEPT ![s] = {}]
  /\ base' = [base EXCEPT ![s] = {}]
  /\ known' = [known EXCEPT ![s] = {}]

-----------------------------------------------------------------------------
\* A search finds anything, of any topic the agent may note down.
Search(s) ==
  /\ phase[s] = "idle"
  /\ \E w \in Watchlists, found \in SUBSET Items :
       /\ watch' = [watch EXCEPT ![s] = w]
       /\ batch' = [batch EXCEPT ![s] = found]
  /\ Enter(s, "found")
  /\ UNCHANGED <<base, items, reported, committed, known, stale, disrupted>>

\* Mutant of Survivors: the ledger is compared with topic and URL.
Survivors_ByItem(s) ==
  {i \in batch[s] : i.topic \in watch[s] /\ i \notin items /\ i \notin Excluded}

\* diff_state.py: the topic is known, the URL unseen, the host not excluded.
Survivors(s) ==
  {i \in batch[s] : i.topic \in watch[s] /\ i.url \notin UrlsOf(items) /\ i \notin Excluded}

Filter(s) ==
  /\ phase[s] = "found"
  /\ batch' = [batch EXCEPT ![s] = Survivors(s)]
  /\ known' = [known EXCEPT ![s] = committed]
  /\ Enter(s, "filtered")
  /\ UNCHANGED <<watch, base, items, reported, committed, stale, disrupted>>

\* The agent digests what it finds worth reporting ...
WriteDigest(s) ==
  /\ phase[s] = "filtered"
  /\ \E d \in SUBSET batch[s] : batch' = [batch EXCEPT ![s] = d]
  /\ Enter(s, "digest")
  /\ UNCHANGED <<watch, base, items, reported, committed, known, stale, disrupted>>

\* ... and writes the changelog of the same items.
WriteChangelog(s) ==
  /\ phase[s] = "digest"
  /\ reported' = reported \cup batch[s]
  /\ Enter(s, "written")
  /\ UNCHANGED <<watch, batch, base, items, committed, known, stale, disrupted>>

\* Mutant of MayCommit: the digest is enough.
MayCommit_Early(s) == phase[s] \in {"digest", "written"}

\* Both outputs exist.
MayCommit(s) == phase[s] = "written"

\* load_state in commit_state.py.
Load(s) ==
  /\ MayCommit(s)
  /\ base' = [base EXCEPT ![s] = items]
  /\ stale' = [stale EXCEPT ![s] = FALSE]
  /\ Enter(s, "loaded")
  /\ UNCHANGED <<watch, batch, items, reported, committed, known, disrupted>>

Appended_Replaced(s, new) == new      \* mutant of Appended: only the run's own items

\* The loaded items and the new ones.
Appended(s, new) == base[s] \cup new

\* Mutant of IsNew: the URLs are not remembered while the items are read.
IsNew_Repeats(s, new) == new = {i \in batch[s] : i.url \notin UrlsOf(base[s])}

\* What is appended: of each URL that the loaded ledger lacks, the first item.
IsNew(s, new) ==
  /\ UrlsOf(new) = UrlsOf(batch[s]) \ UrlsOf(base[s])
  /\ \A i, j \in new : i.url = j.url => i = j

\* write_state_atomically replaces the whole ledger.
Replace(s) ==
  /\ phase[s] = "loaded"
  /\ \E new \in SUBSET batch[s] : IsNew(s, new) /\ items' = Appended(s, new)
  /\ committed' = committed \cup UrlsOf(batch[s])
  /\ stale' = [t \in Sweeps |-> t # s /\ phase[t] = "loaded"]
  /\ disrupted' = (disrupted \/ stale[s])
  /\ End(s)
  /\ UNCHANGED reported

\* A timeout, a crash, a script that exits with an error: the next sweep starts
\* from the beginning, with the ledger as it is.
Die(s) ==
  /\ phase[s] # "idle"
  /\ End(s)
  /\ stale' = [stale EXCEPT ![s] = FALSE]
  /\ UNCHANGED <<items, reported, committed, disrupted>>

Init ==
  /\ phase = [s \in Sweeps |-> "idle"]
  /\ watch = [s \in Sweeps |-> {}]
  /\ batch = [s \in Sweeps |-> {}]
  /\ base = [s \in Sweeps |-> {}]
  /\ items = {} /\ reported = {} /\ committed = {}
  /\ known = [s \in Sweeps |-> {}]
  /\ stale = [s \in Sweeps |-> FALSE]
  /\ disrupted = FALSE

Next ==
  \E s \in Sweeps :
    Search(s) \/ Filter(s) \/ WriteDigest(s) \/ WriteChangelog(s) \/ Load(s) \/ Replace(s) \/ Die(s)

Spec == Init /\ [][Next]_vars

-----------------------------------------------------------------------------
WatchTypeOK ==
  /\ phase \in [Sweeps -> Phases]
  /\ watch \in [Sweeps -> SUBSET Topics]
  /\ batch \in [Sweeps -> SUBSET Items] /\ base \in [Sweeps -> SUBSET Items]
  /\ items \subseteq Items /\ reported \subseteq Items
  /\ committed \subseteq Urls /\ known \in [Sweeps -> SUBSET Urls]
  /\ stale \in [Sweeps -> BOOLEAN] /\ disrupted \in BOOLEAN

\* "State must only advance once the run's output is durable" (commit_state.py):
\* what the ledger holds has been reported, wherever sweeps died, so that no
\* item is lost silently.
SeenIsReported == items \subseteq reported

\* The ledger has one entry for a URL, though sweeps commit what other sweeps
\* have committed since they looked, and a batch may have a URL twice.
OneEntryPerUrl == \A i, j \in items : i.url = j.url => i = j

\* To a reader the sweeps are a ledger of what was announced, to which each commit
\* appends, however they overlap and die; only a stale ledger that is written back
\* (commit_state.py takes no lock) makes it forget.
Ledger == INSTANCE SweepLedger WITH ledger <- items, announced <- reported, lost <- disrupted

KeepsLedger == Ledger!LedgerSpec

\* While no sweep has written back a stale ledger, no commit loses what another
\* one appended.
CommitsAppend == [][~disrupted' => items \subseteq items']_vars

\* While no sweep has written back a stale ledger, a sweep does not report again
\* what was committed before it looked: only sweeps that overlap, or one that
\* died before its commit, lead to a second report.
NoRepeat ==
  \A s \in Sweeps :
    ~disrupted /\ phase[s] \in {"filtered", "digest", "written", "loaded"} =>
      UrlsOf(batch[s]) \cap known[s] = {}

\* "Items are keyed by topic id and URL, so multiple watchlists can share one
\* state file safely" (README): the diff drops an item of a topic as seen only
\* when the ledger has it under that topic.
TopicsKeptApart ==
  [][\A s \in Sweeps : phase[s] = "found" /\ phase'[s] = "filtered" =>
       \A i \in batch[s] :
         i.topic \in watch[s] /\ i \notin Excluded /\ i \notin items => i \in batch'[s]]_vars
=============================================================================
