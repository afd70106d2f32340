-------------------------- MODULE WatchtowerProofs --------------------------
(***************************************************************************)
(* The safety of the ledger, for any sweeps, topics, URLs and watchlists.  *)
(* The inductive invariant adds to the types what a sweep holds: the       *)
(* ledger it has loaded is reported and keyed by URL, is the ledger itself *)
(* unless it is stale, and its survivors are not in any commit it knows.   *)
(***************************************************************************)
EXTENDS Watchtower, TLAPS

\* What is in the ledger, or may get there by a commit under way, is reported.
Reported ==
  /\ SeenIsReported
  /\ \A s \in Sweeps :
        /\ base[s] \subseteq reported
        /\ phase[s] \in {"written", "loaded"} => batch[s] \subseteq reported

\* The ledger and its loaded copies have one entry for a URL.
Keyed ==
  /\ OneEntryPerUrl
  /\ \A s \in Sweeps : \A i, j \in base[s] : i.url = j.url => i = j

\* A loaded copy that is not stale is the ledger; and until a stale one is
\* written back, the ledger has every URL that was committed.
Current ==
  /\ \A s \in Sweeps : phase[s] = "loaded" /\ ~stale[s] => base[s] = items
  /\ ~disrupted => \A u \in committed : \E i \in items : i.url = u

\* The survivors of a sweep are none of what it knows to be committed.
Unknown ==
  \A s \in Sweeps :
    ~disrupted /\ phase[s] \in {"filtered", "digest", "written", "loaded"} =>
      \A i \in batch[s] : i.url \notin known[s]

WInv == WatchTypeOK /\ Reported /\ Keyed /\ Current /\ Unknown

-----------------------------------------------------------------------------
\* The first sweep starts with an empty ledger.
LEMMA WatchInit == Init => WInv
  BY DEF Init, WInv, WatchTypeOK, Phases, Reported, SeenIsReported, Keyed, OneEntryPerUrl,
         Current, Unknown

\* URLs of known items are known URLs.
LEMMA UrlsOfItems == ASSUME NEW b \in SUBSET Items PROVE UrlsOf(b) \in SUBSET Urls
  BY DEF UrlsOf, Items

\* No step leaves the types.
LEMMA WatchTypeStep == WInv /\ [Next]_vars => WatchTypeOK'
  <1> SUFFICES ASSUME WInv, [Next]_vars PROVE WatchTypeOK'
    OBVIOUS
  <1> USE WatchAssumption DEF WInv, WatchTypeOK, Phases
  <1>1. ASSUME NEW s \in Sweeps, Search(s) PROVE WatchTypeOK'
    BY <1>1 DEF Search, Enter
  <1>2. ASSUME NEW s \in Sweeps, Filter(s) PROVE WatchTypeOK'
    BY <1>2 DEF Filter, Enter, Survivors
  <1>3. ASSUME NEW s \in Sweeps, WriteDigest(s) PROVE WatchTypeOK'
    BY <1>3 DEF WriteDigest, Enter
  <1>4. ASSUME NEW s \in Sweeps, WriteChangelog(s) PROVE WatchTypeOK'
    BY <1>4 DEF WriteChangelog, Enter
  <1>5. ASSUME NEW s \in Sweeps, Load(s) PROVE WatchTypeOK'
    BY <1>5 DEF Load, Enter, MayCommit
  <1>6. ASSUME NEW s \in Sweeps, Replace(s) PROVE WatchTypeOK'
    <2>1. PICK new \in SUBSET batch[s] : items' = Appended(s, new)
      BY <1>6 DEF Replace
    <2>2. items' \subseteq Items
      BY <2>1 DEF Appended
    <2>3. committed' \subseteq Urls
      BY <1>6, UrlsOfItems DEF Replace
    <2>4. QED
      BY <1>6, <2>2, <2>3 DEF Replace, End, Enter
  <1>7. ASSUME NEW s \in Sweeps, Die(s) PROVE WatchTypeOK'
    BY <1>7 DEF Die, Enter, End
  <1>8. CASE UNCHANGED vars
    BY <1>8 DEF vars
  <1>9. QED
    BY <1>1, <1>2, <1>3, <1>4, <1>5, <1>6, <1>7, <1>8 DEF Next

\* A commit appends what its sweep has reported to what was reported before.
LEMMA ReportedStep == WInv /\ [Next]_vars => Reported'
  <1> SUFFICES ASSUME WInv, [Next]_vars PROVE Reported'
    OBVIOUS
  <1> USE WatchAssumption DEF WInv, WatchTypeOK, Reported, SeenIsReported
  <1>1. ASSUME NEW s \in Sweeps, Search(s) PROVE Reported'
    BY <1>1 DEF Search, Enter
  <1>2. ASSUME NEW s \in Sweeps, Filter(s) PROVE Reported'
    BY <1>2 DEF Filter, Enter, Survivors
  <1>3. ASSUME NEW s \in Sweeps, WriteDigest(s) PROVE Reported'
    BY <1>3 DEF WriteDigest, Enter
  <1>4. ASSUME NEW s \in Sweeps, WriteChangelog(s) PROVE Reported'
    BY <1>4 DEF WriteChangelog, Enter
  <1>5. ASSUME NEW s \in Sweeps, Load(s) PROVE Reported'
    BY <1>5 DEF Load, Enter, MayCommit
  <1>6. ASSUME NEW s \in Sweeps, Replace(s) PROVE Reported'
    BY <1>6 DEF Replace, Enter, End, Appended
  <1>7. ASSUME NEW s \in Sweeps, Die(s) PROVE Reported'
    BY <1>7 DEF Die, Enter, End
  <1>8. CASE UNCHANGED vars
    BY <1>8 DEF vars
  <1>9. QED
    BY <1>1, <1>2, <1>3, <1>4, <1>5, <1>6, <1>7, <1>8 DEF Next

\* A commit appends one item for each URL that its copy of the ledger lacks.
LEMMA KeyedStep == WInv /\ [Next]_vars => Keyed'
  <1> SUFFICES ASSUME WInv, [Next]_vars PROVE Keyed'
    OBVIOUS
  <1> USE WatchAssumption DEF WInv, WatchTypeOK, Keyed, OneEntryPerUrl
  <1>1. ASSUME NEW s \in Sweeps, Search(s) PROVE Keyed'
    BY <1>1 DEF Search, Enter
  <1>2. ASSUME NEW s \in Sweeps, Filter(s) PROVE Keyed'
    BY <1>2 DEF Filter, Enter, Survivors
  <1>3. ASSUME NEW s \in Sweeps, WriteDigest(s) PROVE Keyed'
    BY <1>3 DEF WriteDigest, Enter
  <1>4. ASSUME NEW s \in Sweeps, WriteChangelog(s) PROVE Keyed'
    BY <1>4 DEF WriteChangelog, Enter
  <1>5. ASSUME NEW s \in Sweeps, Load(s) PROVE Keyed'
    BY <1>5 DEF Load, Enter, MayCommit
  <1>6. ASSUME NEW s \in Sweeps, Replace(s) PROVE Keyed'
    <2>1. PICK new \in SUBSET batch[s] : IsNew(s, new) /\ items' = Appended(s, new)
      BY <1>6 DEF Replace
    <2>2. \A i \in new, j \in base[s] : i.url # j.url
      BY <2>1 DEF IsNew, UrlsOf
    <2>3. OneEntryPerUrl'
      BY <2>1, <2>2 DEF IsNew, Appended
    <2>4. QED
      BY <1>6, <2>3 DEF Replace, End
  <1>7. ASSUME NEW s \in Sweeps, Die(s) PROVE Keyed'
    BY <1>7 DEF Die, Enter, End
  <1>8. CASE UNCHANGED vars
    BY <1>8 DEF vars
  <1>9. QED
    BY <1>1, <1>2, <1>3, <1>4, <1>5, <1>6, <1>7, <1>8 DEF Next

\* A commit of a copy that is not stale keeps every entry and adds its own URLs.
LEMMA CurrentStep == WInv /\ [Next]_vars => Current'
  <1> SUFFICES ASSUME WInv, [Next]_vars PROVE Current'
    OBVIOUS
  <1> USE WatchAssumption DEF WInv, WatchTypeOK, Current
  <1>1. ASSUME NEW s \in Sweeps, Search(s) PROVE Current'
    BY <1>1 DEF Search, Enter
  <1>2. ASSUME NEW s \in Sweeps, Filter(s) PROVE Current'
    BY <1>2 DEF Filter, Enter, Survivors
  <1>3. ASSUME NEW s \in Sweeps, WriteDigest(s) PROVE Current'
    BY <1>3 DEF WriteDigest, Enter
  <1>4. ASSUME NEW s \in Sweeps, WriteChangelog(s) PROVE Current'
    BY <1>4 DEF WriteChangelog, Enter
  <1>5. ASSUME NEW s \in Sweeps, Load(s) PROVE Current'
    BY <1>5 DEF Load, Enter, MayCommit
  <1>6. ASSUME NEW s \in Sweeps, Replace(s) PROVE Current'
    <2>1. PICK new \in SUBSET batch[s] : IsNew(s, new) /\ items' = Appended(s, new)
      BY <1>6 DEF Replace
    <2>2. \A t \in Sweeps : ~(phase'[t] = "loaded" /\ ~stale'[t])
      BY <1>6 DEF Replace, End, Enter
    <2>3. ASSUME ~disrupted', NEW u \in committed' PROVE \E i \in items' : i.url = u
      <3>1. base[s] = items /\ ~disrupted
        BY <1>6, <2>3 DEF Replace
      <3>2. CASE u \in committed
        BY <2>1, <3>1, <3>2 DEF Appended
      <3>3. CASE u \in UrlsOf(batch[s])
        BY <2>1, <3>3 DEF IsNew, UrlsOf, Appended
      <3>4. QED
        BY <1>6, <2>3, <3>2, <3>3 DEF Replace
    <2>4. QED
      BY <2>2, <2>3
  <1>7. ASSUME NEW s \in Sweeps, Die(s) PROVE Current'
    BY <1>7 DEF Die, Enter, End
  <1>8. CASE UNCHANGED vars
    BY <1>8 DEF vars
  <1>9. QED
    BY <1>1, <1>2, <1>3, <1>4, <1>5, <1>6, <1>7, <1>8 DEF Next

\* The diff drops what the ledger has, which is all that was committed.
LEMMA UnknownStep == WInv /\ [Next]_vars => Unknown'
  <1> SUFFICES ASSUME WInv, [Next]_vars PROVE Unknown'
    OBVIOUS
  <1> USE WatchAssumption DEF WInv, WatchTypeOK, Current, Unknown
  <1>1. ASSUME NEW s \in Sweeps, Search(s) PROVE Unknown'
    BY <1>1 DEF Search, Enter
  <1>2. ASSUME NEW s \in Sweeps, Filter(s) PROVE Unknown'
    BY <1>2 DEF Filter, Enter, Survivors, UrlsOf
  <1>3. ASSUME NEW s \in Sweeps, WriteDigest(s) PROVE Unknown'
    BY <1>3 DEF WriteDigest, Enter
  <1>4. ASSUME NEW s \in Sweeps, WriteChangelog(s) PROVE Unknown'
    BY <1>4 DEF WriteChangelog, Enter
  <1>5. ASSUME NEW s \in Sweeps, Load(s) PROVE Unknown'
    BY <1>5 DEF Load, Enter, MayCommit
  <1>6. ASSUME NEW s \in Sweeps, Replace(s) PROVE Unknown'
    BY <1>6 DEF Replace, Enter, End
  <1>7. ASSUME NEW s \in Sweeps, Die(s) PROVE Unknown'
    BY <1>7 DEF Die, Enter, End
  <1>8. CASE UNCHANGED vars
    BY <1>8 DEF vars
  <1>9. QED
    BY <1>1, <1>2, <1>3, <1>4, <1>5, <1>6, <1>7, <1>8 DEF Next

-----------------------------------------------------------------------------
\* The strengthened invariant holds in every behaviour of the sweeps.
THEOREM WatchInductive == Spec => []WInv
  <1>1. Init => WInv
    BY WatchInit
  <1>2. WInv /\ [Next]_vars => WInv'
    BY WatchTypeStep, ReportedStep, KeyedStep, CurrentStep, UnknownStep DEF WInv
  <1>3. QED
    BY <1>1, <1>2, PTL DEF Spec

\* Whatever the ledger hides from later sweeps has been reported.
THEOREM NothingSeenUnreported == Spec => []SeenIsReported
  <1>1. WInv => SeenIsReported
    BY DEF WInv, Reported
  <1>2. QED
    BY <1>1, WatchInductive, PTL

\* The ledger hides every URL once: no sweep appends an item whose URL the
\* ledger it loaded, or another of its items, has.
THEOREM OneUrlOneEntry == Spec => []OneEntryPerUrl
  <1>1. WInv => OneEntryPerUrl
    BY DEF WInv, Keyed
  <1>2. QED
    BY <1>1, WatchInductive, PTL

\* While no stale ledger is written back, nothing committed is reported again by
\* a sweep that looked after the commit.
THEOREM NothingReportedAgain == Spec => []NoRepeat
  <1>1. WInv => NoRepeat
    BY DEF WInv, Unknown, NoRepeat, UrlsOf
  <1>2. QED
    BY <1>1, WatchInductive, PTL

\* A commit extends the ledger, or writes back a copy from before another commit.
LEMMA CommitOfLedger ==
  ASSUME WInv, WInv', NEW s \in Sweeps, Replace(s)
  PROVE  Ledger!Extend \/ Ledger!WriteBack
  <1>1. /\ items' \subseteq reported'
        /\ \A i, j \in items' : i.url = j.url => i = j
    BY DEF WInv, Reported, SeenIsReported, Keyed, OneEntryPerUrl
  <1>2. Ledger!Sound(items') /\ reported' = reported
    BY <1>1 DEF Replace, Ledger!Sound, Ledger!OneForAUrl
  <1>3. CASE stale[s]
    BY <1>2, <1>3 DEF Replace, Ledger!WriteBack
  <1>4. CASE ~stale[s]
    <2>1. base[s] = items
      BY <1>4 DEF Replace, WInv, Current
    <2>2. items \subseteq items'
      BY <2>1 DEF Replace, Appended
    <2>3. disrupted' = disrupted
      BY <1>4 DEF Replace, WInv, WatchTypeOK
    <2>4. QED
      BY <1>2, <2>2, <2>3 DEF Ledger!Extend
  <1>5. QED
    BY <1>3, <1>4

\* Every step of a sweep is a step of the ledger, or none.
LEMMA SweepOfLedger == WInv /\ WInv' /\ [Next]_vars => [Ledger!LedgerNext]_Ledger!ledgerVars
  <1> SUFFICES ASSUME WInv, WInv', [Next]_vars PROVE [Ledger!LedgerNext]_Ledger!ledgerVars
    OBVIOUS
  <1> USE DEF Ledger!ledgerVars
  <1>1. ASSUME NEW s \in Sweeps, WriteChangelog(s) PROVE Ledger!Announce
    <2>1. reported \subseteq reported' /\ reported' \subseteq Items
      BY <1>1 DEF WriteChangelog, WInv, WatchTypeOK
    <2>2. QED
      BY <1>1, <2>1 DEF WriteChangelog, Ledger!Announce
  <1>2. ASSUME NEW s \in Sweeps,
               Search(s) \/ Filter(s) \/ WriteDigest(s) \/ Load(s) \/ Die(s)
        PROVE  UNCHANGED Ledger!ledgerVars
    BY <1>2 DEF Search, Filter, WriteDigest, Load, Die
  <1>3. CASE UNCHANGED vars
    BY <1>3 DEF vars
  <1>4. QED
    BY <1>1, <1>2, <1>3, CommitOfLedger DEF Next, Ledger!LedgerNext

\* Sweeps that overlap and die implement a ledger of announced items, one for a
\* URL, that grows, and forgets only when a stale copy is written back.
THEOREM SweepsKeepLedger == Spec => KeepsLedger
  <1>1. Init => Ledger!LedgerInit
    BY DEF Init, Ledger!LedgerInit
  <1>2. QED
    BY <1>1, SweepOfLedger, WatchInductive, PTL DEF Spec, KeepsLedger, Ledger!LedgerSpec

\* While no stale ledger is written back, no commit loses what another appended:
\* so it is in the ledger that the sweeps implement.
THEOREM LedgerGrows == Spec => CommitsAppend
  <1>1. [Ledger!LedgerNext]_Ledger!ledgerVars => (~disrupted' => items \subseteq items')
    BY DEF Ledger!LedgerNext, Ledger!Announce, Ledger!Extend, Ledger!WriteBack, Ledger!ledgerVars
  <1>2. QED
    BY <1>1, SweepsKeepLedger, PTL DEF KeepsLedger, Ledger!LedgerSpec, CommitsAppend
=============================================================================
