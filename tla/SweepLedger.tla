---------------------------- MODULE SweepLedger ----------------------------
(***************************************************************************)
(* What the ledger of Watchtower promises to those who read its digests: a *)
(* set of items that were announced, one for a URL, which only grows.      *)
(* There are no sweeps here, no copies and no crashes.  What the missing   *)
(* lock costs is one step: a copy from before another commit is written    *)
(* back, and what the ledger then holds is still announced, and keyed.     *)
(***************************************************************************)
CONSTANT Items   \* records with a url

VARIABLES
  ledger,     \* what later sweeps take for seen
  announced,  \* what a reader has been told
  lost        \* an old copy was written back

ledgerVars == <<ledger, announced, lost>>

OneForAUrl(set) == \A i, j \in set : i.url = j.url => i = j

\* Everything in the ledger has been announced, and no URL is in it twice.
Sound(set) == set \subseteq announced /\ OneForAUrl(set)

Announce ==
  /\ announced \subseteq announced' /\ announced' \subseteq Items
  /\ UNCHANGED <<ledger, lost>>

Extend ==
  /\ ledger \subseteq ledger' /\ Sound(ledger')
  /\ UNCHANGED <<announced, lost>>

WriteBack ==
  /\ lost' = TRUE /\ Sound(ledger')
  /\ UNCHANGED announced

LedgerInit == ledger = {} /\ announced = {} /\ lost = FALSE

LedgerNext == Announce \/ Extend \/ WriteBack

LedgerSpec == LedgerInit /\ [][LedgerNext]_ledgerVars
=============================================================================
