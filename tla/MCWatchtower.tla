---------------------------- MODULE MCWatchtower ----------------------------
(* Two sweeps that may overlap; two topics may both turn up either page, and *)
(* one topic excludes the host of one page.                                  *)
EXTENDS Watchtower, TLC

CONSTANTS s1, s2, t1, t2, u1, u2

TwoSweeps == {s1, s2}
OneSweep  == {s1}
TwoTopics == {t1, t2}
TwoUrls   == {u1, u2}
BothLists == {{t1}, {t1, t2}}
OneList   == {{t1, t2}}
Hosts     == (u1 :> <<"news", "example", "org">>) @@ (u2 :> <<"blog", "example", "com">>)
Domains   == (t1 :> {<<"ample", "com">>}) @@ (t2 :> {<<"example", "com">>})
=============================================================================
