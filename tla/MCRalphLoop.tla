---------------------------- MODULE MCRalphLoop ----------------------------
(* Three contents of the config file, two that are no config, and two tasks, *)
(* one of them flaky in some runs; every assignment of passing tasks to      *)
(* contents is tried.                                                        *)
EXTENDS RalphRun

CONSTANTS k1, k2, k3, bad, garbled, t1, t2

Contents3 == {k1, k2, k3}
OneBroken == {bad}
OneGarbled == {garbled}
TwoTasks == {t1, t2}
OneFlaky == {t2}
None     == {}

\* "m" has a built-in profile and "n" has none; contents register one or the
\* other or both, and one of them twice.
MCBuiltin == [k \in {"m"} |-> {"p"}]
Call(k, parts) == [key |-> k, parts |-> parts]
MCCallsOf == [c \in {k1, k2, k3, bad} |->
                CASE c = k1 -> <<>>
                  [] c = k2 -> <<Call("m", {"q"}), Call("m", {"r"})>>
                  [] c = k3 -> <<Call("n", {"q"})>>
                  [] c = bad -> <<Call("n", {"q"}), Call("m", {"q"})>>]
=============================================================================
