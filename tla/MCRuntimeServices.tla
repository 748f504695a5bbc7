-------------------------- MODULE MCRuntimeServices --------------------------
(***************************************************************************)
(* An instance of RuntimeServices for TLC: two benchmark workers on three  *)
(* pages and an empty one at the end, three audit events, one pod and four *)
(* requests, a remote call with and without a deadline and an endpoint,    *)
(* two sessions with two prompts.                                          *)
(***************************************************************************)
EXTENDS RuntimeServices

CONSTANTS w1, w2, e1, e2, e3, p1, s1, s2, a, b

TwoWorkers == {w1, w2}
FilteredPages == {1, 3}
ThreeEvents == {e1, e2, e3}
OnePod == {p1}
Remotes == [total : {0, 3}, endpoint : BOOLEAN, fail_open : {FALSE}]
TwoSessions == {s1, s2}
TwoTexts == {a, b}
=============================================================================
