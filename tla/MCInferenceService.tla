------------------------- MODULE MCInferenceService -------------------------
(***************************************************************************)
(* An instance of InferenceService for TLC: two requests, two reloads that *)
(* may overlap, one re-install and a cache of one entry.  A task runs on   *)
(* the bare stub, on a stub served under a model's name, or on the model   *)
(* the reconciler also loads as a variant.                                 *)
(***************************************************************************)
EXTENDS InferenceService, TLC

CONSTANTS r1, r2, o1, o2, m1

Requests == {r1, r2}
Operators == {o1, o2}
NamedModels == {m1, Variant}
MCSpecs == {[model |-> Stub, stub |-> TRUE], [model |-> m1, stub |-> TRUE],
            [model |-> Variant, stub |-> FALSE]}

\* Requests and reloads differ in nothing but their names.
Interchangeable == Permutations(Requests) \cup Permutations(Operators)
=============================================================================
