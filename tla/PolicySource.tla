---------------------------- MODULE PolicySource ----------------------------
(***************************************************************************)
(* What the bundle manager promises the rest of the runtime.  Policies are *)
(* offered by a publisher; the process serves requests only with a policy  *)
(* that was offered and passed validation, or, under fail-open alone, with *)
(* none; a serving process may replace its policy but never lose it.       *)
(***************************************************************************)
CONSTANTS Policy, Trusted, NoPolicy

VARIABLES failOpen, offered, active, serving

vars == <<failOpen, offered, active, serving>>

Init ==
    /\ failOpen \in BOOLEAN
    /\ offered \in SUBSET Policy
    /\ active = NoPolicy
    /\ serving = FALSE

Offer(p) ==
    /\ offered' = offered \cup {p}
    /\ UNCHANGED <<failOpen, active, serving>>

Adopt(p) ==
    /\ p \in offered \cap Trusted
    /\ active' = p
    /\ UNCHANGED <<failOpen, offered, serving>>

Serve ==
    /\ ~serving
    /\ serving' = TRUE
    /\ active' \in (offered \cap Trusted) \cup {active}
    /\ active' # NoPolicy \/ failOpen
    /\ UNCHANGED <<failOpen, offered>>

Halt ==
    /\ serving' = FALSE
    /\ active' = NoPolicy
    /\ UNCHANGED <<failOpen, offered>>

Next ==
    \/ \E p \in Policy : Offer(p) \/ Adopt(p)
    \/ Serve
    \/ Halt

Spec == Init /\ [][Next]_vars
=============================================================================
