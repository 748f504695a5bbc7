------------------------ MODULE MCStreamingEvaluator ------------------------
(***************************************************************************)
(* Instances of StreamingEvaluator for TLC: windows of five characters,    *)
(* overlap two, and one blocked span anywhere in the text, or none.        *)
(***************************************************************************)
EXTENDS StreamingEvaluator

OneSpan(lengths) ==
    {{}} \cup {{[at |-> a, length |-> n]} : a \in 0 .. MaxText - 1, n \in lengths}

\* Every span is short enough for the overlap.
ShortContents == OneSpan(1 .. 3)
=============================================================================
