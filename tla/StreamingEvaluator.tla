------------------------- MODULE StreamingEvaluator -------------------------
(***************************************************************************)
(* The sliding-window streaming evaluator (engine/streaming.py) as the     *)
(* stream endpoint drives it (api/stream_routes.py).                       *)
(*                                                                         *)
(* Text is modelled by positions: the text pushed so far is the positions  *)
(* 0 .. full - 1, the buffer holds start .. full - 1, and the caller has   *)
(* been given the first `released` positions.  What the detectors look for *)
(* is a set of spans: a window that holds a whole span is blocked, any     *)
(* other window gets any verdict.                                          *)
(***************************************************************************)
EXTENDS Integers

CONSTANTS
    MinWindow,   \* the smallest window __init__ accepts (50)
    WindowArg,   \* the window_size argument
    OverlapArg,  \* the overlap argument (>= 0, StreamEvaluateRequest)
    MaxText,     \* bound: the longest text pushed
    Contents     \* what the text may hold: sets of spans the detectors block

Span == [at : Nat, length : Nat \ {0}]

ASSUME StreamAssumption ==
    /\ MinWindow \in Nat \ {0}
    /\ WindowArg \in Nat /\ OverlapArg \in Nat /\ MaxText \in Nat
    /\ Contents \subseteq SUBSET Span

window_size == IF WindowArg < MinWindow THEN MinWindow ELSE WindowArg
overlap == IF OverlapArg < window_size \div 2 THEN OverlapArg ELSE window_size \div 2

advance == window_size - overlap

Verdict == {"ALLOW", "WARN", "REDACT", "TRANSFORM", "BLOCK"}
Window == [from : Nat, to : Nat, verdict : Verdict]

VARIABLES
    spans,     \* the spans of this stream's text that the detectors block
    pc,        \* "open": the caller may push; "draining": inside push's loop;
               \* "flushed": flush has returned
    full,      \* len(self._full_text)
    start,     \* the position of the first buffered character
    released,  \* len(self._released)
    decision,  \* "BLOCK" once self._blocked is set, "ALLOW" until then
    cleared,   \* the windows evaluated without a BLOCK
    windows,   \* self._window_count
    releases   \* self._release_count

vars == <<spans, pc, full, start, released, decision, cleared, windows, releases>>

blocked == decision = "BLOCK"

TypeOK ==
    /\ spans \in Contents
    /\ pc \in {"open", "draining", "flushed"}
    /\ full \in 0 .. MaxText
    /\ start \in 0 .. full
    /\ released \in 0 .. full
    /\ decision \in {"ALLOW", "BLOCK"}
    /\ cleared \in SUBSET Window
    /\ windows \in Nat
    /\ releases \in Nat

Init ==
    /\ spans \in Contents
    /\ pc = "open"
    /\ full = 0 /\ start = 0 /\ released = 0
    /\ decision = "ALLOW"
    /\ cleared = {}
    /\ windows = 0 /\ releases = 0

Inside(s, from, to) == from <= s.at /\ s.at + s.length <= to

\* The verdicts the detector pipeline may give the window from .. to - 1.
MayDecide(v, from, to) ==
    (\E s \in spans : Inside(s, from, to)) => v = "BLOCK"

evaluate_window(v, from, to) ==
    /\ MayDecide(v, from, to)
    /\ windows' = windows + 1
    /\ decision' = IF v = "BLOCK" THEN "BLOCK" ELSE decision
    /\ cleared' = IF v = "BLOCK" THEN cleared
                  ELSE cleared \cup {[from |-> from, to |-> to, verdict |-> v]}

release(n) ==
    /\ released' = released + n
    /\ releases' = releases + 1

\* push up to its loop.  After a BLOCK push answers with a block event and
\* changes nothing, and the endpoint stops pushing.
Push(n) ==
    /\ pc = "open" /\ ~blocked
    /\ full + n <= MaxText
    /\ full' = full + n
    /\ pc' = "draining"
    /\ UNCHANGED <<spans, start, released, decision, cleared, windows, releases>>

\* One round of push's loop: a whole window is evaluated and, unless it is
\* blocked, the part the next window will not see again is released.
PushWindow(v) ==
    /\ pc = "draining" /\ ~blocked
    /\ full - start >= window_size
    /\ evaluate_window(v, start, start + window_size)
    /\ IF v = "BLOCK"
       THEN UNCHANGED <<start, released, releases>>
       ELSE release(advance) /\ start' = start + advance
    /\ UNCHANGED <<spans, pc, full>>

\* mutant: a block does not leave the loop
PushReturnsUnlessBlocked ==
    /\ pc = "draining"
    /\ full - start < window_size
    /\ pc' = "open"
    /\ UNCHANGED <<spans, full, start, released, decision, cleared, windows, releases>>

PushReturns ==
    /\ pc = "draining"
    /\ blocked \/ full - start < window_size
    /\ pc' = "open"
    /\ UNCHANGED <<spans, full, start, released, decision, cleared, windows, releases>>

\* mutant: the tail is released without being evaluated
FlushUnseen(v) ==
    /\ pc = "open"
    /\ pc' = "flushed"
    /\ IF full > start /\ ~blocked
       THEN start' = full /\ release(full - start)
       ELSE UNCHANGED <<start, released, releases>>
    /\ UNCHANGED <<spans, full, decision, cleared, windows>>

\* mutant: a blocked stream is flushed all the same
FlushBlocked(v) ==
    /\ pc = "open"
    /\ pc' = "flushed"
    /\ IF full > start
       THEN /\ start' = full
            /\ evaluate_window(v, start, full)
            /\ IF v = "BLOCK" THEN UNCHANGED <<released, releases>>
                              ELSE release(full - start)
       ELSE UNCHANGED <<start, released, decision, cleared, windows, releases>>
    /\ UNCHANGED <<spans, full>>

\* flush evaluates and releases the tail; with nothing buffered, or on a
\* blocked stream, it only returns the summary.
Flush(v) ==
    /\ pc = "open"
    /\ pc' = "flushed"
    /\ IF full > start /\ ~blocked
       THEN /\ start' = full
            /\ evaluate_window(v, start, full)
            /\ IF v = "BLOCK" THEN UNCHANGED <<released, releases>>
                              ELSE release(full - start)
       ELSE UNCHANGED <<start, released, decision, cleared, windows, releases>>
    /\ UNCHANGED <<spans, full>>

Next ==
    \/ \E n \in 0 .. MaxText : Push(n)
    \/ \E v \in Verdict : PushWindow(v) \/ Flush(v)
    \/ PushReturns

\* The endpoint's generator runs to its end; nothing forces a next chunk.
Spec ==
    /\ Init /\ [][Next]_vars
    /\ WF_vars(PushReturns \/ \E v \in Verdict : PushWindow(v))

(***************************************************************************)
(* Properties.                                                             *)
(***************************************************************************)

\* Every span of at most overlap + 1 characters that begins in the released
\* text was wholly inside one window that was evaluated and not blocked before
\* its first character was released (push withholds the overlap tail; flush
\* evaluates the rest as one window).
ShortSpansSeenWhole ==
    \A i \in 0 .. released - 1, n \in 1 .. overlap + 1 :
        i + n <= full => \E w \in cleared : w.from <= i /\ i + n <= w.to

\* Nothing of a blocked span of at most overlap + 1 characters ever reaches the
\* caller, wherever the chunk and window boundaries fall.
NoShortLeak ==
    \A s \in spans :
        s.length <= overlap + 1 /\ s.at + s.length <= full => released <= s.at

\* The done summary is truthful: on ALLOW the caller has the whole text, on
\* BLOCK some text was withheld (flush).
SummaryTruthful ==
    pc = "flushed" =>
        IF decision = "ALLOW" THEN released = full ELSE released < full

\* The chunk events carry consecutive text: what was released and what is still
\* buffered make up the text, and each release has a window verdict of its own.
ReleasedIsPrefix ==
    /\ pc # "flushed" => released = start
    /\ windows = releases + (IF blocked THEN 1 ELSE 0)

\* Once a window is blocked nothing more is released, by push or by flush.
BlockIsFinal ==
    [][blocked => blocked' /\ released' = released]_vars

\* push always returns: its loop makes progress for every accepted window and
\* overlap (overlap is clamped to half a window).
PushTerminates ==
    pc = "draining" ~> pc # "draining"

=============================================================================
