----------------------------- MODULE AuditSpool -----------------------------
(***************************************************************************)
(* The durable spools of the runtime: the egress audit written before a    *)
(* call leaves the boundary (audit_sink.py) and the judge audit written    *)
(* after a judge has answered (judge_audit_sink.py).  A line is the        *)
(* sequence of events whose bytes it holds; only the last line of a file   *)
(* may lack its newline.  A write may stop half way: the disk is full, or  *)
(* the process dies.                                                       *)
(***************************************************************************)
EXTENDS Naturals, Sequences, FiniteSets, SequencesExt

CONSTANTS
    Event,     \* events to record, one call each
    FailMode,  \* "closed" or "open"
    MaxTorn    \* bound: writes that stop half way

VARIABLES
    lines,  \* the file: [parts : Seq(Event), whole : BOOLEAN, ended : BOOLEAN]
    fate,   \* per event: new, recorded, denied, unaudited, crashed
    torn    \* writes that stopped half way

svars == <<lines, fate, torn>>

TypeOK ==
    /\ lines \in Seq([parts : Seq(Event), whole : BOOLEAN, ended : BOOLEAN])
    /\ fate \in [Event -> {"new", "recorded", "denied", "unaudited", "crashed"}]
    /\ torn \in 0 .. MaxTorn

Init ==
    /\ lines = <<>> /\ torn = 0
    /\ fate = [e \in Event |-> "new"]

\* Bytes of e go behind an unfinished line, or begin one.
_append_sync(e, whole) ==
    LET open == lines # <<>> /\ ~Last(lines).ended
        line == [parts |-> (IF open THEN Last(lines).parts ELSE <<>>) \o <<e>>,
                 whole |-> whole /\ ~open, ended |-> whole]
    IN  lines' = Append(IF open THEN Front(lines) ELSE lines, line)

\* record, record_sync: fsynced before the caller goes on.
record(e) ==
    /\ fate[e] = "new"
    /\ _append_sync(e, TRUE)
    /\ fate' = [fate EXCEPT ![e] = "recorded"]
    /\ UNCHANGED torn

\* mutant: a failed write is logged and the call goes on
_handle_failure_open == "unaudited"

_handle_failure == IF FailMode = "closed" THEN "denied" ELSE "unaudited"

WriteFails(e) ==
    /\ fate[e] = "new" /\ torn < MaxTorn
    /\ torn' = torn + 1
    /\ _append_sync(e, FALSE) \/ UNCHANGED lines
    /\ fate' = [fate EXCEPT ![e] = _handle_failure]

Crash(e) ==
    /\ fate[e] = "new" /\ torn < MaxTorn
    /\ torn' = torn + 1
    /\ _append_sync(e, FALSE)
    /\ fate' = [fate EXCEPT ![e] = "crashed"]

Next == \E e \in Event : record(e) \/ WriteFails(e) \/ Crash(e)

Spec == Init /\ [][Next]_svars

\* mutant: the drain stops at the first line that does not parse
read_all_strict ==
    {e \in Event : \E i \in 1 .. Len(lines) :
        /\ lines[i].parts = <<e>>
        /\ \A j \in 1 .. i : lines[j].whole}

read_all == {e \in Event : \E i \in 1 .. Len(lines) :
                lines[i].whole /\ lines[i].parts = <<e>>}

(***************************************************************************)
(* Properties.                                                             *)
(***************************************************************************)
\* The calls that went out and that the drain does not see are at most as many
\* as the writes that stopped half way.  (Not none: an event recorded behind
\* the torn line of another is lost with it, although its record succeeded.)
\* With fail-closed audit a failed write is itself never such a call.
LossBounded ==
    LET sent == {e \in Event : fate[e] \in {"recorded", "unaudited"}}
        own  == IF FailMode = "closed" THEN {} ELSE {e \in sent : fate[e] = "unaudited"}
    IN  /\ Cardinality((sent \ own) \ read_all) <= torn
        /\ \A e \in sent \ read_all : e \in own \/ fate[e] = "recorded"
=============================================================================
