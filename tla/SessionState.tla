---------------------------- MODULE SessionState ----------------------------
(***************************************************************************)
(* The detectors that remember: the token bucket and the prompt history of *)
(* AbuseDetector and the session table of UnboundedConsumptionDetector.    *)
(*                                                                         *)
(* Every request runs both detectors for its session; a text is a prompt   *)
(* and, in an agent loop, the agent's state.  The totals and the states of *)
(* a consumption session are updated under two holds of its lock; neither  *)
(* reads what the other writes, and they are one step, as are the read of  *)
(* the clock and the lock that follows it.                                 *)
(***************************************************************************)
EXTENDS Naturals, Sequences, FiniteSets, SequencesExt

CONSTANTS
    Session,      \* sessions (users, conversations) of one tenant
    Text,         \* prompts
    Rate,         \* tokens a bucket gains per tick
    Window,       \* ticks of a window (prompt_flood_window, session_window)
    FloodAt,      \* prompt_flood_threshold
    FloodMemory,  \* maxlen of the deque of prompt hashes
    RepeatAt,     \* max_repeated_states
    MaxStates,    \* max_tracked_states
    MaxTokens,    \* max_session_tokens; a request reports one token
    MaxCalls,     \* bound: requests
    MaxTime       \* bound: the clock

VARIABLES
    now,
    bucket,   \* rate_limiters: tokens and last update, per session
    prompts,  \* prompt_hashes: <<text, time>>, oldest first, per session
    usage,    \* _sessions: tokens, first_ts and states, per session
    asked,    \* requests so far
    log       \* every request of a session: text, time and the rules that hit

tvars == <<now, bucket, prompts, usage, asked, log>>

NoSession == [tokens |-> 0, first |-> 0, states |-> <<>>, on |-> FALSE]

Init ==
    /\ now = 0
    /\ bucket = [s \in Session |-> [tokens |-> Rate * Window, last |-> 0]]
    /\ prompts = [s \in Session |-> <<>>]
    /\ usage = [s \in Session |-> NoSession]
    /\ asked = 0
    /\ log = [s \in Session |-> <<>>]

TypeOK ==
    /\ now \in 0 .. MaxTime
    /\ \A s \in Session : /\ bucket[s].tokens \in 0 .. Rate * Window
                          /\ Len(prompts[s]) <= FloodMemory
                          /\ Len(usage[s].states) <= MaxStates
    /\ asked \in 0 .. MaxCalls

Tick ==
    /\ now < MaxTime /\ now' = now + 1
    /\ UNCHANGED <<bucket, prompts, usage, asked, log>>

Least(a, b) == IF a < b THEN a ELSE b

(***************************************************************************)
(* AbuseDetector.                                                          *)
(***************************************************************************)
\* TokenBucket.consume refills first, whatever the answer.
Refilled(b) == Least(Rate * Window, b.tokens + (now - b.last) * Rate)

check_rate_limit(s) == Refilled(bucket[s]) < 1

consume(s) ==
    LET t == Refilled(bucket[s])
    IN  [tokens |-> IF t >= 1 THEN t - 1 ELSE t, last |-> now]

\* What is left of a deque after popleft up to the first entry that stays.
From(deque, stays) == IF stays = {} THEN <<>> ELSE SubSeq(deque, Min(stays), Len(deque))

\* mutant: a prompt exactly as old as the window is forgotten
Live_strict(s) ==
    From(prompts[s], {i \in DOMAIN prompts[s] : now - prompts[s][i][2] < Window})

Live(s) ==
    From(prompts[s], {i \in DOMAIN prompts[s] : now - prompts[s][i][2] <= Window})

check_prompt_flood(s, x) ==
    Cardinality({i \in DOMAIN Live(s) : Live(s)[i][1] = x}) >= FloodAt

Remember(s, x) ==
    LET p == Append(Live(s), <<x, now>>)
    IN  IF Len(p) > FloodMemory THEN Tail(p) ELSE p

(***************************************************************************)
(* UnboundedConsumptionDetector: a session older than the window starts    *)
(* over; the table of agent states evicts its oldest.                      *)
(***************************************************************************)
Current(s) ==
    IF usage[s].on /\ now - usage[s].first <= Window THEN usage[s]
    ELSE [NoSession EXCEPT !.on = TRUE, !.first = now]

\* mutant: a full table of states refuses a new one
Admit_refused(states, entry) ==
    IF Len(states) >= MaxStates THEN states ELSE Append(states, entry)

Admit(states, entry) ==
    Append(IF Len(states) >= MaxStates THEN Tail(states) ELSE states, entry)

\* The places of a state in the OrderedDict: at most one.
At(states, x) == {i \in DOMAIN states : states[i][1] = x}

Seen(states, x) ==
    IF At(states, x) = {} THEN 1 ELSE states[CHOOSE i \in At(states, x) : TRUE][2] + 1

Counted(states, x) ==
    LET new == <<x, Seen(states, x)>>
    IN  IF At(states, x) = {} THEN Admit(states, new)
        ELSE Append(RemoveAt(states, CHOOSE i \in At(states, x) : TRUE), new)

detect_usage(s, x) ==
    [Current(s) EXCEPT !.tokens = @ + 1, !.states = Counted(@, x)]

token_budget_exceeded(s) == Current(s).tokens + 1 > MaxTokens
agent_loop_state_repeat(s, x) == Seen(Current(s).states, x) >= RepeatAt

_cleanup(s) ==
    /\ usage[s].on /\ now - usage[s].first > Window
    /\ usage' = [usage EXCEPT ![s] = NoSession]
    /\ UNCHANGED <<now, bucket, prompts, asked, log>>

(***************************************************************************)
(* One request of a session.                                               *)
(***************************************************************************)
Rule == {"rate", "flood", "tokens", "loop"}

Hits(s, x) ==
    {rule \in Rule :
        \/ rule = "rate" /\ check_rate_limit(s)
        \/ rule = "flood" /\ check_prompt_flood(s, x)
        \/ rule = "tokens" /\ token_budget_exceeded(s)
        \/ rule = "loop" /\ agent_loop_state_repeat(s, x)}

detect(s, x) ==
    /\ asked < MaxCalls
    /\ asked' = asked + 1
    /\ log' = [log EXCEPT ![s] = Append(@,
          [text |-> x, time |-> now, hits |-> Hits(s, x)])]
    /\ bucket' = [bucket EXCEPT ![s] = consume(s)]
    /\ prompts' = [prompts EXCEPT ![s] = Remember(s, x)]
    /\ usage' = [usage EXCEPT ![s] = detect_usage(s, x)]
    /\ UNCHANGED now

Next ==
    \/ Tick
    \/ \E s \in Session : _cleanup(s) \/ \E x \in Text : detect(s, x)

Spec == Init /\ [][Next]_tvars

(***************************************************************************)
(* Properties.                                                             *)
(***************************************************************************)
\* An agent that spins on one state is caught after RepeatAt calls of its
\* session's window, however many other states fill the table before ("Eviction
\* costs history, never detection of an active loop").
LoopCaught ==
    \A s \in Session :
        LET c == log[s]  n == Len(c)
            spins == /\ n >= RepeatAt /\ usage[s].on
                     /\ \A i \in n - RepeatAt + 1 .. n :
                           c[i].text = c[n].text /\ c[i].time >= usage[s].first
        IN  spins => "loop" \in c[n].hits

\* What the bounded histories answer is what the whole log demands: a flood is
\* reported exactly when the last FloodMemory prompts of the session hold
\* enough copies, and no window lets through more than two buckets.
AbuseMatchesLog ==
    \A s \in Session :
        LET c == log[s]  n == Len(c)
            same(j, i) == /\ i < j /\ i >= j - FloodMemory /\ c[i].text = c[j].text
                          /\ c[j].time - c[i].time <= Window
        IN  \A j \in 1 .. n :
              /\ "flood" \in c[j].hits
                    <=> Cardinality({i \in 1 .. n : same(j, i)}) >= FloodAt
              /\ Cardinality({i \in 1 .. n : /\ "rate" \notin c[i].hits
                                             /\ c[i].time \in c[j].time .. c[j].time + Window - 1})
                    <= 2 * Rate * Window
=============================================================================
