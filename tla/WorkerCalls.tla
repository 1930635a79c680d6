------------------------------ MODULE WorkerCalls ------------------------------
(***************************************************************************)
(* The worker that writes the code of a case (llm/worker.py): the retries, *)
(* the second model, the usage that the evaluator reads after a call, and  *)
(* the events about a model that has become slow.                          *)
(***************************************************************************)
EXTENDS Naturals, Sequences, FiniteSets

CONSTANTS
    MaxRetries,   \* max_retries, for each model
    Rates,        \* the rates of tokens an answer may have
    History,      \* the calls whose transport errors are remembered, 10
    Debounce,     \* the pause between two events, 30 s
    MaxTime,      \* bound: the clock
    MaxCalls,     \* bound: calls of generate
    None

(* What the constants may be; the MC module assumes it.                     *)
ValidWorker ==
    /\ MaxRetries \in Nat \ {0} /\ Rates \subseteq Nat /\ Rates # {}
    /\ History \in Nat \ {0} /\ Debounce \in Nat \ {0}
    /\ MaxTime \in Nat /\ MaxCalls \in Nat

VARIABLES
    clock,
    pc,          \* "Idle", "Post", "Wait", "Returned" or "Raised"
    model,       \* the model that is asked
    attempt,     \* posts to it
    posts,       \* posts of this call
    timeouts,    \* _qp_inflight_timeouts
    result,      \* the result of the call: [model, rate], or None when both models failed
    lastUsage,   \* _last_usage: the call it belongs to
    told,        \* the worker events of this call
    tally,       \* _qp_timeout_history
    first,       \* _qp_first_calls
    baseline,    \* _qp_baseline_tps
    pressure,    \* when the last two pressure events were emitted
    call         \* the number of the call

vars == <<clock, pc, model, attempt, posts, timeouts, result, lastUsage, told, tally,
          first, baseline, pressure, call>>
callVars == <<model, attempt, posts, timeouts, result>>
usageVars == <<lastUsage, told>>
pressureVars == <<tally, first, baseline, pressure>>

Models == {"primary", "fallback"}

TypeOK ==
    /\ pc \in {"Idle", "Post", "Wait", "Returned", "Raised"}
    /\ model \in Models /\ attempt \in 0 .. MaxRetries
    /\ timeouts \in Nat /\ posts \in Nat
    /\ result = None \/ result \in [model : Models, rate : Nat]
    /\ Len(tally) <= History /\ Len(first) <= 2 /\ Len(pressure) <= 2
    /\ baseline = None \/ baseline \in Rates

Init ==
    /\ clock = 0 /\ pc = "Idle" /\ call = 0
    /\ model = "primary" /\ attempt = 0 /\ posts = 0 /\ timeouts = 0 /\ result = None
    /\ lastUsage = 0 /\ told = 0
    /\ tally = <<>> /\ first = <<>> /\ baseline = None /\ pressure = <<>>

Tick ==
    /\ clock < MaxTime
    /\ clock' = clock + 1
    /\ UNCHANGED <<pc, call, callVars, usageVars, pressureVars>>

Generate ==
    /\ pc \in {"Idle", "Returned", "Raised"} /\ call < MaxCalls
    /\ call' = call + 1
    /\ pc' = "Post"
    /\ model' = "primary" /\ attempt' = 0 /\ posts' = 0 /\ timeouts' = 0 /\ result' = None
    /\ told' = 0
    /\ UNCHANGED <<clock, lastUsage, pressureVars>>

LastN(s, n) == IF Len(s) <= n THEN s ELSE SubSeq(s, Len(s) - n + 1, Len(s))

Median3(s) == CHOOSE v \in {s[1], s[2], s[3]} :
                 /\ Cardinality({k \in 1 .. 3 : s[k] < v}) <= 1
                 /\ Cardinality({k \in 1 .. 3 : s[k] > v}) <= 1

(* At most one event in a pause.                                           *)
MayTell(times, now) == times = <<>> \/ now - times[Len(times)] >= Debounce

(* The usage and the event of a call, when it returns.                     *)
Tell == lastUsage' = call /\ told' = told + 1

(***************************************************************************)
(* _record_call_for_queue_pressure.  The first three successes make the    *)
(* baseline, which then stays.  A call is slow for its rate, or for its    *)
(* latency against the last five, which only their history decides.        *)
(***************************************************************************)
RecordCall(r) ==
    /\ tally' = LastN(Append(tally, timeouts'), History)
    /\ IF r = None \/ r.rate = 0 THEN UNCHANGED <<first, baseline, pressure>>
       ELSE IF baseline = None
       THEN LET s == Append(first, r.rate)
            IN /\ IF Len(s) = 3 THEN first' = <<>> /\ baseline' = Median3(s)
                               ELSE first' = s /\ UNCHANGED baseline
               /\ UNCHANGED pressure
       ELSE /\ UNCHANGED <<first, baseline>>
            /\ \E slow \in {2 * r.rate < baseline, TRUE} :
                 pressure' = IF slow /\ MayTell(pressure, clock)
                             THEN LastN(Append(pressure, clock), 2) ELSE pressure

Finish(r) ==
    /\ pc' = "Returned"
    /\ result' = r
    /\ Tell
    /\ RecordCall(r)

(* The model has failed: the other one is asked, or the call gives up.     *)
GiveUp ==
    IF model = "primary"
    THEN /\ model' = "fallback" /\ attempt' = 0 /\ pc' = "Post"
         /\ UNCHANGED <<result, usageVars, pressureVars>>
    ELSE UNCHANGED <<model, attempt>> /\ Finish(None)

Posted == /\ pc = "Post" /\ posts' = posts + 1 /\ UNCHANGED <<clock, call>>

(* An answer, with whatever text; one without tokens has rate 0.           *)
Answer(rate) ==
    /\ Posted
    /\ UNCHANGED <<model, attempt, timeouts>>
    /\ Finish([model |-> model, rate |-> rate])

(* A status that is not retried, or an answer of another shape.            *)
Refused ==
    /\ Posted
    /\ UNCHANGED timeouts
    /\ GiveUp

(* Mutant: a transport error is no attempt.                                *)
MutantTransient(counts) ==
    /\ Posted
    /\ timeouts' = IF counts THEN timeouts + 1 ELSE timeouts
    /\ IF attempt + 1 >= MaxRetries
       THEN GiveUp
       ELSE /\ pc' = "Wait" /\ attempt' = IF counts THEN attempt ELSE attempt + 1
            /\ UNCHANGED <<model, result, usageVars, pressureVars>>

(* A status that is retried, or a transport error, which is counted.       *)
Transient(counts) ==
    /\ Posted
    /\ timeouts' = IF counts THEN timeouts + 1 ELSE timeouts
    /\ IF attempt + 1 >= MaxRetries
       THEN GiveUp
       ELSE /\ pc' = "Wait" /\ attempt' = attempt + 1
            /\ UNCHANGED <<model, result, usageVars, pressureVars>>

Retry ==
    /\ pc = "Wait"
    /\ pc' = "Post"
    /\ UNCHANGED <<clock, call, callVars, usageVars, pressureVars>>

(* A body that is no JSON, or a Retry-After that is no finite number.      *)
Raise ==
    /\ Posted
    /\ pc' = "Raised"
    /\ UNCHANGED <<model, attempt, timeouts, result, usageVars, pressureVars>>

Working ==
    \/ \E rate \in Rates \cup {0} : Answer(rate)
    \/ Refused \/ Transient(TRUE) \/ Transient(FALSE) \/ Retry \/ Raise

Next == Tick \/ Generate \/ Working

Spec == Init /\ [][Next]_vars
-----------------------------------------------------------------------------
(* A call of generate makes at most max_retries posts to each model.       *)
PostsBounded == posts <= 2 * MaxRetries

(* Two pressure events are never closer than the debounce, and none comes  *)
(* before there is a baseline, whatever the calls in between do.           *)
PressurePaced ==
    /\ Len(pressure) = 2 => pressure[2] - pressure[1] >= Debounce
    /\ pressure # <<>> => baseline # None
=============================================================================
