------------------------------- MODULE GpuJobs -------------------------------
(***************************************************************************)
(* Candidates that are scored by the GPU engine instead of the CPU oracle  *)
(* (racing_kernel/rollout_eval.py): the admission gate                     *)
(* (bus/gpu_admission.py), the job that is published                       *)
(* (bus/gpu_publisher.py), and the poll for its result.                    *)
(*                                                                         *)
(* The engine is another program, which may stop at any time: it takes     *)
(* jobs from the stream, reports the depth of its queue, and publishes     *)
(* results, as do other producers.                                         *)
(* The gate's methods are called one at a time; what lies between two of   *)
(* them is not.                                                            *)
(***************************************************************************)
EXTENDS Naturals, Sequences, FiniteSets

CONSTANTS
    Callers,     \* evaluations that run side by side
    Islands,
    IslandOf,    \* the island of each
    Threshold,   \* queue_depth_threshold
    Quota,       \* max_in_flight_per_island
    Scan,        \* the results one poll looks at, 50
    MaxJobs,     \* bound: jobs that are published
    Others,      \* bound: results of other producers
    None

(* What the constants may be; the MC module assumes it.                     *)
ValidJobs ==
    /\ IsFiniteSet(Callers) /\ IslandOf \in [Callers -> Islands]
    /\ Threshold \in Nat /\ Quota \in Nat \ {0} /\ Scan \in Nat \ {0}
    /\ MaxJobs \in Nat /\ Others \in Nat

VARIABLES
    shared,      \* one gate is passed to every call, or each makes its own
    pc,          \* "Idle", "Publish", "Poll", "Found", "TimedOut"
    job,         \* the job of the call
    score,       \* what the call returns: "cpu", "zero" or "gpu", None before
    seen,        \* the results there were at the call's last poll
    inFlight,    \* _in_flight of the shared gate
    heartbeat,   \* the depth in the newest heartbeat, None without one
    queue,       \* the jobs the engine has not done
    results,     \* the result stream: the job, or None for another producer's
    minted       \* jobs so far

vars == <<shared, pc, job, score, seen, inFlight, heartbeat, queue, results, minted>>
callVars == <<shared, pc, job, score, seen, inFlight, minted>>
engineVars == <<heartbeat, queue, results>>

Outcomes == {"failed", "noLap", "lap"}
Result(j, outcome) == [job |-> j, outcome |-> outcome]

TypeOK ==
    /\ pc \in [Callers -> {"Idle", "Publish", "Poll", "Found", "TimedOut"}]
    /\ score \in [Callers -> {None, "cpu", "zero", "gpu"}]
    /\ inFlight \in [Islands -> Nat]
    /\ \A c \in Callers : seen[c] <= Len(results)

Init ==
    /\ shared \in BOOLEAN
    /\ pc = [c \in Callers |-> "Idle"]
    /\ job = [c \in Callers |-> None] /\ score = [c \in Callers |-> None]
    /\ seen = [c \in Callers |-> 0]
    /\ inFlight = [i \in Islands |-> 0]
    /\ heartbeat = None /\ queue = <<>> /\ results = <<>>
    /\ minted = 0
-----------------------------------------------------------------------------
(* _latest_heartbeat: None when Redis fails, or when the text of the entry *)
(* cannot be paired into keys and values; its age is not looked at.        *)
Reads == {heartbeat, None}

(* should_submit: the depth first, and then the quota of the island, which *)
(* a new gate has never counted.                                           *)
Allows(depth, i) ==
    /\ depth = None \/ depth <= Threshold
    /\ shared => inFlight[i] < Quota

(* evaluate_via_rollout up to the publish; a call that is deferred is      *)
(* scored by the oracle at once.                                           *)
Submit(c) ==
    /\ pc[c] = "Idle" /\ minted < MaxJobs
    /\ \E depth \in Reads :
          IF Allows(depth, IslandOf[c])
          THEN /\ pc' = [pc EXCEPT ![c] = "Publish"]
               /\ minted' = minted + 1
               /\ job' = [job EXCEPT ![c] = minted']
          ELSE UNCHANGED <<pc, minted, job>>
    /\ UNCHANGED <<shared, score, seen, inFlight, engineVars>>

(* record_submitted of the gate.                                           *)
Record(c) == inFlight' = IF shared THEN [inFlight EXCEPT ![IslandOf[c]] = @ + 1] ELSE inFlight

(* The SDK takes the job, or says so and does not.                         *)
Publish(c) ==
    /\ pc[c] = "Publish"
    /\ pc' = [pc EXCEPT ![c] = "Poll"]
    /\ queue' \in {Append(queue, job[c]), queue}
    /\ seen' = [seen EXCEPT ![c] = 0]
    /\ Record(c)
    /\ UNCHANGED <<shared, job, score, heartbeat, results, minted>>

(* The SDK is missing, refuses the job, or is killed for its time when it  *)
(* has already added it.                                                   *)
PublishFails(c) ==
    /\ pc[c] = "Publish"
    /\ pc' = [pc EXCEPT ![c] = "Idle"]
    /\ job' = [job EXCEPT ![c] = None]
    /\ queue' \in {Append(queue, job[c]), queue}
    /\ UNCHANGED <<shared, score, seen, inFlight, heartbeat, results, minted>>

Newest == {k \in DOMAIN results : k > Len(results) - Scan}

(* Mutant: the slot is given back only when there was a result.            *)
MutantComplete(c, found) ==
    inFlight' = IF shared /\ found THEN [inFlight EXCEPT ![IslandOf[c]] = @ - 1] ELSE inFlight

(* record_completed, in a finally: a counter is never below zero.          *)
Complete(c, found) ==
    inFlight' = IF shared /\ inFlight[IslandOf[c]] > 0
                THEN [inFlight EXCEPT ![IslandOf[c]] = @ - 1] ELSE inFlight

(* _fitness_from_result: nothing for a job that failed, or without a lap.  *)
Fitness(result) == IF result.outcome = "lap" THEN "gpu" ELSE "zero"

Mine(c) == {k \in Newest : results[k].job = job[c]}

(* A poll of the newest results, or of none when Redis fails.              *)
Poll(c) ==
    /\ pc[c] = "Poll"
    /\ IF Mine(c) = {}
       THEN /\ seen[c] < Len(results)
            /\ seen' = [seen EXCEPT ![c] = Len(results)]
            /\ UNCHANGED <<pc, score, inFlight>>
       ELSE /\ pc' = [pc EXCEPT ![c] = "Found"]
            /\ \E k \in Mine(c) : score' = [score EXCEPT ![c] = Fitness(results[k])]
            /\ seen' = [seen EXCEPT ![c] = Len(results)]
            /\ Complete(c, TRUE)
    /\ UNCHANGED <<shared, job, minted, engineVars>>

(* The deadline: the slot is free, whatever the engine still has to do.    *)
Timeout(c) ==
    /\ pc[c] = "Poll"
    /\ pc' = [pc EXCEPT ![c] = "TimedOut"]
    /\ score' = [score EXCEPT ![c] = "cpu"]
    /\ Complete(c, FALSE)
    /\ UNCHANGED <<shared, job, seen, minted, engineVars>>

Return(c) ==
    /\ pc[c] \in {"Found", "TimedOut"}
    /\ pc' = [pc EXCEPT ![c] = "Idle"]
    /\ job' = [job EXCEPT ![c] = None]
    /\ score' = [score EXCEPT ![c] = None]
    /\ seen' = [seen EXCEPT ![c] = 0]
    /\ UNCHANGED <<shared, inFlight, minted, engineVars>>
-----------------------------------------------------------------------------
Heartbeat ==
    /\ heartbeat' = Len(queue)
    /\ UNCHANGED <<callVars, queue, results>>

EngineRuns ==
    /\ queue # <<>>
    /\ queue' = Tail(queue)
    /\ \E o \in Outcomes : results' = Append(results, Result(Head(queue), o))
    /\ UNCHANGED <<callVars, heartbeat>>

OtherResult ==
    /\ Cardinality({k \in DOMAIN results : results[k].job = None}) < Others
    /\ results' = Append(results, Result(None, "lap"))
    /\ UNCHANGED <<callVars, heartbeat, queue>>

Engine == Heartbeat \/ EngineRuns \/ OtherResult

Call(c) == Submit(c) \/ Publish(c) \/ PublishFails(c) \/ Poll(c) \/ Timeout(c) \/ Return(c)

Next == (\E c \in Callers : Call(c)) \/ Engine

Spec == Init /\ [][Next]_vars
-----------------------------------------------------------------------------
(* The slots a shared gate counts for an island are exactly the calls that *)
(* wait for a result: none leaks when a call times out, when its publish   *)
(* fails or when its result comes late.                                    *)
SlotsBalanced ==
    shared => \A i \in Islands :
                 inFlight[i] = Cardinality({c \in Callers : IslandOf[c] = i /\ pc[c] = "Poll"})

(* A call that found a result has its own job's, and one that timed out    *)
(* missed a result only if it came after the last poll or if as many as    *)
(* one poll looks at came after it.                                        *)
OwnResult ==
    \A c \in Callers :
        /\ pc[c] = "Found" =>
              \E k \in DOMAIN results : results[k].job = job[c] /\ score[c] = Fitness(results[k])
        /\ pc[c] = "TimedOut" =>
              \A k \in 1 .. seen[c] : results[k].job = job[c] => k + Scan <= seen[c]
==============================================================================
