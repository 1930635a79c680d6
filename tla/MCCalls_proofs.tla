----------------------------- MODULE MCCalls_proofs -----------------------------
(***************************************************************************)
(* What the calls of models and tools promise, for any number of callers,  *)
(* any answers and any bounds.  The machines share no state, so that each  *)
(* has an invariant of its own.                                            *)
(***************************************************************************)
EXTENDS MCCalls, WellFoundedInduction, SequenceTheorems, FiniteSetTheorems, TLAPS

LEMMA Appended ==
    ASSUME NEW S, NEW s \in Seq(S), NEW x \in S
    PROVE  LET t == Append(s, x)
           IN /\ t \in Seq(S) /\ Len(s) \in Nat /\ Len(t) = Len(s) + 1
              /\ DOMAIN s = 1 .. Len(s) /\ DOMAIN t = 1 .. Len(s) + 1
              /\ \A k \in 1 .. Len(s) : t[k] = s[k]
              /\ t[Len(s) + 1] = x
BY AppendProperties, LenProperties
(* No step changes the machine that runs.                                  *)
LEMMA OneMachine == Next => machine' = machine
BY DEF Next, WorkerNext, ImproverNext, EvaluatorNext, BudgetNext, GpuNext,
   CurriculumNext, RenameNext, ShaderNext, PublishNext, ModelsNext,
   BesideWorker, BesideImprover, BesideEvaluator, BesideBudget, BesideGpu,
   BesideCurriculum, BesideRename, BesideShader, BesidePublish, BesideModels
-----------------------------------------------------------------------------
(* The evaluations that wait for the GPU.                                  *)
LEMMA JobsFacts ==
    /\ IsFiniteSet(Callers) /\ IslandOf \in [Callers -> Islands]
    /\ Threshold \in Nat /\ Quota \in Nat \ {0} /\ Scan \in Nat \ {0}
    /\ MaxJobs \in Nat /\ Others \in Nat
    /\ \A S : Jobs!Cardinality(S) = Cardinality(S)
BY CallsAssumption DEF Jobs!ValidJobs, Jobs!IsFiniteSet, IsFiniteSet, Jobs!Cardinality,
   Cardinality

JobIds == Nat \cup {None}

GpuType ==
    /\ shared \in BOOLEAN
    /\ pc \in [Callers -> {"Idle", "Publish", "Poll", "Found", "TimedOut"}]
    /\ job \in [Callers -> JobIds]
    /\ score \in [Callers -> {None, "cpu", "zero", "gpu"}]
    /\ seen \in [Callers -> Nat] /\ \A c \in Callers : seen[c] <= Len(results)
    /\ inFlight \in [Islands -> Nat]
    /\ queue \in Seq(JobIds)
    /\ results \in Seq([job : JobIds, outcome : Jobs!Outcomes])
    /\ minted \in Nat

Waiting(p, i) == {c \in Callers : IslandOf[c] = i /\ p[c] = "Poll"}

Balanced ==
    shared => \A i \in Islands : inFlight[i] = Cardinality(Waiting(pc, i))

(* The results that a call has looked at are not its own, or others have    *)
(* crowded them out.                                                       *)
Overlooked(c) ==
    \A k \in 1 .. seen[c] : results[k].job = job[c] => k + Scan <= seen[c]

Owned(c) ==
    \E k \in 1 .. Len(results) : results[k].job = job[c] /\ score[c] = Jobs!Fitness(results[k])

Answered ==
    \A c \in Callers :
        /\ pc[c] \in {"Poll", "TimedOut"} => Overlooked(c)
        /\ pc[c] = "Found" => Owned(c)

GpuInv == GpuType /\ Balanced /\ Answered

LEMMA WaitingFinite ==
    ASSUME NEW p, NEW i
    PROVE  IsFiniteSet(Waiting(p, i)) /\ Cardinality(Waiting(p, i)) \in Nat
<1>1. Waiting(p, i) \subseteq Callers
    BY DEF Waiting
<1> QED BY <1>1, JobsFacts, FS_Subset, FS_CardinalityType

LEMMA StartsWaiting ==
    ASSUME GpuType, NEW c \in Callers, pc[c] # "Poll", pc' = [pc EXCEPT ![c] = "Poll"],
           NEW i \in Islands
    PROVE  Cardinality(Waiting(pc', i))
              = Cardinality(Waiting(pc, i)) + (IF i = IslandOf[c] THEN 1 ELSE 0)
<1>1. IsFiniteSet(Waiting(pc, i)) /\ Cardinality(Waiting(pc, i)) \in Nat
    BY WaitingFinite
<1>2. CASE i = IslandOf[c]
    <2>1. Waiting(pc', i) = Waiting(pc, i) \cup {c} /\ c \notin Waiting(pc, i)
        BY <1>2 DEF Waiting, GpuType
    <2>2. Cardinality(Waiting(pc, i) \cup {c}) = Cardinality(Waiting(pc, i)) + 1
        BY <1>1, <2>1, FS_AddElement
    <2> QED BY <1>2, <2>1, <2>2
<1>3. CASE i # IslandOf[c]
    <2>1. Waiting(pc', i) = Waiting(pc, i)
        BY <1>3 DEF Waiting, GpuType
    <2> QED BY <1>1, <1>3, <2>1
<1> QED BY <1>2, <1>3

LEMMA StopsWaiting ==
    ASSUME GpuType, NEW c \in Callers, pc[c] = "Poll", NEW s, s # "Poll",
           pc' = [pc EXCEPT ![c] = s], NEW i \in Islands
    PROVE  /\ i = IslandOf[c] => Cardinality(Waiting(pc, i)) > 0
           /\ Cardinality(Waiting(pc', i))
                 = Cardinality(Waiting(pc, i)) - (IF i = IslandOf[c] THEN 1 ELSE 0)
<1>1. IsFiniteSet(Waiting(pc', i)) /\ Cardinality(Waiting(pc', i)) \in Nat
    BY WaitingFinite
<1>2. CASE i = IslandOf[c]
    <2>1. Waiting(pc, i) = Waiting(pc', i) \cup {c} /\ c \notin Waiting(pc', i)
        BY <1>2 DEF Waiting, GpuType
    <2>2. Cardinality(Waiting(pc', i) \cup {c}) = Cardinality(Waiting(pc', i)) + 1
        BY <1>1, <2>1, FS_AddElement
    <2> QED BY <1>1, <1>2, <2>1, <2>2
<1>3. CASE i # IslandOf[c]
    <2>1. Waiting(pc, i) = Waiting(pc', i)
        BY <1>3 DEF Waiting, GpuType
    <2> QED BY <1>1, <1>3, <2>1
<1> QED BY <1>2, <1>3

LEMMA OthersWait ==
    ASSUME GpuType, NEW c \in Callers, pc[c] # "Poll", NEW s, s # "Poll",
           pc' = [pc EXCEPT ![c] = s]
    PROVE  \A i \in Islands : Waiting(pc', i) = Waiting(pc, i)
BY DEF Waiting, GpuType

(* A call goes on: the results that it owns or overlooked are what they     *)
(* were, and those of every other call.                                    *)
LEMMA OthersAnswered ==
    ASSUME GpuInv, NEW c \in Callers, UNCHANGED results,
           \A d \in Callers \ {c} : /\ pc'[d] = pc[d] /\ job'[d] = job[d]
                                    /\ score'[d] = score[d] /\ seen'[d] = seen[d],
           pc'[c] \in {"Poll", "TimedOut"} => Overlooked(c)',
           pc'[c] = "Found" => Owned(c)'
    PROVE  Answered'
<1>1. ASSUME NEW d \in Callers \ {c}
      PROVE  /\ pc'[d] \in {"Poll", "TimedOut"} => Overlooked(d)'
             /\ pc'[d] = "Found" => Owned(d)'
    BY DEF GpuInv, Answered, Overlooked, Owned, Jobs!Fitness
<1> QED BY <1>1 DEF Answered

LEMMA GpuSubmit == ASSUME GpuInv, NEW c \in Callers, Jobs!Submit(c) PROVE GpuInv'
<1> USE DEF Jobs!Submit, Jobs!engineVars
<1>1. GpuType /\ pc[c] = "Idle"
    BY DEF GpuInv
<1>2. CASE UNCHANGED <<pc, minted, job>>
    BY <1>2 DEF GpuInv, GpuType, Balanced, Waiting, Answered, Overlooked, Owned,
       Jobs!Fitness
<1>3. CASE /\ pc' = [pc EXCEPT ![c] = "Publish"] /\ minted' = minted + 1
           /\ job' = [job EXCEPT ![c] = minted']
    <2>1. GpuType'
        BY <1>1, <1>3 DEF GpuType, JobIds
    <2>2. Balanced'
        BY <1>1, <1>3, OthersWait DEF GpuInv, Balanced
    <2>3. Answered'
        BY <1>1, <1>3, OthersAnswered DEF GpuType
    <2> QED BY <2>1, <2>2, <2>3 DEF GpuInv
<1> QED BY <1>2, <1>3

LEMMA GpuPublish == ASSUME GpuInv, NEW c \in Callers, Jobs!Publish(c) PROVE GpuInv'
<1> USE DEF Jobs!Publish, Jobs!Record
<1>1. GpuType /\ pc[c] = "Publish"
    BY DEF GpuInv
<1>2. IslandOf[c] \in Islands
    BY JobsFacts
<1>3. inFlight' \in [Islands -> Nat]
    BY <1>1, <1>2 DEF GpuType
<1>4. queue' \in Seq(JobIds)
    <2>1. queue \in Seq(JobIds) /\ job[c] \in JobIds
        BY <1>1 DEF GpuType
    <2>2. Append(queue, job[c]) \in Seq(JobIds)
        BY <2>1, Appended
    <2> QED BY <2>1, <2>2
<1>5. GpuType'
    <2>1. \A d \in Callers : seen'[d] <= Len(results') /\ Len(results) \in Nat
        BY <1>1, LenProperties DEF GpuType
    <2> QED BY <1>1, <1>3, <1>4, <2>1 DEF GpuType
<1>6. Balanced'
    <2> SUFFICES ASSUME shared, NEW i \in Islands
                 PROVE  inFlight'[i] = Cardinality(Waiting(pc', i))
        BY DEF Balanced
    <2>1. inFlight[i] = Cardinality(Waiting(pc, i)) /\ inFlight[i] \in Nat
        BY <1>1 DEF GpuInv, Balanced, GpuType
    <2>2. inFlight'[i] = inFlight[i] + (IF i = IslandOf[c] THEN 1 ELSE 0)
        BY <1>1, <2>1 DEF GpuType
    <2>3. Cardinality(Waiting(pc', i))
             = Cardinality(Waiting(pc, i)) + (IF i = IslandOf[c] THEN 1 ELSE 0)
        BY <1>1, StartsWaiting
    <2> QED BY <2>1, <2>2, <2>3
<1>7. Answered'
    <2>1. Overlooked(c)' /\ pc'[c] = "Poll"
        BY <1>1 DEF Overlooked, GpuType
    <2> QED BY <1>1, <2>1, OthersAnswered DEF GpuType
<1> QED BY <1>5, <1>6, <1>7 DEF GpuInv

LEMMA GpuPublishFails == ASSUME GpuInv, NEW c \in Callers, Jobs!PublishFails(c) PROVE GpuInv'
<1> USE DEF Jobs!PublishFails
<1>1. GpuType /\ pc[c] = "Publish"
    BY DEF GpuInv
<1>2. queue' \in Seq(JobIds)
    <2>1. queue \in Seq(JobIds) /\ job[c] \in JobIds
        BY <1>1 DEF GpuType
    <2>2. Append(queue, job[c]) \in Seq(JobIds)
        BY <2>1, Appended
    <2> QED BY <2>1, <2>2
<1>3. GpuType'
    BY <1>1, <1>2 DEF GpuType, JobIds
<1>4. Balanced'
    BY <1>1, OthersWait DEF GpuInv, Balanced
<1>5. Answered'
    BY <1>1, OthersAnswered DEF GpuType
<1> QED BY <1>3, <1>4, <1>5 DEF GpuInv

(* The slot of a call that waits is given back, whatever became of it.      *)
LEMMA SlotGivenBack ==
    ASSUME GpuInv, NEW c \in Callers, pc[c] = "Poll", NEW s, s # "Poll",
           pc' = [pc EXCEPT ![c] = s], NEW found, Jobs!Complete(c, found), UNCHANGED shared
    PROVE  inFlight' \in [Islands -> Nat] /\ Balanced'
<1> USE DEF Jobs!Complete
<1>1. GpuType /\ IslandOf[c] \in Islands
    BY JobsFacts DEF GpuInv
<1>2. inFlight' \in [Islands -> Nat]
    <2>1. CASE shared /\ inFlight[IslandOf[c]] > 0
        <3>1. inFlight[IslandOf[c]] - 1 \in Nat
            BY <1>1, <2>1 DEF GpuType
        <3> QED BY <1>1, <2>1, <3>1 DEF GpuType
    <2>2. CASE ~(shared /\ inFlight[IslandOf[c]] > 0)
        BY <1>1, <2>2 DEF GpuType
    <2> QED BY <2>1, <2>2
<1>3. ASSUME shared, NEW i \in Islands PROVE inFlight'[i] = Cardinality(Waiting(pc', i))
    <2>1. inFlight[i] = Cardinality(Waiting(pc, i)) /\ inFlight[i] \in Nat
        BY <1>1, <1>3 DEF GpuInv, Balanced, GpuType
    <2>2. /\ i = IslandOf[c] => Cardinality(Waiting(pc, i)) > 0
          /\ Cardinality(Waiting(pc', i))
                = Cardinality(Waiting(pc, i)) - (IF i = IslandOf[c] THEN 1 ELSE 0)
        BY <1>1, StopsWaiting
    <2>3. inFlight'[i] = inFlight[i] - (IF i = IslandOf[c] THEN 1 ELSE 0)
        BY <1>1, <1>3, <2>1, <2>2 DEF GpuType
    <2> QED BY <2>1, <2>2, <2>3
<1> QED BY <1>2, <1>3 DEF Balanced

LEMMA GpuPoll == ASSUME GpuInv, NEW c \in Callers, Jobs!Poll(c) PROVE GpuInv'
<1> USE DEF Jobs!Poll, Jobs!engineVars
<1>1. GpuType /\ pc[c] = "Poll"
    BY DEF GpuInv
<1>2. /\ Len(results) \in Nat /\ DOMAIN results = 1 .. Len(results)
      /\ Scan \in Nat \ {0} /\ seen[c] \in Nat
    BY <1>1, LenProperties, JobsFacts DEF GpuType
<1>3. \A k \in 1 .. Len(results) : k \in Jobs!Mine(c) <=>
         k > Len(results) - Scan /\ results[k].job = job[c]
    BY <1>2 DEF Jobs!Mine, Jobs!Newest
<1>4. Jobs!Mine(c) \subseteq 1 .. Len(results)
    BY <1>2 DEF Jobs!Mine, Jobs!Newest
<1>5. CASE Jobs!Mine(c) = {}
    <2>1. /\ seen' = [seen EXCEPT ![c] = Len(results)]
          /\ UNCHANGED <<pc, score, inFlight, shared, job, minted, heartbeat, queue, results>>
        BY <1>5
    <2>2. GpuType'
        BY <1>1, <1>2, <2>1 DEF GpuType
    <2>3. Balanced'
        BY <2>1 DEF GpuInv, Balanced
    <2>4. Overlooked(c)'
        <3>1. seen'[c] = Len(results)
            BY <1>1, <2>1 DEF GpuType
        <3>2. ASSUME NEW k \in 1 .. Len(results), results[k].job = job[c]
              PROVE  k + Scan <= Len(results)
            <4>1. ~(k > Len(results) - Scan)
                BY <1>3, <1>5, <3>2
            <4> QED BY <1>2, <4>1
        <3> QED BY <2>1, <3>1, <3>2 DEF Overlooked
    <2>5. Answered'
        BY <1>1, <2>1, <2>4, OthersAnswered DEF GpuType
    <2> QED BY <2>2, <2>3, <2>5 DEF GpuInv
<1>6. CASE Jobs!Mine(c) # {}
    <2>1. PICK k \in Jobs!Mine(c) : score' = [score EXCEPT ![c] = Jobs!Fitness(results[k])]
        BY <1>6
    <2>2. /\ pc' = [pc EXCEPT ![c] = "Found"] /\ seen' = [seen EXCEPT ![c] = Len(results)]
          /\ Jobs!Complete(c, TRUE)
          /\ UNCHANGED <<shared, job, minted, heartbeat, queue, results>>
        BY <1>6
    <2>3. inFlight' \in [Islands -> Nat] /\ Balanced'
        BY <1>1, <2>2, SlotGivenBack
    <2>4. GpuType'
        <3>1. Jobs!Fitness(results[k]) \in {None, "cpu", "zero", "gpu"}
            BY DEF Jobs!Fitness
        <3> QED BY <1>1, <1>2, <2>1, <2>2, <2>3, <3>1 DEF GpuType
    <2>5. Owned(c)'
        <3>1. score'[c] = Jobs!Fitness(results[k])
            BY <1>1, <2>1 DEF GpuType
        <3>2. k \in 1 .. Len(results) /\ results[k].job = job[c]
            BY <1>3, <1>4
        <3> QED BY <2>2, <3>1, <3>2 DEF Owned, Jobs!Fitness
    <2>6. Answered'
        <3>1. pc'[c] = "Found" /\ \A d \in Callers \ {c} :
                 /\ pc'[d] = pc[d] /\ job'[d] = job[d]
                 /\ score'[d] = score[d] /\ seen'[d] = seen[d]
            BY <1>1, <2>1, <2>2 DEF GpuType
        <3> QED BY <2>2, <2>5, <3>1, OthersAnswered
    <2> QED BY <2>3, <2>4, <2>6 DEF GpuInv
<1> QED BY <1>5, <1>6

LEMMA GpuTimeout == ASSUME GpuInv, NEW c \in Callers, Jobs!Timeout(c) PROVE GpuInv'
<1> USE DEF Jobs!Timeout, Jobs!engineVars
<1>1. GpuType /\ pc[c] = "Poll"
    BY DEF GpuInv
<1>2. inFlight' \in [Islands -> Nat] /\ Balanced'
    BY <1>1, SlotGivenBack
<1>3. GpuType'
    BY <1>1, <1>2 DEF GpuType
<1>4. Overlooked(c)' /\ pc'[c] = "TimedOut"
    BY <1>1 DEF GpuInv, Answered, Overlooked, GpuType
<1>5. Answered'
    BY <1>1, <1>4, OthersAnswered DEF GpuType
<1> QED BY <1>2, <1>3, <1>5 DEF GpuInv

LEMMA GpuReturn == ASSUME GpuInv, NEW c \in Callers, Jobs!Return(c) PROVE GpuInv'
<1> USE DEF Jobs!Return, Jobs!engineVars
<1>1. GpuType /\ pc[c] \in {"Found", "TimedOut"}
    BY DEF GpuInv
<1>2. Len(results) \in Nat
    BY <1>1, LenProperties DEF GpuType
<1>3. GpuType'
    BY <1>1, <1>2 DEF GpuType, JobIds
<1>4. Balanced'
    BY <1>1, OthersWait DEF GpuInv, Balanced
<1>5. Answered'
    BY <1>1, OthersAnswered DEF GpuType
<1> QED BY <1>3, <1>4, <1>5 DEF GpuInv

(* The engine, and other producers: the results only grow.                  *)
LEMMA GpuEngine == ASSUME GpuInv, Jobs!Engine PROVE GpuInv'
<1>1. GpuType
    BY DEF GpuInv
<1>2. /\ UNCHANGED <<shared, pc, job, score, seen, inFlight, minted>>
      /\ queue' \in Seq(JobIds)
      /\ \/ results' = results
         \/ \E x \in [job : JobIds, outcome : Jobs!Outcomes] : results' = Append(results, x)
    <2>1. CASE Jobs!Heartbeat
        BY <1>1, <2>1 DEF Jobs!Heartbeat, Jobs!callVars, GpuType
    <2>2. CASE Jobs!EngineRuns
        <3>1. Head(queue) \in JobIds /\ Tail(queue) \in Seq(JobIds)
            BY <1>1, <2>2, HeadTailProperties DEF Jobs!EngineRuns, GpuType
        <3>2. \A o \in Jobs!Outcomes : Jobs!Result(Head(queue), o)
                 \in [job : JobIds, outcome : Jobs!Outcomes]
            BY <3>1 DEF Jobs!Result
        <3> QED BY <2>2, <3>1, <3>2 DEF Jobs!EngineRuns, Jobs!callVars
    <2>3. CASE Jobs!OtherResult
        <3>1. Jobs!Result(None, "lap") \in [job : JobIds, outcome : Jobs!Outcomes]
            BY DEF Jobs!Result, Jobs!Outcomes, JobIds
        <3> QED BY <1>1, <2>3, <3>1 DEF Jobs!OtherResult, Jobs!callVars, GpuType
    <2> QED BY <2>1, <2>2, <2>3 DEF Jobs!Engine
<1>3. /\ results' \in Seq([job : JobIds, outcome : Jobs!Outcomes])
      /\ Len(results) \in Nat /\ Len(results') \in Nat /\ Len(results) <= Len(results')
      /\ \A k \in 1 .. Len(results) : results'[k] = results[k]
    <2>1. results \in Seq([job : JobIds, outcome : Jobs!Outcomes])
        BY <1>1 DEF GpuType
    <2>2. CASE results' = results
        BY <2>1, <2>2, LenProperties
    <2>3. ASSUME NEW x \in [job : JobIds, outcome : Jobs!Outcomes],
                 results' = Append(results, x)
          PROVE  <1>3
        BY <2>1, <2>3, Appended
    <2> QED BY <1>2, <2>2, <2>3
<1>4. GpuType'
    BY <1>1, <1>2, <1>3 DEF GpuType
<1>5. Balanced'
    BY <1>2 DEF GpuInv, Balanced
<1>6. Answered'
    <2> SUFFICES ASSUME NEW c \in Callers
                 PROVE  /\ pc[c] \in {"Poll", "TimedOut"} => Overlooked(c)'
                        /\ pc[c] = "Found" => Owned(c)'
        BY <1>2 DEF Answered
    <2>1. seen[c] \in Nat /\ seen[c] <= Len(results)
        BY <1>1 DEF GpuType
    <2>2. \A k \in 1 .. seen[c] : k \in 1 .. Len(results)
        BY <1>3, <2>1
    <2>3. Overlooked(c) => Overlooked(c)'
        BY <1>2, <1>3, <2>2 DEF Overlooked
    <2>4. \A k \in 1 .. Len(results) : k \in 1 .. Len(results')
        BY <1>3
    <2>5. Owned(c) => Owned(c)'
        BY <1>2, <1>3, <2>4 DEF Owned, Jobs!Fitness
    <2> QED BY <2>3, <2>5 DEF GpuInv, Answered
<1> QED BY <1>4, <1>5, <1>6 DEF GpuInv

LEMMA GpuInit == ASSUME Jobs!Init PROVE GpuInv
<1> USE DEF Jobs!Init
<1>1. results \in Seq([job : JobIds, outcome : Jobs!Outcomes]) /\ Len(results) = 0
    BY EmptySeq
<1>2. queue \in Seq(JobIds)
    BY EmptySeq
<1>3. GpuType
    BY <1>1, <1>2 DEF GpuType, JobIds
<1>4. Balanced
    <2>1. \A i \in Islands : Waiting(pc, i) = {}
        BY DEF Waiting
    <2> QED BY <2>1, FS_EmptySet DEF Balanced
<1>5. Answered
    BY DEF Answered
<1> QED BY <1>3, <1>4, <1>5 DEF GpuInv

LEMMA GpuStep == ASSUME GpuInv, Jobs!Next PROVE GpuInv'
BY GpuSubmit, GpuPublish, GpuPublishFails, GpuPoll, GpuTimeout, GpuReturn, GpuEngine
DEF Jobs!Next, Jobs!Call

(* A slot of a shared gate is counted for exactly the calls that wait, and *)
(* a call is scored by its own job or has missed its result for a reason   *)
(* (bus/gpu_admission.py, racing_kernel/rollout_eval.py), for any number   *)
(* of callers and islands, any quota and any number of results a poll      *)
(* looks at.                                                               *)
THEOREM GateNeverLeaks == Spec => []GpuSound
<1> DEFINE I == machine = "gpu" => GpuInv
<1>1. Init => I
    BY GpuInit DEF Init
<1>2. I /\ [Next]_vars => I'
    <2> SUFFICES ASSUME I, [Next]_vars, machine' = "gpu" PROVE GpuInv'
        OBVIOUS
    <2>1. CASE GpuNext
        BY <2>1, GpuStep DEF GpuNext
    <2>2. CASE UNCHANGED vars
        <3>1. UNCHANGED <<machine, pc, job, score, shared, seen, inFlight, heartbeat,
                          queue, results, minted>>
            BY <2>2 DEF vars, gpuOnly
        <3> QED BY <3>1 DEF GpuInv, GpuType, Balanced, Answered, Overlooked, Owned,
               Jobs!Fitness
    <2>3. CASE Next /\ ~GpuNext
        <3>1. machine = "gpu"
            BY <2>3, OneMachine
        <3> QED BY <2>3, <3>1 DEF Next, WorkerNext, ImproverNext, EvaluatorNext,
               BudgetNext, CurriculumNext, RenameNext, ShaderNext, PublishNext, ModelsNext
    <2> QED BY <2>1, <2>2, <2>3
<1>3. I => GpuSound
    <2> SUFFICES ASSUME GpuInv PROVE Jobs!TypeOK /\ Jobs!SlotsBalanced /\ Jobs!OwnResult
        BY DEF GpuSound
    <2>1. GpuType /\ DOMAIN results = 1 .. Len(results)
        BY LenProperties DEF GpuInv, GpuType
    <2>2. Jobs!TypeOK
        BY <2>1 DEF Jobs!TypeOK, GpuType
    <2>3. Jobs!SlotsBalanced
        BY JobsFacts DEF GpuInv, Balanced, Waiting, Jobs!SlotsBalanced
    <2>4. Jobs!OwnResult
        BY <2>1 DEF GpuInv, Answered, Overlooked, Owned, Jobs!OwnResult
    <2> QED BY <2>2, <2>3, <2>4
<1> QED BY <1>1, <1>2, <1>3, PTL DEF Spec
-----------------------------------------------------------------------------
(* The kernels that swap functions of one shader.                          *)
Functions == Codes \cup {Stub, None}
Files == [fn : Functions, whole : BOOLEAN]

ShaderType ==
    /\ shader = None \/ shader \in Files
    /\ step \in [Kernels -> {"idle", "read", "open", "write", "wait"}]
    /\ code \in [Kernels -> Codes \cup {None}]
    /\ text \in [Kernels -> Files \cup {None}]
    /\ alone \in [Kernels -> BOOLEAN] /\ heard \in [Kernels -> BOOLEAN]
    /\ damaged \in BOOLEAN

(* Who evaluates has a candidate and a file; who writes it has read one.    *)
UnderWay(k) ==
    /\ step[k] # "idle" => shader \in Files /\ code[k] \in Codes
    /\ step[k] \in {"open", "write"} => text[k] \in Files

(* Without damage, the file lacks its markers only while someone writes,    *)
(* and what was read of it was whole.                                      *)
Undamaged ==
    ~damaged =>
        /\ shader # None \/ (\E k \in Kernels : step[k] # "idle") =>
              IF shader.fn = None THEN \E k \in Kernels : step[k] = "write" ELSE shader.whole
        /\ \A k \in Kernels : step[k] \in {"open", "write"} => text[k].whole

(* The file of a kernel that is alone has its function; once the engine has *)
(* timed that, it runs it, and no newer timing is of another one.          *)
Alone(k) ==
    step[k] = "wait" /\ alone[k] =>
        /\ shader.fn = code[k]
        /\ heard[k] => running = code[k] /\ HotSwap!Timed(newest) \in {code[k], "frame", None}

SwapInv ==
    /\ ShaderType /\ Undamaged /\ \A k \in Kernels : UnderWay(k) /\ Alone(k)
    /\ HotSwap!OwnTiming

LEMMA SwapFacts == Stub \notin Codes /\ None \notin Codes /\ None # Stub
BY CallsAssumption DEF HotSwap!ValidSwap

(* An evaluation ends: its kernel is idle, and nothing is left of it.       *)
LEMMA SwapEnds ==
    ASSUME SwapInv, NEW k \in Kernels, step[k] # "write", NEW what,
           HotSwap!Ends(k, what),
           alone[k] /\ heard[k] => what \in {code[k], "frame", None},
           UNCHANGED <<shader, running, newest, damaged>>
    PROVE  SwapInv'
<1> USE DEF HotSwap!Ends
<1>1. ShaderType
    BY DEF SwapInv
<1>2. ShaderType'
    BY <1>1 DEF ShaderType
<1>3. step'[k] = "idle" /\ \A q \in Kernels \ {k} :
         step'[q] = step[q] /\ code'[q] = code[q] /\ text'[q] = text[q]
            /\ alone'[q] = alone[q] /\ heard'[q] = heard[q]
    BY <1>1 DEF ShaderType
<1>4. Undamaged'
    BY <1>3 DEF SwapInv, Undamaged
<1>5. \A q \in Kernels : UnderWay(q)' /\ Alone(q)'
    BY <1>3 DEF SwapInv, UnderWay, Alone
<1>6. HotSwap!OwnTiming'
    BY DEF HotSwap!OwnTiming
<1> QED BY <1>2, <1>4, <1>5, <1>6 DEF SwapInv

LEMMA SwapEvaluateOnCpu ==
    ASSUME SwapInv, NEW k \in Kernels, HotSwap!EvaluateOnCpu(k) PROVE SwapInv'
<1>1. HotSwap!OwnTiming'
    BY DEF HotSwap!EvaluateOnCpu, HotSwap!OwnTiming
<1> QED BY <1>1 DEF HotSwap!EvaluateOnCpu, SwapInv, ShaderType, Undamaged, UnderWay, Alone

LEMMA SwapEvaluateOnGpu ==
    ASSUME SwapInv, NEW k \in Kernels, HotSwap!EvaluateOnGpu(k) PROVE SwapInv'
<1> USE DEF HotSwap!EvaluateOnGpu
<1>1. ShaderType /\ step[k] = "idle" /\ shader \in Files
    BY DEF SwapInv, ShaderType
<1>2. ShaderType'
    BY <1>1 DEF ShaderType
<1>3. /\ step'[k] = "read" /\ code'[k] \in Codes
      /\ \A q \in Kernels \ {k} :
            step'[q] = step[q] /\ code'[q] = code[q] /\ text'[q] = text[q]
               /\ alone'[q] = alone[q] /\ heard'[q] = heard[q]
    BY <1>1 DEF ShaderType
<1>4. Undamaged'
    BY <1>1, <1>3 DEF SwapInv, Undamaged
<1>5. \A q \in Kernels : UnderWay(q)' /\ Alone(q)'
    BY <1>1, <1>3 DEF SwapInv, UnderWay, Alone
<1>6. HotSwap!OwnTiming'
    BY DEF SwapInv, HotSwap!OwnTiming
<1> QED BY <1>2, <1>4, <1>5, <1>6 DEF SwapInv

LEMMA SwapRead == ASSUME SwapInv, NEW k \in Kernels, HotSwap!Read(k) PROVE SwapInv'
<1> USE DEF HotSwap!Read
<1>1. ShaderType /\ step[k] = "read" /\ shader \in Files
    BY DEF SwapInv, UnderWay
<1>2. CASE code[k] = Blank \/ ~HotSwap!HasMarkers(shader)
    <2>1. HotSwap!Ends(k, None)
        BY <1>2
    <2> QED BY <1>1, <2>1, SwapEnds
<1>3. CASE ~(code[k] = Blank \/ ~HotSwap!HasMarkers(shader))
    <2>1. /\ text' = [text EXCEPT ![k] = shader] /\ step' = [step EXCEPT ![k] = "open"]
          /\ UNCHANGED <<code, alone, heard, score, made>> /\ shader.fn # None
        BY <1>3 DEF HotSwap!HasMarkers
    <2>2. ShaderType'
        BY <1>1, <2>1 DEF ShaderType
    <2>3. /\ step'[k] = "open" /\ text'[k] = shader
          /\ \A q \in Kernels \ {k} : step'[q] = step[q] /\ text'[q] = text[q]
        BY <1>1, <2>1 DEF ShaderType
    <2>4. Undamaged'
        BY <1>1, <2>1, <2>3 DEF SwapInv, Undamaged
    <2>5. \A q \in Kernels : UnderWay(q)' /\ Alone(q)'
        BY <1>1, <2>1, <2>3 DEF SwapInv, UnderWay, Alone
    <2>6. HotSwap!OwnTiming'
        BY <2>1 DEF SwapInv, HotSwap!OwnTiming
    <2> QED BY <2>2, <2>4, <2>5, <2>6 DEF SwapInv
<1> QED BY <1>2, <1>3

(* Whoever opens or writes the file disturbs all the others that are under  *)
(* way.                                                                    *)
LEMMA SwapDisturbs ==
    ASSUME ShaderType, NEW k \in Kernels, HotSwap!Disturbs(k)
    PROVE  /\ alone' \in [Kernels -> BOOLEAN]
           /\ \A q \in Kernels \ {k} : step[q] # "idle" => ~alone'[q]
<1>1. \A q \in Kernels : alone[q] \in BOOLEAN
    BY DEF ShaderType
<1> QED BY <1>1 DEF HotSwap!Disturbs

LEMMA SwapOpen == ASSUME SwapInv, NEW k \in Kernels, HotSwap!Open(k) PROVE SwapInv'
<1> USE DEF HotSwap!Open
<1>1. ShaderType /\ step[k] = "open" /\ shader \in Files
    BY DEF SwapInv, UnderWay
<1>2. shader' \in Files /\ shader'.fn = None
    BY DEF HotSwap!Truncated, Files, Functions
<1>3. /\ alone' \in [Kernels -> BOOLEAN]
      /\ \A q \in Kernels \ {k} : step[q] # "idle" => ~alone'[q]
    BY <1>1, SwapDisturbs
<1>4. ShaderType'
    BY <1>1, <1>2, <1>3 DEF ShaderType
<1>5. step'[k] = "write" /\ \A q \in Kernels \ {k} : step'[q] = step[q]
    BY <1>1 DEF ShaderType
<1>6. Undamaged'
    BY <1>1, <1>2, <1>5 DEF SwapInv, Undamaged
<1>7. \A q \in Kernels : UnderWay(q)' /\ Alone(q)'
    BY <1>1, <1>2, <1>3, <1>5 DEF SwapInv, UnderWay, Alone
<1>8. HotSwap!OwnTiming'
    BY DEF SwapInv, HotSwap!OwnTiming
<1> QED BY <1>4, <1>6, <1>7, <1>8 DEF SwapInv

LEMMA SwapWrite == ASSUME SwapInv, NEW k \in Kernels, HotSwap!Write(k) PROVE SwapInv'
<1> USE DEF HotSwap!Write
<1>1. /\ ShaderType /\ step[k] = "write" /\ shader \in Files
      /\ text[k] \in Files /\ code[k] \in Codes
    BY DEF SwapInv, UnderWay
<1>2. /\ shader' \in Files /\ shader'.fn = code[k] /\ damaged' \in BOOLEAN
      /\ ~damaged' => ~damaged /\ shader'.whole = text[k].whole
    <2> DEFINE new == HotSwap!Spliced(text[k], code[k])
    <2>1. /\ new \in Files /\ new.fn = code[k] /\ new.whole = text[k].whole
          /\ [new EXCEPT !.whole = FALSE] \in Files
          /\ [new EXCEPT !.whole = FALSE].fn = code[k]
        BY <1>1 DEF HotSwap!Spliced, Files, Functions
    <2> HIDE DEF new
    <2>2. IF HotSwap!HasMarkers(shader)
          THEN shader' \in {new, [new EXCEPT !.whole = FALSE]} /\ damaged' = TRUE
          ELSE shader' = new /\ UNCHANGED damaged
        BY DEF new
    <2>3. damaged \in BOOLEAN
        BY <1>1 DEF ShaderType
    <2> QED BY <2>1, <2>2, <2>3
<1>3. /\ alone' \in [Kernels -> BOOLEAN]
      /\ \A q \in Kernels \ {k} : step[q] # "idle" => ~alone'[q]
    BY <1>1, SwapDisturbs
<1>4. ShaderType'
    BY <1>1, <1>2, <1>3 DEF ShaderType
<1>5. /\ step'[k] = "wait" /\ ~heard'[k]
      /\ \A q \in Kernels \ {k} : step'[q] = step[q]
    BY <1>1 DEF ShaderType
<1>6. Undamaged'
    <2>1. shader'.fn # None
        BY <1>1, <1>2, SwapFacts
    <2> QED BY <1>1, <1>2, <1>5, <2>1 DEF SwapInv, Undamaged
<1>7. \A q \in Kernels : UnderWay(q)' /\ Alone(q)'
    BY <1>1, <1>2, <1>3, <1>5 DEF SwapInv, UnderWay, Alone
<1>8. HotSwap!OwnTiming'
    BY DEF SwapInv, HotSwap!OwnTiming
<1> QED BY <1>4, <1>6, <1>7, <1>8 DEF SwapInv

LEMMA SwapTiming == ASSUME SwapInv, NEW k \in Kernels, HotSwap!Timing(k) PROVE SwapInv'
<1>1. step[k] = "wait" /\ HotSwap!Ends(k, HotSwap!Timed(newest))
      /\ UNCHANGED <<shader, running, newest, damaged>>
    BY DEF HotSwap!Timing
<1>2. ASSUME alone[k], heard[k]
      PROVE  HotSwap!Timed(newest) \in {code[k], "frame", None}
    BY <1>1, <1>2 DEF SwapInv, Alone
<1> QED BY <1>1, <1>2, SwapEnds

LEMMA SwapCrash == ASSUME SwapInv, NEW k \in Kernels, HotSwap!Crash(k) PROVE SwapInv'
<1> USE DEF HotSwap!Crash
<1>1. ShaderType
    BY DEF SwapInv
<1>2. ShaderType'
    BY <1>1 DEF ShaderType
<1>3. step'[k] = "idle" /\ \A q \in Kernels \ {k} :
         step'[q] = step[q] /\ code'[q] = code[q] /\ text'[q] = text[q]
            /\ alone'[q] = alone[q] /\ heard'[q] = heard[q]
    BY <1>1 DEF ShaderType
<1>4. Undamaged'
    BY ZenonT(60), <1>1, <1>3 DEF SwapInv, Undamaged
<1>5. \A q \in Kernels : UnderWay(q)' /\ Alone(q)'
    BY <1>3 DEF SwapInv, UnderWay, Alone
<1>6. HotSwap!OwnTiming'
    BY DEF SwapInv, HotSwap!OwnTiming
<1> QED BY <1>2, <1>4, <1>5, <1>6 DEF SwapInv

(* The engine compiles what is in the file, and times what it runs.         *)
LEMMA SwapReload == ASSUME SwapInv, HotSwap!Reload PROVE SwapInv'
<1> USE DEF HotSwap!Reload
<1>1. ShaderType' /\ Undamaged' /\ HotSwap!OwnTiming'
    BY DEF SwapInv, ShaderType, Undamaged, HotSwap!OwnTiming
<1>2. \A q \in Kernels : UnderWay(q)' /\ Alone(q)'
    BY DEF SwapInv, UnderWay, Alone
<1> QED BY <1>1, <1>2 DEF SwapInv

LEMMA SwapReport == ASSUME SwapInv, HotSwap!Report PROVE SwapInv'
<1> USE DEF HotSwap!Report
<1>1. ShaderType
    BY DEF SwapInv
<1>2. /\ heard' \in [Kernels -> BOOLEAN]
      /\ \A q \in Kernels :
            heard'[q] => heard[q] \/ (step[q] = "wait" /\ running = code[q])
    BY <1>1 DEF ShaderType
<1>3. HotSwap!Timed(newest') \in {running, "frame", None}
    <2>1. PICK s \in Shapes : newest' = [fn |-> running, shape |-> s]
        OBVIOUS
    <2> QED BY <2>1 DEF HotSwap!Timed
<1>4. ShaderType' /\ Undamaged' /\ HotSwap!OwnTiming'
    BY <1>2 DEF SwapInv, ShaderType, Undamaged, HotSwap!OwnTiming
<1>5. \A q \in Kernels : UnderWay(q)' /\ Alone(q)'
    BY <1>2, <1>3 DEF SwapInv, UnderWay, Alone
<1> QED BY <1>4, <1>5 DEF SwapInv

LEMMA SwapCheckout == ASSUME SwapInv, HotSwap!Checkout PROVE SwapInv'
<1> USE DEF HotSwap!Checkout
<1>1. shader' \in Files /\ shader'.fn = Stub /\ shader'.whole
    BY DEF HotSwap!Whole, Files, Functions
<1>2. ShaderType' /\ Undamaged' /\ HotSwap!OwnTiming'
    BY <1>1, SwapFacts DEF SwapInv, ShaderType, Undamaged, HotSwap!OwnTiming
<1>3. \A q \in Kernels : UnderWay(q)' /\ Alone(q)'
    BY DEF UnderWay, Alone
<1> QED BY <1>2, <1>3 DEF SwapInv

LEMMA SwapInit == ASSUME HotSwap!Init PROVE SwapInv
<1> USE DEF HotSwap!Init
<1>1. HotSwap!Whole(Stub) \in Files /\ HotSwap!Whole(Stub).whole
      /\ HotSwap!Whole(Stub).fn = Stub
    BY DEF HotSwap!Whole, Files, Functions
<1>2. ShaderType
    BY <1>1 DEF ShaderType
<1>3. Undamaged
    BY <1>1, SwapFacts DEF Undamaged
<1> QED BY <1>2, <1>3 DEF SwapInv, UnderWay, Alone, HotSwap!OwnTiming

LEMMA SwapStep == ASSUME SwapInv, HotSwap!Next PROVE SwapInv'
BY SwapEvaluateOnCpu, SwapEvaluateOnGpu, SwapRead, SwapOpen, SwapWrite, SwapTiming,
   SwapCrash, SwapReload, SwapReport, SwapCheckout DEF HotSwap!Next

(* Any number of kernels may share the file: a candidate that had it to     *)
(* itself, and that the engine timed while its kernel waited, is never      *)
(* scored by the timing of another one, and nothing but overlapping writes  *)
(* and dead writers damages the shader (kernels/bridge.py, kernels/eval.py). *)
THEOREM SwapsAreAttributed == Spec => []HotSwapSound
<1> DEFINE I == machine = "shader" => SwapInv
<1>1. Init => I
    BY SwapInit DEF Init
<1>2. I /\ [Next]_vars => I'
    <2> SUFFICES ASSUME I, [Next]_vars, machine' = "shader" PROVE SwapInv'
        OBVIOUS
    <2>1. CASE ShaderNext
        BY <2>1, SwapStep DEF ShaderNext
    <2>2. CASE UNCHANGED vars
        <3>1. UNCHANGED <<machine, shader, running, newest, step, code, text, alone,
                          heard, damaged, score>>
            BY <2>2 DEF vars, shaderOnly
        <3> QED BY <3>1 DEF SwapInv, ShaderType, Undamaged, UnderWay, Alone,
               HotSwap!OwnTiming
    <2>3. CASE Next /\ ~ShaderNext
        <3>1. machine = "shader"
            BY <2>3, OneMachine
        <3> QED BY <2>3, <3>1 DEF Next, WorkerNext, ImproverNext, EvaluatorNext,
               BudgetNext, GpuNext, CurriculumNext, RenameNext, PublishNext, ModelsNext
    <2> QED BY <2>1, <2>2, <2>3
<1>3. I => HotSwapSound
    <2>1. SwapInv => HotSwap!ShaderWhole
        BY SwapFacts DEF SwapInv, ShaderType, Undamaged, HotSwap!ShaderWhole
    <2> QED BY <2>1 DEF SwapInv, HotSwapSound, HotSwap!HotSwapSound
<1> QED BY <1>1, <1>2, <1>3, PTL DEF Spec
-----------------------------------------------------------------------------
(* The check of a rename.                                                  *)
RenameType ==
    /\ check \in {"scope", "drift", "tests", "verdict", "done", "raised"}
    /\ was \in Contents \cup {Broken, Missing} /\ now \in Contents \cup {Broken, Missing}
    /\ compare \in BOOLEAN /\ passed \in {None, TRUE, FALSE}

(* Nothing is left of the old name where the tool of the scope looks.       *)
NoResidue ==
    Rename!Parses(now) =>
        /\ scopeTool # "ast-grep failed" => now["bound"] # Rename!Whole(Old)
        /\ scopeTool = "ast-grep" => now["imported"] # Rename!Whole(Old)

(* The rename undone, in one of the two ways, gives the file that was       *)
(* there, wherever the drift was looked for.                               *)
UndoneAt(p) ==
    \/ was[p] = Rename!Reverted(now[p])
    \/ was[p] = IF now[p] = Rename!Whole(New) THEN Rename!Whole(Old) ELSE now[p]

Undone ==
    (compare /\ Rename!Parses(now)) => \A p \in {"bound", "imported"} : UndoneAt(p)

RenameInv ==
    /\ RenameType
    /\ check \in {"drift", "tests", "verdict", "done"} => (residual = 0 => NoResidue)
    /\ check \in {"drift", "tests", "verdict", "done"} => residual \in Nat
    /\ check \in {"tests", "verdict", "done"} => (drift = {} => Undone)
    /\ check = "done" =>
          /\ verdict = IF passed = FALSE THEN "RT"
                       ELSE IF drift # {} \/ residual > 0 THEN "RD" ELSE "RV"
          /\ blamed = IF passed # FALSE /\ drift = {} /\ residual > 0 THEN {"py"} ELSE drift

LEMMA RenameFacts ==
    Old # New /\ \A file \in Contents : file = [p \in Rename!Positions |-> file[p]]
BY CallsAssumption DEF Rename!ValidRename

(* No residue is what the tools found if they counted nothing.              *)
LEMMA GrepFinds ==
    Rename!GrepCount(now, Old) \in Nat
    /\ (Rename!GrepCount(now, Old) = 0 /\ Rename!Parses(now) =>
           \A p \in Rename!Positions : now[p] # Rename!Whole(Old))
<1> DEFINE S == {p \in Rename!Positions : now[p] = Rename!Whole(Old)}
<1>1. IsFiniteSet({"bound", "imported", "keyword"})
    <2>1. IsFiniteSet({}) /\ IsFiniteSet({"keyword"})
        BY FS_EmptySet, FS_Singleton
    <2>2. IsFiniteSet({"keyword"} \cup {"imported"})
        BY <2>1, FS_AddElement
    <2>3. IsFiniteSet(({"keyword"} \cup {"imported"}) \cup {"bound"})
        BY <2>2, FS_AddElement
    <2>4. ({"keyword"} \cup {"imported"}) \cup {"bound"} = {"bound", "imported", "keyword"}
        OBVIOUS
    <2> QED BY <2>3, <2>4
<1>2. IsFiniteSet(S)
    BY <1>1, FS_Subset DEF Rename!Positions
<1>3. Cardinality(S) \in Nat /\ (Cardinality(S) = 0 <=> S = {})
    BY <1>2, FS_CardinalityType, FS_EmptySet
<1>4. Rename!Cardinality(S) = Cardinality(S)
    BY DEF Rename!Cardinality, Cardinality, Rename!IsFiniteSet, IsFiniteSet
<1>5. Rename!GrepCount(now, Old) = IF Rename!Parses(now) THEN Cardinality(S) ELSE 0
    BY <1>4 DEF Rename!GrepCount
<1> QED BY <1>3, <1>5

LEMMA RenameScope == ASSUME RenameInv, Rename!Scope PROVE RenameInv'
<1> USE DEF Rename!Scope
<1>1. RenameType'
    BY DEF RenameInv, RenameType
<1>2. now' = now
    OBVIOUS
<1>3. CASE scopeTool' = "ast-grep" /\ residual' = Rename!GrepCount(now, Old)
    <2>1. residual' \in Nat /\ (residual' = 0 => NoResidue')
        BY <1>2, <1>3, GrepFinds DEF NoResidue, Rename!Positions, Rename!Parses
    <2> QED BY <1>1, <2>1 DEF RenameInv
<1>4. CASE scopeTool' = "ast-grep failed" /\ residual' = 0
    <2>1. NoResidue'
        BY <1>4 DEF NoResidue
    <2> QED BY <1>1, <1>4, <2>1 DEF RenameInv
<1>5. CASE scopeTool' = "index" /\ residual' = Rename!IndexCount(now, Old)
    <2>1. residual' \in Nat /\ (residual' = 0 => NoResidue')
        BY <1>2, <1>5 DEF Rename!IndexCount, NoResidue, Rename!Parses
    <2> QED BY <1>1, <2>1 DEF RenameInv
<1> QED BY <1>3, <1>4, <1>5

(* Where a drift was looked for and none was found, the rename undone is    *)
(* the file that was there.                                                *)
LEMMA UndoneIsWas ==
    ASSUME RenameType,
           (compare /\ Rename!Parses(now)) =>
              Rename!Normal(now) = was \/ Rename!Substituted(now) = was
    PROVE  Undone
<1> SUFFICES ASSUME compare, Rename!Parses(now), NEW p \in {"bound", "imported"}
             PROVE  UndoneAt(p)
    BY DEF Undone
<1>1. p \in Rename!Positions /\ p # "keyword"
    BY DEF Rename!Positions
<1>2. CASE Rename!Normal(now) = was
    BY <1>1, <1>2 DEF Rename!Normal, UndoneAt
<1>3. CASE Rename!Substituted(now) = was
    BY <1>1, <1>3 DEF Rename!Substituted, UndoneAt
<1> QED BY <1>2, <1>3

(* A name whose rename is undone is one that the rename may have made.     *)
LEMMA UndoneNames ==
    ASSUME NEW p \in {"bound", "imported"}, UndoneAt(p)
    PROVE  /\ was[p] # Rename!Whole(New)
           /\ now[p] # Rename!Whole(Old) => Rename!Renamed(p)
<1>1. /\ Rename!Whole(Old) # Rename!Whole(New) /\ Rename!MadeOf(Old) # Rename!MadeOf(New)
      /\ \A a, b : Rename!Whole(a) # Rename!MadeOf(b)
    BY RenameFacts DEF Rename!Whole, Rename!MadeOf
<1> QED BY <1>1 DEF UndoneAt, Rename!Reverted, Rename!Renamed, Rename!RenamesOf

LEMMA RenameDrift ==
    ASSUME RenameInv, Rename!Difft \/ Rename!AstDrift \/ Rename!NoDrift
    PROVE  RenameInv'
<1>1. RenameType' /\ check = "drift" /\ check' \in {"tests", "raised"}
    BY DEF RenameInv, RenameType, Rename!Difft, Rename!AstDrift, Rename!NoDrift
<1>2. UNCHANGED <<was, now, compare, scopeTool, residual>>
    BY DEF Rename!Difft, Rename!AstDrift, Rename!NoDrift
<1>3. (check' = "tests" /\ drift' = {} /\ compare /\ Rename!Parses(now)) =>
         Rename!Normal(now) = was \/ Rename!Substituted(now) = was
    BY DEF Rename!Difft, Rename!AstDrift, Rename!NoDrift
<1>4. (check' = "tests" /\ drift' = {}) => Undone
    BY <1>3, UndoneIsWas DEF RenameInv
<1>5. (check' = "tests" /\ drift' = {}) => Undone'
    BY <1>2, <1>4 DEF Undone, UndoneAt, Rename!Parses
<1>6. residual' = 0 => NoResidue'
    BY <1>1, <1>2 DEF RenameInv, NoResidue, Rename!Parses
<1> QED BY <1>1, <1>2, <1>5, <1>6 DEF RenameInv

LEMMA RenameTests == ASSUME RenameInv, Rename!Tests PROVE RenameInv'
<1> USE DEF Rename!Tests
<1>1. RenameType'
    BY DEF RenameInv, RenameType
<1> QED BY <1>1 DEF RenameInv, NoResidue, Undone, UndoneAt, Rename!Parses

LEMMA RenameDecide == ASSUME RenameInv, Rename!Decide PROVE RenameInv'
<1> USE DEF Rename!Decide
<1>1. RenameType'
    BY DEF RenameInv, RenameType
<1> QED BY <1>1 DEF RenameInv, NoResidue, Undone, UndoneAt, Rename!Parses

LEMMA RenameStep == ASSUME RenameInv, Rename!Next PROVE RenameInv'
<1>1. CASE Rename!Done
    BY <1>1 DEF Rename!Done, Rename!renameVars, RenameInv, RenameType, NoResidue, Undone,
       UndoneAt, Rename!Parses
<1> QED BY <1>1, RenameScope, RenameDrift, RenameTests, RenameDecide DEF Rename!Next

(* A verified change of two trees is the rename and nothing else wherever   *)
(* the verifier looks, and a refused one names what to blame, whatever the  *)
(* files hold (audit/refactor_verifier.py).                                *)
THEOREM VerifiedIsRenamed == Spec => []RenameSound
<1> DEFINE I == machine = "rename" => RenameInv
<1>1. Init => I
    BY DEF Init, Rename!Init, RenameInv, RenameType
<1>2. I /\ [Next]_vars => I'
    <2> SUFFICES ASSUME I, [Next]_vars, machine' = "rename" PROVE RenameInv'
        OBVIOUS
    <2>1. CASE RenameNext
        BY <2>1, RenameStep DEF RenameNext
    <2>2. CASE UNCHANGED vars
        <3>1. UNCHANGED <<machine, check, was, now, compare, scopeTool, residual, drift,
                          passed, verdict, blamed>>
            BY <2>2 DEF vars, renameOnly
        <3> QED BY ZenonT(30), <3>1 DEF RenameInv, RenameType, NoResidue, Undone, UndoneAt, Rename!Parses
    <2>3. CASE Next /\ ~RenameNext
        <3>1. machine = "rename"
            BY <2>3, OneMachine
        <3> QED BY <2>3, <3>1 DEF Next, WorkerNext, ImproverNext, EvaluatorNext,
               BudgetNext, GpuNext, CurriculumNext, ShaderNext, PublishNext, ModelsNext
    <2> QED BY <2>1, <2>2, <2>3
<1>3. I => RenameSound
    <2> SUFFICES ASSUME RenameInv, check = "done" PROVE Rename!RenameSound
        BY DEF RenameSound, Rename!RenameSound
    <2>1. residual \in Nat
        BY DEF RenameInv
    <2>2. (verdict = "RT" <=> passed = FALSE)
          /\ (verdict = "RD" <=> (passed # FALSE /\ blamed # {}))
        BY <2>1 DEF RenameInv
    <2>3. verdict = "RV" => NoResidue /\ Undone
        BY <2>1 DEF RenameInv
    <2>4. ASSUME verdict = "RV", compare, Rename!Parses(now)
          PROVE  /\ was["bound"] # Rename!Whole(New) /\ was["imported"] # Rename!Whole(New)
                 /\ scopeTool # "ast-grep failed" => Rename!Renamed("bound")
                 /\ scopeTool = "ast-grep" => Rename!Renamed("imported")
        <3>1. \A p \in {"bound", "imported"} : UndoneAt(p)
            BY <2>3, <2>4 DEF Undone
        <3>2. ASSUME NEW p \in {"bound", "imported"}
              PROVE  /\ was[p] # Rename!Whole(New)
                     /\ now[p] # Rename!Whole(Old) => Rename!Renamed(p)
            BY <3>1, UndoneNames
        <3>3. /\ scopeTool # "ast-grep failed" => now["bound"] # Rename!Whole(Old)
              /\ scopeTool = "ast-grep" => now["imported"] # Rename!Whole(Old)
            BY <2>3, <2>4 DEF NoResidue
        <3> QED BY <3>2, <3>3
    <2> QED BY <2>2, <2>4 DEF Rename!RenameSound
<1> QED BY <1>1, <1>2, <1>3, PTL DEF Spec
-----------------------------------------------------------------------------
(* Time stamps of which the oldest are dropped.                            *)
LEMMA Smallest ==
    ASSUME NEW S \in SUBSET Nat, S # {}
    PROVE  \E m \in S : \A n \in S : m <= n
<1>1. PICK m \in S : \A n \in S : <<n, m>> \notin OpToRel(<, Nat)
    BY NatLessThanWellFounded, WFMin
<1>2. ASSUME NEW n \in S PROVE m <= n
    <2>1. <<n, m>> \in Nat \X Nat /\ <<n, m>>[1] = n /\ <<n, m>>[2] = m
        OBVIOUS
    <2>2. <<n, m>> \notin {ss \in Nat \X Nat : ss[1] < ss[2]}
        BY <1>1 DEF OpToRel
    <2>3. ~(n < m)
        BY <2>1, <2>2
    <2> QED BY <2>3
<1> QED BY <1>2

(* The stamps of a sequence that are within w of a time.                    *)
Alive(s, w, t) == {k \in 1 .. Len(s) : s[k] + w > t}

(* A sequence is what is left of another one when the oldest, none of which *)
(* is alive, are dropped.                                                  *)
Follows(r, s, w, t) ==
    \E d \in 0 .. Len(s) :
        /\ Len(r) = Len(s) - d
        /\ \A k \in 1 .. Len(r) : r[k] = s[d + k]
        /\ \A k \in 1 .. d : s[k] + w <= t

Least(S) == CHOOSE x \in S : \A y \in S : x <= y

FromFirstAlive(s, w, t) ==
    IF Alive(s, w, t) = {} THEN <<>> ELSE SubSeq(s, Least(Alive(s, w, t)), Len(s))

LEMMA PrunedFollows ==
    ASSUME NEW S \in SUBSET Nat, NEW s \in Seq(S), NEW w \in Nat, NEW t \in Nat
    PROVE  LET r == FromFirstAlive(s, w, t)
           IN  r \in Seq(S) /\ Len(r) <= Len(s) /\ Follows(r, s, w, t)
<1> DEFINE A == Alive(s, w, t)
<1>1. Len(s) \in Nat /\ \A k \in 1 .. Len(s) : s[k] \in Nat
    BY LenProperties, ElementOfSeq
<1>2. CASE A = {}
    <2>1. FromFirstAlive(s, w, t) = <<>>
        BY <1>2 DEF FromFirstAlive
    <2>2. \A k \in 1 .. Len(s) : s[k] + w <= t
        BY <1>1, <1>2 DEF Alive
    <2>3. Follows(<<>>, s, w, t)
        <3>1. Len(s) \in 0 .. Len(s) /\ Len(<<>>) = Len(s) - Len(s)
            BY <1>1
        <3>2. \A k \in 1 .. Len(<<>>) : <<>>[k] = s[Len(s) + k]
            OBVIOUS
        <3> QED BY <2>2, <3>1, <3>2 DEF Follows
    <2> QED BY <1>1, <2>1, <2>3
<1>3. CASE A # {}
    <2> DEFINE m == Least(A)
    <2>1. m \in A /\ \A k \in A : m <= k
        <3>1. A \in SUBSET Nat
            BY <1>1 DEF Alive
        <3> HIDE DEF A
        <3> QED BY <1>3, <3>1, Smallest DEF Least
    <2>2. m \in 1 .. Len(s)
        BY <2>1 DEF Alive
    <2>3. FromFirstAlive(s, w, t) = SubSeq(s, m, Len(s))
        BY <1>3 DEF FromFirstAlive
    <2>4. ASSUME NEW k \in 1 .. m - 1 PROVE s[k] + w <= t
        <3>1. k \in 1 .. Len(s) /\ k < m /\ k \notin A
            BY <1>1, <2>1, <2>2
        <3> QED BY <1>1, <3>1 DEF Alive
    <2> HIDE DEF A, m
    <2> DEFINE r == SubSeq(s, m, Len(s))
    <2>5. \A i \in m .. Len(s) : s[i] \in S
        BY <2>2, ElementOfSeq
    <2>6. /\ r \in Seq(S) /\ Len(r) = Len(s) - m + 1
          /\ \A k \in 1 .. Len(s) - m + 1 : r[k] = s[m + k - 1]
        BY <1>1, <2>2, <2>5, SubSeqProperties
    <2> HIDE DEF r
    <2>7. Follows(r, s, w, t)
        <3>1. m - 1 \in 0 .. Len(s) /\ Len(r) = Len(s) - (m - 1)
            BY <1>1, <2>2, <2>6
        <3>2. \A k \in 1 .. Len(r) : r[k] = s[(m - 1) + k]
            BY <1>1, <2>2, <2>6
        <3> QED BY <2>4, <3>1, <3>2 DEF Follows
    <2>8. r \in Seq(S) /\ Len(r) <= Len(s)
        BY <1>1, <2>2, <2>6
    <2> QED BY <2>3, <2>7, <2>8 DEF r
<1> QED BY <1>2, <1>3

LEMMA FollowsTwice ==
    ASSUME NEW q, NEW r, NEW s, NEW w \in Nat, NEW t \in Nat, NEW u \in Nat, t <= u,
           Len(r) \in Nat, Len(s) \in Nat, \A k \in 1 .. Len(s) : s[k] \in Nat,
           Follows(r, s, w, t), Follows(q, r, w, u)
    PROVE  Follows(q, s, w, u)
<1>1. PICK d \in 0 .. Len(s) :
         /\ Len(r) = Len(s) - d /\ \A k \in 1 .. Len(r) : r[k] = s[d + k]
         /\ \A k \in 1 .. d : s[k] + w <= t
    BY DEF Follows
<1>2. PICK e \in 0 .. Len(r) :
         /\ Len(q) = Len(r) - e /\ \A k \in 1 .. Len(q) : q[k] = r[e + k]
         /\ \A k \in 1 .. e : r[k] + w <= u
    BY DEF Follows
<1>3. d + e \in 0 .. Len(s) /\ Len(q) = Len(s) - (d + e)
    BY <1>1, <1>2
<1>4. ASSUME NEW k \in 1 .. Len(q) PROVE q[k] = s[d + e + k]
    <2>1. e + k \in 1 .. Len(r) /\ d + (e + k) = d + e + k
        BY <1>1, <1>2
    <2> QED BY <1>1, <1>2, <2>1
<1>5. ASSUME NEW k \in 1 .. d + e PROVE s[k] + w <= u
    <2>1. CASE k <= d
        <3>1. k \in 1 .. d /\ s[k] \in Nat
            BY <1>1, <2>1
        <3> QED BY <1>1, <3>1
    <2>2. CASE k > d
        <3>1. k - d \in 1 .. e /\ k - d \in 1 .. Len(r) /\ d + (k - d) = k
            BY <1>1, <1>2, <2>2
        <3> QED BY <1>1, <1>2, <3>1
    <2> QED BY <1>1, <1>2, <2>1, <2>2
<1> QED BY <1>3, <1>4, <1>5 DEF Follows

(* All that is alive is in what follows.                                    *)
LEMMA AliveFollows ==
    ASSUME NEW r, NEW s, NEW w \in Nat, NEW t \in Nat,
           Len(s) \in Nat, \A k \in 1 .. Len(s) : s[k] \in Nat, Follows(r, s, w, t)
    PROVE  IsFiniteSet(Alive(s, w, t)) /\ Cardinality(Alive(s, w, t)) \in Nat
           /\ Cardinality(Alive(s, w, t)) <= Len(r)
<1>1. PICK d \in 0 .. Len(s) :
         Len(r) = Len(s) - d /\ \A k \in 1 .. d : s[k] + w <= t
    BY DEF Follows
<1>2. Alive(s, w, t) \subseteq d + 1 .. Len(s)
    <2> SUFFICES ASSUME NEW k \in 1 .. Len(s), s[k] + w > t PROVE k \in d + 1 .. Len(s)
        BY DEF Alive
    <2>1. s[k] \in Nat
        OBVIOUS
    <2>2. k \notin 1 .. d
        BY <1>1, <2>1
    <2> QED BY <1>1, <2>2
<1>3. IsFiniteSet(d + 1 .. Len(s)) /\ Cardinality(d + 1 .. Len(s)) = Len(s) - d
    <2>1. d + 1 \in Int /\ Len(s) \in Int
        BY <1>1
    <2>2. /\ IsFiniteSet(d + 1 .. Len(s))
          /\ Cardinality(d + 1 .. Len(s)) = IF d + 1 > Len(s) THEN 0 ELSE Len(s) - (d + 1) + 1
        BY <2>1, FS_Interval
    <2> QED BY <1>1, <2>2
<1>4. IsFiniteSet(Alive(s, w, t))
      /\ Cardinality(Alive(s, w, t)) <= Cardinality(d + 1 .. Len(s))
    BY <1>2, <1>3, FS_Subset
<1> QED BY <1>1, <1>3, <1>4, FS_CardinalityType
-----------------------------------------------------------------------------
(* The callers of a budget guard.                                          *)
LEMMA BudgetFacts ==
    /\ IsFiniteSet(Callers) /\ MaxCost \in Nat /\ MaxWallTime \in Nat \ {0}
    /\ MaxTime \in Nat /\ MaxCalls \in Nat
    /\ WindowSeconds \in Nat \ {0} /\ Budget!EffectiveMax \in Nat \ {0}
    /\ \A S : Budget!Cardinality(S) = Cardinality(S)
    /\ \A s, t : DOMAIN s = 1 .. Len(s) => Budget!Pruned(s, t) = FromFirstAlive(s, WindowSeconds, t)
<1>1. /\ IsFiniteSet(Callers) /\ MaxCost \in Nat /\ MaxWallTime \in Nat \ {0}
      /\ MaxTime \in Nat /\ MaxCalls \in Nat
      /\ MaxRequests \in Nat /\ SafetyMargin \in 0 .. 100 /\ WindowSeconds \in Nat \ {0}
    BY CallsAssumption DEF Budget!ValidBudgetCalls, Budget!ValidRate, Budget!IsFiniteSet,
       IsFiniteSet
<1>2. Budget!EffectiveMax \in Nat \ {0}
    <2> DEFINE p == MaxRequests * (100 - SafetyMargin)
    <2>1. 100 - SafetyMargin \in Nat
        BY <1>1
    <2>2. p \in Nat
        BY <1>1, <2>1
    <2> HIDE DEF p
    <2>3. p \div 100 \in Nat
        BY <2>2
    <2>4. Budget!EffectiveMax = IF p \div 100 = 0 THEN 1 ELSE p \div 100
        BY DEF Budget!EffectiveMax, p
    <2> QED BY <2>3, <2>4
<1>3. \A S : Budget!Cardinality(S) = Cardinality(S)
    BY DEF Budget!Cardinality, Cardinality, Budget!IsFiniteSet, IsFiniteSet
<1>4. ASSUME NEW s, NEW t, DOMAIN s = 1 .. Len(s)
      PROVE  Budget!Pruned(s, t) = FromFirstAlive(s, WindowSeconds, t)
    <2>1. {k \in DOMAIN s : s[k] + WindowSeconds > t} = Alive(s, WindowSeconds, t)
        BY <1>4 DEF Alive
    <2>2. \A S : Budget!Min(S) = Least(S)
        BY DEF Budget!Min, Least
    <2> QED BY <2>1, <2>2 DEF Budget!Pruned, FromFirstAlive
<1> QED BY <1>1, <1>2, <1>3, <1>4

BudgetType ==
    /\ Budget!TypeOK
    /\ finished \in Seq(Nat)

CallersIn == {c \in Callers : caller[c] = "Calling"}

(* The guard has dropped nothing that is alive.                             *)
Remembers == Follows(stamps, finished, WindowSeconds, clock)

(* Whoever calls was let in when there was room for him alone.              *)
Room ==
    Cardinality(Alive(finished, WindowSeconds, clock)) + Cardinality(CallersIn) + 1
        <= Budget!EffectiveMax + Cardinality(Callers)

Warned == Len(stamps) >= Budget!EffectiveMax => rateFired = Budget!Thresholds

BudgetInv == BudgetType /\ Remembers /\ Room /\ Warned

LEMMA CallersFinite ==
    /\ IsFiniteSet(CallersIn) /\ Cardinality(CallersIn) \in Nat
    /\ Cardinality(Callers) \in Nat /\ Cardinality(CallersIn) <= Cardinality(Callers)
<1>1. CallersIn \in SUBSET Callers
    BY DEF CallersIn
<1>2. /\ IsFiniteSet(CallersIn) /\ Cardinality(CallersIn) <= Cardinality(Callers)
    BY <1>1, BudgetFacts, FS_Subset
<1> QED BY <1>2, BudgetFacts, FS_CardinalityType

LEMMA BudgetSequences ==
    ASSUME BudgetType
    PROVE  /\ stamps \in Seq(0 .. MaxTime) /\ clock \in Nat
           /\ Len(stamps) \in Nat /\ DOMAIN stamps = 1 .. Len(stamps)
           /\ Len(finished) \in Nat /\ DOMAIN finished = 1 .. Len(finished)
           /\ \A k \in 1 .. Len(stamps) : stamps[k] \in Nat
           /\ \A k \in 1 .. Len(finished) : finished[k] \in Nat
<1>1. stamps \in Seq(0 .. MaxTime) /\ clock \in Nat /\ finished \in Seq(Nat)
    BY BudgetFacts DEF BudgetType, Budget!TypeOK
<1> QED BY <1>1, LenProperties, ElementOfSeq, BudgetFacts

(* Looking at the rate forgets nothing that is alive, and lets nobody in    *)
(* who has no room.                                                        *)
LEMMA LooksAtRate ==
    ASSUME BudgetType, Remembers
    PROVE  LET r == Budget!Pruned(stamps, clock)
           IN  /\ r \in Seq(0 .. MaxTime) /\ Len(r) \in Nat /\ Len(r) <= Len(stamps)
               /\ Follows(r, finished, WindowSeconds, clock)
               /\ Cardinality(Alive(finished, WindowSeconds, clock)) \in Nat
               /\ Cardinality(Alive(finished, WindowSeconds, clock)) <= Len(r)
<1> DEFINE r == Budget!Pruned(stamps, clock)
<1>1. r = FromFirstAlive(stamps, WindowSeconds, clock)
    BY BudgetSequences, BudgetFacts
<1> HIDE DEF r
<1>2. 0 .. MaxTime \in SUBSET Nat /\ WindowSeconds \in Nat
    BY BudgetFacts
<1>3. /\ r \in Seq(0 .. MaxTime) /\ Len(r) <= Len(stamps)
      /\ Follows(r, stamps, WindowSeconds, clock)
    BY <1>1, <1>2, BudgetSequences, PrunedFollows
<1>4. Follows(r, finished, WindowSeconds, clock)
    BY <1>2, <1>3, BudgetSequences, FollowsTwice DEF Remembers
<1>5. /\ Cardinality(Alive(finished, WindowSeconds, clock)) \in Nat
      /\ Cardinality(Alive(finished, WindowSeconds, clock)) <= Len(r)
    BY <1>2, <1>4, BudgetSequences, AliveFollows
<1> QED BY <1>3, <1>4, <1>5, LenProperties DEF r

(* The window moves on.                                                    *)
LEMMA BudgetTick == ASSUME BudgetInv, Budget!Tick PROVE BudgetInv'
<1> USE DEF Budget!Tick
<1>1. BudgetType /\ BudgetType'
    BY BudgetFacts DEF BudgetInv, BudgetType, Budget!TypeOK, Budget!CallerStates, Budget!Thresholds
<1>2. Remembers'
    <2>1. PICK d \in 0 .. Len(finished) :
             /\ Len(stamps) = Len(finished) - d
             /\ \A k \in 1 .. Len(stamps) : stamps[k] = finished[d + k]
             /\ \A k \in 1 .. d : finished[k] + WindowSeconds <= clock
        BY DEF BudgetInv, Remembers, Follows
    <2>2. \A k \in 1 .. d : finished[k] + WindowSeconds <= clock'
        <3> SUFFICES ASSUME NEW k \in 1 .. d PROVE finished[k] + WindowSeconds <= clock'
            OBVIOUS
        <3>1. k \in 1 .. Len(finished) /\ finished[k] + WindowSeconds <= clock
            BY <1>1, <2>1, BudgetSequences
        <3>2. finished[k] \in Nat /\ clock \in Nat /\ WindowSeconds \in Nat
            BY <1>1, <3>1, BudgetSequences, BudgetFacts
        <3> QED BY <3>1, <3>2
    <2> QED BY <2>1, <2>2 DEF Remembers, Follows
<1>3. Alive(finished, WindowSeconds, clock') \in SUBSET Alive(finished, WindowSeconds, clock)
    <2>1. \A k \in 1 .. Len(finished) : finished[k] \in Nat
        BY <1>1, BudgetSequences
    <2>2. clock \in Nat /\ WindowSeconds \in Nat
        BY <1>1, BudgetSequences, BudgetFacts
    <2> QED BY <2>1, <2>2 DEF Alive
<1>4. /\ IsFiniteSet(Alive(finished, WindowSeconds, clock))
      /\ Cardinality(Alive(finished, WindowSeconds, clock)) \in Nat
    BY <1>1, BudgetSequences, BudgetFacts, AliveFollows DEF BudgetInv, Remembers
<1>5. /\ Cardinality(Alive(finished, WindowSeconds, clock')) \in Nat
      /\ Cardinality(Alive(finished, WindowSeconds, clock'))
            <= Cardinality(Alive(finished, WindowSeconds, clock))
    BY <1>3, <1>4, FS_Subset, FS_CardinalityType
<1>6. CallersIn' = CallersIn
    BY DEF CallersIn
<1>7. Room'
    BY <1>4, <1>5, <1>6, CallersFinite, BudgetFacts DEF BudgetInv, Room
<1> QED BY <1>1, <1>2, <1>7 DEF BudgetInv, Warned

(* What is alive does not change when neither the clock nor what was        *)
(* finished does.                                                          *)
LEMMA BudgetCheck == ASSUME BudgetInv, NEW c \in Callers, Budget!Check(c) PROVE BudgetInv'
<1> USE DEF Budget!Check
<1> DEFINE r == Budget!Pruned(stamps, clock)
<1> DEFINE n == Cardinality(Alive(finished, WindowSeconds, clock))
<1>1. BudgetType /\ Remembers /\ Room /\ Warned
    BY DEF BudgetInv
<1>2. /\ stamps' \in Seq(0 .. MaxTime) /\ Len(stamps') \in Nat /\ Len(stamps') <= Len(stamps)
      /\ Follows(stamps', finished, WindowSeconds, clock)
      /\ n \in Nat /\ n <= Len(stamps') /\ stamps' = r
    BY <1>1, LooksAtRate
<1> HIDE DEF r, n
<1>3. BudgetType'
    <2>1. made' \in 0 .. MaxCalls
        <3>1. made \in 0 .. MaxCalls /\ made < MaxCalls /\ (made' = made \/ made' = made + 1)
            BY <1>1 DEF BudgetType, Budget!TypeOK
        <3> QED BY <3>1, BudgetFacts
    <2>2. caller' \in [Callers -> Budget!CallerStates]
        BY <1>1 DEF BudgetType, Budget!TypeOK, Budget!CallerStates
    <2> QED BY <1>1, <1>2, <2>1, <2>2 DEF BudgetType, Budget!TypeOK
<1>4. Remembers'
    BY <1>2 DEF Remembers
<1>5. Warned'
    BY <1>1, <1>2, BudgetSequences, BudgetFacts DEF Warned
<1>6. CASE Budget!RateOk(stamps, clock) /\ Budget!CostOk
    <2>1. n < Budget!EffectiveMax
        <3>1. Len(r) < Budget!EffectiveMax
            BY <1>6 DEF Budget!RateOk, r
        <3> QED BY <1>2, <3>1, BudgetFacts
    <2>2. /\ Cardinality(CallersIn') <= Cardinality(Callers)
          /\ Cardinality(CallersIn') \in Nat /\ Cardinality(Callers) \in Nat
        <3>1. CallersIn' \in SUBSET Callers
            BY DEF CallersIn
        <3>2. IsFiniteSet(CallersIn') /\ Cardinality(CallersIn') <= Cardinality(Callers)
            BY <3>1, BudgetFacts, FS_Subset
        <3> QED BY <3>2, BudgetFacts, FS_CardinalityType
    <2>3. n + Cardinality(CallersIn') + 1 <= Budget!EffectiveMax + Cardinality(Callers)
        BY <1>2, <2>1, <2>2, BudgetFacts
    <2>4. Room'
        BY <2>3 DEF Room, n
    <2> QED BY <1>3, <1>4, <1>5, <2>4 DEF BudgetInv
<1>7. CASE ~(Budget!RateOk(stamps, clock) /\ Budget!CostOk)
    <2>1. CallersIn' = CallersIn
        BY <1>1, <1>7 DEF CallersIn, BudgetType, Budget!TypeOK
    <2>2. Room'
        BY <1>1, <2>1 DEF Room
    <2> QED BY <1>3, <1>4, <1>5, <2>2 DEF BudgetInv
<1> QED BY <1>6, <1>7

(* A call that comes back leaves the guard.                                 *)
LEMMA LeavesGuard ==
    ASSUME BudgetType, NEW c \in Callers, caller[c] = "Calling",
           caller' = [caller EXCEPT ![c] = "Idle"]
    PROVE  Cardinality(CallersIn') + 1 = Cardinality(CallersIn) /\ Cardinality(CallersIn') \in Nat
<1>1. CallersIn' = CallersIn \ {c} /\ c \in CallersIn
    BY DEF CallersIn, BudgetType, Budget!TypeOK
<1>2. IsFiniteSet(CallersIn \ {c}) /\ Cardinality(CallersIn \ {c}) = Cardinality(CallersIn) - 1
    BY <1>1, CallersFinite, FS_RemoveElement
<1>3. Cardinality(CallersIn') \in Nat
    BY <1>1, <1>2, FS_CardinalityType
<1> QED BY <1>1, <1>2, <1>3, CallersFinite

LEMMA BudgetFail == ASSUME BudgetInv, NEW c \in Callers, Budget!Fail(c) PROVE BudgetInv'
<1> USE DEF Budget!Fail
<1>1. BudgetType /\ Remembers /\ Room /\ Warned
    BY DEF BudgetInv
<1>2. BudgetType' /\ Remembers' /\ Warned'
    BY <1>1 DEF BudgetType, Budget!TypeOK, Budget!CallerStates, Remembers, Warned
<1>3. Cardinality(CallersIn') + 1 = Cardinality(CallersIn) /\ Cardinality(CallersIn') \in Nat
    BY <1>1, LeavesGuard
<1>4. Cardinality(Alive(finished, WindowSeconds, clock)) \in Nat
    BY <1>1, LooksAtRate
<1>5. Room'
    BY <1>1, <1>3, <1>4, CallersFinite, BudgetFacts DEF Room
<1> QED BY <1>2, <1>5 DEF BudgetInv

LEMMA BudgetHalt == ASSUME BudgetInv, NEW c \in Callers, Budget!Halt(c) PROVE BudgetInv'
<1> USE DEF Budget!Halt
<1>1. BudgetType /\ Remembers /\ Room /\ Warned
    BY DEF BudgetInv
<1>2. /\ stamps' \in Seq(0 .. MaxTime) /\ Len(stamps') \in Nat /\ Len(stamps') <= Len(stamps)
      /\ Follows(stamps', finished, WindowSeconds, clock)
    BY <1>1, LooksAtRate
<1>3. BudgetType'
    BY <1>1, <1>2 DEF BudgetType, Budget!TypeOK, Budget!CallerStates
<1>4. Remembers'
    BY <1>2 DEF Remembers
<1>5. Warned'
    BY <1>1, <1>2, BudgetSequences, BudgetFacts DEF Warned
<1>6. CallersIn' = CallersIn
    BY <1>1 DEF CallersIn, BudgetType, Budget!TypeOK
<1>7. Room'
    BY <1>1, <1>6 DEF Room
<1> QED BY <1>3, <1>4, <1>5, <1>7 DEF BudgetInv

LEMMA BudgetCaught == ASSUME BudgetInv, NEW c \in Callers, Budget!Caught(c) PROVE BudgetInv'
<1> USE DEF Budget!Caught
<1>1. BudgetType /\ Remembers /\ Room /\ Warned
    BY DEF BudgetInv
<1>2. BudgetType' /\ Remembers' /\ Warned'
    BY <1>1 DEF BudgetType, Budget!TypeOK, Budget!CallerStates, Remembers, Warned
<1>3. CallersIn' = CallersIn
    BY <1>1 DEF CallersIn, BudgetType, Budget!TypeOK
<1>4. Room'
    BY <1>1, <1>3 DEF Room
<1> QED BY <1>2, <1>4 DEF BudgetInv

(* The call is recorded in the window and announced; it leaves the guard.   *)
LEMMA BudgetRecord == ASSUME BudgetInv, NEW c \in Callers, Budget!Record(c) PROVE BudgetInv'
<1> USE DEF Budget!Record
<1>1. BudgetType /\ Remembers /\ Room /\ Warned
    BY DEF BudgetInv
<1> DEFINE s == Append(stamps, clock) f == Append(finished, clock) w == WindowSeconds
<1>2. /\ clock \in 0 .. MaxTime /\ clock \in Nat /\ stamps \in Seq(0 .. MaxTime)
      /\ finished \in Seq(Nat) /\ w \in Nat \ {0} /\ 0 .. MaxTime \in SUBSET Nat
    BY <1>1, BudgetFacts DEF BudgetType, Budget!TypeOK
<1>3. /\ s \in Seq(0 .. MaxTime) /\ Len(s) = Len(stamps) + 1 /\ s[Len(stamps) + 1] = clock
      /\ DOMAIN s = 1 .. Len(s)
      /\ \A k \in 1 .. Len(stamps) : s[k] = stamps[k]
    BY <1>2, Appended
<1>4. /\ f \in Seq(Nat) /\ Len(f) = Len(finished) + 1 /\ f[Len(finished) + 1] = clock
      /\ \A k \in 1 .. Len(finished) : f[k] = finished[k]
    BY <1>2, Appended
<1>5. /\ Len(stamps) \in Nat /\ Len(finished) \in Nat /\ Len(s) \in Nat /\ Len(f) \in Nat
      /\ \A k \in 1 .. Len(finished) : finished[k] \in Nat
      /\ \A k \in 1 .. Len(f) : f[k] \in Nat
    BY <1>1, <1>3, <1>4, BudgetSequences, ElementOfSeq
<1> HIDE DEF s, f, w
<1>6. Follows(s, f, w, clock)
    <2>1. PICK d \in 0 .. Len(finished) :
             /\ Len(stamps) = Len(finished) - d
             /\ \A k \in 1 .. Len(stamps) : stamps[k] = finished[d + k]
             /\ \A k \in 1 .. d : finished[k] + w <= clock
        BY <1>1 DEF Remembers, Follows, w
    <2>2. d \in 0 .. Len(f) /\ Len(s) = Len(f) - d
        BY <1>3, <1>4, <1>5, <2>1
    <2>3. ASSUME NEW k \in 1 .. Len(s) PROVE s[k] = f[d + k]
        <3>1. CASE k \in 1 .. Len(stamps)
            <4>1. d + k \in 1 .. Len(finished)
                BY <1>5, <2>1, <3>1
            <4> QED BY <1>3, <1>4, <2>1, <3>1, <4>1
        <3>2. CASE k = Len(stamps) + 1
            <4>1. d + k = Len(finished) + 1
                BY <1>5, <2>1, <3>2
            <4> QED BY <1>3, <1>4, <3>2, <4>1
        <3> QED BY <1>3, <1>5, <3>1, <3>2
    <2>4. ASSUME NEW k \in 1 .. d PROVE f[k] + w <= clock
        <3>1. k \in 1 .. Len(finished)
            BY <1>5, <2>1
        <3> QED BY <1>4, <2>1, <3>1
    <2> QED BY <2>2, <2>3, <2>4 DEF Follows
<1>7. stamps' = FromFirstAlive(s, w, clock)
    BY <1>3, BudgetFacts DEF Budget!Recorded, s, w
<1>8. /\ stamps' \in Seq(0 .. MaxTime) /\ Len(stamps') <= Len(s)
      /\ Follows(stamps', s, w, clock)
    BY <1>2, <1>3, <1>7, PrunedFollows
<1>9. Follows(stamps', f, w, clock)
    BY <1>2, <1>5, <1>6, <1>8, FollowsTwice
<1>10. Remembers'
    BY <1>9 DEF Remembers, f, w
<1>11. BudgetType'
    <2>1. Budget!Crossed(Len(stamps'), Budget!EffectiveMax) \subseteq Budget!Thresholds
          /\ Budget!CostCrossed(cost') \subseteq Budget!Thresholds
        BY DEF Budget!Crossed, Budget!CostCrossed
    <2>2. finished' \in Seq(Nat)
        BY <1>4 DEF f
    <2> QED BY <1>1, <1>8, <2>1, <2>2 DEF BudgetType, Budget!TypeOK, Budget!CallerStates
<1>12. Warned'
    <2> SUFFICES ASSUME Len(stamps') >= Budget!EffectiveMax
                 PROVE  rateFired' = Budget!Thresholds
        BY DEF Warned
    <2>1. Len(stamps') \in Nat
        BY <1>8, LenProperties
    <2>2. Budget!Crossed(Len(stamps'), Budget!EffectiveMax) = Budget!Thresholds
        BY <2>1, BudgetFacts DEF Budget!Crossed, Budget!Thresholds
    <2>3. rateFired \subseteq Budget!Thresholds
        BY <1>1 DEF BudgetType, Budget!TypeOK
    <2> QED BY <2>2, <2>3
<1>13. Room'
    <2>1. Alive(f, w, clock) = Alive(finished, w, clock) \cup {Len(finished) + 1}
          /\ Len(finished) + 1 \notin Alive(finished, w, clock)
        <3>1. \A k : k \in 1 .. Len(f) <=> k \in 1 .. Len(finished) \/ k = Len(finished) + 1
            BY <1>4, <1>5
        <3>2. clock + w > clock
            BY <1>2
        <3>3. Len(finished) + 1 \notin 1 .. Len(finished)
            BY <1>5
        <3> QED BY <1>4, <3>1, <3>2, <3>3 DEF Alive
    <2>2. /\ IsFiniteSet(Alive(finished, w, clock))
          /\ Cardinality(Alive(finished, w, clock)) \in Nat
        BY <1>1, <1>2, <1>5, AliveFollows DEF Remembers, w
    <2>3. Cardinality(Alive(f, w, clock)) = Cardinality(Alive(finished, w, clock)) + 1
        BY <2>1, <2>2, FS_AddElement
    <2>4. Cardinality(CallersIn') + 1 = Cardinality(CallersIn)
          /\ Cardinality(CallersIn') \in Nat
        BY <1>1, LeavesGuard
    <2>5. Cardinality(Alive(f, w, clock)) + Cardinality(CallersIn') + 1
             <= Budget!EffectiveMax + Cardinality(Callers)
        BY <1>1, <2>2, <2>3, <2>4, CallersFinite, BudgetFacts DEF Room, w
    <2> QED BY <2>5 DEF Room, f, w
<1> QED BY <1>10, <1>11, <1>12, <1>13 DEF BudgetInv

LEMMA BudgetInit == ASSUME Budget!Init PROVE BudgetInv
<1> USE DEF Budget!Init
<1>1. BudgetType
    BY BudgetFacts DEF BudgetType, Budget!TypeOK, Budget!CallerStates
<1>2. Remembers
    BY DEF Remembers, Follows
<1>3. Room
    <2>1. CallersIn = {} /\ Alive(finished, WindowSeconds, clock) = {}
        BY DEF CallersIn, Alive
    <2>2. Cardinality(CallersIn) = 0 /\ Cardinality(Alive(finished, WindowSeconds, clock)) = 0
        BY <2>1, FS_EmptySet
    <2>3. 0 + 0 + 1 <= Budget!EffectiveMax + Cardinality(Callers)
        BY CallersFinite, BudgetFacts
    <2> QED BY <2>2, <2>3 DEF Room
<1>4. Warned
    BY BudgetFacts DEF Warned
<1> QED BY <1>1, <1>2, <1>3, <1>4 DEF BudgetInv

LEMMA BudgetStep == ASSUME BudgetInv, Budget!Next PROVE BudgetInv'
BY BudgetTick, BudgetCheck, BudgetRecord, BudgetFail, BudgetHalt, BudgetCaught
DEF Budget!Next

(* Callers that are let in together pass the rate cap by at most one call   *)
(* for each of the others, and nobody is refused before every threshold is  *)
(* announced, however many callers there are, whatever the cap, the window  *)
(* and the time that calls take (audit/budget_guard.py).                   *)
THEOREM OvershootIsBounded == Spec => []GuardsSound
<1> DEFINE I == machine = "budget" => BudgetInv
<1>1. Init => I
    BY BudgetInit DEF Init
<1>2. I /\ [Next]_vars => I'
    <2> SUFFICES ASSUME I, [Next]_vars, machine' = "budget" PROVE BudgetInv'
        OBVIOUS
    <2>1. CASE BudgetNext
        BY <2>1, BudgetStep DEF BudgetNext
    <2>2. CASE UNCHANGED vars
        <3>1. UNCHANGED <<machine, clock, stamps, rateFired, cost, costFired, halted,
                          caller, finished, made>>
            BY <2>2 DEF vars, budgetOnly
        <3> QED BY <3>1 DEF BudgetInv, BudgetType, Budget!TypeOK, Remembers, Room, Warned,
               CallersIn
    <2>3. CASE Next /\ ~BudgetNext
        <3>1. machine = "budget"
            BY <2>3, OneMachine
        <3> QED BY <2>3, <3>1 DEF Next, WorkerNext, ImproverNext, EvaluatorNext,
               GpuNext, CurriculumNext, RenameNext, ShaderNext, PublishNext, ModelsNext
    <2> QED BY <2>1, <2>2, <2>3
<1>3. I => GuardsSound
    <2> SUFFICES ASSUME BudgetInv
                 PROVE  Budget!TypeOK /\ Budget!OvershootBounded /\ Budget!RefusedAfterWarning
        BY DEF GuardsSound
    <2>1. BudgetType /\ Remembers /\ Room /\ Warned
        BY DEF BudgetInv
    <2>2. Budget!OvershootBounded
        <3>1. Budget!InWindow = Alive(finished, WindowSeconds, clock)
            BY <2>1, BudgetSequences DEF Budget!InWindow, Alive
        <3>2. Cardinality(Alive(finished, WindowSeconds, clock)) \in Nat
            BY <2>1, LooksAtRate
        <3>3. Cardinality(Alive(finished, WindowSeconds, clock)) + 1
                 <= Budget!EffectiveMax + Cardinality(Callers)
            BY <2>1, <3>2, CallersFinite, BudgetFacts DEF Room
        <3> QED BY <3>1, <3>3, BudgetFacts DEF Budget!OvershootBounded
    <2>3. Budget!RefusedAfterWarning
        <3>1. Len(Budget!Pruned(stamps, clock)) \in Nat
              /\ Len(Budget!Pruned(stamps, clock)) <= Len(stamps)
            BY <2>1, LooksAtRate
        <3> QED BY <2>1, <3>1, BudgetSequences, BudgetFacts
            DEF Warned, Budget!RefusedAfterWarning
    <2> QED BY <2>1, <2>2, <2>3 DEF BudgetType
<1> QED BY <1>1, <1>2, <1>3, PTL DEF Spec
-----------------------------------------------------------------------------
(* The worker and its models.                                              *)
LEMMA WorkerFacts ==
    /\ MaxRetries \in Nat \ {0} /\ Rates \subseteq Nat /\ History \in Nat \ {0}
    /\ Debounce \in Nat \ {0} /\ MaxTime \in Nat /\ MaxCalls \in Nat
BY CallsAssumption DEF Worker!ValidWorker

WorkerType ==
    /\ pc \in {"Idle", "Post", "Wait", "Returned", "Raised"}
    /\ model \in {"primary", "fallback"} /\ attempt \in 0 .. MaxRetries
    /\ clock \in Nat /\ timeouts \in Nat /\ posts \in Nat
    /\ result = None \/ result \in [model : {"primary", "fallback"}, rate : Nat]
    /\ tally \in Seq(Nat) /\ first \in Seq(Rates) /\ pressure \in Seq(Nat)
    /\ Len(tally) <= History /\ Len(first) <= 2 /\ Len(pressure) <= 2
    /\ baseline = None \/ baseline \in Rates

(* The posts of a call are those to its model, and before it all that the   *)
(* other one may get.                                                      *)
Paid ==
    /\ posts <= 2 * MaxRetries
    /\ pc \in {"Post", "Wait"} =>
          /\ attempt < MaxRetries
          /\ posts <= attempt + (IF model = "primary" THEN 0 ELSE MaxRetries)

WorkerInv == WorkerType /\ Paid /\ Worker!PressurePaced

LEMMA LastOfThem ==
    ASSUME NEW S, NEW s \in Seq(S), NEW n \in Nat \ {0}
    PROVE  LET r == Worker!LastN(s, n)
           IN  /\ r \in Seq(S) /\ Len(r) = (IF Len(s) <= n THEN Len(s) ELSE n)
               /\ \A k \in 1 .. Len(r) : r[k] = s[Len(s) - Len(r) + k]
<1>1. Len(s) \in Nat /\ \A k \in 1 .. Len(s) : s[k] \in S
    BY LenProperties, ElementOfSeq
<1>2. CASE Len(s) <= n
    <2>1. \A k \in 1 .. Len(s) : Len(s) - Len(s) + k = k
        BY <1>1
    <2> QED BY <1>2, <2>1 DEF Worker!LastN
<1>3. CASE ~(Len(s) <= n)
    <2> DEFINE m == Len(s) - n + 1
    <2>1. m \in 1 .. Len(s) /\ \A k \in m .. Len(s) : s[k] \in S
        BY <1>1, <1>3
    <2> DEFINE r == SubSeq(s, m, Len(s))
    <2>2. /\ r \in Seq(S) /\ Len(r) = Len(s) - m + 1
          /\ \A k \in 1 .. Len(s) - m + 1 : r[k] = s[m + k - 1]
        BY <1>1, <2>1, SubSeqProperties
    <2>3. Worker!LastN(s, n) = r
        BY <1>3 DEF Worker!LastN
    <2> HIDE DEF r
    <2>4. Len(r) = n
        BY <1>1, <2>2
    <2>5. \A k \in 1 .. Len(r) : r[k] = s[Len(s) - Len(r) + k]
        <3> SUFFICES ASSUME NEW k \in 1 .. Len(r) PROVE r[k] = s[Len(s) - Len(r) + k]
            OBVIOUS
        <3>1. k \in 1 .. Len(s) - m + 1 /\ m + k - 1 = Len(s) - Len(r) + k
            BY <1>1, <2>4
        <3> QED BY <2>2, <3>1
    <2> QED BY <1>3, <2>2, <2>3, <2>4, <2>5
<1> QED BY <1>2, <1>3

(* Of three rates one has no two on either side.                            *)
LEMMA MedianIsOne ==
    ASSUME NEW s \in Seq(Rates), Len(s) = 3
    PROVE  Worker!Median3(s) \in Rates
<1>1. s[1] \in Rates /\ s[2] \in Rates /\ s[3] \in Rates
    <2>1. 1 \in 1 .. Len(s) /\ 2 \in 1 .. Len(s) /\ 3 \in 1 .. Len(s)
        OBVIOUS
    <2> QED BY <2>1, ElementOfSeq
<1>2. s[1] \in Nat /\ s[2] \in Nat /\ s[3] \in Nat
    BY <1>1, WorkerFacts
<1> DEFINE Fits(v) == /\ Worker!Cardinality({k \in 1 .. 3 : s[k] < v}) <= 1
                      /\ Worker!Cardinality({k \in 1 .. 3 : s[k] > v}) <= 1
<1>3. ASSUME NEW S \in SUBSET (1 .. 3), NEW i, S \subseteq {i}
      PROVE  Worker!Cardinality(S) <= 1
    <2>1. IsFiniteSet({i}) /\ Cardinality({i}) = 1
        BY FS_Singleton
    <2>2. Cardinality(S) <= Cardinality({i})
        BY <1>3, <2>1, FS_Subset
    <2>3. Worker!Cardinality(S) = Cardinality(S)
        BY DEF Worker!Cardinality, Cardinality, Worker!IsFiniteSet, IsFiniteSet
    <2> QED BY <2>1, <2>2, <2>3
<1>4. ASSUME NEW i \in 1 .. 3, NEW j \in 1 .. 3, NEW l \in 1 .. 3,
             {i, j, l} = 1 .. 3, s[i] <= s[j], s[j] <= s[l]
      PROVE  Fits(s[j])
    <2>1. s[i] \in Nat /\ s[j] \in Nat /\ s[l] \in Nat
        BY <1>2
    <2>2. {k \in 1 .. 3 : s[k] < s[j]} \subseteq {i}
        <3> SUFFICES ASSUME NEW k \in 1 .. 3, s[k] < s[j] PROVE k = i
            OBVIOUS
        <3>1. k \in {i, j, l}
            BY <1>4
        <3> QED BY <1>4, <2>1, <3>1
    <2>3. {k \in 1 .. 3 : s[k] > s[j]} \subseteq {l}
        <3> SUFFICES ASSUME NEW k \in 1 .. 3, s[k] > s[j] PROVE k = l
            OBVIOUS
        <3>1. k \in {i, j, l}
            BY <1>4
        <3> QED BY <1>4, <2>1, <3>1
    <2> QED BY <1>3, <2>2, <2>3
<1>5. \E v \in {s[1], s[2], s[3]} : Fits(v)
    <2> HIDE DEF Fits
    <2>1. {1, 2, 3} = 1 .. 3
        OBVIOUS
    <2>2. CASE s[1] <= s[2] /\ s[2] <= s[3]
        BY <1>4, <2>1, <2>2
    <2>3. CASE s[1] <= s[3] /\ s[3] <= s[2]
        BY <1>4, <2>1, <2>3
    <2>4. CASE s[2] <= s[1] /\ s[1] <= s[3]
        BY <1>4, <2>1, <2>4
    <2>5. CASE s[2] <= s[3] /\ s[3] <= s[1]
        BY <1>4, <2>1, <2>5
    <2>6. CASE s[3] <= s[1] /\ s[1] <= s[2]
        BY <1>4, <2>1, <2>6
    <2>7. CASE s[3] <= s[2] /\ s[2] <= s[1]
        BY <1>4, <2>1, <2>7
    <2> QED BY <1>2, <2>2, <2>3, <2>4, <2>5, <2>6, <2>7
<1>6. Worker!Median3(s) = CHOOSE v \in {s[1], s[2], s[3]} : Fits(v)
    BY DEF Worker!Median3
<1> HIDE DEF Fits
<1>7. Worker!Median3(s) \in {s[1], s[2], s[3]}
    BY <1>5, <1>6
<1> QED BY <1>1, <1>7

(* A call that returns adds to the history; events of the pressure keep     *)
(* their distance, and the baseline stays.                                 *)
LEMMA Recording ==
    ASSUME WorkerInv, timeouts' \in Nat, NEW r, r = None \/ r.rate \in Rates \cup {0},
           Worker!RecordCall(r)
    PROVE  /\ tally' \in Seq(Nat) /\ first' \in Seq(Rates) /\ pressure' \in Seq(Nat)
           /\ Len(tally') <= History /\ Len(first') <= 2 /\ Len(pressure') <= 2
           /\ baseline' = None \/ baseline' \in Rates
           /\ Worker!PressurePaced'
<1> USE DEF Worker!RecordCall
<1>1. WorkerType /\ Worker!PressurePaced
    BY DEF WorkerInv
<1>2. /\ tally \in Seq(Nat) /\ first \in Seq(Rates) /\ pressure \in Seq(Nat) /\ clock \in Nat
      /\ Len(first) <= 2 /\ Len(pressure) <= 2 /\ (baseline = None \/ baseline \in Rates)
    BY <1>1 DEF WorkerType
<1>3. tally' \in Seq(Nat) /\ Len(tally') <= History
    <2>1. Append(tally, timeouts') \in Seq(Nat) /\ Len(Append(tally, timeouts')) \in Nat
        BY <1>2, Appended, LenProperties
    <2> DEFINE t == Append(tally, timeouts')
    <2> HIDE DEF t
    <2>2. /\ Worker!LastN(t, History) \in Seq(Nat)
          /\ Len(Worker!LastN(t, History)) = IF Len(t) <= History THEN Len(t) ELSE History
        BY <2>1, WorkerFacts, LastOfThem DEF t
    <2>3. tally' = Worker!LastN(t, History) /\ Len(t) \in Nat
        BY <2>1 DEF t
    <2>4. Len(tally') <= History
        BY <2>2, <2>3, WorkerFacts
    <2> QED BY <2>2, <2>3, <2>4
<1>4. CASE UNCHANGED <<first, baseline, pressure>>
    BY <1>1, <1>2, <1>3, <1>4 DEF Worker!PressurePaced
<1>5. CASE r # None /\ r.rate \in Rates /\ r.rate # 0 /\ baseline = None
    <2> DEFINE s == Append(first, r.rate)
    <2>1. s \in Seq(Rates) /\ Len(s) = Len(first) + 1 /\ Len(first) \in Nat
        BY <1>2, <1>5, Appended
    <2>2. pressure' = pressure
          /\ IF Len(s) = 3 THEN first' = <<>> /\ baseline' = Worker!Median3(s)
                           ELSE first' = s /\ UNCHANGED baseline
        BY <1>5
    <2> HIDE DEF s
    <2>3. pressure = <<>>
        BY <1>1, <1>5 DEF Worker!PressurePaced
    <2>4. Worker!PressurePaced'
        BY <2>2, <2>3 DEF Worker!PressurePaced
    <2>5. CASE Len(s) = 3
        <3>1. baseline' \in Rates
            BY <2>1, <2>2, <2>5, MedianIsOne
        <3> QED BY <1>2, <1>3, <2>2, <2>4, <2>5, <3>1
    <2>6. CASE Len(s) # 3
        <3>1. Len(s) <= 2
            BY <1>2, <2>1, <2>6
        <3> QED BY <1>2, <1>3, <2>1, <2>2, <2>4, <2>6, <3>1
    <2> QED BY <2>5, <2>6
<1>6. CASE /\ UNCHANGED <<first, baseline>> /\ baseline # None
           /\ Worker!MayTell(pressure, clock)
           /\ pressure' = Worker!LastN(Append(pressure, clock), 2)
    <2> DEFINE s == Append(pressure, clock)
    <2>1. /\ s \in Seq(Nat) /\ Len(s) = Len(pressure) + 1 /\ s[Len(pressure) + 1] = clock
          /\ \A k \in 1 .. Len(pressure) : s[k] = pressure[k]
          /\ Len(pressure) \in Nat /\ Len(s) \in Nat
        BY <1>2, Appended, LenProperties
    <2> HIDE DEF s
    <2>2. /\ pressure' \in Seq(Nat) /\ Len(pressure') = (IF Len(s) <= 2 THEN Len(s) ELSE 2)
          /\ \A k \in 1 .. Len(pressure') : pressure'[k] = s[Len(s) - Len(pressure') + k]
        <3> DEFINE n == 2
        <3>1. n \in Nat \ {0} /\ s \in Seq(Nat)
            BY <2>1
        <3> HIDE DEF n
        <3> DEFINE kept == Worker!LastN(s, n)
        <3>2. /\ kept \in Seq(Nat) /\ Len(kept) = (IF Len(s) <= n THEN Len(s) ELSE n)
              /\ \A k \in 1 .. Len(kept) : kept[k] = s[Len(s) - Len(kept) + k]
            BY <3>1, LastOfThem
        <3>3. pressure' = kept
            BY <1>6 DEF s, n
        <3> HIDE DEF kept
        <3> QED BY <3>2, <3>3 DEF n
    <2>3. Len(pressure') = 2 => pressure'[2] - pressure'[1] >= Debounce
        <3> SUFFICES ASSUME Len(pressure') = 2 PROVE pressure'[2] - pressure'[1] >= Debounce
            OBVIOUS
        <3>1. pressure'[1] = s[Len(s) - 2 + 1] /\ pressure'[2] = s[Len(s) - 2 + 2]
            BY <2>2
        <3>2. Len(s) - 2 + 1 = Len(pressure) /\ Len(s) - 2 + 2 = Len(pressure) + 1
              /\ Len(pressure) \in 1 .. Len(pressure)
            BY <1>2, <2>1, <2>2
        <3>3. pressure'[1] = pressure[Len(pressure)] /\ pressure'[2] = clock
            BY <2>1, <3>1, <3>2
        <3>4. clock - pressure[Len(pressure)] >= Debounce
            BY <1>6, <3>2 DEF Worker!MayTell
        <3> QED BY <3>3, <3>4
    <2>4. Worker!PressurePaced'
        BY <1>6, <2>3 DEF Worker!PressurePaced
    <2>5. Len(pressure') <= 2
        BY <2>1, <2>2
    <2> QED BY <1>2, <1>3, <1>6, <2>2, <2>4, <2>5
<1> QED BY <1>4, <1>5, <1>6

LEMMA WorkerQuiet ==
    ASSUME WorkerInv, Worker!Tick \/ Worker!Generate \/ Worker!Retry \/ Worker!Raise
    PROVE  WorkerInv'
<1> USE DEF Worker!callVars, Worker!usageVars, Worker!pressureVars, Worker!Posted
<1>1. CASE Worker!Tick
    BY <1>1, WorkerFacts DEF Worker!Tick, WorkerInv, WorkerType, Paid, Worker!PressurePaced
<1>2. CASE Worker!Generate
    BY <1>2, WorkerFacts DEF Worker!Generate, WorkerInv, WorkerType, Paid,
       Worker!PressurePaced
<1>3. CASE Worker!Retry
    BY <1>3, WorkerFacts DEF Worker!Retry, WorkerInv, WorkerType, Paid,
       Worker!PressurePaced
<1>4. CASE Worker!Raise
    <2>1. posts' <= 2 * MaxRetries /\ posts' \in Nat
        BY SMTT(30), <1>4, WorkerFacts DEF Worker!Raise, WorkerInv, WorkerType, Paid
    <2> QED BY <1>4, <2>1, WorkerFacts DEF Worker!Raise, WorkerInv, WorkerType, Paid,
        Worker!PressurePaced
<1> QED BY <1>1, <1>2, <1>3, <1>4

LEMMA WorkerFinishes ==
    ASSUME WorkerInv, NEW r, r = None \/ r \in [model : {"primary", "fallback"}, rate : Nat],
           r = None \/ r.rate \in Rates \cup {0}, timeouts' \in Nat,
           Worker!Posted, Worker!Finish(r), UNCHANGED <<model, attempt>>
    PROVE  WorkerInv'
<1> USE DEF Worker!Finish, Worker!Posted
<1>1. /\ tally' \in Seq(Nat) /\ first' \in Seq(Rates) /\ pressure' \in Seq(Nat)
      /\ Len(tally') <= History /\ Len(first') <= 2 /\ Len(pressure') <= 2
      /\ baseline' = None \/ baseline' \in Rates
      /\ Worker!PressurePaced'
    BY Recording
<1>2. posts' <= 2 * MaxRetries /\ posts' \in Nat
    BY WorkerFacts DEF WorkerInv, WorkerType, Paid
<1>3. WorkerType'
    BY <1>1, <1>2 DEF WorkerInv, WorkerType
<1>4. Paid'
    BY <1>2 DEF Paid
<1> QED BY <1>1, <1>3, <1>4 DEF WorkerInv

(* A model that has failed gives way to the other one, or the call ends.    *)
LEMMA WorkerGivesUp ==
    ASSUME WorkerInv, timeouts' \in Nat, Worker!Posted, Worker!GiveUp
    PROVE  WorkerInv'
<1>1. CASE model = "primary"
    <2>1. /\ model' = "fallback" /\ attempt' = 0 /\ pc' = "Post" /\ pc = "Post"
          /\ posts' = posts + 1
          /\ UNCHANGED <<clock, result, tally, first, baseline, pressure>>
        BY <1>1 DEF Worker!GiveUp, Worker!usageVars, Worker!pressureVars, Worker!Posted
    <2>2. posts' \in Nat /\ posts' <= MaxRetries
        BY <1>1, <2>1, WorkerFacts DEF WorkerInv, WorkerType, Paid
    <2>3. WorkerType'
        BY <2>1, <2>2, WorkerFacts DEF WorkerInv, WorkerType
    <2>4. Paid'
        BY <2>1, <2>2, WorkerFacts DEF Paid
    <2> QED BY <2>1, <2>3, <2>4 DEF WorkerInv, Worker!PressurePaced
<1>2. CASE model # "primary"
    <2>1. Worker!Finish(None) /\ UNCHANGED <<model, attempt>>
        BY <1>2 DEF Worker!GiveUp
    <2> QED BY <2>1, WorkerFinishes
<1> QED BY <1>1, <1>2

LEMMA WorkerPosts ==
    ASSUME WorkerInv,
           \/ \E rate \in Rates \cup {0} : Worker!Answer(rate)
           \/ Worker!Refused \/ Worker!Transient(TRUE) \/ Worker!Transient(FALSE)
    PROVE  WorkerInv'
<1>1. timeouts \in Nat /\ timeouts + 1 \in Nat
    BY DEF WorkerInv, WorkerType
<1>2. ASSUME NEW rate \in Rates \cup {0}, Worker!Answer(rate)
      PROVE  WorkerInv'
    <2> DEFINE r == [model |-> model, rate |-> rate]
    <2>1. r \in [model : {"primary", "fallback"}, rate : Nat] /\ r.rate \in Rates \cup {0}
        BY WorkerFacts DEF WorkerInv, WorkerType
    <2>2. /\ Worker!Posted /\ Worker!Finish(r)
          /\ UNCHANGED <<model, attempt>> /\ timeouts' = timeouts
        BY <1>2 DEF Worker!Answer
    <2> HIDE DEF r
    <2> QED BY <1>1, <2>1, <2>2, WorkerFinishes
<1>3. CASE Worker!Refused
    BY <1>1, <1>3, WorkerGivesUp DEF Worker!Refused
<1>4. ASSUME NEW counts \in BOOLEAN, Worker!Transient(counts)
      PROVE  WorkerInv'
    <2>1. Worker!Posted /\ timeouts' \in Nat
        BY <1>1, <1>4 DEF Worker!Transient
    <2>2. CASE attempt + 1 >= MaxRetries
        BY <1>4, <2>1, <2>2, WorkerGivesUp DEF Worker!Transient
    <2>3. CASE ~(attempt + 1 >= MaxRetries)
        <3>1. /\ pc' = "Wait" /\ attempt' = attempt + 1 /\ pc = "Post" /\ posts' = posts + 1
              /\ UNCHANGED <<clock, model, result, tally, first, baseline, pressure>>
            BY <1>4, <2>3 DEF Worker!Transient, Worker!usageVars, Worker!pressureVars,
               Worker!Posted
        <3>2. attempt' \in 0 .. MaxRetries /\ attempt' < MaxRetries /\ posts' \in Nat
            BY <2>3, <3>1, WorkerFacts DEF WorkerInv, WorkerType
        <3>3. WorkerType'
            BY <2>1, <3>1, <3>2, WorkerFacts DEF WorkerInv, WorkerType
        <3>4. Paid'
            <4>1. /\ posts <= attempt + (IF model = "primary" THEN 0 ELSE MaxRetries)
                  /\ posts \in Nat /\ attempt \in Nat
                BY <3>1 DEF WorkerInv, WorkerType, Paid
            <4> QED BY <3>1, <3>2, <4>1, WorkerFacts DEF Paid
        <3> QED BY <3>1, <3>3, <3>4 DEF WorkerInv, Worker!PressurePaced
    <2> QED BY <2>2, <2>3
<1> QED BY <1>2, <1>3, <1>4

LEMMA WorkerInit == ASSUME Worker!Init PROVE WorkerInv
<1>1. <<>> \in Seq(Nat) /\ <<>> \in Seq(Rates) /\ Len(<<>>) = 0
    BY EmptySeq
<1> QED BY <1>1, WorkerFacts DEF Worker!Init, WorkerInv, WorkerType, Paid, Worker!PressurePaced

LEMMA WorkerStep == ASSUME WorkerInv, Worker!Next PROVE WorkerInv'
BY WorkerQuiet, WorkerPosts DEF Worker!Next, Worker!Working
-----------------------------------------------------------------------------
(* An improvement and its votes.                                           *)
LEMMA ImproverFacts ==
    /\ Instances \in Nat \ {0} /\ MaxRetries \in Nat \ {0}
    /\ BOOLEAN \cap (Prompts \cup Budgets \cup {RuleBased, None}) = {}
    /\ \A S : Improver!Cardinality(S) = Cardinality(S)
<1>1. \A S : Improver!Cardinality(S) = Cardinality(S)
    BY DEF Improver!Cardinality, Cardinality, Improver!IsFiniteSet, IsFiniteSet
<1> QED BY <1>1, CallsAssumption DEF Improver!ValidImprover

Deltas == [prompt : Prompts \cup {RuleBased, None}, protocolChanged : BOOLEAN,
           budget : Budgets \cup {None}]

Harnesses == [prompt : Prompts \cup {RuleBased, None}, protocol : Protocols \cup {None},
              budget : Budgets \cup {None}]

Answers == Seq([harness : Harnesses, delta : Deltas])

(* What an instance costs: the calls of it that are over, and the one that  *)
(* is under way.                                                           *)
Affordable ==
    /\ attempt < MaxRetries
    /\ \/ tries = 1 /\ posts <= attempt
       \/ tries = 2 /\ posts <= MaxRetries + attempt
       \/ tries = 3 /\ posts <= 2 * MaxRetries + attempt
       \/ tries = 4 /\ posts <= 3 * MaxRetries + attempt

(* What more than half of the answers say is in the vote, and its harness   *)
(* fits it if that of any answer does.                                     *)
Agreed(o) ==
    /\ \A f \in Improver!Fields : \A k \in DOMAIN pairs :
          2 * Improver!CountOf(f, pairs[k].delta[f]) > Len(pairs) =>
             o.delta[f] = pairs[k].delta[f]
    /\ (\E k \in DOMAIN pairs : pairs[k].delta = o.delta) =>
          \/ \E k \in DOMAIN pairs : pairs[k] = o
          \/ o = Improver!Pair(Improver!Baseline, Improver!NoDelta)

ImproverInv ==
    /\ strategy \in Strategies
    /\ pc \in {"Post", "Aggregate", "Improved", "Failed"}
    /\ calls \in 1 .. 4 /\ arm \in 1 .. Instances /\ tries \in 1 .. 4
    /\ attempt \in 0 .. MaxRetries /\ posts \in Nat /\ posts <= 4 * MaxRetries
    /\ pairs \in Answers /\ Len(pairs) <= Instances
    /\ pc = "Post" => Len(pairs) < arm /\ Affordable
    /\ pc = "Aggregate" => pairs # <<>>
    /\ (pc = "Improved" /\ strategy = "vote" /\ Instances > 1) => Agreed(outcome)

LEMMA PairsFacts ==
    ASSUME pairs \in Answers
    PROVE  /\ Len(pairs) \in Nat /\ DOMAIN pairs = 1 .. Len(pairs)
           /\ \A k \in DOMAIN pairs : pairs[k] \in [harness : Harnesses, delta : Deltas]
           /\ pairs # <<>> => 1 \in DOMAIN pairs
<1>1. Len(pairs) \in Nat /\ DOMAIN pairs = 1 .. Len(pairs)
    BY LenProperties DEF Answers
<1>2. \A k \in 1 .. Len(pairs) : pairs[k] \in [harness : Harnesses, delta : Deltas]
    BY ElementOfSeq DEF Answers
<1>3. pairs # <<>> => Len(pairs) # 0
    BY EmptySeq DEF Answers
<1> QED BY <1>1, <1>2, <1>3

(* The first of the instances of which something holds.                     *)
LEMMA FirstIs ==
    ASSUME pairs \in Answers, NEW f, NEW S, NEW i \in DOMAIN pairs,
           Improver!Values(f)[i] \in S
    PROVE  \E k \in DOMAIN pairs :
              Improver!FirstOf(f, S) = pairs[k].delta[f] /\ pairs[k].delta[f] \in S
<1> DEFINE V == Improver!Values(f)
           K == {k \in DOMAIN pairs : V[k] \in S}
           First(k) == V[k] \in S /\ \A l \in DOMAIN pairs : V[l] \in S => k <= l
<1>1. K \in SUBSET Nat /\ K # {}
    BY PairsFacts
<1> HIDE DEF K
<1>2. \E m \in K : \A n \in K : m <= n
    BY <1>1, Smallest
<1>3. \E k \in DOMAIN pairs : First(k)
    BY <1>2 DEF K
<1>4. Improver!FirstOf(f, S) = V[CHOOSE k \in DOMAIN pairs : First(k)]
    BY DEF Improver!FirstOf
<1> DEFINE j == CHOOSE k \in DOMAIN pairs : First(k)
<1>5. j \in DOMAIN pairs /\ First(j)
    <2> HIDE DEF First
    <2> QED BY <1>3
<1> HIDE DEF j
<1>6. V[j] = pairs[j].delta[f]
    BY <1>5 DEF Improver!Values
<1> QED BY <1>4, <1>5, <1>6 DEF j

LEMMA Votes ==
    ASSUME pairs \in Answers, NEW f, NEW v
    PROVE  /\ IsFiniteSet({k \in DOMAIN pairs : pairs[k].delta[f] = v})
           /\ Improver!CountOf(f, v) = Cardinality({k \in DOMAIN pairs : pairs[k].delta[f] = v})
           /\ Improver!CountOf(f, v) \in Nat /\ Improver!CountOf(f, v) <= Len(pairs)
<1> DEFINE S == {k \in DOMAIN pairs : pairs[k].delta[f] = v}
<1>1. /\ IsFiniteSet(1 .. Len(pairs)) /\ Cardinality(1 .. Len(pairs)) = Len(pairs)
    <2>1. Len(pairs) \in Nat /\ 1 \in Int /\ Len(pairs) \in Int
        BY PairsFacts
    <2>2. /\ IsFiniteSet(1 .. Len(pairs))
          /\ Cardinality(1 .. Len(pairs)) = IF 1 > Len(pairs) THEN 0 ELSE Len(pairs) - 1 + 1
        BY <2>1, FS_Interval
    <2> QED BY <2>1, <2>2
<1>2. IsFiniteSet(S) /\ Cardinality(S) <= Len(pairs)
    <2>1. S \in SUBSET (1 .. Len(pairs))
        BY PairsFacts
    <2> HIDE DEF S
    <2> QED BY <1>1, <2>1, FS_Subset
<1>3. Cardinality(S) \in Nat
    BY <1>2, FS_CardinalityType
<1>4. Improver!CountOf(f, v) = Cardinality(S)
    BY ImproverFacts DEF Improver!CountOf
<1> QED BY <1>2, <1>3, <1>4

(* The winner of a field is what some answer says.                          *)
LEMMA WinnerIsSaid ==
    ASSUME pairs \in Answers, pairs # <<>>, NEW f
    PROVE  \E k \in DOMAIN pairs :
              Improver!Winner(f) = pairs[k].delta[f]
              /\ pairs[k].delta[f] \in Improver!Contenders(f)
<1> DEFINE V == Improver!Values(f)
           Wanting(k) == Len(pairs) - Improver!CountOf(f, V[k])
           M == {Wanting(k) : k \in DOMAIN pairs}
<1>1. \A k \in DOMAIN pairs : Wanting(k) \in Nat
    <2> SUFFICES ASSUME NEW k \in DOMAIN pairs PROVE Wanting(k) \in Nat
        OBVIOUS
    <2> DEFINE v == V[k]
    <2>1. Improver!CountOf(f, v) \in Nat /\ Improver!CountOf(f, v) <= Len(pairs)
        <3> HIDE DEF v
        <3> QED BY Votes
    <2> HIDE DEF v
    <2>2. Len(pairs) - Improver!CountOf(f, v) \in Nat
        BY <2>1, PairsFacts
    <2> QED BY <2>2 DEF v
<1>2. M \in SUBSET Nat /\ M # {}
    BY <1>1, PairsFacts
<1>3. \E m \in M : \A n \in M : m <= n
    <2> HIDE DEF M
    <2> QED BY <1>2, Smallest
<1>4. PICK i \in DOMAIN pairs : \A k \in DOMAIN pairs : Wanting(i) <= Wanting(k)
    BY <1>3
<1>5. ASSUME NEW k \in DOMAIN pairs
      PROVE  Improver!CountOf(f, V[k]) <= Improver!CountOf(f, V[i])
    <2> DEFINE a == Improver!CountOf(f, V[k]) b == Improver!CountOf(f, V[i])
    <2>1. Len(pairs) - b <= Len(pairs) - a
        BY <1>4
    <2>2. a \in Nat /\ b \in Nat /\ Len(pairs) \in Nat
        <3> DEFINE v == V[k] w == V[i]
        <3>1. Improver!CountOf(f, v) \in Nat /\ Improver!CountOf(f, w) \in Nat
            <4> HIDE DEF v, w
            <4> QED BY Votes
        <3> QED BY <3>1, PairsFacts
    <2> HIDE DEF a, b
    <2>3. a <= b
        BY <2>1, <2>2
    <2> QED BY <2>3 DEF a, b
<1>6. V[i] \in Improver!Contenders(f) /\ DOMAIN V = DOMAIN pairs
    BY <1>5 DEF Improver!Contenders, Improver!Range, Improver!Values
<1> DEFINE best == Improver!Contenders(f)
           changes == {v \in best : ~Improver!IsNoop(v)}
<1>7. CASE Improver!Cardinality(best) > 1 /\ changes # {}
    <2>1. PICK v \in changes : TRUE
        BY <1>7
    <2>2. PICK j \in DOMAIN pairs : V[j] = v
        BY <1>6 DEF Improver!Contenders, Improver!Range
    <2>3. \E k \in DOMAIN pairs :
             Improver!FirstOf(f, changes) = pairs[k].delta[f] /\ pairs[k].delta[f] \in changes
        <3>1. V[j] \in changes
            BY <2>2
        <3> HIDE DEF changes
        <3> QED BY <3>1, FirstIs
    <2>4. Improver!Winner(f) = Improver!FirstOf(f, changes)
        BY <1>7 DEF Improver!Winner
    <2> QED BY <2>3, <2>4
<1>8. CASE ~(Improver!Cardinality(best) > 1 /\ changes # {})
    <2>1. \E k \in DOMAIN pairs :
             Improver!FirstOf(f, best) = pairs[k].delta[f] /\ pairs[k].delta[f] \in best
        <3>1. V[i] \in best
            BY <1>6
        <3> HIDE DEF best
        <3> QED BY <3>1, FirstIs
    <2>2. Improver!Winner(f) = Improver!FirstOf(f, best)
        BY <1>8 DEF Improver!Winner
    <2> QED BY <2>1, <2>2
<1> QED BY <1>7, <1>8

(* What more than half of the answers say has no rival.                     *)
LEMMA MajorityWins ==
    ASSUME pairs \in Answers, NEW f, NEW k \in DOMAIN pairs,
           2 * Improver!CountOf(f, pairs[k].delta[f]) > Len(pairs)
    PROVE  Improver!Winner(f) = pairs[k].delta[f]
<1> DEFINE v == pairs[k].delta[f]
<1>1. pairs # <<>>
    OBVIOUS
<1>2. PICK j \in DOMAIN pairs :
         Improver!Winner(f) = pairs[j].delta[f] /\ pairs[j].delta[f] \in Improver!Contenders(f)
    BY <1>1, WinnerIsSaid
<1> DEFINE w == pairs[j].delta[f]
<1>3. Improver!CountOf(f, v) <= Improver!CountOf(f, w)
    <2>1. v \in Improver!Range(Improver!Values(f))
        <3>1. k \in DOMAIN Improver!Values(f) /\ Improver!Values(f)[k] = v
            BY DEF Improver!Values
        <3> HIDE DEF v
        <3> QED BY <3>1 DEF Improver!Range
    <2> HIDE DEF v
    <2> QED BY <1>2, <2>1 DEF Improver!Contenders
<1>4. ASSUME v # w PROVE FALSE
    <2> DEFINE A == {l \in DOMAIN pairs : pairs[l].delta[f] = v}
               B == {l \in DOMAIN pairs : pairs[l].delta[f] = w}
    <2>1. A \cap B = {} /\ A \cup B \subseteq 1 .. Len(pairs) /\ Len(pairs) \in Nat
        BY <1>4, PairsFacts
    <2>2. /\ IsFiniteSet(A) /\ IsFiniteSet(B)
          /\ Improver!CountOf(f, v) = Cardinality(A) /\ Improver!CountOf(f, w) = Cardinality(B)
          /\ Cardinality(A) \in Nat /\ Cardinality(B) \in Nat
        <3>1. /\ IsFiniteSet(A) /\ Improver!CountOf(f, v) = Cardinality(A)
              /\ Improver!CountOf(f, v) \in Nat
            <4> HIDE DEF v
            <4> QED BY Votes
        <3>2. /\ IsFiniteSet(B) /\ Improver!CountOf(f, w) = Cardinality(B)
              /\ Improver!CountOf(f, w) \in Nat
            <4> HIDE DEF w
            <4> QED BY Votes
        <3> HIDE DEF A, B, v, w
        <3> QED BY <3>1, <3>2
    <2>3. 2 * Cardinality(A) > Len(pairs) /\ Cardinality(A) <= Cardinality(B)
        BY <1>3, <2>2
    <2> HIDE DEF A, B
    <2>4. Cardinality(A \cup B) = Cardinality(A) + Cardinality(B) - Cardinality(A \cap B)
        BY <2>2, FS_Union
    <2>5. Cardinality(A \cap B) = 0
        BY <2>1, FS_EmptySet
    <2>6. Cardinality(A \cup B) <= Len(pairs)
        <3>1. 1 \in Int /\ Len(pairs) \in Int
            BY <2>1
        <3>2. /\ IsFiniteSet(1 .. Len(pairs))
              /\ Cardinality(1 .. Len(pairs)) = IF 1 > Len(pairs) THEN 0 ELSE Len(pairs) - 1 + 1
            BY <3>1, FS_Interval
        <3>3. Cardinality(1 .. Len(pairs)) = Len(pairs)
            BY <2>1, <3>2
        <3>4. Cardinality(A \cup B) <= Cardinality(1 .. Len(pairs))
            BY <2>1, <3>2, FS_Subset
        <3> QED BY <3>3, <3>4
    <2> QED BY <2>1, <2>2, <2>3, <2>4, <2>5, <2>6
<1> QED BY <1>2, <1>4

(* The answer that agrees with the vote in most fields agrees in all of     *)
(* them if any does.                                                       *)
LEMMA BestFits ==
    ASSUME pairs \in Answers, NEW ws \in [Improver!Fields -> UNION {Prompts, Budgets, BOOLEAN, {RuleBased, None}}],
           NEW i \in DOMAIN pairs, pairs[i].delta = ws
    PROVE  LET b == Improver!BestArm(ws) IN b \in DOMAIN pairs /\ pairs[b].delta = ws
<1> DEFINE n == [k \in DOMAIN pairs |-> Improver!Matches(k, ws)]
           Agree(k) == {f \in Improver!Fields : pairs[k].delta[f] = ws[f]}
<1>1. IsFiniteSet(Improver!Fields) /\ Cardinality(Improver!Fields) = 3
    <2>1. IsFiniteSet({"prompt"}) /\ Cardinality({"prompt"}) = 1
        BY FS_Singleton
    <2>2. /\ IsFiniteSet({"prompt"} \cup {"protocolChanged"})
          /\ Cardinality({"prompt"} \cup {"protocolChanged"}) = 2
        BY SMTT(30), <2>1, FS_AddElement
    <2> DEFINE T == {"prompt"} \cup {"protocolChanged"}
    <2>3. "budget" \notin T /\ Improver!Fields = T \cup {"budget"}
        BY DEF Improver!Fields
    <2> HIDE DEF T
    <2>4. IsFiniteSet(T) /\ Cardinality(T) = 2
        BY <2>2 DEF T
    <2>5. IsFiniteSet(T \cup {"budget"}) /\ Cardinality(T \cup {"budget"}) = 3
        BY <2>3, <2>4, FS_AddElement
    <2> QED BY <2>3, <2>5
<1>2. ASSUME NEW k \in DOMAIN pairs
      PROVE  /\ n[k] \in Nat /\ n[k] <= 3
             /\ n[k] = 3 <=> Agree(k) = Improver!Fields
    <2>1. n[k] = Cardinality(Agree(k))
        BY ImproverFacts DEF Improver!Matches
    <2>2. Agree(k) \in SUBSET Improver!Fields
        OBVIOUS
    <2> HIDE DEF Agree, n
    <2>3. /\ IsFiniteSet(Agree(k)) /\ Cardinality(Agree(k)) <= 3
          /\ Cardinality(Agree(k)) = 3 => Agree(k) = Improver!Fields
        BY <1>1, <2>2, FS_Subset
    <2>4. Cardinality(Agree(k)) \in Nat
        BY <2>3, FS_CardinalityType
    <2> QED BY <1>1, <2>1, <2>3, <2>4
<1>3. n[i] = 3
    <2>1. Agree(i) = Improver!Fields
        OBVIOUS
    <2> QED BY <1>2, <2>1
<1> HIDE DEF n
<1> DEFINE Best(k) == \A l \in DOMAIN pairs : n[l] <= n[k] /\ (n[l] = n[k] => k <= l)
<1>4. \E k \in DOMAIN pairs : Best(k)
    <2> DEFINE K == {k \in DOMAIN pairs : n[k] = 3}
    <2>1. K \in SUBSET Nat /\ K # {}
        BY <1>3, PairsFacts
    <2> HIDE DEF K
    <2>2. PICK m \in K : \A l \in K : m <= l
        BY <2>1, Smallest
    <2>3. m \in DOMAIN pairs /\ n[m] = 3
        BY DEF K
    <2>4. ASSUME NEW l \in DOMAIN pairs PROVE n[l] <= n[m] /\ (n[l] = n[m] => m <= l)
        BY <1>2, <2>2, <2>3 DEF K
    <2> QED BY <2>3, <2>4
<1> DEFINE b == CHOOSE k \in DOMAIN pairs : Best(k)
<1>5. Improver!BestArm(ws) = b
    BY DEF Improver!BestArm, n
<1>6. b \in DOMAIN pairs /\ Best(b)
    <2> HIDE DEF Best
    <2> QED BY <1>4
<1> HIDE DEF b
<1>7. n[b] = 3
    <2>1. n[i] <= n[b]
        BY <1>6
    <2> QED BY <1>2, <1>3, <1>6, <2>1
<1>8. \A f \in Improver!Fields : pairs[b].delta[f] = ws[f]
    BY <1>2, <1>6, <1>7
<1>9. pairs[b].delta \in Deltas
    BY <1>6, PairsFacts
<1>10. pairs[b].delta = ws
    BY <1>8, <1>9 DEF Deltas, Improver!Fields
<1> QED BY <1>5, <1>6, <1>10

LEMMA VoteAgrees ==
    ASSUME pairs \in Answers, pairs # <<>> PROVE Agreed(Improver!Voted)
<1> DEFINE ws == Improver!Winners
           h == IF \A f \in Improver!Fields : Improver!IsNoop(ws[f]) THEN Improver!Baseline
                ELSE pairs[Improver!BestArm(ws)].harness
<1>1. Improver!Voted = Improver!Pair(h, ws)
    BY DEF Improver!Voted
<1>2. Improver!Voted.delta = ws /\ Improver!Voted = [harness |-> h, delta |-> ws]
    BY <1>1 DEF Improver!Pair
<1>3. ASSUME NEW f \in Improver!Fields
      PROVE  /\ ws[f] = Improver!Winner(f)
             /\ \E k \in DOMAIN pairs : ws[f] = pairs[k].delta[f]
    BY WinnerIsSaid DEF Improver!Winners
<1>4. /\ ws["prompt"] \in Prompts \cup {RuleBased, None} /\ ws["protocolChanged"] \in BOOLEAN
      /\ ws["budget"] \in Budgets \cup {None}
    BY <1>3, PairsFacts DEF Deltas, Improver!Fields
<1>5. ws \in [Improver!Fields -> UNION {Prompts, Budgets, BOOLEAN, {RuleBased, None}}]
    BY <1>4 DEF Improver!Winners, Improver!Fields
<1>6. ASSUME NEW f \in Improver!Fields, NEW k \in DOMAIN pairs,
             2 * Improver!CountOf(f, pairs[k].delta[f]) > Len(pairs)
      PROVE  Improver!Voted.delta[f] = pairs[k].delta[f]
    BY <1>2, <1>3, <1>6, MajorityWins
<1>7. ASSUME NEW i \in DOMAIN pairs, pairs[i].delta = ws
      PROVE  \/ \E k \in DOMAIN pairs : pairs[k] = Improver!Voted
             \/ Improver!Voted = Improver!Pair(Improver!Baseline, Improver!NoDelta)
    <2>1. CASE \A f \in Improver!Fields : Improver!IsNoop(ws[f])
        <3>1. ws["prompt"] = None /\ ws["protocolChanged"] = FALSE /\ ws["budget"] = None
            BY <1>4, <2>1, ImproverFacts DEF Improver!Fields, Improver!IsNoop
        <3>2. pairs[i].delta = Improver!NoDelta
            <4>1. pairs[i].delta \in Deltas
                BY PairsFacts
            <4> QED BY <1>7, <3>1, <4>1 DEF Deltas, Improver!NoDelta
        <3>3. h = Improver!Baseline
            BY <2>1
        <3> QED BY <1>1, <1>7, <3>2, <3>3
    <2>2. CASE ~(\A f \in Improver!Fields : Improver!IsNoop(ws[f]))
        <3> DEFINE b == Improver!BestArm(ws)
        <3>1. h = pairs[b].harness
            BY <2>2
        <3>2. b \in DOMAIN pairs /\ pairs[b].delta = ws
            <4> HIDE DEF ws
            <4> QED BY <1>5, <1>7, BestFits
        <3> HIDE DEF b, h, ws
        <3>3. pairs[b] = [harness |-> pairs[b].harness, delta |-> pairs[b].delta]
            BY <3>2, PairsFacts
        <3> QED BY <1>2, <3>1, <3>2, <3>3
    <2> QED BY <2>1, <2>2
<1> HIDE DEF ws
<1> QED BY <1>2, <1>6, <1>7 DEF Agreed

LEMMA ImproverCallsAgain ==
    ASSUME ImproverInv, Improver!CallAgain, UNCHANGED strategy PROVE ImproverInv'
<1> USE DEF Improver!CallAgain
<1>1. CASE calls < 4
    <2>1. <<>> \in Answers /\ Len(<<>>) = 0
        BY EmptySeq DEF Answers
    <2>2. calls + 1 \in 1 .. 4
        BY <1>1 DEF ImproverInv
    <2> QED BY <1>1, <2>1, <2>2, ImproverFacts DEF ImproverInv, Affordable
<1>2. CASE ~(calls < 4)
    BY <1>2, ImproverFacts DEF ImproverInv
<1> QED BY <1>1, <1>2

(* An instance has answered, with whatever, or it has not.                  *)
LEMMA ImproverArm ==
    ASSUME ImproverInv, pc = "Post", NEW r \in Answers, Len(r) <= 1, Improver!AfterArm(r)
    PROVE  ImproverInv'
<1> USE DEF Improver!AfterArm
<1> DEFINE s == pairs \o r
<1>1. pairs \in Answers /\ Len(pairs) \in Nat /\ Len(r) \in Nat
    BY LenProperties DEF ImproverInv, Answers
<1>2. s \in Answers /\ Len(s) = Len(pairs) + Len(r)
    BY <1>1, ConcatProperties DEF Answers
<1> HIDE DEF s
<1>3. CASE arm = Instances /\ s = <<>>
    BY <1>3, ImproverCallsAgain DEF s
<1>4. CASE ~(arm = Instances /\ s = <<>>)
    <2>1. /\ pairs' = s /\ posts' = 0 /\ attempt' = 0 /\ tries' = 1
          /\ arm' = IF arm < Instances THEN arm + 1 ELSE arm
          /\ pc' = IF arm < Instances THEN "Post"
                   ELSE IF Instances = 1 THEN "Improved" ELSE "Aggregate"
          /\ UNCHANGED <<calls, strategy>>
        BY <1>4 DEF s
    <2>2. arm \in 1 .. Instances /\ Len(pairs) < arm
        BY DEF ImproverInv
    <2>3. Len(s) <= Instances /\ Len(s) \in Nat
        BY <1>1, <1>2, <2>2, ImproverFacts
    <2>4. CASE arm < Instances
        <3>1. Len(s) < arm + 1 /\ arm + 1 \in 1 .. Instances
            BY <1>1, <1>2, <2>2, <2>4, ImproverFacts
        <3> QED BY <1>2, <2>1, <2>3, <2>4, <3>1, ImproverFacts DEF ImproverInv, Affordable
    <2>5. CASE ~(arm < Instances)
        <3>1. arm = Instances /\ s # <<>>
            BY <1>4, <2>2, <2>5, ImproverFacts
        <3>2. pc' \in {"Improved", "Aggregate"} /\ (pc' = "Improved" => Instances = 1)
            BY <2>1, <2>5
        <3> QED BY <1>2, <2>1, <2>3, <2>5, <3>1, <3>2, ImproverFacts DEF ImproverInv
    <2> QED BY <2>4, <2>5
<1> QED BY <1>3, <1>4

LEMMA OneAnswer ==
    ASSUME NEW h \in Harnesses, NEW d \in Deltas
    PROVE  <<Improver!Pair(h, d)>> \in Answers /\ Len(<<Improver!Pair(h, d)>>) <= 1
<1>1. Improver!Pair(h, d) \in [harness : Harnesses, delta : Deltas]
    BY DEF Improver!Pair
<1> HIDE DEF Improver!Pair
<1> QED BY <1>1 DEF Answers

LEMMA RulesAnswer == <<Improver!RulePair>> \in Answers /\ Len(<<Improver!RulePair>>) <= 1
<1>1. [Improver!Baseline EXCEPT !.prompt = RuleBased] \in Harnesses
      /\ [Improver!NoDelta EXCEPT !.prompt = RuleBased] \in Deltas
    BY DEF Improver!Baseline, Improver!NoDelta, Harnesses, Deltas
<1> QED BY <1>1, OneAnswer DEF Improver!RulePair

LEMMA ImproverPosts ==
    ASSUME ImproverInv,
           \/ Improver!Propose \/ Improver!Unparsed \/ Improver!FallBack
           \/ Improver!Transient \/ Improver!TypeError
    PROVE  ImproverInv'
<1>1. CASE Improver!Propose
    <2>1. PICK a \in Improver!Proposals :
             Improver!AfterArm(<<Improver!Pair(Improver!HarnessOf(a), Improver!DeltaOf(a))>>)
        BY <1>1 DEF Improver!Propose
    <2>2. Improver!HarnessOf(a) \in Harnesses /\ Improver!DeltaOf(a) \in Deltas
        BY DEF Improver!Proposals, Improver!HarnessOf, Improver!DeltaOf, Harnesses, Deltas
    <2>3. pc = "Post"
        BY <1>1 DEF Improver!Propose
    <2> DEFINE r == <<Improver!Pair(Improver!HarnessOf(a), Improver!DeltaOf(a))>>
    <2>4. r \in Answers /\ Len(r) <= 1
        BY <2>2, OneAnswer
    <2> HIDE DEF r
    <2> QED BY <2>1, <2>3, <2>4, ImproverArm DEF r
<1>2. CASE Improver!Unparsed
    <2>1. Improver!Baseline \in Harnesses /\ Improver!NoDelta \in Deltas
        BY DEF Improver!Baseline, Improver!NoDelta, Harnesses, Deltas
    <2> DEFINE r == <<Improver!Pair(Improver!Baseline, Improver!NoDelta)>>
    <2>2. r \in Answers /\ Len(r) <= 1
        BY <2>1, OneAnswer
    <2>3. pc = "Post" /\ Improver!AfterArm(r)
        BY <1>2 DEF Improver!Unparsed
    <2> HIDE DEF r
    <2> QED BY <2>2, <2>3, ImproverArm
<1>3. ASSUME pc = "Post", Improver!AfterArm(<<Improver!RulePair>>) PROVE ImproverInv'
    <2> DEFINE r == <<Improver!RulePair>>
    <2>1. r \in Answers /\ Len(r) <= 1 /\ Improver!AfterArm(r)
        BY <1>3, RulesAnswer
    <2> HIDE DEF r
    <2> QED BY <1>3, <2>1, ImproverArm
<1>4. CASE Improver!FallBack
    BY <1>3, <1>4 DEF Improver!FallBack
<1>5. CASE Improver!Transient
    <2>1. CASE attempt + 1 < MaxRetries
        <3>1. /\ attempt' = attempt + 1 /\ posts' = posts + 1 /\ pc = "Post"
              /\ UNCHANGED <<strategy, pc, calls, arm, tries, pairs, outcome>>
            BY <1>5, <2>1 DEF Improver!Transient
        <3>2. Affordable'
            BY <2>1, <3>1, ImproverFacts DEF ImproverInv, Affordable
        <3>3. attempt' \in 0 .. MaxRetries /\ posts' \in Nat /\ posts' <= 4 * MaxRetries
            BY <2>1, <3>1, ImproverFacts DEF ImproverInv, Affordable
        <3> QED BY <3>1, <3>2, <3>3 DEF ImproverInv
    <2> QED BY <1>3, <1>5, <2>1 DEF Improver!Transient
<1>6. CASE Improver!TypeError
    <2>1. CASE tries < 4
        <3>1. /\ tries' = tries + 1 /\ attempt' = 0 /\ posts' = posts + 1 /\ pc = "Post"
              /\ UNCHANGED <<strategy, pc, calls, arm, pairs, outcome>>
            BY <1>6, <2>1 DEF Improver!TypeError
        <3>2. Affordable'
            BY <2>1, <3>1, ImproverFacts DEF ImproverInv, Affordable
        <3>3. tries' \in 1 .. 4 /\ attempt' \in 0 .. MaxRetries /\ posts' \in Nat
              /\ posts' <= 4 * MaxRetries
            BY <2>1, <3>1, ImproverFacts DEF ImproverInv, Affordable
        <3> QED BY <3>1, <3>2, <3>3 DEF ImproverInv
    <2>2. CASE ~(tries < 4)
        <3>1. pc = "Post" /\ Improver!AfterArm(<<>>) /\ <<>> \in Answers /\ Len(<<>>) <= 1
            BY <1>6, <2>2, EmptySeq DEF Improver!TypeError, Answers
        <3> QED BY <3>1, ImproverArm
    <2> QED BY <2>1, <2>2
<1> QED BY <1>1, <1>2, <1>4, <1>5, <1>6

LEMMA ImproverAggregate == ASSUME ImproverInv, Improver!Aggregate PROVE ImproverInv'
<1> USE DEF Improver!Aggregate
<1>1. CASE Improver!Uncountable
    BY <1>1, ImproverCallsAgain
<1>2. CASE ~Improver!Uncountable
    <2>1. /\ pc = "Aggregate" /\ pc' = "Improved"
          /\ UNCHANGED <<posts, calls, arm, tries, attempt, pairs, strategy>>
          /\ strategy = "vote" => outcome' = Improver!Voted
        BY <1>2
    <2>2. ASSUME strategy = "vote" PROVE Agreed(outcome)'
        <3> DEFINE o == Improver!Voted
        <3>1. Agreed(o)
            BY <2>1, VoteAgrees DEF ImproverInv
        <3>2. outcome' = o /\ pairs' = pairs
            BY <2>1, <2>2
        <3> HIDE DEF o
        <3> QED BY <3>1, <3>2 DEF Agreed, Improver!CountOf
    <2> QED BY <2>1, <2>2 DEF ImproverInv
<1> QED BY <1>1, <1>2

LEMMA ImproverInit == ASSUME Improver!Init PROVE ImproverInv
<1>1. <<>> \in Answers /\ Len(<<>>) = 0
    BY EmptySeq DEF Answers
<1> QED BY <1>1, ImproverFacts DEF Improver!Init, ImproverInv, Affordable

LEMMA ImproverStep == ASSUME ImproverInv, Improver!Next PROVE ImproverInv'
BY ImproverPosts, ImproverAggregate DEF Improver!Next, Improver!Step

(* A call of the worker and an improvement are paid with a bounded number   *)
(* of posts, pressure events keep their distance, and the majority of the   *)
(* improvers gets what it wants, for any numbers of retries and of          *)
(* instances and whatever the models answer                                *)
(* (llm/worker.py, llm/minimax.py, llm/ensemble.py).                       *)
THEOREM ModelsAreBounded == Spec => []ModelCallsSound
<1> DEFINE I == (machine = "worker" => WorkerInv) /\ (machine = "improver" => ImproverInv)
<1>1. Init => I
    BY WorkerInit, ImproverInit DEF Init
<1>2. I /\ [Next]_vars => I'
    <2> SUFFICES ASSUME I, [Next]_vars PROVE I'
        OBVIOUS
    <2>1. CASE WorkerNext
        BY <2>1, OneMachine, WorkerStep DEF WorkerNext, BesideWorker
    <2>2. CASE ImproverNext
        BY <2>2, OneMachine, ImproverStep DEF ImproverNext, BesideImprover
    <2>3. CASE UNCHANGED vars
        <3>1. UNCHANGED <<machine, clock, pc, model, attempt, posts, timeouts, result, tally,
                          first, baseline, pressure, strategy, calls, arm, tries, pairs,
                          outcome>>
            BY <2>3 DEF vars, workerOnly, improverOnly
        <3>2. machine = "worker" => WorkerInv'
            BY <3>1 DEF WorkerInv, WorkerType, Paid, Worker!PressurePaced
        <3>3. machine = "improver" => ImproverInv'
            BY <3>1 DEF ImproverInv, Affordable, Agreed, Improver!CountOf
        <3> QED BY <3>1, <3>2, <3>3
    <2>4. CASE Next /\ ~WorkerNext /\ ~ImproverNext
        <3>1. machine' = machine /\ machine \notin {"worker", "improver"}
            BY <2>4, OneMachine DEF Next, EvaluatorNext, BudgetNext, GpuNext,
               CurriculumNext, RenameNext, ShaderNext, PublishNext, ModelsNext
        <3> QED BY <3>1
    <2> QED BY <2>1, <2>2, <2>3, <2>4
<1>3. I => ModelCallsSound
    <2>1. WorkerInv => Worker!TypeOK /\ Worker!PostsBounded /\ Worker!PressurePaced
        BY DEF WorkerInv, WorkerType, Paid, Worker!TypeOK, Worker!Models, Worker!PostsBounded
    <2>2. ImproverInv => Improver!TypeOK /\ Improver!PostsBounded
        BY ImproverFacts DEF ImproverInv, Improver!TypeOK, Improver!PostsBounded
    <2>3. ImproverInv => Improver!MajorityRules
        BY DEF ImproverInv, Agreed, Improver!MajorityRules
    <2> QED BY <2>1, <2>2, <2>3 DEF ModelCallsSound
<1> QED BY <1>1, <1>2, <1>3, PTL DEF Spec
-----------------------------------------------------------------------------
(* The evaluator of the cases.                                             *)
LEMMA EvaluatorFacts ==
    /\ Cases \in Seq([inputs : Nat, glsl : BOOLEAN, expects : BOOLEAN])
    /\ Executions \subseteq Evaluator!Completed /\ ShaderRuns \subseteq Evaluator!Shaders
    /\ IsFiniteSet(Judges) /\ Opinions \subseteq Evaluator!Verdicts
    /\ Len(Cases) \in Nat /\ Evaluator!MaxAttempts \in 1 .. 3
    /\ \A S : Evaluator!Cardinality(S) = Cardinality(S)
<1>1. \A S : Evaluator!Cardinality(S) = Cardinality(S)
    BY DEF Evaluator!Cardinality, Cardinality, Evaluator!IsFiniteSet, IsFiniteSet
<1>2. /\ Cases \in Seq([inputs : Nat, glsl : BOOLEAN, expects : BOOLEAN])
      /\ Executions \subseteq Evaluator!Completed /\ ShaderRuns \subseteq Evaluator!Shaders
      /\ IsFiniteSet(Judges) /\ Opinions \subseteq Evaluator!Verdicts
    BY CallsAssumption DEF Evaluator!ValidEvaluation, Evaluator!IsFiniteSet, IsFiniteSet
<1>3. Evaluator!MaxAttempts \in 1 .. 3
    BY DEF Evaluator!MaxAttempts
<1> QED BY <1>1, <1>2, <1>3, LenProperties

(* The attempts that the cases before this one may have had.                *)
Before(n) == (n - 1) * Evaluator!MaxAttempts

LEMMA BeforeGrows ==
    /\ Before(1) = 0
    /\ \A n \in Nat \ {0} :
          /\ Before(n) \in Nat /\ Before(n + 1) = Before(n) + Evaluator!MaxAttempts
          /\ n <= Len(Cases) + 1 => Before(n) <= Evaluator!MaxSteps
          /\ n <= Len(Cases) => Before(n) + Evaluator!MaxAttempts <= Evaluator!MaxSteps
<1> DEFINE m == Evaluator!MaxAttempts
<1>1. m \in 1 .. 3 /\ Len(Cases) \in Nat
    BY EvaluatorFacts
<1>2. Evaluator!MaxSteps = Len(Cases) * m
    BY DEF Evaluator!MaxSteps
<1>3. \A n : Before(n) = (n - 1) * m
    BY DEF Before
<1> HIDE DEF m
<1>4. CASE m = 1
    BY <1>1, <1>2, <1>3, <1>4 DEF m
<1>5. CASE m = 2
    BY <1>1, <1>2, <1>3, <1>5 DEF m
<1>6. CASE m = 3
    BY <1>1, <1>2, <1>3, <1>6 DEF m
<1> QED BY <1>1, <1>4, <1>5, <1>6

Ballots == UNION {[S -> Evaluator!Verdicts] : S \in SUBSET Judges}

Pools == {Evaluator!NoPool} \cup [counted : Ballots, summary : Ballots, consensus : Evaluator!Verdicts]

Outcomes == [verdict : Evaluator!Verdicts \cup {"none"}, passed : Nat, of : Nat, pool : Pools]

EvaluatorType ==
    /\ pc \in {"Case", "Generate", "Input", "Shader", "Report", "Fan", "Join",
               "Count", "Summary", "Next", "Done"}
    /\ case \in 1 .. Len(Cases) + 1 /\ attempt \in 1 .. Evaluator!MaxAttempts
    /\ pc \notin {"Case", "Done"} => case <= Len(Cases)
    /\ pc \in {"Case", "Done"} => attempt = 1
    /\ feedback \in Evaluator!Verdicts \cup {"none"}
    /\ per \in Seq(Executions) /\ (pc = "Report" => per # <<>>)
    /\ current \in Outcomes /\ current.passed <= current.of
    /\ pc \in {"Fan", "Join", "Count", "Summary", "Next"} => current.verdict \in Evaluator!Verdicts
    /\ votes \in [Judges -> Evaluator!Verdicts \cup {"none", "pending"}]
    /\ joined \subseteq Judges
    /\ results \in Seq(Outcomes) /\ Len(results) = case - 1
    /\ events \in Seq(Nat \X Nat \X Evaluator!Verdicts)
    /\ usage \in Nat /\ calls \in Nat /\ usage <= calls

(* Calls and events are at most the attempts.                               *)
Counted ==
    /\ calls <= Before(case) + attempt
          - (IF pc \in {"Case", "Generate", "Done"} THEN 1 ELSE 0)
    /\ Len(events) <= Before(case) + attempt
          - (IF pc \in {"Case", "Generate", "Input", "Shader", "Report", "Done"} THEN 1 ELSE 0)

(* What was published of a pool agrees with itself.                         *)
Agrees(p) ==
    \/ p = Evaluator!NoPool
    \/ /\ DOMAIN p.counted \subseteq DOMAIN p.summary
       /\ \A j \in DOMAIN p.counted : p.summary[j] = p.counted[j]
       /\ \A v \in Evaluator!Verdicts :
             Evaluator!Share(p.counted, v) <= Evaluator!Share(p.counted, p.consensus)

Consistent(r, i) ==
    /\ ~Cases[i].glsl => ((r.verdict = "OK") <=> (r.passed = r.of))
    /\ Agrees(r.pool)

(* The votes that were counted are votes still.                             *)
Ballot ==
    pc = "Summary" =>
        /\ counted \in Ballots
        /\ \A j \in DOMAIN counted : j \in Judges /\ votes[j] = counted[j]

(* Events of earlier attempts, none of which was a pass.                    *)
Behind(k) ==
    \/ events[k][1] < case
    \/ events[k][1] = case /\ events[k][2] < attempt /\ events[k][3] # "OK"

JustReported ==
    /\ Len(events) > 0 /\ events[Len(events)] = <<case, attempt, current.verdict>>
    /\ \A k \in 1 .. Len(events) - 1 : Behind(k)

InTurn ==
    \A a, b \in 1 .. Len(events) : a < b =>
        /\ events[a][1] <= events[b][1]
        /\ events[a][1] = events[b][1] => events[a][2] < events[b][2] /\ events[a][3] # "OK"

Attempted ==
    /\ \A k \in 1 .. Len(events) :
          events[k][1] <= case /\ events[k][2] <= Evaluator!MaxAttempts
    /\ InTurn
    /\ pc \in {"Case", "Generate", "Input", "Shader", "Report", "Done"} =>
          \A k \in 1 .. Len(events) : Behind(k)
    /\ pc \in {"Fan", "Join", "Count", "Summary"} => JustReported
    /\ pc = "Next" =>
          \/ JustReported
          \/ current.verdict = "RE" /\ \A k \in 1 .. Len(events) : Behind(k)

(* What is recorded of a case is what its last event said.                  *)
LastSaid(i) ==
    results[i].verdict # "RE" =>
        \E k \in 1 .. Len(events) :
            /\ events[k][1] = i /\ events[k][3] = results[i].verdict
            /\ \A l \in 1 .. Len(events) : events[l][1] = i => l <= k

EvaluatorInv ==
    /\ EvaluatorType /\ Counted /\ Ballot /\ Attempted
    /\ \A i \in 1 .. Len(results) : Consistent(results[i], i) /\ LastSaid(i)
    /\ pc \in {"Fan", "Join", "Count", "Summary", "Next"} => Consistent(current, case)

LEMMA EvaluatorSequences ==
    ASSUME EvaluatorType
    PROVE  /\ Len(results) \in Nat /\ Len(events) \in Nat /\ Len(per) \in Nat
           /\ DOMAIN results = 1 .. Len(results) /\ DOMAIN events = 1 .. Len(events)
           /\ DOMAIN per = 1 .. Len(per)
           /\ \A k \in 1 .. Len(events) :
                 events[k][1] \in Nat /\ events[k][2] \in Nat /\ events[k][3] \in Evaluator!Verdicts
           /\ \A k \in 1 .. Len(per) : per[k] \in Executions
           /\ per # <<>> => Len(per) # 0
           /\ case \in Nat \ {0} /\ attempt \in Nat \ {0} /\ attempt <= 3
<1>1. /\ results \in Seq(Outcomes) /\ per \in Seq(Executions)
      /\ events \in Seq(Nat \X Nat \X Evaluator!Verdicts)
    BY DEF EvaluatorType
<1>2. /\ Len(results) \in Nat /\ Len(events) \in Nat /\ Len(per) \in Nat
      /\ DOMAIN results = 1 .. Len(results) /\ DOMAIN events = 1 .. Len(events)
      /\ DOMAIN per = 1 .. Len(per)
    BY <1>1, LenProperties
<1>3. \A k \in 1 .. Len(events) : events[k] \in Nat \X Nat \X Evaluator!Verdicts
    BY <1>1, ElementOfSeq
<1>4. \A k \in 1 .. Len(per) : per[k] \in Executions
    BY <1>1, ElementOfSeq
<1>5. per # <<>> => Len(per) # 0
    BY <1>1, EmptySeq
<1>6. case \in Nat \ {0} /\ attempt \in Nat \ {0} /\ attempt <= 3
    BY EvaluatorFacts DEF EvaluatorType
<1> QED BY <1>2, <1>3, <1>4, <1>5, <1>6

(* What is counted when an attempt is under way and no case is closed.      *)
LEMMA StillCounted ==
    ASSUME EvaluatorType, Counted, case' = case, attempt' = attempt,
           pc' \notin {"Case", "Generate", "Done"},
           calls' = calls \/ (calls' = calls + 1 /\ pc = "Generate"),
           \/ Len(events') = Len(events)
              /\ (pc \in {"Case", "Generate", "Input", "Shader", "Report", "Done"}
                     \/ pc' \notin {"Case", "Generate", "Input", "Shader", "Report", "Done"})
           \/ /\ Len(events') = Len(events) + 1
              /\ pc \in {"Shader", "Report"}
              /\ pc' \notin {"Case", "Generate", "Input", "Shader", "Report", "Done"}
    PROVE  Counted'
<1>1. /\ Before(case) \in Nat /\ attempt \in Nat \ {0} /\ calls \in Nat /\ Len(events) \in Nat
      /\ Before(case') = Before(case)
    BY BeforeGrows, EvaluatorSequences DEF EvaluatorType
<1> DEFINE b == Before(case)
<1>2. /\ calls <= b + attempt /\ (pc = "Generate" => calls <= b + attempt - 1)
      /\ Len(events) <= b + attempt
      /\ pc \in {"Case", "Generate", "Input", "Shader", "Report", "Done"} =>
            Len(events) <= b + attempt - 1
    BY <1>1 DEF Counted
<1> HIDE DEF b
<1>3. b \in Nat
    BY <1>1 DEF b
<1>4. calls' <= b + attempt
    BY <1>1, <1>2, <1>3
<1>5. /\ Len(events') <= b + attempt
      /\ pc' \in {"Case", "Generate", "Input", "Shader", "Report", "Done"} =>
            Len(events') <= b + attempt - 1
    BY <1>1, <1>2, <1>3
<1> QED BY <1>1, <1>4, <1>5 DEF Counted, b

(* The attempt that a shader, or the inputs, have decided is told once.      *)
LEMMA ToldOnce ==
    ASSUME EvaluatorType, Counted, case' = case, attempt' = attempt, calls' = calls,
           pc \in {"Shader", "Report"}, pc' \in {"Fan", "Next"},
           Len(events') = Len(events) + 1
    PROVE  Counted'
<1>1. pc' \notin {"Case", "Generate", "Input", "Shader", "Report", "Done"}
    <2>1. CASE pc' = "Fan"
        BY <2>1
    <2>2. CASE pc' = "Next"
        BY <2>2
    <2> QED BY <2>1, <2>2
<1>2. calls' = calls \/ (calls' = calls + 1 /\ pc = "Generate")
    OBVIOUS
<1>3. \/ Len(events') = Len(events)
         /\ (pc \in {"Case", "Generate", "Input", "Shader", "Report", "Done"}
                \/ pc' \notin {"Case", "Generate", "Input", "Shader", "Report", "Done"})
      \/ /\ Len(events') = Len(events) + 1
         /\ pc \in {"Shader", "Report"}
         /\ pc' \notin {"Case", "Generate", "Input", "Shader", "Report", "Done"}
    BY <1>1
<1>4. pc' \notin {"Case", "Generate", "Done"}
    BY <1>1
<1> QED BY <1>2, <1>3, <1>4, StillCounted

(* Nothing that was said or recorded changes with the pool or the control.  *)
LEMMA SaidStays ==
    ASSUME EvaluatorInv, UNCHANGED <<case, attempt, results, events>>
    PROVE  /\ InTurn' = InTurn /\ \A k : Behind(k)' = Behind(k)
           /\ \A i \in 1 .. Len(results)' :
                 Consistent(results[i], i)' /\ LastSaid(i)'
           /\ \A k \in 1 .. Len(events)' :
                 events'[k][1] <= case' /\ events'[k][2] <= Evaluator!MaxAttempts
<1>1. InTurn' = InTurn
    BY DEF InTurn
<1>2. \A k : Behind(k)' = Behind(k)
    BY DEF Behind
<1>3. \A i \in 1 .. Len(results)' : Consistent(results[i], i)' /\ LastSaid(i)'
    BY DEF EvaluatorInv, Consistent, LastSaid, Agrees, Evaluator!Share
<1> QED BY <1>1, <1>2, <1>3 DEF EvaluatorInv, Attempted

LEMMA EvalStartCase == ASSUME EvaluatorInv, Evaluator!StartCase PROVE EvaluatorInv'
<1> USE DEF Evaluator!StartCase, Evaluator!poolVars
<1>1. EvaluatorType /\ Counted /\ Attempted
    BY DEF EvaluatorInv
<1>2. EvaluatorType'
    BY <1>1, EvaluatorFacts DEF EvaluatorType
<1>3. Counted'
    BY <1>1 DEF Counted
<1>4. Ballot'
    BY DEF Ballot
<1>5. Attempted'
    BY <1>1, SaidStays DEF Attempted
<1> QED BY <1>2, <1>3, <1>4, <1>5, SaidStays DEF EvaluatorInv

LEMMA EvalGenerate == ASSUME EvaluatorInv, Evaluator!Generate PROVE EvaluatorInv'
<1> USE DEF Evaluator!Generate, Evaluator!poolVars
<1>1. EvaluatorType /\ Counted /\ Attempted
    BY DEF EvaluatorInv
<1>2. /\ Evaluator!NoResult \in Outcomes /\ Evaluator!NoResult.passed = 0
      /\ Evaluator!NoResult.of = 1 /\ Evaluator!NoResult.pool = Evaluator!NoPool
      /\ [Evaluator!NoResult EXCEPT !.verdict = "RE"] \in Outcomes
      /\ [Evaluator!NoResult EXCEPT !.verdict = "RE"].verdict = "RE"
      /\ [Evaluator!NoResult EXCEPT !.verdict = "RE"].passed = 0
      /\ [Evaluator!NoResult EXCEPT !.verdict = "RE"].of = 1
      /\ [Evaluator!NoResult EXCEPT !.verdict = "RE"].pool = Evaluator!NoPool
    BY DEF Evaluator!NoResult, Outcomes, Pools, Evaluator!Verdicts
<1>3. <<>> \in Seq(Executions)
    BY EmptySeq
<1>4. CASE /\ pc' = "Next" /\ current' = [Evaluator!NoResult EXCEPT !.verdict = "RE"]
           /\ UNCHANGED <<usage, calls>>
    <2>1. EvaluatorType'
        BY <1>1, <1>2, <1>3, <1>4 DEF EvaluatorType, Evaluator!Verdicts
    <2>2. Counted'
        BY <1>1, <1>4, StillCounted
    <2>3. Ballot'
        BY <1>4 DEF Ballot
    <2>4. Attempted'
        BY <1>1, <1>2, <1>4, SaidStays DEF Attempted
    <2>5. Consistent(current, case)'
        BY <1>2, <1>4 DEF Consistent, Agrees
    <2> QED BY <2>1, <2>2, <2>3, <2>4, <2>5, SaidStays DEF EvaluatorInv
<1>5. CASE /\ pc' = IF Cases[case].glsl THEN "Shader" ELSE "Input"
           /\ current' = Evaluator!NoResult /\ calls' = calls + 1
           /\ usage' \in {usage, usage + 1}
    <2>1. pc' \in {"Shader", "Input"}
        BY <1>5
    <2>2. calls' \in Nat /\ usage' \in Nat /\ usage' <= calls'
        BY SMTT(30), <1>1, <1>5 DEF EvaluatorType
    <2>3. EvaluatorType'
        BY SMTT(30), <1>1, <1>2, <1>3, <1>5, <2>1, <2>2 DEF EvaluatorType
    <2>4. Counted'
        BY <1>1, <1>5, <2>1, StillCounted
    <2>5. Ballot'
        BY <2>1 DEF Ballot
    <2>6. Attempted'
        BY <1>1, <2>1, SaidStays DEF Attempted
    <2> QED BY <2>1, <2>3, <2>4, <2>5, <2>6, SaidStays DEF EvaluatorInv
<1> QED BY <1>4, <1>5

LEMMA EvalRunInput == ASSUME EvaluatorInv, Evaluator!RunInput PROVE EvaluatorInv'
<1> USE DEF Evaluator!RunInput, Evaluator!poolVars
<1>1. EvaluatorType /\ Counted /\ Attempted /\ pc = "Input" /\ pc' \in {"Input", "Report"}
    BY DEF EvaluatorInv
<1>2. per' \in Seq(Executions) /\ per' # <<>>
    <2>1. PICK c \in Executions : per' = Append(per, c)
        OBVIOUS
    <2>2. per \in Seq(Executions)
        BY <1>1 DEF EvaluatorType
    <2>3. per' \in Seq(Executions) /\ Len(per') = Len(per) + 1 /\ Len(per) \in Nat
        BY <2>1, <2>2, Appended
    <2>4. Len(per') # 0
        BY <2>3
    <2> QED BY <2>3, <2>4
<1>3. EvaluatorType'
    BY <1>1, <1>2 DEF EvaluatorType
<1>4. Counted'
    BY <1>1 DEF Counted
<1>5. Ballot'
    BY <1>1 DEF Ballot
<1>6. Attempted'
    BY <1>1, SaidStays DEF Attempted
<1> QED BY <1>1, <1>3, <1>4, <1>5, <1>6, SaidStays DEF EvaluatorInv
-----------------------------------------------------------------------------
(* A verdict is the worst of several; it is a pass if they all are.         *)
LEMMA Ranks ==
    /\ \A v \in Evaluator!Verdicts : Evaluator!Rank(v) \in 1 .. 7
    /\ \A v \in Evaluator!Verdicts : Evaluator!Rank(v) = 7 <=> v = "OK"
<1>1. /\ Evaluator!Precedence = <<"CE", "RE", "TLE", "MLE", "VF", "WA", "OK">>
      /\ DOMAIN Evaluator!Precedence = 1 .. 7
    BY DEF Evaluator!Precedence
<1>2. ASSUME NEW v \in Evaluator!Verdicts
      PROVE  \E i \in DOMAIN Evaluator!Precedence : Evaluator!Precedence[i] = v
    <2>1. CASE v = "CE"
        BY <1>1, <2>1
    <2>2. CASE v = "RE"
        BY <1>1, <2>2
    <2>3. CASE v = "TLE"
        BY <1>1, <2>3
    <2>4. CASE v = "MLE"
        BY <1>1, <2>4
    <2>5. CASE v = "VF"
        BY <1>1, <2>5
    <2>6. CASE v = "WA"
        BY <1>1, <2>6
    <2>7. CASE v = "OK"
        BY <1>1, <2>7
    <2> QED BY <2>1, <2>2, <2>3, <2>4, <2>5, <2>6, <2>7 DEF Evaluator!Verdicts
<1>3. ASSUME NEW v \in Evaluator!Verdicts
      PROVE  Evaluator!Rank(v) \in 1 .. 7 /\ Evaluator!Precedence[Evaluator!Rank(v)] = v
    BY <1>1, <1>2 DEF Evaluator!Rank
<1>4. Evaluator!Precedence[7] = "OK" /\ \A i \in 1 .. 6 : Evaluator!Precedence[i] # "OK"
    BY <1>1
<1>5. ASSUME NEW v \in Evaluator!Verdicts PROVE Evaluator!Rank(v) = 7 <=> v = "OK"
    BY <1>3, <1>4
<1> QED BY <1>3, <1>5

LEMMA WorstIs ==
    ASSUME NEW S \in SUBSET Evaluator!Verdicts, S # {}
    PROVE  /\ Evaluator!WorstVerdict(S) \in S
           /\ Evaluator!WorstVerdict(S) = "OK" <=> S = {"OK"}
<1> DEFINE M == {Evaluator!Rank(v) : v \in S}
           First(v) == \A w \in S : Evaluator!Rank(v) <= Evaluator!Rank(w)
<1>1. M \in SUBSET Nat /\ M # {}
    BY Ranks
<1>2. \E m \in M : \A n \in M : m <= n
    <2> HIDE DEF M
    <2> QED BY <1>1, Smallest
<1>3. \E v \in S : First(v)
    BY <1>2
<1> DEFINE x == CHOOSE v \in S : First(v)
<1>4. x \in S /\ First(x)
    <2> HIDE DEF First
    <2> QED BY <1>3
<1>5. Evaluator!WorstVerdict(S) = x
    BY DEF Evaluator!WorstVerdict
<1> HIDE DEF x
<1>6. x = "OK" => S = {"OK"}
    <2> SUFFICES ASSUME x = "OK", NEW w \in S PROVE w = "OK"
        BY <1>4
    <2>1. Evaluator!Rank(x) = 7 /\ Evaluator!Rank(w) \in 1 .. 7 /\ Evaluator!Rank(x) <= Evaluator!Rank(w)
        BY <1>4, Ranks
    <2>2. Evaluator!Rank(w) = 7
        BY <2>1
    <2> QED BY <2>2, Ranks
<1> QED BY <1>4, <1>5, <1>6

(* The score and the verdict of an attempt are computed apart.              *)
LEMMA ScoreFits ==
    ASSUME NEW s \in Seq(Evaluator!Verdicts), s # <<>>
    PROVE  LET worst == Evaluator!WorstVerdict(Evaluator!Range(s))
               passes == Evaluator!Cardinality({i \in DOMAIN s : s[i] = "OK"})
           IN  /\ worst \in Evaluator!Verdicts /\ passes \in Nat /\ passes <= Len(s)
               /\ (worst = "OK") <=> (passes = Len(s))
<1> DEFINE P == {i \in DOMAIN s : s[i] = "OK"} T == Evaluator!Range(s)
<1>1. /\ Len(s) \in Nat /\ Len(s) # 0 /\ DOMAIN s = 1 .. Len(s)
      /\ \A i \in 1 .. Len(s) : s[i] \in Evaluator!Verdicts
    BY LenProperties, EmptySeq, ElementOfSeq
<1>2. T = {s[i] : i \in 1 .. Len(s)} /\ 1 \in 1 .. Len(s)
    BY <1>1 DEF Evaluator!Range
<1>3. T \in SUBSET Evaluator!Verdicts /\ T # {}
    BY <1>1, <1>2
<1>4. /\ IsFiniteSet(1 .. Len(s)) /\ Cardinality(1 .. Len(s)) = Len(s)
    <2>1. 1 \in Int /\ Len(s) \in Int
        BY <1>1
    <2>2. /\ IsFiniteSet(1 .. Len(s))
          /\ Cardinality(1 .. Len(s)) = IF 1 > Len(s) THEN 0 ELSE Len(s) - 1 + 1
        BY <2>1, FS_Interval
    <2> QED BY <1>1, <2>2
<1>5. P \in SUBSET (1 .. Len(s))
    BY <1>1
<1>6. P = 1 .. Len(s) <=> T = {"OK"}
    BY <1>1, <1>2
<1>7. Evaluator!Cardinality(P) = Cardinality(P)
    BY EvaluatorFacts
<1> HIDE DEF P, T
<1>8. /\ IsFiniteSet(P) /\ Cardinality(P) <= Len(s)
      /\ Cardinality(P) = Len(s) <=> P = 1 .. Len(s)
    BY <1>4, <1>5, FS_Subset
<1>9. Cardinality(P) \in Nat
    BY <1>8, FS_CardinalityType
<1>10. /\ Evaluator!WorstVerdict(T) \in Evaluator!Verdicts
       /\ Evaluator!WorstVerdict(T) = "OK" <=> T = {"OK"}
    BY <1>3, WorstIs
<1> QED BY <1>6, <1>7, <1>8, <1>9, <1>10 DEF P, T

(* An event of this attempt comes after those of the others.                *)
LEMMA Reporting ==
    ASSUME EvaluatorInv, pc \in {"Report", "Shader"}, NEW v \in Evaluator!Verdicts,
           Evaluator!Emit(v), current'.verdict = v, UNCHANGED <<case, attempt, results>>,
           pc' \in {"Fan", "Next"}
    PROVE  /\ events' \in Seq(Nat \X Nat \X Evaluator!Verdicts)
           /\ Len(events') = Len(events) + 1 /\ Attempted'
           /\ \A i \in 1 .. Len(results) : Consistent(results[i], i)' /\ LastSaid(i)'
<1> DEFINE n == Len(events)
<1>1. EvaluatorType /\ Attempted /\ \A k \in 1 .. n : Behind(k)
    BY DEF EvaluatorInv, Attempted
<1>2. /\ n \in Nat /\ case \in Nat \ {0} /\ attempt \in Nat \ {0}
      /\ \A k \in 1 .. n : events[k][1] \in Nat /\ events[k][2] \in Nat
      /\ Len(results) = case - 1 /\ attempt <= Evaluator!MaxAttempts
    BY SMTT(60), <1>1, EvaluatorSequences, EvaluatorFacts DEF EvaluatorType
<1>3. events \in Seq(Nat \X Nat \X Evaluator!Verdicts)
      /\ <<case, attempt, v>> \in Nat \X Nat \X Evaluator!Verdicts
    BY <1>1, <1>2 DEF EvaluatorType
<1>4. /\ events' \in Seq(Nat \X Nat \X Evaluator!Verdicts) /\ Len(events') = n + 1
      /\ \A k \in 1 .. n : events'[k] = events[k]
      /\ events'[n + 1] = <<case, attempt, v>>
    <2>1. events' = Append(events, <<case, attempt, v>>)
        BY DEF Evaluator!Emit
    <2> QED BY <1>3, <2>1, Appended
<1> HIDE DEF n
<1>5. 1 .. n + 1 = 1 .. n \cup {n + 1} /\ \A k \in 1 .. n : k < n + 1 /\ k # n + 1
    BY <1>2
<1>6. \A k \in 1 .. n : Behind(k)'
    BY <1>1, <1>4 DEF Behind
<1>7. JustReported'
    <2>1. events'[Len(events')] = <<case', attempt', current'.verdict>>
        BY <1>4
    <2>2. Len(events') > 0 /\ Len(events') - 1 = n
        BY <1>2, <1>4
    <2> QED BY <1>6, <2>1, <2>2 DEF JustReported
<1>8. InTurn'
    <2> SUFFICES ASSUME NEW a \in 1 .. n + 1, NEW b \in 1 .. n + 1, a < b
                 PROVE  /\ events'[a][1] <= events'[b][1]
                        /\ events'[a][1] = events'[b][1] =>
                              events'[a][2] < events'[b][2] /\ events'[a][3] # "OK"
        BY <1>4 DEF InTurn
    <2>1. a \in 1 .. n /\ Behind(a)
        BY <1>1, <1>2 DEF n
    <2>2. CASE b \in 1 .. n
        BY <1>1, <1>4, <2>1, <2>2 DEF Attempted, InTurn, n
    <2>3. CASE b = n + 1
        BY SMTT(30), <1>2, <1>4, <2>1, <2>3 DEF Behind
    <2> QED BY <1>5, <2>2, <2>3
<1>9. \A k \in 1 .. n + 1 : events'[k][1] <= case' /\ events'[k][2] <= Evaluator!MaxAttempts
    <2>1. \A k \in 1 .. n : events[k][1] <= case /\ events[k][2] <= Evaluator!MaxAttempts
        BY <1>1 DEF Attempted, n
    <2>2. n + 1 \in 1 .. n + 1 /\ events'[n + 1][1] = case /\ events'[n + 1][2] = attempt
        BY <1>2, <1>4
    <2>3. case \in Nat /\ case <= case
        BY <1>2
    <2> QED BY <1>2, <1>4, <1>5, <2>1, <2>2, <2>3
<1>10. Attempted'
    BY <1>4, <1>7, <1>8, <1>9 DEF Attempted
<1>11. ASSUME NEW i \in 1 .. Len(results)
       PROVE  Consistent(results[i], i)' /\ LastSaid(i)'
    <2>1. Consistent(results[i], i)'
        BY DEF EvaluatorInv, Consistent, Agrees, Evaluator!Share
    <2>2. i # case /\ i \in Nat
        BY <1>2
    <2>3. LastSaid(i)'
        <3> SUFFICES ASSUME results[i].verdict # "RE"
                     PROVE  \E k \in 1 .. n + 1 :
                               /\ events'[k][1] = i /\ events'[k][3] = results[i].verdict
                               /\ \A l \in 1 .. n + 1 : events'[l][1] = i => l <= k
            BY <1>4 DEF LastSaid
        <3>1. PICK k \in 1 .. n :
                 /\ events[k][1] = i /\ events[k][3] = results[i].verdict
                 /\ \A l \in 1 .. n : events[l][1] = i => l <= k
            BY DEF EvaluatorInv, LastSaid, n
        <3>2. k \in 1 .. n + 1 /\ events'[k] = events[k]
            BY <1>4, <1>5
        <3>3. ASSUME NEW l \in 1 .. n + 1, events'[l][1] = i PROVE l <= k
            <4>1. l # n + 1
                BY <1>4, <2>2, <3>3
            <4>2. l \in 1 .. n
                BY <1>5, <4>1
            <4> QED BY <1>4, <3>1, <3>3, <4>2
        <3> QED BY <3>1, <3>2, <3>3
    <2> QED BY <2>1, <2>3
<1> QED BY <1>4, <1>10, <1>11 DEF n

LEMMA EvalReport == ASSUME EvaluatorInv, Evaluator!Report PROVE EvaluatorInv'
<1> USE DEF Evaluator!Report, Evaluator!poolVars
<1> DEFINE s == [i \in DOMAIN per |-> Evaluator!InputVerdict(per[i])]
           worst == Evaluator!WorstVerdict(Evaluator!Range(s))
           passes == Evaluator!Cardinality({i \in DOMAIN s : s[i] = "OK"})
<1>1. EvaluatorType /\ Counted /\ pc = "Report" /\ pc' \in {"Fan", "Next"}
    BY DEF EvaluatorInv
<1>2. s \in Seq(Evaluator!Verdicts) /\ s # <<>> /\ Len(s) = Len(per)
    <2>1. \A c : Evaluator!InputVerdict(c) \in Evaluator!Verdicts
        BY DEF Evaluator!InputVerdict, Evaluator!EmitVerdict, Evaluator!Verdicts
    <2>2. DOMAIN per = 1 .. Len(per) /\ Len(per) \in Nat /\ Len(per) # 0
        BY <1>1, EvaluatorSequences DEF EvaluatorType
    <2>3. \A i \in 1 .. Len(per) : s[i] \in Evaluator!Verdicts
        BY <2>1, <2>2
    <2>4. s = [i \in 1 .. Len(per) |-> s[i]]
        BY <2>2
    <2> HIDE DEF s
    <2>5. s \in Seq(Evaluator!Verdicts) /\ Len(s) = Len(per)
        BY <2>2, <2>3, <2>4, IsASeq, LenProperties
    <2> QED BY <2>2, <2>5
<1>3. /\ worst \in Evaluator!Verdicts /\ passes \in Nat /\ passes <= Len(per)
      /\ (worst = "OK") <=> (passes = Len(per))
    <2> HIDE DEF s
    <2> QED BY <1>2, ScoreFits
<1>4. /\ current' = [verdict |-> worst, passed |-> passes, of |-> Len(per),
                     pool |-> Evaluator!NoPool]
      /\ Evaluator!Emit(worst)
      /\ UNCHANGED <<case, attempt, feedback, per, votes, joined, counted, results, usage, calls>>
    OBVIOUS
<1> HIDE DEF s, worst, passes
<1>5. /\ current' \in Outcomes /\ current'.passed <= current'.of /\ current'.verdict = worst
      /\ Consistent(current, case)'
    <2>1. Len(per) \in Nat
        BY <1>1, EvaluatorSequences
    <2> QED BY <1>3, <1>4, <2>1 DEF Outcomes, Pools, Consistent, Agrees
<1>6. /\ events' \in Seq(Nat \X Nat \X Evaluator!Verdicts) /\ Len(events') = Len(events) + 1
      /\ Attempted' /\ \A i \in 1 .. Len(results) : Consistent(results[i], i)' /\ LastSaid(i)'
    BY <1>1, <1>3, <1>4, <1>5, Reporting
<1>7. EvaluatorType'
    BY <1>1, <1>3, <1>4, <1>5, <1>6 DEF EvaluatorType
<1>8. Counted'
    <2>1. case' = case /\ attempt' = attempt /\ calls' = calls
        BY <1>4
    <2>2. Len(events') = Len(events) + 1
        BY <1>6
    <2>3. EvaluatorType /\ Counted /\ pc \in {"Shader", "Report"} /\ pc' \in {"Fan", "Next"}
        BY <1>1
    <2> HIDE DEF Evaluator!Report, Evaluator!RunShader, Evaluator!poolVars
    <2> QED BY <2>1, <2>2, <2>3, ToldOnce
<1>9. Ballot'
    BY <1>1 DEF Ballot
<1> QED BY <1>4, <1>5, <1>6, <1>7, <1>8, <1>9 DEF EvaluatorInv

LEMMA EvalRunShader == ASSUME EvaluatorInv, Evaluator!RunShader PROVE EvaluatorInv'
<1> USE DEF Evaluator!RunShader, Evaluator!poolVars
<1>1. EvaluatorType /\ Counted /\ pc = "Shader" /\ pc' \in {"Fan", "Next"}
    BY DEF EvaluatorInv
<1>2. PICK sh \in ShaderRuns :
         LET v == Evaluator!ShaderVerdict(sh)
         IN  /\ current' = [Evaluator!NoResult EXCEPT !.verdict = v, !.of = 3,
                !.passed = CASE v = "OK" -> 3 [] v = "VF" -> 2 [] v = "WA" -> 1 [] OTHER -> 0]
             /\ Evaluator!Emit(v)
    OBVIOUS
<1> DEFINE v == Evaluator!ShaderVerdict(sh)
           p == CASE v = "OK" -> 3 [] v = "VF" -> 2 [] v = "WA" -> 1 [] OTHER -> 0
<1>3. v \in Evaluator!Verdicts
    BY EvaluatorFacts DEF Evaluator!ShaderVerdict, Evaluator!Shaders, Evaluator!Verdicts
<1> HIDE DEF v
<1>4. p \in 0 .. 3 /\ (v = "OK" <=> p = 3)
    OBVIOUS
<1>5. current' = [verdict |-> v, passed |-> p, of |-> 3, pool |-> Evaluator!NoPool]
    BY <1>2 DEF v, Evaluator!NoResult
<1> HIDE DEF p
<1>6. /\ current' \in Outcomes /\ current'.passed <= current'.of /\ current'.verdict = v
      /\ Consistent(current, case)'
    <2>1. p \in Nat /\ p <= 3 /\ 3 \in Nat
        BY <1>4
    <2>2. /\ current'.verdict = v /\ current'.passed = p /\ current'.of = 3
          /\ current'.pool = Evaluator!NoPool
        BY <1>5
    <2>3. current' \in Outcomes
        BY <1>3, <1>5, <2>1 DEF Outcomes, Pools
    <2>4. Consistent(current, case)'
        BY <1>4, <2>2 DEF Consistent, Agrees
    <2> QED BY <2>1, <2>2, <2>3, <2>4
<1>7. /\ Evaluator!Emit(v)
      /\ UNCHANGED <<case, attempt, feedback, per, votes, joined, counted, results, usage, calls>>
    BY <1>2 DEF v
<1>8. /\ events' \in Seq(Nat \X Nat \X Evaluator!Verdicts) /\ Len(events') = Len(events) + 1
      /\ Attempted' /\ \A i \in 1 .. Len(results) : Consistent(results[i], i)' /\ LastSaid(i)'
    BY <1>1, <1>3, <1>6, <1>7, Reporting
<1>9. EvaluatorType'
    BY <1>1, <1>3, <1>6, <1>7, <1>8 DEF EvaluatorType
<1>10. Counted'
    <2>1. case' = case /\ attempt' = attempt /\ calls' = calls
        BY <1>7
    <2>2. Len(events') = Len(events) + 1
        BY <1>8
    <2>3. EvaluatorType /\ Counted /\ pc \in {"Shader", "Report"} /\ pc' \in {"Fan", "Next"}
        BY <1>1
    <2> HIDE DEF Evaluator!Report, Evaluator!RunShader, Evaluator!poolVars
    <2> QED BY <2>1, <2>2, <2>3, ToldOnce
<1>11. Ballot'
    BY <1>1 DEF Ballot
<1> QED BY <1>6, <1>7, <1>8, <1>9, <1>10, <1>11 DEF EvaluatorInv
-----------------------------------------------------------------------------
(* The pool changes nothing but itself.                                    *)
LEMMA EvalPool ==
    ASSUME EvaluatorInv, pc \in {"Fan", "Join", "Count"},
           pc' \in {"Join", "Count", "Summary"}, Ballot',
           votes' \in [Judges -> Evaluator!Verdicts \cup {"none", "pending"}],
           joined' \subseteq Judges,
           UNCHANGED <<case, attempt, feedback, per, current, results, usage, calls, events>>
    PROVE  EvaluatorInv'
<1>1. EvaluatorType /\ Counted /\ Attempted /\ JustReported /\ Consistent(current, case)
    BY DEF EvaluatorInv, Attempted
<1>2. EvaluatorType'
    BY <1>1 DEF EvaluatorType
<1>3. Counted'
    BY <1>1 DEF Counted
<1>4. Attempted'
    <2>1. JustReported'
        BY <1>1 DEF JustReported, Behind
    <2> QED BY <1>1, <2>1, SaidStays DEF Attempted
<1>5. Consistent(current, case)'
    BY <1>1 DEF Consistent, Agrees, Evaluator!Share
<1> QED BY <1>2, <1>3, <1>4, <1>5, SaidStays DEF EvaluatorInv

LEMMA EvalFanJoinCount ==
    ASSUME EvaluatorInv,
           Evaluator!FanOut \/ (\E j \in Judges : Evaluator!Join(j)) \/ Evaluator!Count
    PROVE  EvaluatorInv'
<1>1. votes \in [Judges -> Evaluator!Verdicts \cup {"none", "pending"}] /\ joined \subseteq Judges
    BY DEF EvaluatorInv, EvaluatorType
<1>2. CASE Evaluator!FanOut
    <2>1. /\ pc = "Fan" /\ pc' = "Join" /\ joined' = {}
          /\ votes' = [j \in Judges |-> "pending"]
          /\ UNCHANGED <<case, attempt, feedback, per, current, results, usage, calls, events>>
        BY <1>2 DEF Evaluator!FanOut
    <2>2. Ballot' /\ votes' \in [Judges -> Evaluator!Verdicts \cup {"none", "pending"}]
        BY <2>1 DEF Ballot
    <2> QED BY <2>1, <2>2, EvalPool
<1>3. CASE \E j \in Judges : Evaluator!Join(j)
    <2>1. /\ pc = "Join" /\ pc' \in {"Join", "Count"} /\ joined' \subseteq Judges
          /\ UNCHANGED <<case, attempt, feedback, per, current, votes, results, usage, calls,
                         events>>
        BY <1>1, <1>3 DEF Evaluator!Join
    <2>2. Ballot'
        BY <2>1 DEF Ballot
    <2> QED BY <1>1, <2>1, <2>2, EvalPool
<1>4. CASE Evaluator!Count
    <2>1. /\ pc = "Count" /\ pc' = "Summary"
          /\ counted' = [j \in Evaluator!Voted(votes) |-> votes[j]]
          /\ UNCHANGED <<case, attempt, feedback, per, current, votes, joined, results, usage,
                         calls, events>>
        BY <1>4 DEF Evaluator!Count
    <2>2. Evaluator!Voted(votes) \in SUBSET Judges
          /\ \A j \in Evaluator!Voted(votes) : votes[j] \in Evaluator!Verdicts
        BY <1>1 DEF Evaluator!Voted
    <2>3. Ballot'
        BY <2>1, <2>2 DEF Ballot, Ballots
    <2> QED BY <1>1, <2>1, <2>3, EvalPool
<1> QED BY <1>2, <1>3, <1>4

LEMMA EvalVote == ASSUME EvaluatorInv, NEW j \in Judges, Evaluator!Vote(j) PROVE EvaluatorInv'
<1> USE DEF Evaluator!Vote
<1>1. EvaluatorType /\ Counted /\ Attempted /\ Ballot
    BY DEF EvaluatorInv
<1>2. votes' \in [Judges -> Evaluator!Verdicts \cup {"none", "pending"}]
    <2>1. current.verdict \in Evaluator!Verdicts \cup {"none"}
        BY <1>1 DEF EvaluatorType, Outcomes
    <2> QED BY <1>1, <2>1, EvaluatorFacts DEF EvaluatorType
<1>3. EvaluatorType'
    BY <1>1, <1>2 DEF EvaluatorType
<1>4. Counted' /\ JustReported' = JustReported
    BY <1>1 DEF Counted, JustReported, Behind
<1>5. Attempted'
    BY <1>1, <1>4, SaidStays DEF Attempted
<1>6. Ballot'
    <2>1. "pending" \notin Evaluator!Verdicts /\ votes[j] = "pending"
        BY DEF Evaluator!Verdicts
    <2>2. ASSUME pc = "Summary"
          PROVE  \A i \in DOMAIN counted : i \in Judges /\ votes'[i] = counted[i]
        <3>1. \A i \in DOMAIN counted : i \in Judges /\ votes[i] = counted[i]
                 /\ counted[i] \in Evaluator!Verdicts
            BY <1>1, <2>2 DEF Ballot, Ballots
        <3> QED BY <1>1, <2>1, <3>1 DEF EvaluatorType
    <2> QED BY <1>1, <2>2 DEF Ballot
<1>7. pc \in {"Fan", "Join", "Count", "Summary", "Next"} => Consistent(current, case)'
    BY DEF EvaluatorInv, Consistent, Agrees, Evaluator!Share
<1> QED BY <1>3, <1>4, <1>5, <1>6, <1>7, SaidStays DEF EvaluatorInv

(* The votes are read twice; what was counted is in what is published.      *)
LEMMA EvalSummarise == ASSUME EvaluatorInv, Evaluator!Summarise PROVE EvaluatorInv'
<1> USE DEF Evaluator!Summarise
<1>1. EvaluatorType /\ Counted /\ Attempted /\ Ballot /\ JustReported /\ pc = "Summary"
      /\ pc' = "Next" /\ Consistent(current, case)
    BY DEF EvaluatorInv, Attempted
<1>2. counted \in Ballots /\ \A j \in DOMAIN counted : j \in Judges /\ votes[j] = counted[j]
         /\ counted[j] \in Evaluator!Verdicts
    BY <1>1 DEF Ballot, Ballots
<1>3. PICK v \in Evaluator!Consensuses(counted) :
         current' = [current EXCEPT !.pool =
            [counted |-> counted, summary |-> [j \in Evaluator!Voted(votes) |-> votes[j]],
             consensus |-> v]]
    OBVIOUS
<1> DEFINE summary == [j \in Evaluator!Voted(votes) |-> votes[j]]
           p == [counted |-> counted, summary |-> summary, consensus |-> v]
<1>4. v \in Evaluator!Verdicts
    BY DEF Evaluator!Consensuses, Evaluator!Verdicts
<1>5. votes \in [Judges -> Evaluator!Verdicts \cup {"none", "pending"}]
    BY <1>1 DEF EvaluatorType
<1>6. summary \in Ballots /\ DOMAIN counted \subseteq DOMAIN summary
      /\ \A j \in DOMAIN counted : summary[j] = counted[j]
    <2>1. Evaluator!Voted(votes) \in SUBSET Judges
          /\ \A j \in Evaluator!Voted(votes) : votes[j] \in Evaluator!Verdicts
        BY <1>5 DEF Evaluator!Voted
    <2>2. summary \in [Evaluator!Voted(votes) -> Evaluator!Verdicts]
        BY <2>1
    <2>3. summary \in Ballots
        BY <2>1, <2>2 DEF Ballots
    <2>4. \A j \in DOMAIN counted : j \in Evaluator!Voted(votes) /\ votes[j] = counted[j]
        BY <1>2, <1>5 DEF Evaluator!Voted
    <2> QED BY <2>3, <2>4
<1>7. \A w \in Evaluator!Verdicts : Evaluator!Share(counted, w) <= Evaluator!Share(counted, v)
    <2>1. CASE DOMAIN counted = {}
        <3>1. \A w : Evaluator!Share(counted, w) = 0
            <4> SUFFICES ASSUME NEW w PROVE Evaluator!Share(counted, w) = 0
                OBVIOUS
            <4>1. {j \in DOMAIN counted : counted[j] = w} = {}
                BY <2>1
            <4> QED BY <4>1, FS_EmptySet, EvaluatorFacts DEF Evaluator!Share
        <3> QED BY <3>1
    <2>2. CASE DOMAIN counted # {}
        BY <2>2 DEF Evaluator!Consensuses
    <2> QED BY <2>1, <2>2
<1> HIDE DEF summary
<1>8. p \in Pools /\ Agrees(p)
    BY <1>2, <1>4, <1>6, <1>7 DEF Pools, Agrees
<1> HIDE DEF p
<1>9. current' = [current EXCEPT !.pool = p]
    BY <1>3 DEF p, summary
<1>10. /\ current' \in Outcomes /\ current'.verdict = current.verdict
       /\ current'.passed = current.passed /\ current'.of = current.of /\ current'.pool = p
    BY <1>1, <1>8, <1>9 DEF EvaluatorType, Outcomes
<1>11. votes' \in [Judges -> Evaluator!Verdicts \cup {"none", "pending"}] /\ joined' \subseteq Judges
    OBVIOUS
<1>12. EvaluatorType'
    BY <1>1, <1>10, <1>11 DEF EvaluatorType
<1>13. Counted' /\ JustReported'
    BY <1>1, <1>10 DEF Counted, JustReported, Behind
<1>14. Attempted'
    BY <1>1, <1>13, SaidStays DEF Attempted
<1>15. Consistent(current, case)'
    BY <1>1, <1>8, <1>10 DEF Consistent, Agrees, Evaluator!Share
<1>16. Ballot'
    BY <1>1 DEF Ballot
<1> QED BY <1>12, <1>13, <1>14, <1>15, <1>16, SaidStays DEF EvaluatorInv

LEMMA EvalTryAgain == ASSUME EvaluatorInv, Evaluator!TryAgain PROVE EvaluatorInv'
<1> USE DEF Evaluator!TryAgain, Evaluator!Retries, Evaluator!poolVars
<1>1. EvaluatorType /\ Counted /\ Attempted /\ pc = "Next" /\ pc' = "Generate"
    BY DEF EvaluatorInv
<1>2. attempt' \in 1 .. Evaluator!MaxAttempts /\ attempt' = attempt + 1 /\ attempt \in Nat
    BY <1>1, EvaluatorFacts DEF EvaluatorType
<1>3. EvaluatorType'
    BY <1>1, <1>2 DEF EvaluatorType
<1>4. Counted'
    BY <1>1, <1>2, BeforeGrows, EvaluatorSequences DEF Counted, EvaluatorType
<1>5. ASSUME NEW k \in 1 .. Len(events) PROVE Behind(k)'
    <2>1. CASE Behind(k)
        BY <1>1, <1>2, <2>1, EvaluatorSequences DEF Behind
    <2>2. CASE ~Behind(k)
        <3>1. JustReported /\ k = Len(events)
            <4>1. JustReported
                BY <1>1, <2>2 DEF Attempted
            <4>2. k \notin 1 .. Len(events) - 1 /\ Len(events) \in Nat
                BY <1>1, <2>2, <4>1, EvaluatorSequences DEF JustReported
            <4> QED BY <4>1, <4>2
        <3>2. events[k] = <<case, attempt, current.verdict>>
            BY <3>1 DEF JustReported
        <3> QED BY <1>2, <3>2 DEF Behind
    <2> QED BY <2>1, <2>2
<1>6. InTurn'
    BY <1>1 DEF Attempted, InTurn
<1>7. Attempted'
    BY <1>1, <1>5, <1>6 DEF Attempted
<1>8. Ballot'
    BY <1>1 DEF Ballot
<1>9. \A i \in 1 .. Len(results)' : Consistent(results[i], i)' /\ LastSaid(i)'
    BY DEF EvaluatorInv, Consistent, LastSaid, Agrees, Evaluator!Share
<1> QED BY <1>1, <1>3, <1>4, <1>7, <1>8, <1>9 DEF EvaluatorInv

LEMMA EvalCloseCase == ASSUME EvaluatorInv, Evaluator!CloseCase PROVE EvaluatorInv'
<1> USE DEF Evaluator!CloseCase, Evaluator!Retries, Evaluator!poolVars
<1>1. /\ EvaluatorType /\ Counted /\ Attempted /\ pc = "Next" /\ pc' = "Case"
      /\ Consistent(current, case)
    BY DEF EvaluatorInv
<1>2. /\ case' = case + 1 /\ attempt' = 1 /\ case \in Nat \ {0} /\ case <= Len(Cases)
      /\ Len(results) = case - 1 /\ Len(results) \in Nat
      /\ results \in Seq(Outcomes) /\ current \in Outcomes
    BY <1>1, EvaluatorSequences DEF EvaluatorType
<1>3. /\ results' \in Seq(Outcomes) /\ Len(results') = case
      /\ \A i \in 1 .. case - 1 : results'[i] = results[i]
      /\ results'[case] = current
    <2>1. results' = Append(results, current)
        OBVIOUS
    <2>2. /\ results' \in Seq(Outcomes) /\ Len(results') = Len(results) + 1
          /\ \A i \in 1 .. Len(results) : results'[i] = results[i]
          /\ results'[Len(results) + 1] = current
        BY <1>2, <2>1, Appended
    <2>3. Len(results) + 1 = case
        BY <1>2
    <2> QED BY <1>2, <2>2, <2>3
<1>4. EvaluatorType'
    BY <1>1, <1>2, <1>3, EvaluatorFacts DEF EvaluatorType
<1>5. Counted'
    <2>1. Before(case + 1) = Before(case) + Evaluator!MaxAttempts /\ Before(case) \in Nat
        BY <1>2, BeforeGrows
    <2>2. attempt <= Evaluator!MaxAttempts /\ attempt \in Nat /\ Evaluator!MaxAttempts \in Nat
        BY <1>1, EvaluatorFacts DEF EvaluatorType
    <2>3. calls <= Before(case) + attempt /\ Len(events) <= Before(case) + attempt
          /\ calls \in Nat /\ Len(events) \in Nat
        BY <1>1, EvaluatorSequences DEF Counted, EvaluatorType
    <2>4. calls <= Before(case + 1) + 1 - 1 /\ Len(events) <= Before(case + 1) + 1 - 1
        BY <2>1, <2>2, <2>3
    <2> QED BY <1>1, <1>2, <2>4 DEF Counted
<1>6. ASSUME NEW k \in 1 .. Len(events)
      PROVE  Behind(k)' /\ events'[k][1] <= case' /\ events'[k][2] <= Evaluator!MaxAttempts
    <2>1. events[k][1] <= case /\ events[k][2] <= Evaluator!MaxAttempts /\ events[k][1] \in Nat
        BY <1>1, EvaluatorSequences DEF Attempted
    <2> QED BY <1>2, <2>1 DEF Behind
<1>7. InTurn'
    BY <1>1 DEF Attempted, InTurn
<1>8. Attempted'
    BY <1>1, <1>6, <1>7 DEF Attempted
<1>9. Ballot'
    BY <1>1 DEF Ballot
<1>10. ASSUME NEW i \in 1 .. case PROVE Consistent(results[i], i)' /\ LastSaid(i)'
    <2>1. CASE i \in 1 .. case - 1
        <3>1. Consistent(results[i], i) /\ LastSaid(i) /\ results'[i] = results[i]
            BY <1>2, <1>3, <2>1 DEF EvaluatorInv
        <3> QED BY <3>1 DEF Consistent, LastSaid, Agrees, Evaluator!Share
    <2>2. CASE i = case
        <3>1. results'[i] = current
            BY <1>3, <2>2
        <3>2. Consistent(results[i], i)'
            BY <1>1, <2>2, <3>1 DEF Consistent, Agrees, Evaluator!Share
        <3>3. LastSaid(i)'
            <4> SUFFICES ASSUME current.verdict # "RE"
                         PROVE  \E k \in 1 .. Len(events) :
                                   /\ events[k][1] = i /\ events[k][3] = current.verdict
                                   /\ \A l \in 1 .. Len(events) : events[l][1] = i => l <= k
                BY <3>1 DEF LastSaid
            <4>1. JustReported
                BY <1>1 DEF Attempted
            <4>2. Len(events) \in 1 .. Len(events)
                  /\ events[Len(events)] = <<case, attempt, current.verdict>>
                BY <1>1, <4>1, EvaluatorSequences DEF JustReported
            <4> QED BY <2>2, <4>2
        <3> QED BY <3>2, <3>3
    <2> QED BY <1>2, <2>1, <2>2
<1> QED BY <1>1, <1>3, <1>4, <1>5, <1>8, <1>9, <1>10 DEF EvaluatorInv

LEMMA EvalInit == ASSUME Evaluator!Init PROVE EvaluatorInv
<1> USE DEF Evaluator!Init
<1>1. Evaluator!NoResult \in Outcomes /\ Evaluator!NoResult.passed <= Evaluator!NoResult.of
    BY DEF Evaluator!NoResult, Outcomes, Pools
<1>2. /\ <<>> \in Seq(Executions) /\ <<>> \in Seq(Outcomes)
      /\ <<>> \in Seq(Nat \X Nat \X Evaluator!Verdicts) /\ Len(<<>>) = 0
    BY EmptySeq
<1>3. EvaluatorType
    BY <1>1, <1>2, EvaluatorFacts DEF EvaluatorType
<1>4. Counted
    BY <1>2, BeforeGrows DEF Counted
<1>5. Attempted /\ Ballot
    BY <1>2 DEF Attempted, InTurn, Ballot
<1> QED BY <1>2, <1>3, <1>4, <1>5 DEF EvaluatorInv

LEMMA EvaluatorStep == ASSUME EvaluatorInv, Evaluator!Next PROVE EvaluatorInv'
BY EvalStartCase, EvalGenerate, EvalRunInput, EvalReport, EvalRunShader, EvalFanJoinCount,
   EvalSummarise, EvalTryAgain, EvalCloseCase, EvalVote
DEF Evaluator!Next, Evaluator!Evaluator

(* A case of the sandbox passes if all of its inputs do; no attempt of a    *)
(* case has two events, they are in the order of the attempts, none follows *)
(* a pass, and the last one has the recorded verdict, unless that is RE (of *)
(* an attempt that fails to generate there is no event); and what is        *)
(* published of the judges agrees with itself however late they vote, for   *)
(* any cases, any number of judges and any executions                       *)
(* (evaluator/engine.py).                                                   *)
THEOREM VerdictsAreReported == Spec => []EvaluatorSound
<1> DEFINE I == machine = "evaluator" => EvaluatorInv
<1>1. Init => I
    BY EvalInit DEF Init
<1>2. I /\ [Next]_vars => I'
    <2> SUFFICES ASSUME I, [Next]_vars, machine' = "evaluator" PROVE EvaluatorInv'
        OBVIOUS
    <2>1. CASE EvaluatorNext
        BY <2>1, EvaluatorStep DEF EvaluatorNext
    <2>2. CASE UNCHANGED vars
        <3>1. UNCHANGED <<machine, pc, case, attempt, feedback, per, current, votes, joined,
                          counted, results, usage, calls, events>>
            BY <2>2 DEF vars, evaluatorOnly
        <3>2. EvaluatorInv
            BY <3>1
        <3>3. EvaluatorType' /\ Counted' /\ Ballot'
            BY <3>1, <3>2 DEF EvaluatorInv, EvaluatorType, Counted, Ballot
        <3>4. JustReported' = JustReported
            BY <3>1 DEF JustReported, Behind
        <3>5. Attempted'
            BY <3>1, <3>2, <3>4, SaidStays DEF EvaluatorInv, Attempted
        <3>6. pc \in {"Fan", "Join", "Count", "Summary", "Next"} => Consistent(current, case)'
            BY <3>1, <3>2 DEF EvaluatorInv, Consistent, Agrees, Evaluator!Share
        <3> QED BY <3>1, <3>2, <3>3, <3>5, <3>6, SaidStays DEF EvaluatorInv
    <2>3. CASE Next /\ ~EvaluatorNext
        <3>1. machine = "evaluator"
            BY <2>3, OneMachine
        <3> QED BY <2>3, <3>1 DEF Next, WorkerNext, ImproverNext, BudgetNext, GpuNext,
               CurriculumNext, RenameNext, ShaderNext, PublishNext, ModelsNext
    <2> QED BY <2>1, <2>2, <2>3
<1>3. I => EvaluatorSound
    <2> SUFFICES ASSUME EvaluatorInv
                 PROVE  /\ Evaluator!TypeOK /\ Evaluator!PassMeansAll
                        /\ Evaluator!AttemptsReported /\ Evaluator!PoolAgrees
        BY DEF EvaluatorSound
    <2>1. /\ EvaluatorType /\ Counted /\ Attempted /\ InTurn
          /\ DOMAIN results = 1 .. Len(results) /\ DOMAIN events = 1 .. Len(events)
        BY EvaluatorSequences DEF EvaluatorInv, Attempted
    <2>2. Evaluator!TypeOK
        <3>1. calls <= Evaluator!MaxSteps /\ Len(events) <= Evaluator!MaxSteps
            <4>1. /\ case \in Nat \ {0} /\ attempt \in Nat \ {0} /\ Len(events) \in Nat
                  /\ attempt <= Evaluator!MaxAttempts /\ case <= Len(Cases) + 1
                  /\ calls \in Nat /\ Len(Cases) \in Nat /\ Evaluator!MaxAttempts \in Nat
                BY <2>1, EvaluatorSequences, EvaluatorFacts DEF EvaluatorType
            <4>2. CASE case <= Len(Cases)
                <5>1. Before(case) + Evaluator!MaxAttempts <= Evaluator!MaxSteps
                      /\ Before(case) \in Nat
                    BY <4>1, <4>2, BeforeGrows
                <5>2. calls <= Before(case) + attempt /\ Len(events) <= Before(case) + attempt
                    BY <2>1, <4>1, <5>1 DEF Counted
                <5>3. Evaluator!MaxSteps \in Int
                    BY <4>1 DEF Evaluator!MaxSteps
                <5> QED BY <4>1, <5>1, <5>2, <5>3
            <4>3. CASE ~(case <= Len(Cases))
                <5>1. pc \in {"Case", "Done"} /\ Before(case) <= Evaluator!MaxSteps
                      /\ Before(case) \in Nat
                    BY <2>1, <4>1, <4>3, BeforeGrows DEF EvaluatorType
                <5>2. attempt = 1
                    BY <2>1, <5>1 DEF EvaluatorType
                <5>3. calls <= Before(case) /\ Len(events) <= Before(case)
                    BY <2>1, <4>1, <5>1, <5>2 DEF Counted
                <5>4. Evaluator!MaxSteps \in Int
                    BY <4>1 DEF Evaluator!MaxSteps
                <5> QED BY <4>1, <5>1, <5>3, <5>4
            <4> QED BY <4>2, <4>3
        <3>2. Len(results) < case
            BY <2>1, EvaluatorSequences DEF EvaluatorType
        <3> QED BY <2>1, <3>1, <3>2 DEF EvaluatorType, Outcomes, Evaluator!TypeOK
    <2>3. Evaluator!PassMeansAll
        BY <2>1 DEF EvaluatorInv, Consistent, Evaluator!PassMeansAll
    <2>4. Evaluator!AttemptsReported
        <3> SUFFICES ASSUME NEW i \in 1 .. Len(results)
                     PROVE  /\ \A a, b \in Evaluator!Reported(i) :
                                  a < b => events[a][2] < events[b][2] /\ events[a][3] # "OK"
                            /\ \A a \in Evaluator!Reported(i) : events[a][2] <= Evaluator!MaxAttempts
                            /\ results[i].verdict # "RE" =>
                                  \E last \in Evaluator!Reported(i) :
                                     /\ \A a \in Evaluator!Reported(i) : a <= last
                                     /\ events[last][3] = results[i].verdict
            BY <2>1 DEF Evaluator!AttemptsReported
        <3>1. Evaluator!Reported(i) = {k \in 1 .. Len(events) : events[k][1] = i}
            BY <2>1 DEF Evaluator!Reported
        <3>2. LastSaid(i)
            BY DEF EvaluatorInv
        <3> QED BY <2>1, <3>1, <3>2 DEF Attempted, InTurn, LastSaid
    <2>5. Evaluator!PoolAgrees
        <3> SUFFICES ASSUME NEW i \in DOMAIN results, results[i].pool # Evaluator!NoPool
                     PROVE  LET p == results[i].pool
                            IN  /\ DOMAIN p.counted \subseteq DOMAIN p.summary
                                /\ \A j \in DOMAIN p.counted : p.summary[j] = p.counted[j]
                                /\ \A v \in Evaluator!Verdicts :
                                      Evaluator!Share(p.counted, v)
                                         <= Evaluator!Share(p.counted, p.consensus)
            BY DEF Evaluator!PoolAgrees
        <3>1. Agrees(results[i].pool)
            BY <2>1 DEF EvaluatorInv, Consistent
        <3> QED BY <3>1 DEF Agrees
    <2> QED BY <2>2, <2>3, <2>4, <2>5
<1> QED BY <1>1, <1>2, <1>3, PTL DEF Spec
-----------------------------------------------------------------------------
(* The curriculum.                                                         *)
LEMMA CurriculumFacts ==
    /\ MaxGenerated \in Nat \ {0} /\ MaxSeconds \in Nat
    /\ JudgeWindow \in Nat \ {0} /\ Curriculum!EffectiveMax \in Nat \ {0}
    /\ \A a \in Generated : a \in {Raised, Garbled} \/ a \in Seq(Curriculum!RowKinds)
    /\ \A S : Curriculum!Cardinality(S) = Cardinality(S)
    /\ \A s, t : DOMAIN s = 1 .. Len(s) =>
          Curriculum!Pruned(s, t) = FromFirstAlive(s, JudgeWindow, t)
<1>1. /\ MaxGenerated \in Nat \ {0} /\ MaxSeconds \in Nat
      /\ JudgeRequests \in Nat /\ JudgeMargin \in 0 .. 100 /\ JudgeWindow \in Nat \ {0}
      /\ \A a \in Generated : a \in {Raised, Garbled} \/ a \in Seq(Curriculum!RowKinds)
    BY CallsAssumption DEF Curriculum!ValidCurriculum, Curriculum!ValidRate
<1>2. Curriculum!EffectiveMax \in Nat \ {0}
    <2> DEFINE m == JudgeRequests * (100 - JudgeMargin)
    <2>1. 100 - JudgeMargin \in Nat
        BY <1>1
    <2>2. m \in Nat
        BY <1>1, <2>1
    <2> HIDE DEF m
    <2>3. m \div 100 \in Nat
        BY <2>2
    <2>4. Curriculum!EffectiveMax = IF m \div 100 = 0 THEN 1 ELSE m \div 100
        BY DEF Curriculum!EffectiveMax, m
    <2> QED BY <2>3, <2>4
<1>3. \A S : Curriculum!Cardinality(S) = Cardinality(S)
    BY DEF Curriculum!Cardinality, Cardinality, Curriculum!IsFiniteSet, IsFiniteSet
<1>4. ASSUME NEW s, NEW t, DOMAIN s = 1 .. Len(s)
      PROVE  Curriculum!Pruned(s, t) = FromFirstAlive(s, JudgeWindow, t)
    <2>1. {k \in DOMAIN s : s[k] + JudgeWindow > t} = Alive(s, JudgeWindow, t)
        BY <1>4 DEF Alive
    <2>2. \A S : Curriculum!Min(S) = Least(S)
        BY DEF Curriculum!Min, Least
    <2> QED BY <2>1, <2>2 DEF Curriculum!Pruned, FromFirstAlive
<1> QED BY <1>1, <1>2, <1>3, <1>4

(* What a sequence remembers of another one, it still does later.           *)
LEMMA FollowsLater ==
    ASSUME NEW r, NEW s \in Seq(Nat), NEW w \in Nat, NEW t \in Nat, NEW u \in Nat, t <= u,
           Follows(r, s, w, t)
    PROVE  /\ Follows(r, s, w, u)
           /\ Cardinality(Alive(s, w, t)) \in Nat /\ Cardinality(Alive(s, w, u)) \in Nat
           /\ Cardinality(Alive(s, w, u)) <= Cardinality(Alive(s, w, t))
<1>1. Len(s) \in Nat /\ \A k \in 1 .. Len(s) : s[k] \in Nat
    BY LenProperties, ElementOfSeq
<1>2. PICK d \in 0 .. Len(s) :
         /\ Len(r) = Len(s) - d
         /\ \A k \in 1 .. Len(r) : r[k] = s[d + k]
         /\ \A k \in 1 .. d : s[k] + w <= t
    BY DEF Follows
<1>3. \A k \in 1 .. d : s[k] + w <= u
    <2> SUFFICES ASSUME NEW k \in 1 .. d PROVE s[k] + w <= u
        OBVIOUS
    <2>1. k \in 1 .. Len(s) /\ s[k] + w <= t
        BY <1>1, <1>2
    <2>2. s[k] \in Nat
        BY <1>1, <2>1
    <2> QED BY <2>1, <2>2
<1>4. Follows(r, s, w, u)
    BY <1>2, <1>3 DEF Follows
<1>5. Len(r) \in Nat
    BY <1>1, <1>2
<1>6. IsFiniteSet(Alive(s, w, t)) /\ Cardinality(Alive(s, w, t)) \in Nat
    BY <1>1, AliveFollows
<1>7. Alive(s, w, u) \in SUBSET Alive(s, w, t)
    BY <1>1 DEF Alive
<1>8. IsFiniteSet(Alive(s, w, u)) /\ Cardinality(Alive(s, w, u)) <= Cardinality(Alive(s, w, t))
    BY <1>6, <1>7, FS_Subset
<1> QED BY <1>4, <1>6, <1>8, FS_CardinalityType

(* A call at this time is one more of those that are alive.                 *)
LEMMA OneMoreAlive ==
    ASSUME NEW r \in Seq(Nat), NEW s \in Seq(Nat), NEW w \in Nat \ {0}, NEW t \in Nat,
           Follows(r, s, w, t)
    PROVE  LET q == FromFirstAlive(Append(r, t), w, t)
               f == Append(s, t)
           IN  /\ q \in Seq(Nat) /\ f \in Seq(Nat) /\ Follows(q, f, w, t)
               /\ Cardinality(Alive(f, w, t)) = Cardinality(Alive(s, w, t)) + 1
<1> DEFINE a == Append(r, t) f == Append(s, t) q == FromFirstAlive(a, w, t)
<1>1. /\ a \in Seq(Nat) /\ Len(a) = Len(r) + 1 /\ a[Len(r) + 1] = t
      /\ \A k \in 1 .. Len(r) : a[k] = r[k]
    BY Appended
<1>2. /\ f \in Seq(Nat) /\ Len(f) = Len(s) + 1 /\ f[Len(s) + 1] = t
      /\ \A k \in 1 .. Len(s) : f[k] = s[k]
    BY Appended
<1>3. /\ Len(r) \in Nat /\ Len(s) \in Nat /\ Len(a) \in Nat /\ Len(f) \in Nat
      /\ \A k \in 1 .. Len(s) : s[k] \in Nat
      /\ \A k \in 1 .. Len(f) : f[k] \in Nat
    BY <1>1, <1>2, LenProperties, ElementOfSeq
<1> HIDE DEF a, f
<1>4. Follows(a, f, w, t)
    <2>1. PICK d \in 0 .. Len(s) :
             /\ Len(r) = Len(s) - d
             /\ \A k \in 1 .. Len(r) : r[k] = s[d + k]
             /\ \A k \in 1 .. d : s[k] + w <= t
        BY DEF Follows
    <2>2. d \in 0 .. Len(f) /\ Len(a) = Len(f) - d
        BY <1>1, <1>2, <1>3, <2>1
    <2>3. ASSUME NEW k \in 1 .. Len(a) PROVE a[k] = f[d + k]
        <3>1. CASE k \in 1 .. Len(r)
            <4>1. d + k \in 1 .. Len(s)
                BY <1>3, <2>1, <3>1
            <4> QED BY <1>1, <1>2, <2>1, <3>1, <4>1
        <3>2. CASE k = Len(r) + 1
            <4>1. d + k = Len(s) + 1
                BY <1>3, <2>1, <3>2
            <4> QED BY <1>1, <1>2, <3>2, <4>1
        <3> QED BY <1>1, <1>3, <3>1, <3>2
    <2>4. ASSUME NEW k \in 1 .. d PROVE f[k] + w <= t
        <3>1. k \in 1 .. Len(s)
            BY <1>3, <2>1
        <3> QED BY <1>2, <2>1, <3>1
    <2> QED BY <2>2, <2>3, <2>4 DEF Follows
<1>5. q \in Seq(Nat) /\ Follows(q, a, w, t)
    <2>1. Nat \in SUBSET Nat /\ w \in Nat
        OBVIOUS
    <2> QED BY <1>1, <2>1, PrunedFollows
<1> HIDE DEF q
<1>6. Follows(q, f, w, t)
    <2>1. t <= t /\ w \in Nat
        OBVIOUS
    <2> QED BY <1>3, <1>4, <1>5, <2>1, FollowsTwice
<1>7. Cardinality(Alive(f, w, t)) = Cardinality(Alive(s, w, t)) + 1
    <2>1. Alive(f, w, t) = Alive(s, w, t) \cup {Len(s) + 1}
          /\ Len(s) + 1 \notin Alive(s, w, t)
        <3>1. \A k : k \in 1 .. Len(f) <=> k \in 1 .. Len(s) \/ k = Len(s) + 1
            <4>1. Len(f) = Len(s) + 1 /\ Len(s) \in Nat
                BY <1>2, <1>3
            <4> QED BY <4>1
        <3>2. t + w > t
            OBVIOUS
        <3>3. Len(s) + 1 \notin 1 .. Len(s)
            BY <1>3
        <3> QED BY <1>2, <3>1, <3>2, <3>3 DEF Alive
    <2>2. w \in Nat
        OBVIOUS
    <2>3. IsFiniteSet(Alive(s, w, t))
        BY <1>3, <2>2, AliveFollows
    <2> QED BY <2>1, <2>3, FS_AddElement
<1> QED BY <1>2, <1>5, <1>6, <1>7 DEF a, f, q

Reasons ==
    Curriculum!RowKinds \cup {"json_decode_error", "judge_error", "judge_unsolvable",
                              "output_mismatch", "skill_mismatch"}

Told == [row : Nat, reason : Reasons]

ACycle ==
    [id : 0 .. MaxSeconds, attempt : 0 .. MaxGenerated, answer : Seq(Curriculum!RowKinds),
     lost : SUBSET Told, told : SUBSET Told, next : Nat \ {0},
     kept : SUBSET Curriculum!Problem, listed : SUBSET (0 .. MaxSeconds),
     saved : BOOLEAN, alone : BOOLEAN]

AShard == [rows : SUBSET Curriculum!Problem, torn : BOOLEAN, manifest : BOOLEAN]

CurriculumType ==
    /\ daily \in BOOLEAN /\ clock \in 0 .. MaxSeconds
    /\ proc \in [Procs -> Curriculum!Steps] /\ cycle \in [Procs -> ACycle]
    /\ stamps \in [Procs -> Seq(Nat)] /\ judged \in [Procs -> Seq(Nat)]
    /\ DOMAIN shards \subseteq 0 .. MaxSeconds
    /\ \A c \in DOMAIN shards : shards[c] \in AShard
    /\ rollup = None \/ rollup.rows \subseteq Curriculum!Problem
    /\ \A p \in Procs : proc[p] = "Generate" =>
          cycle[p].attempt < MaxGenerated /\ cycle[p].next = 1
    /\ \A p \in Procs : proc[p] = "Roll" =>
          cycle[p].listed \subseteq DOMAIN shards /\ rollup.rows \subseteq Curriculum!Problem

(* The guard of a process forgets no answer of the judge that counts.       *)
Guarded(p) ==
    /\ Follows(stamps[p], judged[p], JudgeWindow, clock)
    /\ Cardinality(Alive(judged[p], JudgeWindow, clock)) <= Curriculum!EffectiveMax

(* The rows that the parser rejected are told, and those that the judge has *)
(* seen are kept or told.                                                  *)
Accounted(p) ==
    proc[p] = "Judge" =>
        /\ \A i \in DOMAIN cycle[p].answer :
              cycle[p].answer[i] \notin {"good", "blank"} => \E e \in cycle[p].told : e.row = i
        /\ \A i \in DOMAIN cycle[p].answer :
              cycle[p].answer[i] = "good" /\ i < cycle[p].next =>
                  (\E r \in cycle[p].kept : r.row = i) \/ (\E e \in cycle[p].told : e.row = i)

InSave(p) == Curriculum!Saving(p) \/ (proc[p] = "Emit" /\ cycle[p].saved)

(* Two saves that overlap know it.                                         *)
Overlaps ==
    \A p, q \in Procs : p # q /\ InSave(p) /\ InSave(q) => ~cycle[p].alone

(* The save that is alone has copied the shards that are not on its list.   *)
Copied(p) ==
    cycle[p].alone =>
        /\ proc[p] = "Roll" =>
              \A c \in DOMAIN shards \ cycle[p].listed : shards[c].rows \subseteq rollup.rows
        /\ proc[p] = "Emit" /\ cycle[p].saved =>
              \A c \in DOMAIN shards : shards[c].rows \subseteq rollup.rows

CurriculumInv ==
    /\ CurriculumType /\ Overlaps
    /\ \A p \in Procs : Guarded(p) /\ Accounted(p) /\ Copied(p)

(* The guard of a process and its time stay as they are.                    *)
LEMMA GuardStays ==
    ASSUME NEW q, Guarded(q), clock' = clock, stamps'[q] = stamps[q], judged'[q] = judged[q]
    PROVE  Guarded(q)'
BY DEF Guarded

LEMMA RowsStay ==
    ASSUME NEW q, Accounted(q),
           proc'[q] = "Judge" => proc[q] = "Judge" /\ cycle'[q] = cycle[q]
    PROVE  Accounted(q)'
BY DEF Accounted

LEMMA OverlapsStay ==
    ASSUME Overlaps,
           \A q \in Procs : InSave(q)' => InSave(q) /\ (cycle'[q].alone => cycle[q].alone)
    PROVE  Overlaps'
BY DEF Overlaps

(* Whoever saves together with p is not alone.                              *)
LEMMA OthersCopied ==
    ASSUME Overlaps', NEW p \in Procs, InSave(p)', NEW q \in Procs, q # p
    PROVE  Copied(q)'
BY DEF Overlaps, Copied, InSave, Curriculum!Saving

LEMMA CopyStays ==
    ASSUME NEW q, Copied(q), shards' = shards, rollup' = rollup,
           proc'[q] = proc[q], cycle'[q] = cycle[q]
    PROVE  Copied(q)'
BY DEF Copied

(* A process that is not saving has nothing to copy.                        *)
LEMMA NothingToCopy ==
    ASSUME NEW q, ~InSave(q)'
    PROVE  Copied(q)'
BY DEF Copied, InSave, Curriculum!Saving

(* The window moves on.                                                    *)
LEMMA CurriculumTick == ASSUME CurriculumInv, Curriculum!Tick PROVE CurriculumInv'
<1> USE DEF Curriculum!Tick, Curriculum!procVars, Curriculum!disk
<1>1. /\ CurriculumType /\ Overlaps
      /\ \A p \in Procs : Guarded(p) /\ Accounted(p) /\ Copied(p)
    BY DEF CurriculumInv
<1>2. clock \in Nat /\ clock' \in 0 .. MaxSeconds /\ clock <= clock' /\ clock' \in Nat
    BY <1>1, CurriculumFacts DEF CurriculumType
<1>3. CurriculumType'
    BY <1>1, <1>2 DEF CurriculumType
<1>4. ASSUME NEW p \in Procs PROVE Guarded(p)'
    <2>1. judged[p] \in Seq(Nat) /\ JudgeWindow \in Nat /\ Curriculum!EffectiveMax \in Nat
        BY <1>1, CurriculumFacts DEF CurriculumType
    <2>2. Follows(stamps[p], judged[p], JudgeWindow, clock)
          /\ Cardinality(Alive(judged[p], JudgeWindow, clock)) <= Curriculum!EffectiveMax
        BY <1>1 DEF Guarded
    <2>3. /\ Follows(stamps[p], judged[p], JudgeWindow, clock')
          /\ Cardinality(Alive(judged[p], JudgeWindow, clock)) \in Nat
          /\ Cardinality(Alive(judged[p], JudgeWindow, clock')) \in Nat
          /\ Cardinality(Alive(judged[p], JudgeWindow, clock'))
                <= Cardinality(Alive(judged[p], JudgeWindow, clock))
        BY <1>2, <2>1, <2>2, FollowsLater
    <2>4. Cardinality(Alive(judged[p], JudgeWindow, clock')) <= Curriculum!EffectiveMax
        BY <2>1, <2>2, <2>3
    <2> QED BY <2>3, <2>4 DEF Guarded
<1>5. Overlaps'
    BY <1>1 DEF Overlaps, InSave, Curriculum!Saving
<1>6. ASSUME NEW p \in Procs PROVE Accounted(p)' /\ Copied(p)'
    BY <1>1 DEF Accounted, Copied
<1> QED BY <1>3, <1>4, <1>5, <1>6 DEF CurriculumInv

(* What no step but the judge's and a crash disturbs.                       *)
LEMMA OnTime ==
    ASSUME CurriculumInv, UNCHANGED <<clock, stamps, judged>>
    PROVE  \A q \in Procs : Guarded(q)'
BY GuardStays DEF CurriculumInv

LEMMA FreshCycle ==
    /\ Curriculum!NoCycle \in ACycle
    /\ Curriculum!NoCycle.next = 1 /\ Curriculum!NoCycle.attempt = 0 /\ 0 < MaxGenerated
<1>1. /\ 0 \in 0 .. MaxSeconds /\ 0 \in 0 .. MaxGenerated /\ 0 < MaxGenerated
      /\ <<>> \in Seq(Curriculum!RowKinds)
    BY CurriculumFacts
<1> QED BY <1>1 DEF ACycle, Curriculum!NoCycle

LEMMA CurriculumBegin ==
    ASSUME CurriculumInv, NEW p \in Procs, proc[p] = "Idle", Curriculum!Begin(p)
    PROVE  CurriculumInv'
<1> USE DEF Curriculum!Begin
<1>1. /\ CurriculumType /\ Overlaps
      /\ \A q \in Procs : Guarded(q) /\ Accounted(q) /\ Copied(q)
    BY DEF CurriculumInv
<1> DEFINE c == [Curriculum!NoCycle EXCEPT !.id = clock]
<1>2. c \in ACycle /\ c.next = 1 /\ c.attempt = 0
    <2>1. clock \in 0 .. MaxSeconds
        BY <1>1 DEF CurriculumType
    <2> QED BY <2>1, FreshCycle DEF ACycle
<1> HIDE DEF c
<1>3. /\ cycle' = [cycle EXCEPT ![p] = c] /\ proc' = [proc EXCEPT ![p] = "Generate"]
      /\ UNCHANGED <<daily, clock, stamps, judged, shards, rollup>>
    BY DEF c, Curriculum!disk
<1>4. CurriculumType'
    <2>1. "Generate" \in Curriculum!Steps /\ 0 < MaxGenerated
        BY FreshCycle DEF Curriculum!Steps
    <2> QED BY ZenonT(30), <1>1, <1>2, <1>3, <2>1 DEF CurriculumType
<1>5. /\ proc'[p] = "Generate"
      /\ \A q \in Procs \ {p} : proc'[q] = proc[q] /\ cycle'[q] = cycle[q]
    BY <1>1, <1>3 DEF CurriculumType
<1>6. ~InSave(p)'
    BY <1>5 DEF InSave, Curriculum!Saving
<1>7. Overlaps'
    <2>1. ASSUME NEW q \in Procs, InSave(q)' PROVE InSave(q) /\ (cycle'[q].alone => cycle[q].alone)
        BY <1>5, <1>6, <2>1 DEF InSave, Curriculum!Saving
    <2> QED BY <1>1, <2>1, OverlapsStay
<1>8. ASSUME NEW q \in Procs PROVE Accounted(q)' /\ Copied(q)'
    <2>1. CASE q = p
        BY <1>5, <1>6, <2>1, NothingToCopy DEF Accounted
    <2>2. CASE q # p
        BY <1>1, <1>3, <1>5, <2>2, RowsStay, CopyStays
    <2> QED BY <2>1, <2>2
<1>9. \A q \in Procs : Guarded(q)'
    BY <1>3, OnTime
<1> QED BY <1>4, <1>7, <1>8, <1>9 DEF CurriculumInv

(* An answer with a problem in it is a sequence of rows.                    *)
LEMMA AnswerFacts ==
    ASSUME NEW a \in Generated
    PROVE  /\ Curriculum!ParseRejections(a) \subseteq Told
           /\ Curriculum!Problems(a) # {} =>
                /\ a \in Seq(Curriculum!RowKinds)
                /\ \A i \in DOMAIN a : a[i] \notin {"good", "blank"} =>
                      \E e \in Curriculum!ParseRejections(a) : e.row = i
<1>1. CASE a = Raised
    BY <1>1 DEF Curriculum!ParseRejections, Curriculum!Problems
<1>2. CASE a # Raised /\ a = Garbled
    <2>1. Curriculum!ParseRejections(a) = {[row |-> 0, reason |-> "json_decode_error"]}
        BY <1>2 DEF Curriculum!ParseRejections
    <2>2. [row |-> 0, reason |-> "json_decode_error"] \in Told
        BY DEF Told, Reasons
    <2>3. Curriculum!Problems(a) = {}
        BY <1>2 DEF Curriculum!Problems
    <2> QED BY <2>1, <2>2, <2>3
<1>3. CASE a # Raised /\ a # Garbled
    <2> DEFINE lost == Curriculum!ParseRejections(a)
    <2>1. a \in Seq(Curriculum!RowKinds)
        BY <1>3, CurriculumFacts
    <2>2. DOMAIN a = 1 .. Len(a) /\ Len(a) \in Nat /\ \A i \in DOMAIN a : a[i] \in Reasons
        <3>1. DOMAIN a = 1 .. Len(a) /\ Len(a) \in Nat
            BY <2>1, LenProperties
        <3> QED BY <2>1, <3>1, ElementOfSeq DEF Reasons
    <2>3. lost = {[row |-> i, reason |-> a[i]] : i \in DOMAIN a \ Curriculum!Problems(a)}
        BY <1>3 DEF Curriculum!ParseRejections
    <2>4. Curriculum!Problems(a) = {i \in DOMAIN a : a[i] \in {"good", "blank"}}
        BY <1>3 DEF Curriculum!Problems
    <2> HIDE DEF lost
    <2>5. lost \subseteq Told
        BY <2>2, <2>3 DEF Told
    <2>6. ASSUME NEW i \in DOMAIN a, a[i] \notin {"good", "blank"}
          PROVE  \E e \in lost : e.row = i
        <3>1. [row |-> i, reason |-> a[i]] \in lost
            BY <2>3, <2>4, <2>6
        <3> QED BY <3>1
    <2> QED BY <2>1, <2>5, <2>6 DEF lost
<1> QED BY <1>1, <1>2, <1>3

LEMMA CurriculumGenerate ==
    ASSUME CurriculumInv, NEW p \in Procs, Curriculum!Generate(p)
    PROVE  CurriculumInv'
<1> USE DEF Curriculum!Generate
<1>1. /\ CurriculumType /\ Overlaps /\ proc[p] = "Generate"
      /\ \A q \in Procs : Guarded(q) /\ Accounted(q) /\ Copied(q)
    BY DEF CurriculumInv
<1>2. PICK answer \in Generated :
         LET found == Curriculum!Problems(answer) # {}
             lost  == cycle[p].lost \cup Curriculum!ParseRejections(answer)
             ends  == found \/ cycle[p].attempt + 1 = MaxGenerated
         IN  /\ cycle' = [cycle EXCEPT ![p].attempt = @ + 1, ![p].lost = lost,
                                       ![p].told = IF ends THEN lost ELSE {},
                                       ![p].answer = IF found THEN answer ELSE <<>>]
             /\ proc' = [proc EXCEPT ![p] = IF ends THEN "Judge" ELSE "Generate"]
    BY <1>1
<1> DEFINE found == Curriculum!Problems(answer) # {}
           lost  == cycle[p].lost \cup Curriculum!ParseRejections(answer)
           ends  == found \/ cycle[p].attempt + 1 = MaxGenerated
           rows  == IF found THEN answer ELSE <<>>
           told_  == IF ends THEN lost ELSE {}
           now_   == IF ends THEN "Judge" ELSE "Generate"
<1>3. /\ cycle' = [cycle EXCEPT ![p] = [cycle[p] EXCEPT !.attempt = cycle[p].attempt + 1,
                       !.lost = lost, !.told = told_, !.answer = rows]]
      /\ proc' = [proc EXCEPT ![p] = now_]
    BY ZenonT(60), <1>1, <1>2 DEF CurriculumType, ACycle
<1>0. UNCHANGED <<daily, clock, stamps, judged, shards, rollup>>
    BY DEF Curriculum!disk
<1> HIDE DEF Curriculum!Generate
<1>4. /\ cycle[p] \in ACycle /\ cycle[p].attempt \in 0 .. MaxGenerated /\ cycle[p].next = 1
      /\ cycle[p].attempt < MaxGenerated
    BY <1>1 DEF CurriculumType, ACycle
<1>5. /\ cycle[p].attempt + 1 \in 0 .. MaxGenerated
      /\ cycle[p].attempt + 1 # MaxGenerated => cycle[p].attempt + 1 < MaxGenerated
    <2> DEFINE n == cycle[p].attempt
    <2>1. n \in Nat /\ n < MaxGenerated /\ MaxGenerated \in Nat
        BY <1>4, CurriculumFacts
    <2> HIDE DEF n
    <2>2. n + 1 \in 0 .. MaxGenerated /\ (n + 1 # MaxGenerated => n + 1 < MaxGenerated)
        BY <2>1
    <2> QED BY <2>2 DEF n
<1>6. lost \in SUBSET Told /\ told_ \in SUBSET Told /\ rows \in Seq(Curriculum!RowKinds)
    <2>1. lost \in SUBSET Told
        BY <1>4, AnswerFacts DEF ACycle
    <2> HIDE DEF lost
    <2>2. told_ \in SUBSET Told
        BY <2>1
    <2>3. rows \in Seq(Curriculum!RowKinds)
        BY AnswerFacts
    <2> QED BY <2>1, <2>2, <2>3
<1>7. /\ ends => told_ = lost /\ now_ = "Judge"
      /\ ~ends => cycle[p].attempt + 1 # MaxGenerated /\ now_ = "Generate"
    OBVIOUS
<1>8. ends => \A i \in DOMAIN rows :
          rows[i] \notin {"good", "blank"} => \E e \in lost : e.row = i
    <2>1. CASE found
        BY <2>1, AnswerFacts
    <2>2. CASE ~found
        <3>1. rows = <<>>
            BY <2>2
        <3> HIDE DEF rows, found
        <3>2. DOMAIN rows = {}
            BY <3>1
        <3> QED BY <3>2
    <2> QED BY <2>1, <2>2
<1>9. now_ \in {"Judge", "Generate"}
    OBVIOUS
<1> HIDE DEF found, lost, ends, rows, told_, now_
<1> DEFINE c == [cycle[p] EXCEPT !.attempt = cycle[p].attempt + 1,
                       !.lost = lost, !.told = told_, !.answer = rows]
<1>10. /\ c \in ACycle /\ c.attempt = cycle[p].attempt + 1 /\ c.next = 1 /\ c.told = told_
       /\ c.answer = rows
    BY <1>4, <1>5, <1>6 DEF ACycle
<1>11. cycle' = [cycle EXCEPT ![p] = c]
    BY <1>3
<1> HIDE DEF c
<1>12. /\ cycle'[p] = c /\ proc'[p] = now_
       /\ \A q \in Procs \ {p} : proc'[q] = proc[q] /\ cycle'[q] = cycle[q]
       /\ UNCHANGED <<daily, clock, stamps, judged, shards, rollup>>
    BY <1>0, <1>1, <1>3, <1>11 DEF CurriculumType
<1>13. CurriculumType'
    <2>1. proc' \in [Procs -> Curriculum!Steps]
        BY <1>1, <1>3, <1>9 DEF CurriculumType, Curriculum!Steps
    <2>2. cycle' \in [Procs -> ACycle]
        BY <1>1, <1>10, <1>11 DEF CurriculumType
    <2>3. ASSUME NEW q \in Procs, proc'[q] = "Generate"
          PROVE  cycle'[q].attempt < MaxGenerated /\ cycle'[q].next = 1
        <3>1. CASE q = p
            <4>1. ~ends
                BY <1>7, <1>12, <2>3, <3>1
            <4>2. cycle[p].attempt + 1 # MaxGenerated
                BY <1>7, <4>1
            <4> QED BY <1>5, <1>10, <1>12, <3>1, <4>2
        <3>2. CASE q # p
            BY <1>1, <1>12, <2>3, <3>2 DEF CurriculumType
        <3> QED BY <3>1, <3>2
    <2>4. ASSUME NEW q \in Procs, proc'[q] = "Roll"
          PROVE  cycle'[q].listed \subseteq DOMAIN shards' /\ rollup'.rows \subseteq Curriculum!Problem
        BY <1>1, <1>9, <1>12, <2>4 DEF CurriculumType
    <2> QED BY <1>1, <1>12, <2>1, <2>2, <2>3, <2>4 DEF CurriculumType
<1>14. ~InSave(p)'
    BY <1>9, <1>12 DEF InSave, Curriculum!Saving
<1>15. Overlaps'
    <2>1. ASSUME NEW q \in Procs, InSave(q)' PROVE InSave(q) /\ (cycle'[q].alone => cycle[q].alone)
        BY <1>12, <1>14, <2>1 DEF InSave, Curriculum!Saving
    <2> QED BY <1>1, <2>1, OverlapsStay
<1>16. Accounted(p)'
    <2> SUFFICES ASSUME now_ = "Judge"
                 PROVE  /\ \A i \in DOMAIN rows :
                              rows[i] \notin {"good", "blank"} => \E e \in told_ : e.row = i
                        /\ \A i \in DOMAIN rows : ~(i < 1)
        BY <1>10, <1>12 DEF Accounted
    <2>1. ends /\ told_ = lost
        BY <1>7
    <2>2. DOMAIN rows = 1 .. Len(rows) /\ Len(rows) \in Nat
        BY <1>6, LenProperties
    <2>3. \A i \in DOMAIN rows : ~(i < 1)
        BY <2>2
    <2>4. \A i \in DOMAIN rows : rows[i] \notin {"good", "blank"} => \E e \in told_ : e.row = i
        BY <1>8, <2>1
    <2> QED BY <2>3, <2>4
<1>17. ASSUME NEW q \in Procs PROVE Accounted(q)' /\ Copied(q)'
    <2>1. CASE q = p
        BY <1>14, <1>16, <2>1, NothingToCopy
    <2>2. CASE q # p
        BY <1>1, <1>12, <2>2, RowsStay, CopyStays
    <2> QED BY <2>1, <2>2
<1>18. \A q \in Procs : Guarded(q)'
    BY <1>12, OnTime
<1> QED BY <1>13, <1>15, <1>17, <1>18 DEF CurriculumInv

(* Asking the guard forgets no answer that counts.                          *)
LEMMA AsksGuard ==
    ASSUME CurriculumType, NEW p \in Procs, Guarded(p)
    PROVE  LET r == Curriculum!Pruned(stamps[p], clock)
               n == Cardinality(Alive(judged[p], JudgeWindow, clock))
           IN  /\ r \in Seq(Nat) /\ Len(r) \in Nat /\ n \in Nat /\ n <= Len(r)
               /\ Follows(r, judged[p], JudgeWindow, clock)
<1>1. /\ stamps[p] \in Seq(Nat) /\ judged[p] \in Seq(Nat) /\ clock \in Nat
      /\ JudgeWindow \in Nat /\ Nat \in SUBSET Nat
      /\ Follows(stamps[p], judged[p], JudgeWindow, clock)
    BY CurriculumFacts DEF CurriculumType, Guarded
<1>2. /\ Len(stamps[p]) \in Nat /\ DOMAIN stamps[p] = 1 .. Len(stamps[p])
      /\ Len(judged[p]) \in Nat /\ \A k \in 1 .. Len(judged[p]) : judged[p][k] \in Nat
    BY <1>1, LenProperties, ElementOfSeq
<1> DEFINE r == Curriculum!Pruned(stamps[p], clock)
<1>3. r = FromFirstAlive(stamps[p], JudgeWindow, clock)
    BY <1>2, CurriculumFacts
<1> HIDE DEF r
<1>4. r \in Seq(Nat) /\ Follows(r, stamps[p], JudgeWindow, clock)
    BY <1>1, <1>3, PrunedFollows
<1>5. Len(r) \in Nat /\ clock <= clock
    BY <1>1, <1>4, LenProperties
<1>6. Follows(r, judged[p], JudgeWindow, clock)
    BY <1>1, <1>2, <1>4, <1>5, FollowsTwice
<1>7. /\ Cardinality(Alive(judged[p], JudgeWindow, clock)) \in Nat
      /\ Cardinality(Alive(judged[p], JudgeWindow, clock)) <= Len(r)
    BY <1>1, <1>2, <1>5, <1>6, AliveFollows
<1> QED BY <1>4, <1>5, <1>6, <1>7 DEF r

(* The judge is asked when there is room for one more answer.               *)
LEMMA JudgeGuarded ==
    ASSUME CurriculumType, NEW p \in Procs, Guarded(p), clock' = clock,
           \/ UNCHANGED <<stamps, judged>>
           \/ /\ stamps' = [stamps EXCEPT ![p] = Curriculum!Pruned(stamps[p], clock)]
              /\ judged' = judged
           \/ /\ Curriculum!RateOk(stamps[p], clock)
              /\ stamps' = [stamps EXCEPT ![p] = Curriculum!Recorded(stamps[p], clock)]
              /\ judged' = [judged EXCEPT ![p] = Append(judged[p], clock)]
    PROVE  /\ stamps' \in [Procs -> Seq(Nat)] /\ judged' \in [Procs -> Seq(Nat)]
           /\ Guarded(p)'
           /\ \A q \in Procs \ {p} : stamps'[q] = stamps[q] /\ judged'[q] = judged[q]
<1>1. /\ stamps \in [Procs -> Seq(Nat)] /\ judged \in [Procs -> Seq(Nat)] /\ clock \in Nat
      /\ JudgeWindow \in Nat \ {0} /\ Curriculum!EffectiveMax \in Nat
      /\ Follows(stamps[p], judged[p], JudgeWindow, clock)
      /\ Cardinality(Alive(judged[p], JudgeWindow, clock)) <= Curriculum!EffectiveMax
    BY CurriculumFacts DEF CurriculumType, Guarded
<1>2. CASE UNCHANGED <<stamps, judged>>
    BY <1>1, <1>2 DEF Guarded
<1> DEFINE r == Curriculum!Pruned(stamps[p], clock)
           n == Cardinality(Alive(judged[p], JudgeWindow, clock))
<1>3. /\ r \in Seq(Nat) /\ Len(r) \in Nat /\ n \in Nat /\ n <= Len(r)
      /\ Follows(r, judged[p], JudgeWindow, clock)
    BY AsksGuard
<1>4. CASE /\ stamps' = [stamps EXCEPT ![p] = r]
           /\ judged' = judged
    <2> HIDE DEF r
    <2>1. stamps'[p] = r /\ stamps' \in [Procs -> Seq(Nat)]
        BY <1>1, <1>3, <1>4
    <2> QED BY <1>1, <1>3, <1>4, <2>1 DEF Guarded
<1>5. CASE /\ Curriculum!RateOk(stamps[p], clock)
           /\ stamps' = [stamps EXCEPT ![p] = Curriculum!Recorded(stamps[p], clock)]
           /\ judged' = [judged EXCEPT ![p] = Append(judged[p], clock)]
    <2> DEFINE q == FromFirstAlive(Append(stamps[p], clock), JudgeWindow, clock)
               f == Append(judged[p], clock)
    <2>1. n < Curriculum!EffectiveMax
        <3>1. Len(r) < Curriculum!EffectiveMax
            BY <1>5 DEF Curriculum!RateOk
        <3> HIDE DEF r, n
        <3> QED BY <1>1, <1>3, <3>1
    <2>2. /\ q \in Seq(Nat) /\ f \in Seq(Nat) /\ Follows(q, f, JudgeWindow, clock)
          /\ Cardinality(Alive(f, JudgeWindow, clock)) = n + 1
        BY <1>1, OneMoreAlive
    <2>3. Curriculum!Recorded(stamps[p], clock) = q
        <3>1. DOMAIN Append(stamps[p], clock) = 1 .. Len(Append(stamps[p], clock))
            <4>1. Append(stamps[p], clock) \in Seq(Nat)
                BY <1>1, Appended
            <4> QED BY <4>1, LenProperties
        <3> QED BY <3>1, CurriculumFacts DEF Curriculum!Recorded
    <2> HIDE DEF q, f, n, r
    <2>4. stamps' = [stamps EXCEPT ![p] = q] /\ judged' = [judged EXCEPT ![p] = f]
        BY <1>5, <2>3 DEF f
    <2>5. /\ stamps' \in [Procs -> Seq(Nat)] /\ judged' \in [Procs -> Seq(Nat)]
          /\ stamps'[p] = q /\ judged'[p] = f
          /\ \A s \in Procs \ {p} : stamps'[s] = stamps[s] /\ judged'[s] = judged[s]
        BY <1>1, <2>2, <2>4
    <2>6. Cardinality(Alive(f, JudgeWindow, clock)) <= Curriculum!EffectiveMax
        BY <1>1, <1>3, <2>1, <2>2
    <2>7. Guarded(p)'
        BY <2>2, <2>5, <2>6 DEF Guarded
    <2> QED BY <2>5, <2>7
<1> QED BY <1>2, <1>4, <1>5

LEMMA VerdictReasons ==
    ASSUME NEW reply
    PROVE  Curriculum!Verdict(reply) \in Reasons \cup {"ok"}
BY DEF Curriculum!Verdict, Reasons

(* The next problem is the first that is not judged yet.                    *)
LEMMA NextProblem ==
    ASSUME CurriculumType, NEW p \in Procs, Curriculum!Unjudged(p) # {}
    PROVE  LET i == CHOOSE k \in Curriculum!Unjudged(p) :
                       \A l \in Curriculum!Unjudged(p) : k <= l
           IN  /\ i \in DOMAIN cycle[p].answer /\ i \in Nat /\ i >= cycle[p].next
               /\ \A k \in DOMAIN cycle[p].answer :
                     cycle[p].answer[k] = "good" /\ k < i + 1 => k < cycle[p].next \/ k = i
<1> DEFINE U == Curriculum!Unjudged(p)
<1>1. cycle[p].answer \in Seq(Curriculum!RowKinds) /\ cycle[p].next \in Nat
    BY DEF CurriculumType, ACycle
<1>2. DOMAIN cycle[p].answer = 1 .. Len(cycle[p].answer) /\ Len(cycle[p].answer) \in Nat
    BY <1>1, LenProperties
<1>3. U = {i \in DOMAIN cycle[p].answer : cycle[p].answer[i] = "good" /\ i >= cycle[p].next}
    BY DEF Curriculum!Unjudged, Curriculum!ToJudge
<1>4. U \in SUBSET Nat
    BY <1>2, <1>3
<1> HIDE DEF U
<1>5. \E m \in U : \A l \in U : m <= l
    BY <1>4, Smallest DEF U
<1> DEFINE i == CHOOSE k \in U : \A l \in U : k <= l
<1>6. i \in U /\ \A l \in U : i <= l
    BY <1>5
<1> HIDE DEF i
<1>7. i \in DOMAIN cycle[p].answer /\ i \in Nat /\ i >= cycle[p].next
    BY <1>3, <1>4, <1>6
<1>8. ASSUME NEW k \in DOMAIN cycle[p].answer, cycle[p].answer[k] = "good", k < i + 1,
             ~(k < cycle[p].next)
      PROVE  k = i
    <2>1. k \in Nat
        BY <1>2
    <2>2. k \in U
        BY <1>1, <1>3, <1>8, <2>1
    <2>3. i <= k
        BY <1>6, <2>2
    <2> QED BY <1>7, <1>8, <2>1, <2>3
<1> QED BY <1>7, <1>8 DEF i, U

LEMMA CurriculumJudge ==
    ASSUME CurriculumInv, NEW p \in Procs, Curriculum!JudgeProblem(p)
    PROVE  CurriculumInv'
<1>1. /\ CurriculumType /\ Overlaps /\ proc[p] = "Judge" /\ Curriculum!Unjudged(p) # {}
      /\ \A q \in Procs : Guarded(q) /\ Accounted(q) /\ Copied(q)
      /\ UNCHANGED <<daily, clock, proc, shards, rollup>>
    BY DEF CurriculumInv, Curriculum!JudgeProblem, Curriculum!disk
<1> DEFINE i == CHOOSE k \in Curriculum!Unjudged(p) :
                    \A l \in Curriculum!Unjudged(p) : k <= l
<1>2. /\ \/ Curriculum!Keep(p, i, "ok") \/ Curriculum!Keep(p, i, "judge_skipped_budget")
         \/ \E reply : Curriculum!Verdict(reply) # "ok"
                       /\ Curriculum!Drop(p, i, Curriculum!Verdict(reply))
      /\ \/ UNCHANGED <<stamps, judged>>
         \/ /\ stamps' = [stamps EXCEPT ![p] = Curriculum!Pruned(stamps[p], clock)]
            /\ judged' = judged
         \/ /\ Curriculum!RateOk(stamps[p], clock)
            /\ stamps' = [stamps EXCEPT ![p] = Curriculum!Recorded(stamps[p], clock)]
            /\ judged' = [judged EXCEPT ![p] = Append(judged[p], clock)]
    BY <1>1 DEF Curriculum!JudgeProblem, CurriculumType
<1>3. /\ i \in DOMAIN cycle[p].answer /\ i \in Nat /\ i >= cycle[p].next
      /\ \A k \in DOMAIN cycle[p].answer :
            cycle[p].answer[k] = "good" /\ k < i + 1 => k < cycle[p].next \/ k = i
    BY <1>1, NextProblem
<1> HIDE DEF i
<1>4. /\ stamps' \in [Procs -> Seq(Nat)] /\ judged' \in [Procs -> Seq(Nat)]
      /\ Guarded(p)'
      /\ \A q \in Procs \ {p} : stamps'[q] = stamps[q] /\ judged'[q] = judged[q]
    BY SMTT(30), <1>1, <1>2, JudgeGuarded
<1>5. PICK kept_ \in SUBSET Curriculum!Problem, told_ \in SUBSET Told :
         /\ cycle' = [cycle EXCEPT ![p] = [cycle[p] EXCEPT !.next = i + 1, !.kept = kept_,
                                                           !.told = told_]]
         /\ cycle[p].kept \subseteq kept_ /\ cycle[p].told \subseteq told_
         /\ (\E r \in kept_ : r.row = i) \/ (\E e \in told_ : e.row = i)
    <2>1. /\ cycle \in [Procs -> ACycle] /\ cycle[p].kept \in SUBSET Curriculum!Problem
          /\ cycle[p].told \in SUBSET Told /\ cycle[p].id \in 0 .. MaxSeconds
        BY <1>1 DEF CurriculumType, ACycle
    <2>2. ASSUME NEW by \in {"ok", "judge_skipped_budget"}, Curriculum!Keep(p, i, by)
          PROVE  \E kept_ \in SUBSET Curriculum!Problem, told_ \in SUBSET Told :
                     /\ cycle' = [cycle EXCEPT ![p] = [cycle[p] EXCEPT !.next = i + 1,
                                                        !.kept = kept_, !.told = told_]]
                     /\ cycle[p].kept \subseteq kept_ /\ cycle[p].told \subseteq told_
                     /\ (\E r \in kept_ : r.row = i) \/ (\E e \in told_ : e.row = i)
        <3> DEFINE r == [cycle |-> cycle[p].id, row |-> i, by |-> by]
                   kept_ == cycle[p].kept \cup {r}
        <3>1. r \in Curriculum!Problem /\ r.row = i
            BY <1>3, <2>1 DEF Curriculum!Problem
        <3>2. cycle' = [cycle EXCEPT ![p] = [cycle[p] EXCEPT !.next = i + 1,
                                              !.kept = kept_, !.told = cycle[p].told]]
            BY <2>1, <2>2 DEF Curriculum!Keep, ACycle
        <3> HIDE DEF r
        <3>3. kept_ \in SUBSET Curriculum!Problem /\ r \in kept_ /\ cycle[p].kept \subseteq kept_
            BY <2>1, <3>1
        <3> HIDE DEF kept_
        <3> QED BY <2>1, <3>1, <3>2, <3>3
    <2>3. ASSUME NEW reason \in Reasons, Curriculum!Drop(p, i, reason)
          PROVE  \E kept_ \in SUBSET Curriculum!Problem, told_ \in SUBSET Told :
                     /\ cycle' = [cycle EXCEPT ![p] = [cycle[p] EXCEPT !.next = i + 1,
                                                        !.kept = kept_, !.told = told_]]
                     /\ cycle[p].kept \subseteq kept_ /\ cycle[p].told \subseteq told_
                     /\ (\E r \in kept_ : r.row = i) \/ (\E e \in told_ : e.row = i)
        <3> DEFINE e == [row |-> i, reason |-> reason]
                   told_ == cycle[p].told \cup {e}
        <3>1. e \in Told /\ e.row = i
            BY <1>3 DEF Told
        <3>2. cycle' = [cycle EXCEPT ![p] = [cycle[p] EXCEPT !.next = i + 1,
                                              !.kept = cycle[p].kept, !.told = told_]]
            BY <2>1, <2>3 DEF Curriculum!Drop, ACycle
        <3> HIDE DEF e
        <3>3. told_ \in SUBSET Told /\ e \in told_ /\ cycle[p].told \subseteq told_
            BY <2>1, <3>1
        <3> HIDE DEF told_
        <3> QED BY <2>1, <3>1, <3>2, <3>3
    <2>4. \A reply : Curriculum!Verdict(reply) \in Reasons \cup {"ok"}
        BY VerdictReasons
    <2> QED BY <1>2, <2>2, <2>3, <2>4
<1> DEFINE c == [cycle[p] EXCEPT !.next = i + 1, !.kept = kept_, !.told = told_]
<1>6. /\ c \in ACycle /\ c.next = i + 1 /\ c.kept = kept_ /\ c.told = told_
      /\ c.answer = cycle[p].answer
    <2>1. i + 1 \in Nat \ {0} /\ cycle[p] \in ACycle
        BY <1>1, <1>3 DEF CurriculumType
    <2> QED BY <1>5, <2>1 DEF ACycle
<1>7. cycle' = [cycle EXCEPT ![p] = c]
    BY <1>5
<1> HIDE DEF c
<1>8. /\ cycle' \in [Procs -> ACycle] /\ cycle'[p] = c
      /\ \A q \in Procs \ {p} : cycle'[q] = cycle[q]
    BY <1>1, <1>6, <1>7 DEF CurriculumType
<1>9. CurriculumType'
    <2>1. ASSUME NEW q \in Procs, proc'[q] = "Generate"
          PROVE  cycle'[q].attempt < MaxGenerated /\ cycle'[q].next = 1
        BY <1>1, <1>8, <2>1 DEF CurriculumType
    <2>2. ASSUME NEW q \in Procs, proc'[q] = "Roll"
          PROVE  cycle'[q].listed \subseteq DOMAIN shards' /\ rollup'.rows \subseteq Curriculum!Problem
        BY <1>1, <1>8, <2>2 DEF CurriculumType
    <2> QED BY <1>1, <1>4, <1>8, <2>1, <2>2 DEF CurriculumType
<1>10. ~InSave(p)'
    BY <1>1 DEF InSave, Curriculum!Saving
<1>11. Overlaps'
    <2>1. ASSUME NEW q \in Procs, InSave(q)' PROVE InSave(q) /\ (cycle'[q].alone => cycle[q].alone)
        BY <1>1, <1>8, <1>10, <2>1 DEF InSave, Curriculum!Saving
    <2> QED BY <1>1, <2>1, OverlapsStay
<1>12. Accounted(p)'
    <2>1. ASSUME NEW k \in DOMAIN cycle[p].answer, cycle[p].answer[k] \notin {"good", "blank"}
          PROVE  \E e \in told_ : e.row = k
        <3>1. \E e \in cycle[p].told : e.row = k
            BY <1>1, <2>1 DEF Accounted
        <3> QED BY <1>5, <3>1
    <2>2. ASSUME NEW k \in DOMAIN cycle[p].answer, cycle[p].answer[k] = "good", k < i + 1
          PROVE  (\E r \in kept_ : r.row = k) \/ (\E e \in told_ : e.row = k)
        <3>1. CASE k = i
            BY <1>5, <3>1
        <3>2. CASE k < cycle[p].next
            <4>1. (\E r \in cycle[p].kept : r.row = k) \/ (\E e \in cycle[p].told : e.row = k)
                BY <1>1, <2>2, <3>2 DEF Accounted
            <4> QED BY <1>5, <4>1
        <3> QED BY <1>3, <2>2, <3>1, <3>2
    <2> QED BY <1>6, <1>8, <2>1, <2>2 DEF Accounted
<1>13. ASSUME NEW q \in Procs PROVE Accounted(q)' /\ Copied(q)' /\ Guarded(q)'
    <2>1. CASE q = p
        BY <1>4, <1>10, <1>12, <2>1, NothingToCopy
    <2>2. CASE q # p
        BY <1>1, <1>4, <1>8, <2>2, RowsStay, CopyStays, GuardStays
    <2> QED BY <2>1, <2>2
<1> QED BY <1>9, <1>11, <1>13 DEF CurriculumInv

(* One process moves on, and what it leaves on the disk is of its type.     *)
LEMMA OneMoves ==
    ASSUME CurriculumType, NEW p \in Procs, NEW s_ \in Curriculum!Steps, NEW c \in ACycle,
           cycle' = [cycle EXCEPT ![p] = c], proc' = [proc EXCEPT ![p] = s_],
           UNCHANGED <<daily, clock>>,
           stamps' \in [Procs -> Seq(Nat)], judged' \in [Procs -> Seq(Nat)],
           DOMAIN shards' = DOMAIN shards, \A k \in DOMAIN shards : shards'[k] \in AShard,
           \/ rollup' = rollup
           \/ rollup'.rows \subseteq Curriculum!Problem,
           s_ # "Generate",
           s_ = "Roll" => /\ c.listed \subseteq DOMAIN shards
                          /\ rollup'.rows \subseteq Curriculum!Problem
    PROVE  /\ CurriculumType' /\ cycle'[p] = c /\ proc'[p] = s_
           /\ \A q \in Procs \ {p} : proc'[q] = proc[q] /\ cycle'[q] = cycle[q]
<1>1. /\ cycle'[p] = c /\ proc'[p] = s_
      /\ \A q \in Procs \ {p} : proc'[q] = proc[q] /\ cycle'[q] = cycle[q]
      /\ cycle' \in [Procs -> ACycle] /\ proc' \in [Procs -> Curriculum!Steps]
    BY DEF CurriculumType
<1>2. ASSUME NEW q \in Procs, proc'[q] = "Generate"
      PROVE  cycle'[q].attempt < MaxGenerated /\ cycle'[q].next = 1
    BY <1>1, <1>2 DEF CurriculumType
<1>3. ASSUME NEW q \in Procs, proc'[q] = "Roll"
      PROVE  cycle'[q].listed \subseteq DOMAIN shards' /\ rollup'.rows \subseteq Curriculum!Problem
    <2>1. CASE q = p
        BY <1>1, <1>3, <2>1
    <2>2. CASE q # p
        BY <1>1, <1>3, <2>2 DEF CurriculumType
    <2> QED BY <2>1, <2>2
<1>4. rollup' = None \/ rollup'.rows \subseteq Curriculum!Problem
    BY DEF CurriculumType
<1>5. DOMAIN shards' \subseteq 0 .. MaxSeconds /\ \A k \in DOMAIN shards' : shards'[k] \in AShard
    BY DEF CurriculumType
<1>6. daily' \in BOOLEAN /\ clock' \in 0 .. MaxSeconds
    BY DEF CurriculumType
<1> QED BY <1>1, <1>2, <1>3, <1>4, <1>5, <1>6 DEF CurriculumType

(* A process leaves its save, or goes on with it, and writes nothing.       *)
LEMMA Moves ==
    ASSUME CurriculumInv, NEW p \in Procs, CurriculumType',
           UNCHANGED <<shards, rollup>>,
           \A q \in Procs \ {p} : proc'[q] = proc[q] /\ cycle'[q] = cycle[q],
           proc'[p] # "Judge", Copied(p)', \A q \in Procs : Guarded(q)',
           InSave(p)' => InSave(p) /\ (cycle'[p].alone => cycle[p].alone)
    PROVE  CurriculumInv'
<1>1. Overlaps /\ \A q \in Procs : Accounted(q) /\ Copied(q)
    BY DEF CurriculumInv
<1>2. Overlaps'
    <2>1. ASSUME NEW q \in Procs, InSave(q)' PROVE InSave(q) /\ (cycle'[q].alone => cycle[q].alone)
        <3>1. CASE q = p
            BY <2>1, <3>1
        <3>2. CASE q # p
            BY <2>1, <3>2 DEF InSave, Curriculum!Saving
        <3> QED BY <3>1, <3>2
    <2> QED BY <1>1, <2>1, OverlapsStay
<1>3. ASSUME NEW q \in Procs PROVE Accounted(q)' /\ Copied(q)'
    <2>1. CASE q = p
        BY <2>1 DEF Accounted
    <2>2. CASE q # p
        BY <1>1, <2>2, RowsStay, CopyStays
    <2> QED BY <2>1, <2>2
<1> QED BY <1>2, <1>3 DEF CurriculumInv

(* A process writes while it saves.                                        *)
LEMMA Writes ==
    ASSUME CurriculumInv, NEW p \in Procs, CurriculumType', UNCHANGED <<clock, stamps, judged>>,
           \A q \in Procs \ {p} : proc'[q] = proc[q] /\ cycle'[q] = cycle[q],
           proc'[p] # "Judge", Copied(p)',
           InSave(p), InSave(p)', cycle'[p].alone => cycle[p].alone
    PROVE  CurriculumInv'
<1>1. Overlaps /\ \A q \in Procs : Accounted(q)
    BY DEF CurriculumInv
<1>2. Overlaps'
    <2>1. ASSUME NEW q \in Procs, InSave(q)' PROVE InSave(q) /\ (cycle'[q].alone => cycle[q].alone)
        <3>1. CASE q = p
            BY <2>1, <3>1
        <3>2. CASE q # p
            BY <2>1, <3>2 DEF InSave, Curriculum!Saving
        <3> QED BY <3>1, <3>2
    <2> QED BY <1>1, <2>1, OverlapsStay
<1>3. ASSUME NEW q \in Procs PROVE Accounted(q)' /\ Copied(q)'
    <2>1. CASE q = p
        BY <2>1 DEF Accounted
    <2>2. CASE q # p
        BY <1>1, <1>2, <2>2, RowsStay, OthersCopied
    <2> QED BY <2>1, <2>2
<1> QED BY <1>2, <1>3, OnTime DEF CurriculumInv

(* What is typed of the process that acts.                                  *)
LEMMA Acts ==
    ASSUME CurriculumInv, NEW p \in Procs
    PROVE  /\ CurriculumType /\ Copied(p) /\ cycle[p] \in ACycle
           /\ stamps \in [Procs -> Seq(Nat)] /\ judged \in [Procs -> Seq(Nat)]
           /\ proc \in [Procs -> Curriculum!Steps] /\ cycle \in [Procs -> ACycle]
           /\ cycle[p].kept \subseteq Curriculum!Problem
           /\ cycle[p].id \in 0 .. MaxSeconds
           /\ \A k \in DOMAIN shards : shards[k] \in AShard
           /\ DOMAIN shards \subseteq 0 .. MaxSeconds
BY DEF CurriculumInv, CurriculumType, ACycle

LEMMA CurriculumFlush ==
    ASSUME CurriculumInv, NEW p \in Procs, Curriculum!FlushShard(p)
    PROVE  CurriculumInv'
<1>1. /\ proc[p] = "ShardRows" /\ shards' = [shards EXCEPT ![cycle[p].id].torn = TRUE]
      /\ UNCHANGED <<daily, clock, proc, cycle, stamps, judged, rollup>>
    BY DEF Curriculum!FlushShard, Curriculum!procVars
<1>2. DOMAIN shards' = DOMAIN shards /\ \A k \in DOMAIN shards : shards'[k] \in AShard
    BY <1>1, Acts DEF AShard
<1>3. /\ cycle' = [cycle EXCEPT ![p] = cycle[p]] /\ proc' = [proc EXCEPT ![p] = "ShardRows"]
      /\ "ShardRows" \in Curriculum!Steps
    BY <1>1, Acts DEF Curriculum!Steps
<1>4. CurriculumType' /\ proc'[p] = "ShardRows"
    BY <1>1, <1>2, <1>3, Acts, OneMoves
<1>5. InSave(p) /\ InSave(p)' /\ Copied(p)'
    BY <1>1 DEF InSave, Curriculum!Saving, Copied
<1> QED BY <1>1, <1>4, <1>5, Writes

LEMMA CurriculumClose ==
    ASSUME CurriculumInv, NEW p \in Procs, Curriculum!CloseShard(p)
    PROVE  CurriculumInv'
<1> DEFINE s_ == IF daily THEN "List" ELSE "ShardManifest"
<1>1. /\ proc[p] = "ShardRows" /\ proc' = [proc EXCEPT ![p] = s_]
      /\ shards' = [shards EXCEPT ![cycle[p].id].rows = cycle[p].kept,
                                  ![cycle[p].id].torn = FALSE]
      /\ UNCHANGED <<daily, clock, cycle, stamps, judged, rollup>>
    BY DEF Curriculum!CloseShard
<1>2. DOMAIN shards' = DOMAIN shards /\ \A k \in DOMAIN shards : shards'[k] \in AShard
    BY <1>1, Acts DEF AShard
<1>3. s_ \in {"List", "ShardManifest"}
    OBVIOUS
<1> HIDE DEF s_
<1>4. cycle' = [cycle EXCEPT ![p] = cycle[p]] /\ s_ \in Curriculum!Steps
    BY <1>1, <1>3, Acts DEF Curriculum!Steps
<1>5. /\ CurriculumType' /\ proc'[p] = s_
      /\ \A q \in Procs \ {p} : proc'[q] = proc[q] /\ cycle'[q] = cycle[q]
    BY <1>1, <1>2, <1>3, <1>4, Acts, OneMoves
<1>6. InSave(p) /\ InSave(p)' /\ Copied(p)'
    BY <1>1, <1>3, <1>5 DEF InSave, Curriculum!Saving, Copied
<1> QED BY <1>1, <1>3, <1>5, <1>6, Writes

LEMMA CurriculumManifest ==
    ASSUME CurriculumInv, NEW p \in Procs, Curriculum!WriteManifest(p)
    PROVE  CurriculumInv'
<1>1. /\ proc[p] = "ShardManifest" /\ proc' = [proc EXCEPT ![p] = "List"]
      /\ shards' = [shards EXCEPT ![cycle[p].id].manifest = TRUE]
      /\ UNCHANGED <<daily, clock, cycle, stamps, judged, rollup>>
    BY DEF Curriculum!WriteManifest
<1>2. DOMAIN shards' = DOMAIN shards /\ \A k \in DOMAIN shards : shards'[k] \in AShard
    BY <1>1, Acts DEF AShard
<1>3. cycle' = [cycle EXCEPT ![p] = cycle[p]] /\ "List" \in Curriculum!Steps
    BY <1>1, Acts DEF Curriculum!Steps
<1>4. /\ CurriculumType' /\ proc'[p] = "List"
      /\ \A q \in Procs \ {p} : proc'[q] = proc[q] /\ cycle'[q] = cycle[q]
    BY <1>1, <1>2, <1>3, Acts, OneMoves
<1>5. InSave(p) /\ InSave(p)' /\ Copied(p)'
    BY <1>1, <1>4 DEF InSave, Curriculum!Saving, Copied
<1> QED BY <1>1, <1>4, <1>5, Writes

LEMMA CurriculumList ==
    ASSUME CurriculumInv, NEW p \in Procs, Curriculum!ListShards(p)
    PROVE  CurriculumInv'
<1> DEFINE c == [cycle[p] EXCEPT !.listed = DOMAIN shards]
<1>1. /\ proc[p] = "List" /\ proc' = [proc EXCEPT ![p] = "Roll"]
      /\ cycle' = [cycle EXCEPT ![p] = c]
      /\ rollup' = [rows |-> {}, torn |-> FALSE]
      /\ UNCHANGED <<daily, clock, stamps, judged, shards>>
    BY Acts DEF Curriculum!ListShards, ACycle
<1>2. c \in ACycle /\ c.listed = DOMAIN shards /\ c.alone = cycle[p].alone
    BY Acts DEF ACycle
<1> HIDE DEF c
<1>3. "Roll" \in Curriculum!Steps /\ rollup'.rows \subseteq Curriculum!Problem
    BY <1>1 DEF Curriculum!Steps
<1>4. /\ CurriculumType' /\ proc'[p] = "Roll" /\ cycle'[p] = c
      /\ \A q \in Procs \ {p} : proc'[q] = proc[q] /\ cycle'[q] = cycle[q]
    BY <1>1, <1>2, <1>3, Acts, OneMoves
<1>5. InSave(p) /\ InSave(p)' /\ Copied(p)'
    BY <1>1, <1>2, <1>4 DEF InSave, Curriculum!Saving, Copied
<1> QED BY <1>1, <1>2, <1>4, <1>5, Writes

LEMMA CurriculumCopy ==
    ASSUME CurriculumInv, NEW p \in Procs, Curriculum!CopyShard(p)
    PROVE  CurriculumInv'
<1> DEFINE d == CHOOSE d \in cycle[p].listed : \A e \in cycle[p].listed : d <= e
           c == [cycle[p] EXCEPT !.listed = @ \ {d}]
<1>1. /\ proc[p] = "Roll" /\ cycle[p].listed # {}
      /\ cycle' = [cycle EXCEPT ![p] = c]
      /\ rollup' = [rows |-> rollup.rows \cup shards[d].rows,
                    torn |-> rollup.torn \/ shards[d].torn]
      /\ UNCHANGED <<daily, clock, proc, stamps, judged, shards>>
    BY Acts DEF Curriculum!CopyShard, ACycle
<1>2. /\ cycle[p].listed \subseteq DOMAIN shards /\ rollup.rows \subseteq Curriculum!Problem
      /\ cycle[p].listed \in SUBSET Nat
    BY <1>1, Acts, CurriculumFacts DEF CurriculumType
<1>3. d \in cycle[p].listed
    <2>1. \E e \in cycle[p].listed : \A k \in cycle[p].listed : e <= k
        BY <1>1, <1>2, Smallest
    <2> QED BY <2>1
<1> HIDE DEF d
<1>4. /\ c \in ACycle /\ c.listed = cycle[p].listed \ {d} /\ c.alone = cycle[p].alone
      /\ c.listed \subseteq DOMAIN shards
    BY <1>2, Acts DEF ACycle
<1> HIDE DEF c
<1>5. /\ rollup'.rows = rollup.rows \cup shards[d].rows
      /\ rollup'.rows \subseteq Curriculum!Problem
    <2>1. shards[d].rows \subseteq Curriculum!Problem
        BY <1>2, <1>3, Acts DEF AShard
    <2> QED BY <1>1, <1>2, <2>1
<1>6. "Roll" \in Curriculum!Steps /\ proc' = [proc EXCEPT ![p] = "Roll"]
    BY <1>1, Acts DEF Curriculum!Steps
<1>7. /\ CurriculumType' /\ proc'[p] = "Roll" /\ cycle'[p] = c
      /\ \A q \in Procs \ {p} : proc'[q] = proc[q] /\ cycle'[q] = cycle[q]
    BY <1>1, <1>4, <1>5, <1>6, Acts, OneMoves
<1>8. InSave(p) /\ InSave(p)'
    BY <1>1 DEF InSave, Curriculum!Saving
<1>9. Copied(p)'
    <2> SUFFICES ASSUME c.alone, NEW k \in DOMAIN shards \ c.listed
                 PROVE  shards[k].rows \subseteq rollup'.rows
        BY <1>1, <1>7 DEF Copied
    <2>1. k = d \/ k \in DOMAIN shards \ cycle[p].listed
        BY <1>4
    <2>2. k \in DOMAIN shards \ cycle[p].listed => shards[k].rows \subseteq rollup.rows
        BY <1>1, <1>4, Acts DEF Copied
    <2> QED BY <1>5, <2>1, <2>2
<1> QED BY <1>1, <1>4, <1>7, <1>8, <1>9, Writes

LEMMA CurriculumRolled ==
    ASSUME CurriculumInv, NEW p \in Procs, Curriculum!CloseRollup(p)
    PROVE  CurriculumInv'
<1> DEFINE c == [cycle[p] EXCEPT !.saved = TRUE]
<1>1. /\ proc[p] = "Roll" /\ cycle[p].listed = {} /\ proc' = [proc EXCEPT ![p] = "Emit"]
      /\ cycle' = [cycle EXCEPT ![p] = c]
      /\ UNCHANGED <<daily, clock, stamps, judged, shards, rollup>>
    BY Acts DEF Curriculum!CloseRollup, Curriculum!disk, ACycle
<1>2. c \in ACycle /\ c.alone = cycle[p].alone
    BY Acts DEF ACycle
<1> HIDE DEF c
<1>3. "Emit" \in Curriculum!Steps
    BY DEF Curriculum!Steps
<1>4. /\ CurriculumType' /\ proc'[p] = "Emit" /\ cycle'[p] = c
      /\ \A q \in Procs \ {p} : proc'[q] = proc[q] /\ cycle'[q] = cycle[q]
    BY <1>1, <1>2, <1>3, Acts, OneMoves
<1>5. InSave(p)
    BY <1>1 DEF InSave, Curriculum!Saving
<1>6. Copied(p)'
    <2> SUFFICES ASSUME c.alone, NEW k \in DOMAIN shards
                 PROVE  shards[k].rows \subseteq rollup.rows
        BY <1>1, <1>4 DEF Copied
    <2> QED BY <1>1, <1>2, Acts DEF Copied
<1> QED BY <1>1, <1>2, <1>4, <1>5, <1>6, OnTime, Moves

LEMMA CurriculumFails ==
    ASSUME CurriculumInv, NEW p \in Procs, Curriculum!WriteFails(p)
    PROVE  CurriculumInv'
<1> DEFINE s_ == IF daily THEN "Emit" ELSE "Idle"
           c == IF daily THEN [cycle[p] EXCEPT !.alone = FALSE] ELSE Curriculum!NoCycle
<1>1. /\ Curriculum!Saving(p) /\ proc' = [proc EXCEPT ![p] = s_]
      /\ cycle' = [cycle EXCEPT ![p] = c]
      /\ UNCHANGED <<daily, clock, stamps, judged, shards, rollup>>
    BY Acts DEF Curriculum!WriteFails, Curriculum!disk, ACycle
<1>2. /\ c \in ACycle /\ s_ \in {"Emit", "Idle"} /\ s_ \in Curriculum!Steps
      /\ s_ = "Emit" => ~c.alone
    <2>1. CASE daily
        BY <2>1, Acts DEF ACycle, Curriculum!Steps
    <2>2. CASE ~daily
        BY <2>2, FreshCycle DEF Curriculum!Steps
    <2> QED BY <2>1, <2>2
<1> HIDE DEF c, s_
<1>3. /\ CurriculumType' /\ proc'[p] = s_ /\ cycle'[p] = c
      /\ \A q \in Procs \ {p} : proc'[q] = proc[q] /\ cycle'[q] = cycle[q]
    BY <1>1, <1>2, Acts, OneMoves
<1>4. InSave(p) /\ Copied(p)' /\ (InSave(p)' => ~cycle'[p].alone)
    BY <1>1, <1>2, <1>3 DEF InSave, Curriculum!Saving, Copied
<1> QED BY <1>1, <1>2, <1>3, <1>4, OnTime, Moves

(* A process ends its cycle, or starts again.                               *)
LEMMA Rests ==
    ASSUME CurriculumInv, NEW p \in Procs, NEW s_ \in {"Idle", "Dead"},
           proc' = [proc EXCEPT ![p] = s_],
           \/ cycle' = cycle
           \/ cycle' = [cycle EXCEPT ![p] = Curriculum!NoCycle],
           UNCHANGED <<daily, clock, shards, rollup>>,
           stamps' \in [Procs -> Seq(Nat)], judged' \in [Procs -> Seq(Nat)],
           \A q \in Procs : Guarded(q)'
    PROVE  CurriculumInv'
<1>1. PICK c \in ACycle : cycle' = [cycle EXCEPT ![p] = c]
    <2>1. CASE cycle' = cycle
        BY <2>1, Acts
    <2>2. CASE cycle' = [cycle EXCEPT ![p] = Curriculum!NoCycle]
        BY <2>2, FreshCycle
    <2> QED BY <2>1, <2>2
<1>2. s_ \in Curriculum!Steps
    BY DEF Curriculum!Steps
<1>3. /\ CurriculumType' /\ proc'[p] = s_ /\ cycle'[p] = c
      /\ \A q \in Procs \ {p} : proc'[q] = proc[q] /\ cycle'[q] = cycle[q]
    BY <1>1, <1>2, Acts, OneMoves
<1>4. ~InSave(p)'
    BY <1>3 DEF InSave, Curriculum!Saving
<1>5. Copied(p)'
    BY <1>4, NothingToCopy
<1> QED BY <1>3, <1>4, <1>5, Moves

LEMMA CurriculumEmit ==
    ASSUME CurriculumInv, NEW p \in Procs, Curriculum!Emit(p)
    PROVE  CurriculumInv'
<1>1. /\ proc' = [proc EXCEPT ![p] = "Idle"]
      /\ cycle' = [cycle EXCEPT ![p] = Curriculum!NoCycle]
      /\ UNCHANGED <<daily, clock, stamps, judged, shards, rollup>>
    BY DEF Curriculum!Emit, Curriculum!disk
<1> QED BY <1>1, Acts, OnTime, Rests

LEMMA CurriculumRestart ==
    ASSUME CurriculumInv, NEW p \in Procs, Curriculum!Restart(p)
    PROVE  CurriculumInv'
<1>1. /\ proc' = [proc EXCEPT ![p] = "Idle"] /\ cycle' = cycle
      /\ UNCHANGED <<daily, clock, stamps, judged, shards, rollup>>
    BY DEF Curriculum!Restart, Curriculum!disk
<1> QED BY <1>1, Acts, OnTime, Rests

(* The guard of a process that starts again knows nothing, as the judge has *)
(* answered it nothing.                                                    *)
LEMMA FreshGuard ==
    ASSUME NEW p, stamps[p] = <<>>, judged[p] = <<>>
    PROVE  Guarded(p)
<1>1. Follows(<<>>, <<>>, JudgeWindow, clock)
    BY DEF Follows
<1>2. Alive(<<>>, JudgeWindow, clock) = {}
    BY DEF Alive
<1>3. Cardinality({}) = 0
    BY FS_EmptySet
<1>4. 0 <= Curriculum!EffectiveMax
    BY CurriculumFacts
<1> QED BY <1>1, <1>2, <1>3, <1>4 DEF Guarded

LEMMA CurriculumCrash ==
    ASSUME CurriculumInv, NEW p \in Procs, Curriculum!Crash(p)
    PROVE  CurriculumInv'
<1>1. /\ proc' = [proc EXCEPT ![p] = "Dead"]
      /\ cycle' = [cycle EXCEPT ![p] = Curriculum!NoCycle]
      /\ stamps' = [stamps EXCEPT ![p] = <<>>] /\ judged' = [judged EXCEPT ![p] = <<>>]
      /\ UNCHANGED <<daily, clock, shards, rollup>>
    BY DEF Curriculum!Crash, Curriculum!disk
<1>2. /\ stamps' \in [Procs -> Seq(Nat)] /\ judged' \in [Procs -> Seq(Nat)]
      /\ stamps'[p] = <<>> /\ judged'[p] = <<>>
      /\ \A q \in Procs \ {p} : stamps'[q] = stamps[q] /\ judged'[q] = judged[q]
    BY <1>1, Acts
<1>3. Guarded(p)'
    <2>1. Follows(<<>>, <<>>, JudgeWindow, clock')
        BY DEF Follows
    <2>2. Alive(<<>>, JudgeWindow, clock') = {}
        BY DEF Alive
    <2>3. Cardinality({}) = 0 /\ 0 <= Curriculum!EffectiveMax
        BY FS_EmptySet, CurriculumFacts
    <2> QED BY <1>2, <2>1, <2>2, <2>3 DEF Guarded
<1>4. ASSUME NEW q \in Procs PROVE Guarded(q)'
    <2>1. CASE q = p
        BY <1>3, <2>1
    <2>2. CASE q # p
        BY <1>1, <1>2, <2>2, GuardStays DEF CurriculumInv
    <2> QED BY <2>1, <2>2
<1> QED BY <1>1, <1>2, <1>4, Rests

(* A save begins: it empties its shard, and it and those that are under way *)
(* know of each other.                                                     *)
LEMMA CurriculumOpen ==
    ASSUME CurriculumInv, NEW p \in Procs, Curriculum!OpenShard(p)
    PROVE  CurriculumInv'
<1>1. /\ proc[p] = "Judge" /\ UNCHANGED <<daily, clock, stamps, judged, rollup>>
      /\ CurriculumType /\ Overlaps
      /\ \A q \in Procs : Guarded(q) /\ Accounted(q) /\ Copied(q)
    BY DEF Curriculum!OpenShard, CurriculumInv
<1>2. ASSUME NEW b \in BOOLEAN
      PROVE  /\ Curriculum!Saved(cycle[p], b) \in ACycle
             /\ Curriculum!Saved(cycle[p], b).alone = b
             /\ Curriculum!Saved(cycle[p], b).saved = FALSE
    <2>1. Curriculum!NoCycle \in ACycle /\ Curriculum!NoCycle.saved = FALSE
        BY FreshCycle DEF Curriculum!NoCycle
    <2>2. cycle[p].id \in 0 .. MaxSeconds /\ cycle[p].kept \in SUBSET Curriculum!Problem
        BY Acts
    <2> QED BY <2>1, <2>2 DEF Curriculum!Saved, ACycle
<1>3. CASE daily /\ cycle[p].kept = {}
    <2> DEFINE c == Curriculum!Saved(cycle[p], TRUE)
    <2>1. /\ proc' = [proc EXCEPT ![p] = "Emit"] /\ cycle' = [cycle EXCEPT ![p] = c]
          /\ shards' = shards
        BY <1>3, Acts DEF Curriculum!OpenShard
    <2>2. c \in ACycle /\ c.saved = FALSE
        BY <1>2
    <2> HIDE DEF c
    <2>3. "Emit" \in Curriculum!Steps
        BY DEF Curriculum!Steps
    <2>4. /\ CurriculumType' /\ proc'[p] = "Emit" /\ cycle'[p] = c
          /\ \A q \in Procs \ {p} : proc'[q] = proc[q] /\ cycle'[q] = cycle[q]
        BY <1>1, <2>1, <2>2, <2>3, Acts, OneMoves
    <2>5. ~InSave(p)'
        BY <2>2, <2>4 DEF InSave, Curriculum!Saving
    <2>6. Copied(p)'
        BY <2>5, NothingToCopy
    <2> QED BY <1>1, <2>1, <2>4, <2>5, <2>6, OnTime, Moves
<1>4. CASE ~(daily /\ cycle[p].kept = {})
    <2> DEFINE others_ == {q \in Procs \ {p} : Curriculum!Saving(q) \/ proc[q] = "Emit"}
               c == Curriculum!Saved(cycle[p], others_ = {})
               id == cycle[p].id
    <2>1. /\ proc' = [proc EXCEPT ![p] = "ShardRows"]
          /\ cycle' = [q \in Procs |-> IF q = p THEN c
                                       ELSE IF q \in others_ THEN [cycle[q] EXCEPT !.alone = FALSE]
                                       ELSE cycle[q]]
          /\ shards' = [k \in DOMAIN shards \cup {id} |->
                            IF k # id THEN shards[k]
                            ELSE [rows |-> {}, torn |-> FALSE,
                                  manifest |-> k \in DOMAIN shards /\ shards[k].manifest]]
        BY <1>4 DEF Curriculum!OpenShard
    <2>2. c \in ACycle /\ c.alone = (others_ = {})
        BY <1>2
    <2> HIDE DEF c
    <2>3. id \in 0 .. MaxSeconds
        BY Acts
    <2> HIDE DEF id
    <2>4. /\ DOMAIN shards' = DOMAIN shards \cup {id} /\ DOMAIN shards' \subseteq 0 .. MaxSeconds
          /\ \A k \in DOMAIN shards' : shards'[k] \in AShard
        <3>1. \A k \in DOMAIN shards : shards[k] \in AShard
            BY Acts
        <3>2. DOMAIN shards' = DOMAIN shards \cup {id} /\ DOMAIN shards' \subseteq 0 .. MaxSeconds
            BY <2>1, <2>3, Acts
        <3>3. ASSUME NEW k \in DOMAIN shards' PROVE shards'[k] \in AShard
            <4>1. CASE k # id
                BY <2>1, <3>1, <3>2, <4>1
            <4>2. CASE k = id
                <5> DEFINE m == k \in DOMAIN shards /\ shards[k].manifest
                <5>1. shards'[k] = [rows |-> {}, torn |-> FALSE, manifest |-> m]
                    BY <2>1, <3>2, <4>2
                <5>2. m \in BOOLEAN
                    OBVIOUS
                <5> HIDE DEF m
                <5> QED BY <5>1, <5>2 DEF AShard
            <4> QED BY <4>1, <4>2
        <3> QED BY <3>2, <3>3
    <2>5. /\ proc'[p] = "ShardRows" /\ cycle'[p] = c
          /\ \A q \in others_ : proc'[q] = proc[q]
                                /\ cycle'[q] = [cycle[q] EXCEPT !.alone = FALSE]
          /\ \A q \in Procs \ {p} : proc'[q] = proc[q]
          /\ \A q \in Procs \ {p} : q \notin others_ => cycle'[q] = cycle[q]
        BY <1>1, <2>1 DEF CurriculumType
    <2>6. ASSUME NEW q \in Procs
          PROVE  /\ cycle'[q] \in ACycle
                 /\ q \in others_ => /\ cycle'[q].alone = FALSE
                                     /\ cycle'[q].listed = cycle[q].listed
                                     /\ cycle'[q].saved = cycle[q].saved
        <3>1. cycle[q] \in ACycle
            BY Acts
        <3>2. CASE q = p
            BY <2>2, <2>5, <3>2
        <3>3. CASE q \in others_
            <4>1. cycle'[q] = [cycle[q] EXCEPT !.alone = FALSE] /\ q # p
                BY <2>5, <3>3
            <4> QED BY <3>1, <4>1 DEF ACycle
        <3>4. CASE q # p /\ q \notin others_
            BY <2>5, <3>1, <3>4
        <3> QED BY <3>2, <3>3, <3>4
    <2>7. cycle' = [q \in Procs |-> cycle'[q]]
        BY <2>1
    <2>8. cycle' \in [Procs -> ACycle]
        BY <2>6, <2>7
    <2>9. proc' \in [Procs -> Curriculum!Steps]
        BY <2>1, Acts DEF Curriculum!Steps
    <2>10. CurriculumType'
        <3>1. ASSUME NEW q \in Procs, proc'[q] = "Generate"
              PROVE  cycle'[q].attempt < MaxGenerated /\ cycle'[q].next = 1
            <4>1. q # p /\ q \notin others_ /\ proc[q] = "Generate"
                BY <2>5, <3>1 DEF Curriculum!Saving
            <4> QED BY <1>1, <2>5, <4>1 DEF CurriculumType
        <3>2. ASSUME NEW q \in Procs, proc'[q] = "Roll"
              PROVE  cycle'[q].listed \subseteq DOMAIN shards'
                     /\ rollup'.rows \subseteq Curriculum!Problem
            <4>1. q # p /\ proc[q] = "Roll"
                BY <2>5, <3>2
            <4>2. q \in others_
                BY <4>1 DEF Curriculum!Saving
            <4>3. cycle[q].listed \subseteq DOMAIN shards /\ rollup.rows \subseteq Curriculum!Problem
                BY <1>1, <4>1 DEF CurriculumType
            <4> QED BY <1>1, <2>4, <2>6, <4>2, <4>3
        <3> QED BY <1>1, <2>4, <2>8, <2>9, <3>1, <3>2 DEF CurriculumType
    <2>11. InSave(p)'
        BY <2>5 DEF InSave, Curriculum!Saving
    <2>12. ASSUME NEW q \in Procs, q # p, InSave(q)' PROVE q \in others_
        <3>1. proc'[q] = proc[q]
            BY <2>5, <2>12
        <3> QED BY <2>12, <3>1 DEF InSave, Curriculum!Saving
    <2>13. Overlaps'
        <3> SUFFICES ASSUME NEW q \in Procs, NEW r \in Procs, q # r, InSave(q)', InSave(r)'
                     PROVE  ~cycle'[q].alone
            BY DEF Overlaps
        <3>1. CASE q = p
            <4>1. others_ # {}
                BY <2>12, <3>1
            <4> QED BY <2>2, <2>5, <3>1, <4>1
        <3>2. CASE q # p
            BY <2>6, <2>12, <3>2
        <3> QED BY <3>1, <3>2
    <2>14. ASSUME NEW q \in Procs PROVE Accounted(q)' /\ Copied(q)'
        <3>1. CASE q = p
            BY <2>5, <3>1 DEF Accounted, Copied
        <3>2. CASE q # p
            <4>1. Copied(q)'
                BY <2>11, <2>13, <3>2, OthersCopied
            <4>2. proc'[q] = "Judge" => proc[q] = "Judge" /\ cycle'[q] = cycle[q]
                BY <2>5, <3>2 DEF Curriculum!Saving
            <4>3. Accounted(q)'
                BY <1>1, <4>2, RowsStay
            <4> QED BY <4>1, <4>3
        <3> QED BY <3>1, <3>2
    <2> QED BY <1>1, <2>10, <2>13, <2>14, OnTime DEF CurriculumInv
<1> QED BY <1>3, <1>4

LEMMA CurriculumInit == ASSUME Curriculum!Init PROVE CurriculumInv
<1> USE DEF Curriculum!Init
<1>1. CurriculumType
    <2>1. 0 \in 0 .. MaxSeconds /\ <<>> \in Seq(Nat)
        BY CurriculumFacts
    <2>2. DOMAIN shards = {}
        OBVIOUS
    <2>3. proc \in [Procs -> Curriculum!Steps] /\ \A p \in Procs : proc[p] = "Idle"
        BY DEF Curriculum!Steps
    <2>4. cycle \in [Procs -> ACycle]
        BY FreshCycle
    <2> QED BY <2>1, <2>2, <2>3, <2>4 DEF CurriculumType
<1>2. \A p \in Procs : ~InSave(p) /\ proc[p] = "Idle"
    BY DEF InSave, Curriculum!Saving
<1>3. \A p \in Procs : Guarded(p)
    BY FreshGuard
<1> QED BY <1>1, <1>2, <1>3 DEF CurriculumInv, Overlaps, Accounted, Copied

LEMMA CurriculumStep == ASSUME CurriculumInv, Curriculum!Next PROVE CurriculumInv'
<1>1. CASE Curriculum!Tick
    BY <1>1, CurriculumTick
<1>2. ASSUME NEW p \in Procs, Curriculum!RunOnce(p) PROVE CurriculumInv'
    BY <1>2, CurriculumBegin DEF Curriculum!RunOnce
<1>3. ASSUME NEW p \in Procs, Curriculum!DailySynthesis(p) PROVE CurriculumInv'
    <2>1. CASE Curriculum!Begin(p)
        BY <1>3, <2>1, CurriculumBegin DEF Curriculum!DailySynthesis
    <2>2. CASE ~Curriculum!Begin(p)
        <3>1. UNCHANGED <<daily, clock, proc, cycle, stamps, judged, shards, rollup>>
            BY <1>3, <2>2 DEF Curriculum!DailySynthesis, Curriculum!procVars, Curriculum!disk
        <3> QED BY ZenonT(30), <3>1 DEF CurriculumInv, CurriculumType, Overlaps, InSave, Guarded, Accounted,
               Copied, Curriculum!Saving
    <2> QED BY <2>1, <2>2
<1>4. ASSUME NEW p \in Procs, Curriculum!Work(p) PROVE CurriculumInv'
    BY <1>4, CurriculumGenerate, CurriculumJudge, CurriculumOpen, CurriculumClose,
       CurriculumManifest, CurriculumList, CurriculumCopy, CurriculumRolled, CurriculumEmit
    DEF Curriculum!Work
<1> QED BY <1>1, <1>2, <1>3, <1>4, CurriculumFlush, CurriculumFails, CurriculumCrash,
       CurriculumRestart DEF Curriculum!Next

(* The judge is asked at most as often in a window as the guard allows; of  *)
(* the answer that a cycle used every problem that is not blank is kept for *)
(* the save or its rejection was published, when the judging ends; and a    *)
(* save that no other one overlapped leaves every row of every shard in the *)
(* file of the day, however many processes share the directory,             *)
(* whatever the model and the judge answer, and wherever writes fail and    *)
(* processes die (evaluation/curriculum.py).                               *)
THEOREM CurriculumKeepsItsRows == Spec => []CurriculumSound
<1> DEFINE I == machine = "curriculum" => CurriculumInv
<1>1. Init => I
    BY CurriculumInit DEF Init
<1>2. I /\ [Next]_vars => I'
    <2> SUFFICES ASSUME I, [Next]_vars, machine' = "curriculum" PROVE CurriculumInv'
        OBVIOUS
    <2>1. CASE CurriculumNext
        BY <2>1, CurriculumStep DEF CurriculumNext
    <2>2. CASE UNCHANGED vars
        <3>1. UNCHANGED <<machine, clock, stamps, daily, proc, cycle, judged, shards, rollup>>
            BY <2>2 DEF vars, curriculumOnly
        <3> QED BY <3>1 DEF CurriculumInv, CurriculumType, Overlaps, InSave, Guarded, Accounted,
               Copied, Curriculum!Saving
    <2>3. CASE Next /\ ~CurriculumNext
        <3>1. machine = "curriculum"
            BY <2>3, OneMachine
        <3> QED BY <2>3, <3>1 DEF Next, WorkerNext, ImproverNext, EvaluatorNext,
               BudgetNext, GpuNext, RenameNext, ShaderNext, PublishNext, ModelsNext
    <2> QED BY <2>1, <2>2, <2>3
<1>3. I => CurriculumSound
    <2> SUFFICES ASSUME CurriculumInv
                 PROVE  /\ Curriculum!TypeOK /\ Curriculum!JudgeBounded
                        /\ Curriculum!RowsAccounted /\ Curriculum!SoleSaveRepairs
        BY DEF CurriculumSound
    <2>1. /\ CurriculumType /\ Overlaps
          /\ \A p \in Procs : Guarded(p) /\ Accounted(p) /\ Copied(p)
        BY DEF CurriculumInv
    <2>2. Curriculum!TypeOK
        <3>1. ASSUME NEW p \in Procs
              PROVE  /\ cycle[p].attempt \in 0 .. MaxGenerated
                     /\ cycle[p].kept \subseteq Curriculum!Problem
            BY <2>1 DEF CurriculumType, ACycle
        <3>2. \A c \in DOMAIN shards : shards[c].rows \subseteq Curriculum!Problem
            BY <2>1 DEF CurriculumType, AShard
        <3> QED BY <2>1, <3>1, <3>2 DEF CurriculumType, Curriculum!TypeOK
    <2>3. Curriculum!JudgeBounded
        <3> SUFFICES ASSUME NEW p \in Procs
                     PROVE  Cardinality(Curriculum!InWindow(p)) <= Curriculum!EffectiveMax
            BY CurriculumFacts DEF Curriculum!JudgeBounded
        <3>1. DOMAIN judged[p] = 1 .. Len(judged[p])
            <4>1. judged[p] \in Seq(Nat)
                BY <2>1 DEF CurriculumType
            <4> QED BY <4>1, LenProperties
        <3>2. Curriculum!InWindow(p) = Alive(judged[p], JudgeWindow, clock)
            BY <3>1 DEF Curriculum!InWindow, Alive
        <3> QED BY <2>1, <3>2 DEF Guarded
    <2>4. Curriculum!RowsAccounted
        <3> SUFFICES ASSUME NEW p \in Procs, proc[p] = "Judge", Curriculum!Unjudged(p) = {},
                            NEW i \in DOMAIN cycle[p].answer, cycle[p].answer[i] # "blank"
                     PROVE  \/ \E r \in cycle[p].kept : r.row = i
                            \/ \E e \in cycle[p].told : e.row = i
            BY DEF Curriculum!RowsAccounted
        <3>1. CASE cycle[p].answer[i] # "good"
            BY <2>1, <3>1 DEF Accounted
        <3>2. CASE cycle[p].answer[i] = "good"
            <4>1. ~(i >= cycle[p].next)
                BY <3>2 DEF Curriculum!Unjudged, Curriculum!ToJudge
            <4>2. i \in Nat /\ cycle[p].next \in Nat
                <5>1. cycle[p].answer \in Seq(Curriculum!RowKinds) /\ cycle[p].next \in Nat
                    BY <2>1 DEF CurriculumType, ACycle
                <5>2. DOMAIN cycle[p].answer = 1 .. Len(cycle[p].answer)
                    BY <5>1, LenProperties
                <5> QED BY <5>1, <5>2
            <4>3. i < cycle[p].next
                BY <4>1, <4>2
            <4> QED BY <2>1, <3>2, <4>3 DEF Accounted
        <3> QED BY <3>1, <3>2
    <2>5. Curriculum!SoleSaveRepairs
        BY <2>1 DEF Copied, Curriculum!SoleSaveRepairs
    <2> QED BY <2>2, <2>3, <2>4, <2>5
<1> QED BY <1>1, <1>2, <1>3, PTL DEF Spec
-----------------------------------------------------------------------------
(* The publishers of programs.                                             *)
LEMMA PublishFacts ==
    /\ IsFiniteSet(Publish!Names) /\ TopN \in Nat
    /\ \A p \in Publish!Names : Programs[p].valid => Publish!Compatible(p)
    /\ Evolved \subseteq Publish!Lists
    /\ None \notin {"done", "raised", "swallowed", "exit 0", "exit 1"}
    /\ \A l \in Publish!Lists :
          /\ l \in Seq(Publish!Names)
          /\ \A i, j \in 1 .. Len(l) : l[i] = l[j] => i = j
<1>1. /\ Publish!IsFiniteSet(Publish!Names) /\ TopN \in Nat /\ Evolved \subseteq Publish!Lists
      /\ \A p \in Publish!Names : Programs[p].valid => Publish!Compatible(p)
      /\ None \notin {"done", "raised", "swallowed", "exit 0", "exit 1"}
    BY CallsAssumption DEF Publish!ValidPublish
<1>2. IsFiniteSet(Publish!Names) /\ Publish!Cardinality(Publish!Names) = Cardinality(Publish!Names)
    BY <1>1 DEF Publish!IsFiniteSet, IsFiniteSet, Publish!Cardinality, Cardinality
<1>3. Cardinality(Publish!Names) \in Nat
    BY <1>2, FS_CardinalityType
<1>4. ASSUME NEW l \in Publish!Lists
      PROVE  /\ l \in Seq(Publish!Names)
             /\ \A i, j \in 1 .. Len(l) : l[i] = l[j] => i = j
    <2>1. PICK n \in 0 .. Publish!Cardinality(Publish!Names) : l \in [1 .. n -> Publish!Names]
        BY DEF Publish!Lists
    <2>2. n \in Nat
        BY <1>2, <1>3, <2>1
    <2>3. l \in Seq(Publish!Names) /\ Len(l) = n
        BY <2>1, <2>2, SeqDef, LenProperties
    <2>4. Publish!IsInjective(l) /\ DOMAIN l = 1 .. n
        BY <2>1 DEF Publish!Lists
    <2> QED BY <2>3, <2>4 DEF Publish!IsInjective
<1> QED BY <1>1, <1>2, <1>4

Post == [program : Publish!Names, task : Nat]

Fates == Publish!Outcomes \cup {"invalid"}

PublishType ==
    /\ list \in Seq(Publish!Names) /\ tasks \in Nat /\ vault \in Seq(Post)
    /\ \A i, j \in 1 .. Len(list) : list[i] = list[j] => i = j
    /\ \A k \in 1 .. Len(vault) : vault[k].task <= tasks
    /\ answers \in Seq(Fates) /\ pushed \in Seq(Publish!Names)
    /\ Len(answers) <= Len(list)
    /\ todo = SubSeq(list, Len(answers) + 1, Len(list))

(* The index grows first: an entry that is told of is in it.               *)
Entry == [program : Publish!Names, shader : {"none", "translated", "sidecar"}]

Origin(x) ==
    /\ x.shader = "translated" => Publish!Compatible(x.program)
    /\ x.shader = "sidecar" => Programs[x.program].kernel = "oasis"

Indexed ==
    /\ index \in Seq(Entry) /\ \A k \in 1 .. Len(index) : Origin(index[k])
    /\ logged \cup sent \subseteq 1 .. Len(index)
    /\ task = "artifact" =>
        /\ Len(list) = 1 /\ answers = <<>> /\ pushed = <<>>
        /\ next \in {"log", "send", "push"} => entry \in 1 .. Len(index)

(* The programs that went to the vault are those whose post was stored.     *)
Stored == {list[k] : k \in {n \in 1 .. Len(answers) : answers[n] \in {"answered", "lost"}}}

PushesTold ==
    /\ answers # <<>> \/ task \in {"results", "evolved"} => Publish!InVault = Stored
    /\ Publish!ToSet(pushed) = {list[k] : k \in Publish!Answered("answered")}
    /\ Publish!InOrder(pushed)

Ending ==
    /\ task # "none" => status = None
    /\ status = "exit 0" => Publish!InVault = Publish!ToSet(list)
    /\ task = "results" => pushed = <<>> \/ Len(pushed) < TopN
    /\ status = "done" => Len(pushed) <= (IF TopN = 0 THEN 1 ELSE TopN)

(* What a task of the one kind and of the other has put into the vault.     *)
Posts ==
    /\ task \in {"artifact", "results"} \/ status \in {"done", "swallowed"} =>
        \A p \in Publish!InVault : Publish!Valid(p)
    /\ task = "evolved" \/ status \in {"exit 0", "exit 1", "raised"} =>
        \A p \in Publish!InVault : Publish!Clean(p)

PublishInv == PublishType /\ Indexed /\ PushesTold /\ Ending /\ Posts

(* A post that is stored adds its program to those of the task.             *)
LEMMA Posting ==
    ASSUME PublishType, NEW p \in Publish!Names, tasks' = tasks,
           vault' = Append(vault, [program |-> p, task |-> tasks])
    PROVE  /\ vault' \in Seq(Post) /\ \A k \in 1 .. Len(vault') : vault'[k].task <= tasks'
           /\ Publish!InVault' = Publish!InVault \cup {p}
<1> DEFINE x == [program |-> p, task |-> tasks]
<1>1. x \in Post /\ x.task = tasks /\ x.program = p /\ tasks \in Nat /\ vault \in Seq(Post)
      /\ \A k \in 1 .. Len(vault) : vault[k].task <= tasks
    BY DEF PublishType, Post
<1>2. /\ vault' \in Seq(Post) /\ Len(vault) \in Nat /\ Len(vault') = Len(vault) + 1
      /\ DOMAIN vault = 1 .. Len(vault) /\ DOMAIN vault' = 1 .. Len(vault) + 1
      /\ \A k \in 1 .. Len(vault) : vault'[k] = vault[k]
      /\ vault'[Len(vault) + 1] = x
    <2> HIDE DEF x
    <2>1. vault' = Append(vault, x)
        BY DEF x
    <2> QED BY <1>1, <2>1, Appended
<1> HIDE DEF x
<1>3. ASSUME NEW k \in 1 .. Len(vault') PROVE vault'[k].task <= tasks'
    <2>1. CASE k \in 1 .. Len(vault)
        BY <1>1, <1>2, <2>1
    <2>2. CASE k = Len(vault) + 1
        BY <1>1, <1>2, <2>2
    <2> QED BY <1>2, <2>1, <2>2
<1>4. ASSUME NEW q PROVE q \in Publish!InVault' <=> q \in Publish!InVault \/ q = p
    <2>1. q \in Publish!InVault' <=>
            \E k \in 1 .. Len(vault) + 1 : vault'[k].task = tasks /\ vault'[k].program = q
        BY <1>2 DEF Publish!InVault
    <2>2. q \in Publish!InVault <=>
            \E k \in 1 .. Len(vault) : vault[k].task = tasks /\ vault[k].program = q
        BY <1>2 DEF Publish!InVault
    <2>3. \A k \in 1 .. Len(vault) + 1 : k \in 1 .. Len(vault) \/ k = Len(vault) + 1
        BY <1>2
    <2>4. Len(vault) + 1 \in 1 .. Len(vault) + 1 /\ 1 .. Len(vault) \subseteq 1 .. Len(vault) + 1
        BY <1>2
    <2> QED BY <1>1, <1>2, <2>1, <2>2, <2>3, <2>4
<1> QED BY <1>2, <1>3, <1>4

(* A task posts what it looked for, and it ends with a word of its kind.    *)
LEMMA PostsKept ==
    ASSUME PublishInv, tasks' = tasks,
           \/ vault' = vault
           \/ \E p \in Publish!Names :
                /\ vault' = Append(vault, [program |-> p, task |-> tasks])
                /\ task \in {"artifact", "results"} => Publish!Valid(p)
                /\ task = "evolved" => Publish!Clean(p),
           \/ /\ task \in {"artifact", "results"}
              /\ \/ task' = task /\ status' = status
                 \/ task' = "none" /\ status' \in {"done", "swallowed"}
           \/ /\ task = "evolved"
              /\ \/ task' = task /\ status' = status
                 \/ task' = "none" /\ status' \in {"exit 0", "exit 1", "raised"}
    PROVE  Posts'
<1>1. PublishType /\ Ending /\ Posts
    BY DEF PublishInv
<1>2. \A p : Publish!Valid(p)' = Publish!Valid(p) /\ Publish!Clean(p)' = Publish!Clean(p)
    BY DEF Publish!Valid, Publish!Compatible, Publish!Clean
<1>3. /\ status \notin {"done", "raised", "swallowed", "exit 0", "exit 1"}
      /\ task \in {"artifact", "results"} => \A p \in Publish!InVault : Publish!Valid(p)
      /\ task = "evolved" => \A p \in Publish!InVault : Publish!Clean(p)
    BY <1>1, PublishFacts DEF Ending, Posts
<1>4. /\ task \in {"artifact", "results"} => \A p \in Publish!InVault' : Publish!Valid(p)
      /\ task = "evolved" => \A p \in Publish!InVault' : Publish!Clean(p)
    <2>1. CASE vault' = vault
        <3>1. Publish!InVault' = Publish!InVault
            BY <2>1 DEF Publish!InVault
        <3> QED BY <1>3, <3>1
    <2>2. ASSUME NEW p \in Publish!Names,
                 vault' = Append(vault, [program |-> p, task |-> tasks]),
                 task \in {"artifact", "results"} => Publish!Valid(p),
                 task = "evolved" => Publish!Clean(p)
          PROVE  /\ task \in {"artifact", "results"} =>
                        \A q \in Publish!InVault' : Publish!Valid(q)
                 /\ task = "evolved" => \A q \in Publish!InVault' : Publish!Clean(q)
        <3>1. Publish!InVault' = Publish!InVault \cup {p}
            BY <1>1, <2>2, Posting
        <3> QED BY <1>3, <2>2, <3>1
    <2> QED BY <2>1, <2>2
<1> QED BY <1>2, <1>3, <1>4 DEF Posts

(* What is left of a list after its first n.                               *)
LEMMA Rest ==
    ASSUME NEW S, NEW s \in Seq(S), NEW n \in Nat, n + 1 <= Len(s)
    PROVE  LET t == SubSeq(s, n + 1, Len(s))
           IN Head(t) = s[n + 1] /\ Tail(t) = SubSeq(s, n + 2, Len(s))
<1> DEFINE t == SubSeq(s, n + 1, Len(s))
           u == SubSeq(s, n + 2, Len(s))
<1>1. Len(s) \in Nat /\ DOMAIN s = 1 .. Len(s) /\ \A i \in 1 .. Len(s) : s[i] \in S
    BY LenProperties, ElementOfSeq
<1>2. /\ t \in Seq(S) /\ Len(t) = Len(s) - n
      /\ \A i \in 1 .. Len(s) - n : t[i] = s[n + i]
    <2>1. \A i \in n + 1 .. Len(s) : s[i] \in S
        BY <1>1
    <2>2. /\ t \in Seq(S)
          /\ Len(t) = IF n + 1 <= Len(s) THEN Len(s) - (n + 1) + 1 ELSE 0
          /\ \A i \in 1 .. Len(s) - (n + 1) + 1 : t[i] = s[n + 1 + i - 1]
        BY <1>1, <2>1, SubSeqProperties
    <2> HIDE DEF t
    <2> QED BY <1>1, <2>2
<1>3. /\ u \in Seq(S) /\ Len(u) = Len(s) - n - 1
      /\ \A i \in 1 .. Len(s) - n - 1 : u[i] = s[n + 1 + i]
    <2>1. \A i \in n + 2 .. Len(s) : s[i] \in S
        BY <1>1
    <2>2. /\ u \in Seq(S)
          /\ Len(u) = IF n + 2 <= Len(s) THEN Len(s) - (n + 2) + 1 ELSE 0
          /\ \A i \in 1 .. Len(s) - (n + 2) + 1 : u[i] = s[n + 2 + i - 1]
        BY <1>1, <2>1, SubSeqProperties
    <2> HIDE DEF u
    <2>3. Len(u) = Len(s) - n - 1
        <3> DEFINE l == Len(s)
        <3>1. /\ l \in Nat /\ n \in Nat /\ n + 1 <= l
              /\ Len(u) = IF n + 2 <= l THEN l - (n + 2) + 1 ELSE 0
            BY <1>1, <2>2
        <3> HIDE DEF l
        <3>2. Len(u) = l - n - 1
            BY <3>1
        <3> QED BY SMTT(30), <3>2 DEF l
    <2>4. ASSUME NEW i \in 1 .. Len(s) - n - 1 PROVE u[i] = s[n + 1 + i]
        <3>1. i \in 1 .. Len(s) - (n + 2) + 1 /\ n + 2 + i - 1 = n + 1 + i
            BY <1>1
        <3> QED BY <2>2, <3>1
    <2> QED BY <2>2, <2>3, <2>4
<1> HIDE DEF t, u
<1>4. t # <<>>
    BY <1>1, <1>2
<1>5. Tail(t) \in Seq(S) /\ Len(Tail(t)) = Len(t) - 1
      /\ \A i \in 1 .. Len(Tail(t)) : Tail(t)[i] = t[i + 1]
    BY <1>2, <1>4, HeadTailProperties
<1>6. Tail(t) = u
    <2>1. ASSUME NEW i \in 1 .. Len(Tail(t)) PROVE Tail(t)[i] = u[i]
        <3>1. i \in 1 .. Len(s) - n - 1 /\ i + 1 \in 1 .. Len(s) - n
            BY <1>1, <1>2, <1>5
        <3>2. n + (i + 1) = n + 1 + i
            BY SMTT(30), <3>1
        <3> QED BY <1>2, <1>3, <1>5, <3>1, <3>2
    <2>2. Len(Tail(t)) = Len(u)
        BY <1>1, <1>2, <1>3, <1>5
    <2> QED BY <1>3, <1>5, <2>1, <2>2, SeqEqual
<1>7. Head(t) = s[n + 1]
    <2>1. Head(t) = t[1]
        BY <1>2, <1>4
    <2> QED BY <1>1, <1>2, <2>1
<1> QED BY <1>6, <1>7 DEF t, u

LEMMA HeadOfRest == ASSUME PublishType, todo # <<>> PROVE Head(todo) \in Publish!Names
<1> DEFINE n == Len(answers)
<1>1. /\ list \in Seq(Publish!Names) /\ answers \in Seq(Fates) /\ Len(answers) <= Len(list)
      /\ todo = SubSeq(list, Len(answers) + 1, Len(list))
    BY DEF PublishType
<1>2. n \in Nat /\ Len(list) \in Nat /\ \A i \in 1 .. Len(list) : list[i] \in Publish!Names
    BY <1>1, LenProperties, ElementOfSeq
<1>3. todo = SubSeq(list, n + 1, Len(list))
    BY <1>1
<1> HIDE DEF n
<1>4. n + 1 <= Len(list)
    BY <1>2, <1>3
<1>5. Head(todo) = list[n + 1]
    BY <1>1, <1>2, <1>3, <1>4, Rest
<1> QED BY <1>2, <1>4, <1>5

(* The next program of a task and what became of it.                       *)
LEMMA OneMore ==
    ASSUME PublishInv, task \in {"results", "evolved"}, todo # <<>>, todo' = Tail(todo),
           UNCHANGED <<list, tasks>>, NEW o \in Fates, answers' = Append(answers, o),
           o \in {"answered", "lost"} =>
                vault' = Append(vault, [program |-> Head(todo), task |-> tasks]),
           o \notin {"answered", "lost"} => vault' = vault,
           pushed' = IF o = "answered" THEN Append(pushed, Head(todo)) ELSE pushed
    PROVE  /\ PublishType' /\ PushesTold'
           /\ Len(answers) \in Nat /\ Len(answers') = Len(answers) + 1
           /\ \A k \in 1 .. Len(answers) : answers'[k] = answers[k]
           /\ answers'[Len(answers) + 1] = o /\ Head(todo) = list[Len(answers) + 1]
           /\ Len(pushed) \in Nat
           /\ o = "answered" => Len(pushed') = Len(pushed) + 1
<1> DEFINE n == Len(answers)
           p == Head(todo)
<1>1. /\ PublishType /\ Publish!InVault = Stored
      /\ Publish!ToSet(pushed) = {list[k] : k \in Publish!Answered("answered")}
      /\ Publish!InOrder(pushed)
    BY DEF PublishInv, PushesTold
<1>2. /\ list \in Seq(Publish!Names) /\ tasks \in Nat /\ vault \in Seq(Post)
      /\ \A i, j \in 1 .. Len(list) : list[i] = list[j] => i = j
      /\ \A k \in 1 .. Len(vault) : vault[k].task <= tasks
      /\ answers \in Seq(Fates) /\ pushed \in Seq(Publish!Names)
      /\ Len(answers) <= Len(list)
      /\ todo = SubSeq(list, Len(answers) + 1, Len(list))
    BY <1>1 DEF PublishType
<1>3. /\ answers' \in Seq(Fates) /\ n \in Nat /\ Len(answers') = n + 1
      /\ DOMAIN answers = 1 .. n /\ DOMAIN answers' = 1 .. n + 1
      /\ \A k \in 1 .. n : answers'[k] = answers[k]
      /\ answers'[n + 1] = o
    <2> HIDE DEF n
    <2> QED BY <1>2, Appended DEF n
<1>4. Len(list) \in Nat /\ DOMAIN list = 1 .. Len(list)
    BY <1>2, LenProperties
<1> HIDE DEF n
<1>5. n + 1 <= Len(list) /\ p = list[n + 1] /\ p \in Publish!Names
      /\ todo' = SubSeq(list, n + 2, Len(list))
    <2>1. todo = SubSeq(list, n + 1, Len(list))
        BY <1>2 DEF n
    <2>2. n + 1 <= Len(list)
        <3> SUFFICES ASSUME n + 1 > Len(list) PROVE FALSE
            BY <1>3, <1>4
        <3> QED BY <1>2, <1>3, <1>4, <2>1
    <2>3. list[n + 1] \in Publish!Names
        BY <1>2, <1>3, <1>4, <2>2
    <2> QED BY <1>2, <1>3, <1>4, <2>1, <2>2, <2>3, Rest
<1>6.. PublishType'
    <2>1. pushed' \in Seq(Publish!Names)
        BY <1>2, <1>5
    <2>2. vault' \in Seq(Post) /\ \A k \in 1 .. Len(vault') : vault'[k].task <= tasks'
        <3>1. CASE o \in {"answered", "lost"}
            BY <1>1, <1>5, <3>1, Posting
        <3>2. CASE o \notin {"answered", "lost"}
            BY <1>2, <3>2
        <3> QED BY <3>1, <3>2
    <2>3. Len(answers') <= Len(list') /\ todo' = SubSeq(list', Len(answers') + 1, Len(list'))
        <3>1. Len(answers') + 1 = n + 2
            BY <1>3
        <3> QED BY <1>3, <1>5, <3>1
    <2> QED BY <1>2, <1>3, <2>1, <2>2, <2>3 DEF PublishType
<1>7. \A k \in 1 .. n + 1 : k \in 1 .. n \/ k = n + 1
    BY <1>3
<1>8. 1 .. n \subseteq 1 .. n + 1 /\ n + 1 \in 1 .. n + 1
    BY <1>3
<1>9. Publish!InVault' = Stored'
    <2>1. Stored' = IF o \in {"answered", "lost"} THEN Stored \cup {p} ELSE Stored
        <3>1. ASSUME NEW q
              PROVE  q \in Stored' <=> q \in Stored \/ (o \in {"answered", "lost"} /\ q = p)
            <4>1. q \in Stored' <=>
                    \E k \in 1 .. n + 1 : answers'[k] \in {"answered", "lost"} /\ list[k] = q
                BY <1>3 DEF Stored
            <4>2. q \in Stored <=>
                    \E k \in 1 .. n : answers[k] \in {"answered", "lost"} /\ list[k] = q
                BY DEF Stored, n
            <4> QED BY <1>3, <1>5, <1>7, <1>8, <4>1, <4>2
        <3> QED BY <3>1
    <2>2. CASE o \in {"answered", "lost"}
        BY <1>1, <1>5, <2>1, <2>2, Posting
    <2>3. CASE o \notin {"answered", "lost"}
        <3>1. Publish!InVault' = Publish!InVault
            BY <2>3 DEF Publish!InVault
        <3> QED BY <1>1, <2>1, <2>3, <3>1
    <2> QED BY <2>2, <2>3
<1>10. ASSUME NEW q
       PROVE  /\ q \in {list[k] : k \in Publish!Answered("answered")} =>
                    \E k \in 1 .. n : answers[k] = "answered" /\ list[k] = q
              /\ q \in {list'[k] : k \in Publish!Answered("answered")'} <=>
                    \/ q \in {list[k] : k \in Publish!Answered("answered")}
                    \/ o = "answered" /\ q = p
    <2>1. q \in {list'[k] : k \in Publish!Answered("answered")'} <=>
            \E k \in 1 .. n + 1 : answers'[k] = "answered" /\ list[k] = q
        BY <1>3 DEF Publish!Answered
    <2>2. q \in {list[k] : k \in Publish!Answered("answered")} <=>
            \E k \in 1 .. n : answers[k] = "answered" /\ list[k] = q
        BY DEF Publish!Answered, n
    <2> QED BY <1>3, <1>5, <1>7, <1>8, <2>1, <2>2
<1>11. CASE o # "answered"
    <2>1. Publish!ToSet(pushed') = {list'[k] : k \in Publish!Answered("answered")'}
        BY <1>1, <1>10, <1>11
    <2>2. Publish!InOrder(pushed)'
        <3>1. UNCHANGED <<pushed, list>>
            BY <1>11
        <3> QED BY <1>1, <3>1 DEF Publish!InOrder
    <2>3. PushesTold'
        BY <1>9, <2>1, <2>2 DEF PushesTold
    <2>4. Len(pushed) \in Nat
        BY <1>2, LenProperties
    <2> QED BY <1>3, <1>5, <1>6, <1>11, <2>3, <2>4 DEF n
<1>12. CASE o = "answered"
    <2> DEFINE m == Len(pushed)
    <2>1. pushed' = Append(pushed, p)
        BY <1>12
    <2> HIDE DEF p
    <2>2. /\ m \in Nat /\ Len(pushed') = m + 1 /\ DOMAIN pushed = 1 .. m
          /\ DOMAIN pushed' = 1 .. m + 1 /\ \A k \in 1 .. m : pushed'[k] = pushed[k]
          /\ pushed'[m + 1] = p
        <3>1. pushed \in Seq(Publish!Names) /\ p \in Publish!Names
            BY <1>2, <1>5 DEF p
        <3>2. /\ Len(pushed) \in Nat /\ Len(pushed') = Len(pushed) + 1
              /\ DOMAIN pushed = 1 .. Len(pushed) /\ DOMAIN pushed' = 1 .. Len(pushed) + 1
              /\ \A k \in 1 .. Len(pushed) : pushed'[k] = pushed[k]
              /\ pushed'[Len(pushed) + 1] = p
            BY <2>1, <3>1, Appended
        <3> QED BY <3>2
    <2> HIDE DEF m
    <2>3. \A k \in 1 .. m + 1 : k \in 1 .. m \/ k = m + 1
        BY <2>2
    <2>4. m + 1 \in 1 .. m + 1 /\ 1 .. m \subseteq 1 .. m + 1
        BY <2>2
    <2>5. ASSUME NEW q PROVE q \in Publish!ToSet(pushed') <=> q \in Publish!ToSet(pushed) \/ q = p
        BY <2>2, <2>3, <2>4 DEF Publish!ToSet
    <2>6. Publish!ToSet(pushed') = {list'[k] : k \in Publish!Answered("answered")'}
        <3>1. \A q : q \in {list'[k] : k \in Publish!Answered("answered")'} <=>
                \/ q \in {list[k] : k \in Publish!Answered("answered")}
                \/ o = "answered" /\ q = p
            BY <1>10
        <3> QED BY <1>1, <1>12, <2>5, <3>1
    <2>7. Publish!InOrder(pushed)'
        <3> SUFFICES ASSUME NEW i \in 1 .. m + 1, NEW j \in 1 .. m + 1, i < j
                     PROVE  \E a, b \in DOMAIN list :
                                a < b /\ list[a] = pushed'[i] /\ list[b] = pushed'[j]
            BY <2>2 DEF Publish!InOrder
        <3>1. i \in 1 .. m
            BY <2>2
        <3>2. CASE j \in 1 .. m
            <4>1. \E a, b \in DOMAIN list : a < b /\ list[a] = pushed[i] /\ list[b] = pushed[j]
                <5>1. i \in DOMAIN pushed /\ j \in DOMAIN pushed
                    BY <2>2, <3>1, <3>2
                <5> QED BY <1>1, <5>1 DEF Publish!InOrder
            <4>2. pushed'[i] = pushed[i] /\ pushed'[j] = pushed[j]
                BY <2>2, <3>1, <3>2
            <4> QED BY <4>1, <4>2
        <3>3. CASE j = m + 1
            <4>1. pushed[i] \in Publish!ToSet(pushed)
                BY <2>2, <3>1 DEF Publish!ToSet
            <4>2. PICK a \in 1 .. n : list[a] = pushed[i]
                BY <1>1, <1>10, <4>1
            <4>3. a \in DOMAIN list /\ n + 1 \in DOMAIN list /\ a < n + 1
                BY <1>3, <1>4, <1>5
            <4>4. pushed'[i] = pushed[i] /\ pushed'[j] = p
                BY <2>2, <3>1, <3>3
            <4> QED BY <1>5, <4>2, <4>3, <4>4
        <3> QED BY <2>3, <3>2, <3>3
    <2>8. PushesTold'
        BY <1>9, <2>6, <2>7 DEF PushesTold
    <2> QED BY <1>3, <1>5, <1>6, <2>2, <2>8 DEF n, m, p
<1> QED BY <1>11, <1>12

LEMMA PublishInit == ASSUME Publish!Init PROVE PublishInv
<1> USE DEF Publish!Init
<1>1. Len(list) = 0 /\ Len(answers) = 0 /\ Len(vault) = 0 /\ Len(index) = 0
    OBVIOUS
<1>2. PublishType
    <2>1. todo = SubSeq(list, 1, 0)
        BY SubSeqEmpty
    <2> QED BY <1>1, <2>1 DEF PublishType
<1>3. Indexed
    BY <1>1 DEF Indexed
<1>4. PushesTold
    BY <1>1 DEF PushesTold, Publish!ToSet, Publish!Answered, Publish!InOrder
<1>5. Ending
    BY <1>1, PublishFacts DEF Ending
<1>6. Posts
    BY PublishFacts DEF Posts
<1> QED BY <1>2, <1>3, <1>4, <1>5, <1>6 DEF PublishInv

LEMMA Beginning ==
    ASSUME PublishInv, NEW what \in {"artifact", "results", "evolved"}, NEW programs, NEW start,
           programs \in Seq(Publish!Names), start \notin {"log", "send", "push"},
           \A i, j \in 1 .. Len(programs) : programs[i] = programs[j] => i = j,
           what = "artifact" => Len(programs) = 1,
           Publish!Begins(what, programs, start)
    PROVE  PublishInv'
<1> USE DEF Publish!Begins
<1>1. PublishType /\ Indexed
    BY DEF PublishInv
<1>2. Len(answers') = 0 /\ answers' = <<>> /\ pushed' = <<>> /\ DOMAIN pushed' = {}
    OBVIOUS
<1>3. /\ vault \in Seq(Post) /\ tasks \in Nat /\ DOMAIN vault = 1 .. Len(vault)
      /\ Len(programs) \in Nat /\ \A k \in 1 .. Len(vault) : vault[k] \in Post /\ vault[k].task <= tasks
    BY <1>1, LenProperties, ElementOfSeq DEF PublishType
<1>4. \A k \in 1 .. Len(vault) : vault[k].task \in Nat /\ vault[k].task < tasks + 1
    BY <1>3 DEF Post
<1>5. PublishType'
    <2>1. \A k \in 1 .. Len(vault') : vault'[k].task <= tasks'
        BY <1>3, <1>4
    <2>2. programs = SubSeq(programs, 1, Len(programs))
        <3>1. \A i \in 1 .. Len(programs) : programs[i] \in Publish!Names
            BY <1>3, ElementOfSeq
        <3> DEFINE t == SubSeq(programs, 1, Len(programs))
        <3>2. /\ t \in Seq(Publish!Names)
              /\ Len(t) = IF 1 <= Len(programs) THEN Len(programs) - 1 + 1 ELSE 0
              /\ \A i \in 1 .. Len(programs) - 1 + 1 : t[i] = programs[1 + i - 1]
            BY <1>3, <3>1, SubSeqProperties
        <3> HIDE DEF t
        <3>3. Len(t) = Len(programs) /\ \A i \in 1 .. Len(t) : t[i] = programs[i]
            BY <1>3, <3>2
        <3> QED BY <3>2, <3>3, SeqEqual DEF t
    <2>3. answers' \in Seq(Fates) /\ pushed' \in Seq(Publish!Names)
        OBVIOUS
    <2>4. todo' = SubSeq(list', Len(answers') + 1, Len(list')) /\ Len(answers') <= Len(list')
        BY <1>2, <1>3, <2>2
    <2> QED BY <1>3, <2>1, <2>3, <2>4 DEF PublishType
<1>6. Indexed'
    BY <1>1, <1>2 DEF Indexed
<1>9. Publish!InVault' = {}
    BY <1>3, <1>4 DEF Publish!InVault
<1>7. PushesTold'
    <2>2. Stored' = {} /\ Publish!Answered("answered")' = {}
        BY <1>2 DEF Stored, Publish!Answered
    <2>3. Publish!ToSet(pushed') = {} /\ Publish!InOrder(pushed)'
        BY <1>2 DEF Publish!ToSet, Publish!InOrder
    <2> QED BY <1>9, <2>2, <2>3 DEF PushesTold
<1>8. Ending' /\ Posts'
    <2>1. status' = None /\ status' # "done" /\ status' # "exit 0"
        BY PublishFacts
    <2>2. Posts'
        BY <1>9 DEF Posts
    <2> QED BY <1>2, <2>1, <2>2 DEF Ending
<1> QED BY <1>5, <1>6, <1>7, <1>8 DEF PublishInv

LEMMA PublishBegins ==
    ASSUME PublishInv, Publish!BeginArtifact \/ Publish!BeginResults \/ Publish!BeginEvolved
    PROVE  PublishInv'
<1>1. ASSUME NEW p \in Publish!Names, Publish!Begins("artifact", <<p>>, "index")
      PROVE  PublishInv'
    <2> DEFINE one == <<p>>
    <2>1. /\ one \in Seq(Publish!Names) /\ Len(one) = 1
          /\ \A i, j \in 1 .. Len(one) : one[i] = one[j] => i = j
        OBVIOUS
    <2>2. Publish!Begins("artifact", one, "index")
        BY <1>1
    <2> HIDE DEF one
    <2> QED BY <2>1, <2>2, Beginning
<1>2. ASSUME NEW programs \in Publish!Lists, NEW what \in {"results", "evolved"},
             Publish!Begins(what, programs, "next")
      PROVE  PublishInv'
    <2>1. /\ programs \in Seq(Publish!Names)
          /\ \A i, j \in 1 .. Len(programs) : programs[i] = programs[j] => i = j
        BY PublishFacts
    <2> QED BY <1>2, <2>1, Beginning
<1>3. Evolved \subseteq Publish!Lists
    BY PublishFacts
<1> QED BY <1>1, <1>2, <1>3 DEF Publish!BeginArtifact, Publish!BeginResults, Publish!BeginEvolved

(* An artifact does not touch what the lists of programs are about.         *)
LEMMA ListsKeep ==
    ASSUME PublishInv, UNCHANGED <<list, todo, answers, pushed, vault, tasks>>,
           task' \in {task, "none"}
    PROVE  PublishType' /\ PushesTold'
<1>1. PublishType /\ PushesTold
    BY DEF PublishInv
<1>2. PublishType'
    BY <1>1 DEF PublishType
<1>3. /\ Publish!InVault' = Publish!InVault /\ Stored' = Stored
      /\ Publish!InOrder(pushed)' = Publish!InOrder(pushed)
      /\ Publish!Answered("answered")' = Publish!Answered("answered")
    BY DEF Publish!InVault, Publish!InOrder, Publish!Answered, Stored
<1>4. PushesTold'
    BY <1>1, <1>3 DEF PushesTold
<1> QED BY <1>2, <1>4

LEMMA PublishArtifact ==
    ASSUME PublishInv,
           \/ Publish!WriteIndex \/ Publish!LogArtifact \/ Publish!SendArtifact
           \/ Publish!ArtifactFails
    PROVE  PublishInv'
<1>1. PublishType /\ Indexed /\ PushesTold /\ Ending
    BY DEF PublishInv
<1>2. /\ UNCHANGED <<list, todo, answers, pushed, vault, tasks>> /\ task = "artifact"
      /\ task' \in {task, "none"}
      /\ \/ task' = task /\ status' = status
         \/ task' = "none" /\ status' = "swallowed"
    BY DEF Publish!WriteIndex, Publish!LogArtifact, Publish!SendArtifact,
           Publish!ArtifactFails, Publish!Finish
<1>3. PublishType' /\ PushesTold'
    BY <1>2, ListsKeep
<1>4. Ending'
    <2>1. status = None /\ answers = <<>> /\ pushed = <<>>
        BY <1>1, <1>2 DEF Ending, Indexed
    <2> QED BY <1>2, <2>1, PublishFacts DEF Ending
<1>5. /\ Len(list) = 1 /\ answers = <<>> /\ pushed = <<>> /\ list \in Seq(Publish!Names)
      /\ next \in {"log", "send", "push"} => entry \in 1 .. Len(index)
      /\ index \in Seq(Entry) /\ \A k \in 1 .. Len(index) : Origin(index[k])
      /\ logged \cup sent \subseteq 1 .. Len(index)
    BY <1>1, <1>2 DEF Indexed, PublishType
<1>6. Indexed'
    <2>1. CASE Publish!WriteIndex
        <3>1. PICK kind \in Publish!ShadersOf(list[1]) :
                /\ index' = Append(index, [program |-> list[1], shader |-> kind])
                /\ entry' = Len(index) + 1 /\ UNCHANGED <<logged, sent>>
            BY <2>1 DEF Publish!WriteIndex
        <3> DEFINE x == [program |-> list[1], shader |-> kind]
        <3>2. x \in Entry
            <4>1. list[1] \in Publish!Names
                <5>1. 1 \in 1 .. Len(list)
                    BY <1>5
                <5> QED BY <1>5, <5>1, ElementOfSeq
            <4>2. kind \in {"none", "translated", "sidecar"}
                BY DEF Publish!ShadersOf
            <4> QED BY <4>1, <4>2 DEF Entry
        <3>3. Origin(x)
            BY DEF Publish!ShadersOf, Origin
        <3>7. index' = Append(index, x)
            BY <3>1
        <3> HIDE DEF x
        <3>4. /\ index' \in Seq(Entry)
              /\ Len(index) \in Nat /\ Len(index') = Len(index) + 1
              /\ \A k \in 1 .. Len(index) : index'[k] = index[k]
              /\ index'[Len(index) + 1] = x
            BY <1>5, <3>2, <3>7, Appended
        <3>8. \A y : Origin(y)' = Origin(y)
            BY DEF Origin, Publish!Compatible
        <3>5. ASSUME NEW k \in 1 .. Len(index') PROVE Origin(index'[k])
            <4>1. CASE k \in 1 .. Len(index)
                BY <1>5, <3>4, <4>1
            <4>2. CASE k = Len(index) + 1
                BY <3>3, <3>4, <4>2
            <4> QED BY <3>4, <4>1, <4>2
        <3>6. 1 .. Len(index) \subseteq 1 .. Len(index') /\ entry' \in 1 .. Len(index')
            BY <3>1, <3>4
        <3> QED BY <1>2, <1>5, <3>1, <3>4, <3>5, <3>6, <3>8 DEF Indexed
    <2>2. CASE Publish!LogArtifact
        <3>1. /\ entry \in 1 .. Len(index) /\ UNCHANGED <<index, entry, sent>>
              /\ logged' \in {logged, logged \cup {entry}}
            BY <1>5, <2>2 DEF Publish!LogArtifact
        <3> QED BY <1>2, <1>5, <3>1 DEF Indexed
    <2>3. CASE Publish!SendArtifact
        <3>1. /\ entry \in 1 .. Len(index) /\ UNCHANGED <<index, entry, logged>>
              /\ sent' \in {sent, sent \cup {entry}}
            BY <1>5, <2>3 DEF Publish!SendArtifact
        <3> QED BY <1>2, <1>5, <3>1 DEF Indexed
    <2>4. CASE Publish!ArtifactFails
        <3>1. task' = "none" /\ UNCHANGED <<index, entry, logged, sent>>
            BY <2>4 DEF Publish!ArtifactFails, Publish!Finish
        <3> QED BY <1>5, <3>1 DEF Indexed
    <2> QED BY <2>1, <2>2, <2>3, <2>4
<1>7. Posts'
    BY <1>2, PostsKept
<1> QED BY <1>3, <1>4, <1>6, <1>7 DEF PublishInv

(* While there is more to push there is room for it.                       *)
LEMMA NotTooMany ==
    ASSUME PublishType, Ending, task = "results"
    PROVE  Len(pushed) <= (IF TopN = 0 THEN 1 ELSE TopN)
<1>1. TopN \in Nat /\ Len(pushed) \in Nat /\ (pushed = <<>> \/ Len(pushed) < TopN)
    BY PublishFacts, LenProperties DEF PublishType, Ending
<1>2. CASE pushed = <<>>
    <2>1. Len(pushed) = 0
        BY <1>2
    <2> QED BY <1>1, <2>1
<1>3. CASE Len(pushed) < TopN
    BY <1>1, <1>3
<1> QED BY <1>1, <1>2, <1>3

LEMMA PushedArtifact == ASSUME PublishInv, Publish!PushArtifact PROVE PublishInv'
<1> USE DEF Publish!PushArtifact, Publish!Finish
<1>1. PublishType /\ Indexed /\ PushesTold /\ Ending /\ task = "artifact"
    BY DEF PublishInv
<1>2. Len(list) = 1 /\ answers = <<>> /\ pushed = <<>> /\ status = None
    BY <1>1 DEF Indexed, Ending
<1>3. Len(pushed) = 0 /\ Len(answers) = 0
    BY <1>2
<1>4. list[1] \in Publish!Names
    <2>1. list \in Seq(Publish!Names) /\ 1 \in 1 .. Len(list)
        BY <1>1, <1>2 DEF PublishType
    <2> QED BY <2>1, ElementOfSeq
<1>5. \/ vault' = vault
      \/ /\ vault' = Append(vault, [program |-> list[1], task |-> tasks])
         /\ Publish!Valid(list[1])
    BY DEF Publish!Posted
<1>6. vault' \in Seq(Post) /\ \A k \in 1 .. Len(vault') : vault'[k].task <= tasks'
    <2>1. CASE vault' = vault
        BY <1>1, <2>1 DEF PublishType
    <2>2. CASE vault' = Append(vault, [program |-> list[1], task |-> tasks])
        BY <1>1, <1>4, <2>2, Posting
    <2> QED BY <1>5, <2>1, <2>2
<1>7. PublishType'
    BY <1>1, <1>6 DEF PublishType
<1>8. Indexed'
    BY <1>1 DEF Indexed
<1>9. PushesTold'
    <2>1. answers' = <<>> /\ task' = "none"
        BY <1>2
    <2>2. /\ Publish!InOrder(pushed)' = Publish!InOrder(pushed)
          /\ Publish!Answered("answered")' = Publish!Answered("answered")
        BY DEF Publish!InOrder, Publish!Answered
    <2> QED BY <1>1, <2>1, <2>2 DEF PushesTold
<1>10. Ending'
    <2>2. status' = "done" /\ task' = "none" /\ Len(pushed') = 0
        BY <1>3
    <2>3. Len(pushed') <= (IF TopN = 0 THEN 1 ELSE TopN)
        <3>1. TopN \in Nat
            BY PublishFacts
        <3> QED BY <2>2, <3>1
    <2> QED BY <2>2, <2>3 DEF Ending
<1>11. Posts'
    BY <1>1, <1>4, <1>5, PostsKept
<1> QED BY <1>7, <1>8, <1>9, <1>10, <1>11 DEF PublishInv

LEMMA PublishPush == ASSUME PublishInv, Publish!PushNext PROVE PublishInv'
<1> USE DEF Publish!PushNext
<1>1. PublishType /\ Indexed /\ Ending /\ task = "results"
    BY DEF PublishInv
<1>2. UNCHANGED <<list, tasks, entry, index, logged, sent>> /\ todo # <<>> /\ todo' = Tail(todo)
    OBVIOUS
<1>3. PICK o \in Fates :
        /\ answers' = Append(answers, o)
        /\ o \in {"answered", "lost"} =>
                vault' = Append(vault, [program |-> Head(todo), task |-> tasks])
        /\ o \notin {"answered", "lost"} => vault' = vault
        /\ pushed' = IF o = "answered" THEN Append(pushed, Head(todo)) ELSE pushed
        /\ o # "invalid" => Publish!Valid(Head(todo))
        /\ \/ task' = task /\ status' = status /\ (o = "answered" => ~(Len(pushed) + 1 >= TopN))
           \/ o = "answered" /\ task' = "none" /\ status' = "done"
    <2>1. CASE /\ ~Publish!Valid(Head(todo)) /\ answers' = Append(answers, "invalid")
               /\ UNCHANGED <<task, next, vault, pushed, status>>
        BY <2>1 DEF Fates
    <2>2. ASSUME Publish!Valid(Head(todo)), NEW o \in Publish!Outcomes,
                 vault' = Publish!Posted(Head(todo), o), answers' = Append(answers, o),
                 IF o = "answered"
                 THEN /\ pushed' = Append(pushed, Head(todo))
                      /\ IF Len(pushed) + 1 >= TopN
                         THEN Publish!Finish("done") ELSE UNCHANGED <<task, next, status>>
                 ELSE UNCHANGED <<task, next, pushed, status>>
          PROVE  /\ o \in Fates
                 /\ o \in {"answered", "lost"} =>
                        vault' = Append(vault, [program |-> Head(todo), task |-> tasks])
                 /\ o \notin {"answered", "lost"} => vault' = vault
                 /\ pushed' = IF o = "answered" THEN Append(pushed, Head(todo)) ELSE pushed
                 /\ \/ task' = task /\ status' = status
                       /\ (o = "answered" => ~(Len(pushed) + 1 >= TopN))
                    \/ o = "answered" /\ task' = "none" /\ status' = "done"
        BY <2>2 DEF Fates, Publish!Outcomes, Publish!Posted, Publish!Finish
    <2> QED BY <2>1, <2>2
<1>4. /\ PublishType' /\ PushesTold'
      /\ Len(answers) \in Nat /\ Len(answers') = Len(answers) + 1
      /\ \A k \in 1 .. Len(answers) : answers'[k] = answers[k]
      /\ answers'[Len(answers) + 1] = o /\ Head(todo) = list[Len(answers) + 1]
      /\ Len(pushed) \in Nat
      /\ o = "answered" => Len(pushed') = Len(pushed) + 1
    BY <1>1, <1>2, <1>3, OneMore
<1>5. task' \in {"results", "none"}
    BY <1>1, <1>3
<1>6. Indexed'
    BY <1>1, <1>2, <1>5 DEF Indexed
<1>7. status = None /\ (pushed = <<>> \/ Len(pushed) < TopN) /\ TopN \in Nat
    BY <1>1, PublishFacts DEF Ending
<1>8. Posts'
    <2>1. Head(todo) \in Publish!Names
        BY <1>1, <1>2, HeadOfRest
    <2> QED BY <1>1, <1>2, <1>3, <2>1, PostsKept
<1>10. Ending'
    <2>1. CASE task' = task /\ status' = status /\ (o = "answered" => ~(Len(pushed) + 1 >= TopN))
        <3>1. pushed' = <<>> \/ Len(pushed') < TopN
            BY <1>3, <1>4, <1>7, <2>1
        <3>2. task' = "results" /\ status' = None
            BY <1>1, <1>7, <2>1
        <3> QED BY <3>1, <3>2, PublishFacts DEF Ending
    <2>2. CASE o = "answered" /\ task' = "none" /\ status' = "done"
        <3>1. Len(pushed') <= (IF TopN = 0 THEN 1 ELSE TopN)
            <4>1. CASE pushed = <<>>
                <5>1. Len(pushed') = 1
                    BY <1>4, <2>2, <4>1
                <5> QED BY <1>7, <5>1
            <4>2. CASE Len(pushed) < TopN
                BY <1>4, <1>7, <2>2, <4>2
            <4> QED BY <1>7, <4>1, <4>2
        <3> QED BY <2>2, <3>1 DEF Ending
    <2> QED BY <1>3, <2>1, <2>2
<1> QED BY <1>4, <1>6, <1>8, <1>10 DEF PublishInv

LEMMA PublishPost == ASSUME PublishInv, Publish!PostNext PROVE PublishInv'
<1> USE DEF Publish!PostNext
<1>1. PublishType /\ Indexed /\ Ending /\ task = "evolved"
    BY DEF PublishInv
<1>2. /\ UNCHANGED <<list, tasks, entry, index, logged, sent, task, status, next>>
      /\ todo # <<>> /\ todo' = Tail(todo)
    OBVIOUS
<1>3. PICK o \in Fates :
        /\ answers' = Append(answers, o)
        /\ o \in {"answered", "lost"} =>
                vault' = Append(vault, [program |-> Head(todo), task |-> tasks])
        /\ o \notin {"answered", "lost"} => vault' = vault
        /\ pushed' = IF o = "answered" THEN Append(pushed, Head(todo)) ELSE pushed
    BY DEF Fates, Publish!Outcomes, Publish!Posted
<1>4. PublishType' /\ PushesTold'
    BY <1>1, <1>2, <1>3, OneMore
<1>5. Indexed'
    BY <1>1, <1>2 DEF Indexed
<1>6. Ending'
    BY <1>1, <1>2, PublishFacts DEF Ending
<1>7. Posts'
    <2>1. Head(todo) \in Publish!Names
        BY <1>1, <1>2, HeadOfRest
    <2> QED BY <1>1, <1>2, <1>3, <2>1, PostsKept
<1> QED BY <1>4, <1>5, <1>6, <1>7 DEF PublishInv

(* A list of programs ends: what is told of it is true of all that it did. *)
LEMMA PublishEnds ==
    ASSUME PublishInv, Publish!EndResults \/ Publish!EvolvedRaises \/ Publish!EndEvolved
    PROVE  PublishInv'
<1> USE DEF Publish!Finish
<1>1. PublishType /\ Indexed /\ PushesTold /\ Ending
    BY DEF PublishInv
<1>2. /\ UNCHANGED <<list, todo, answers, pushed, vault, tasks, entry, index, logged, sent>>
      /\ task' = "none" /\ task \in {"results", "evolved"} /\ status = None
      /\ task = "results" => status' = "done"
      /\ task = "evolved" => status' \in {"exit 0", "exit 1", "raised"}
    BY <1>1 DEF Publish!EndResults, Publish!EvolvedRaises, Publish!EndEvolved, Ending
<1>3. PublishType' /\ PushesTold'
    BY <1>2, ListsKeep
<1>4. Indexed'
    BY <1>1, <1>2 DEF Indexed
<1>5. Len(pushed) \in Nat
    BY <1>1, LenProperties DEF PublishType
<1>6. Ending'
    <2>1. CASE Publish!EndResults
        <3>1. task = "results" /\ status' = "done"
            BY <2>1 DEF Publish!EndResults
        <3>2. Len(pushed) <= (IF TopN = 0 THEN 1 ELSE TopN)
            BY <1>1, <3>1, NotTooMany
        <3> QED BY <1>2, <3>1, <3>2 DEF Ending
    <2>2. CASE Publish!EvolvedRaises
        <3>1. status' = "raised"
            BY <2>2 DEF Publish!EvolvedRaises
        <3> QED BY <1>2, <3>1 DEF Ending
    <2>3. CASE Publish!EndEvolved
        <3>1. status' = (IF pushed = list THEN "exit 0" ELSE "exit 1")
            BY <2>3 DEF Publish!EndEvolved
        <3>2. ASSUME pushed = list PROVE Publish!InVault = Publish!ToSet(list)
            <4>1. Publish!InVault = Stored
                BY <1>1, <1>2 DEF PushesTold
            <4>2. Publish!ToSet(list) \subseteq Stored
                <5>1. {list[k] : k \in Publish!Answered("answered")} \subseteq Stored
                    BY DEF Publish!Answered, Stored
                <5> QED BY <1>1, <3>2, <5>1 DEF PushesTold
            <4>3. Stored \subseteq Publish!ToSet(list)
                <5>1. /\ DOMAIN list = 1 .. Len(list) /\ Len(list) \in Nat
                      /\ Len(answers) <= Len(list) /\ Len(answers) \in Nat
                    BY <1>1, LenProperties DEF PublishType
                <5>2. 1 .. Len(answers) \subseteq DOMAIN list
                    BY <5>1
                <5> QED BY <5>2 DEF Stored, Publish!ToSet
            <4> QED BY <4>1, <4>2, <4>3
        <3>3. Publish!InVault' = Publish!InVault
            BY <1>2 DEF Publish!InVault
        <3>4. status' = "exit 0" => pushed = list
            BY <3>1
        <3>5. status' = "exit 0" => Publish!InVault' = Publish!ToSet(list')
            BY <1>2, <3>2, <3>3, <3>4
        <3>6. status' # "done" /\ task' = "none"
            BY <1>2, <3>1
        <3> QED BY <3>5, <3>6 DEF Ending
    <2> QED BY <2>1, <2>2, <2>3
<1>7. Posts'
    BY <1>2, PostsKept
<1> QED BY <1>3, <1>4, <1>6, <1>7 DEF PublishInv

LEMMA PublishStep == ASSUME PublishInv, Publish!Next PROVE PublishInv'
BY PublishBegins, PublishArtifact, PushedArtifact, PublishPush, PublishPost, PublishEnds
DEF Publish!Next

LEMMA PublishShows == ASSUME PublishInv PROVE Publish!PublishSound
<1>1. PublishType /\ Indexed /\ PushesTold /\ Ending /\ Posts
    BY DEF PublishInv
<1>2. Publish!IndexComesFirst
    <2>1. DOMAIN index = 1 .. Len(index)
        BY <1>1, LenProperties DEF Indexed
    <2> QED BY <1>1, <2>1 DEF Indexed, Publish!IndexComesFirst
<1>3. Publish!OnlyShaders
    <2>1. \A k \in DOMAIN index :
            /\ index[k].shader = "translated" => Programs[index[k].program].compatible
            /\ index[k].shader = "sidecar" => Programs[index[k].program].kernel = "oasis"
        <3>1. DOMAIN index = 1 .. Len(index)
            BY <1>1, LenProperties DEF Indexed
        <3> QED BY <1>1, <3>1 DEF Indexed, Origin, Publish!Compatible
    <2>2. ASSUME task \in {"artifact", "results"} \/ status \in {"done", "swallowed"},
                 NEW p \in Publish!InVault
          PROVE  Programs[p].compatible /\ (Validator => Programs[p].valid)
        BY <1>1, <2>2 DEF Posts, Publish!Valid, Publish!Compatible
    <2> QED BY <2>1, <2>2 DEF Publish!OnlyShaders
<1>4. Publish!BestArePushed
    <2> SUFFICES ASSUME task = "results" \/ status = "done"
                 PROVE  /\ Publish!ToSet(pushed) \subseteq Publish!InVault
                        /\ Len(pushed) <= (IF TopN = 0 THEN 1 ELSE TopN)
                        /\ answers # <<>> =>
                            Publish!InVault \ Publish!ToSet(pushed)
                                = {list[k] : k \in Publish!Answered("lost")}
        BY <1>1 DEF Publish!BestArePushed, PushesTold
    <2>1. Publish!ToSet(pushed) = {list[k] : k \in Publish!Answered("answered")}
        BY <1>1 DEF PushesTold
    <2>2. /\ \A i, j \in 1 .. Len(list) : list[i] = list[j] => i = j
          /\ Len(list) \in Nat /\ Len(answers) \in Nat /\ Len(answers) <= Len(list)
          /\ Len(pushed) \in Nat
        BY <1>1, LenProperties DEF PublishType
    <2>4. Len(pushed) <= (IF TopN = 0 THEN 1 ELSE TopN)
        <3>1. CASE status = "done"
            BY <1>1, <3>1 DEF Ending
        <3>2. CASE task = "results"
            BY <1>1, <3>2, NotTooMany
        <3> QED BY <3>1, <3>2
    <2>3. CASE answers # <<>>
        <3>1. Publish!InVault = Stored
            BY <1>1, <2>3 DEF PushesTold
        <3>2. {list[k] : k \in Publish!Answered("answered")} \subseteq Stored
            BY DEF Publish!Answered, Stored
        <3>3. {list[k] : k \in Publish!Answered("lost")} \subseteq Stored
            BY DEF Publish!Answered, Stored
        <3>4. Stored \subseteq {list[k] : k \in Publish!Answered("answered")}
                                \cup {list[k] : k \in Publish!Answered("lost")}
            BY DEF Publish!Answered, Stored
        <3>5. ASSUME NEW i \in Publish!Answered("answered"), NEW j \in Publish!Answered("lost")
              PROVE  list[i] # list[j]
            <4>1. i \in 1 .. Len(list) /\ j \in 1 .. Len(list) /\ i # j
                BY <2>2 DEF Publish!Answered
            <4> QED BY <2>2, <4>1
        <3>6. {list[k] : k \in Publish!Answered("answered")}
                \cap {list[k] : k \in Publish!Answered("lost")} = {}
            BY <3>5
        <3> DEFINE A == {list[k] : k \in Publish!Answered("answered")}
                   B == {list[k] : k \in Publish!Answered("lost")}
        <3>7. Publish!InVault = A \cup B /\ A \cap B = {} /\ Publish!ToSet(pushed) = A
            BY <2>1, <3>1, <3>2, <3>3, <3>4, <3>6
        <3> HIDE DEF A, B
        <3>8. A \subseteq Publish!InVault /\ Publish!InVault \ A = B
            BY <3>7
        <3> QED BY <2>4, <3>7, <3>8 DEF B
    <2>5. CASE answers = <<>>
        <3>1. Len(answers) = 0
            BY <2>5
        <3>2. Publish!Answered("answered") = {}
            BY <3>1 DEF Publish!Answered
        <3> QED BY <2>1, <2>4, <2>5, <3>2
    <2> QED BY <2>3, <2>5
<1>5. Publish!ExitIsTrue
    BY <1>1 DEF Ending, Posts, Publish!Clean, Publish!ExitIsTrue
<1> QED BY <1>2, <1>3, <1>4, <1>5 DEF Publish!PublishSound

(* Of the programs that left the search, an entry that is told of is in the *)
(* index; what an artifact or a result file put into the vault was found to *)
(* be a shader, and what the three kernels put there has no C left in it;   *)
(* those that a result file pushed are the best of those that could be      *)
(* posted, in their order and at most top_n (one if it is 0), and the exit  *)
(* status 0 says that all the kernels are in the vault, for any programs    *)
(* and wherever posts and answers are lost                                  *)
(* (artifact_store.py, playground_push.py, publish_evolved_kernels.py).     *)
THEOREM WhatIsPushedIsThere == Spec => []PublishSound
<1> DEFINE I == machine = "publish" => PublishInv
<1>1. Init => I
    BY PublishInit DEF Init
<1>2. I /\ [Next]_vars => I'
    <2> SUFFICES ASSUME I, [Next]_vars, machine' = "publish" PROVE PublishInv'
        OBVIOUS
    <2>1. CASE PublishNext
        BY <2>1, PublishStep DEF PublishNext
    <2>2. CASE UNCHANGED vars
        <3>1. UNCHANGED <<machine, todo, publishOnly>> /\ PublishInv
            BY <2>2 DEF vars, publishOnly
        <3>2. /\ PublishType' = PublishType /\ Indexed' = Indexed
            BY <3>1 DEF publishOnly, PublishType, Indexed
        <3>3. /\ Publish!InVault' = Publish!InVault /\ Stored' = Stored
              /\ Publish!InOrder(pushed)' = Publish!InOrder(pushed)
              /\ Publish!Answered("answered")' = Publish!Answered("answered")
            BY <3>1 DEF publishOnly, Publish!InVault, Stored, Publish!InOrder, Publish!Answered
        <3>4. PushesTold' = PushesTold
            BY <3>1, <3>3 DEF publishOnly, PushesTold
        <3>5. Ending' = Ending
            BY <3>1, <3>3 DEF publishOnly, Ending
        <3>6. Posts' = Posts
            BY <3>1, <3>3 DEF publishOnly, Posts, Publish!Valid, Publish!Compatible,
                   Publish!Clean
        <3> QED BY <3>1, <3>2, <3>4, <3>5, <3>6 DEF PublishInv
    <2>3. CASE Next /\ ~PublishNext
        <3>1. machine = "publish"
            BY <2>3, OneMachine
        <3> QED BY <2>3, <3>1 DEF Next, WorkerNext, ImproverNext, EvaluatorNext,
               BudgetNext, GpuNext, CurriculumNext, RenameNext, ShaderNext, ModelsNext
    <2> QED BY <2>1, <2>2, <2>3
<1>3. I => PublishSound
    BY PublishShows DEF PublishSound
<1> QED BY <1>1, <1>2, <1>3, PTL DEF Spec

-----------------------------------------------------------------------------
(* The comparison of models.                                               *)
(* A stable sort puts every value on a place of its own.                    *)
LEMMA Sorted ==
    ASSUME NEW n \in Nat, NEW v \in [1 .. n -> Int]
    PROVE  /\ \A k \in 1 .. n : Models!Before(v, k) \in 0 .. n - 1
           /\ \A i, k \in 1 .. n : Models!Before(v, i) = Models!Before(v, k) => i = k
           /\ {Models!Before(v, k) : k \in 1 .. n} = 0 .. n - 1
           /\ \A i, k \in 1 .. n : v[i] < v[k] => Models!Before(v, i) < Models!Before(v, k)
<1> DEFINE S == 1 .. n
           Sooner(j, k) == v[j] < v[k] \/ (v[j] = v[k] /\ j < k)
           Below(k) == {j \in S : Sooner(j, k)}
           Rank(k) == Cardinality(Below(k))
           Taken == {Rank(k) : k \in S}
           f == [k \in S |-> Rank(k)]
<1>1. \A x, y \in S : v[x] < v[y] => Sooner(x, y)
    OBVIOUS
<1>2. \A x \in S : v[x] \in Int /\ x \in Int
    OBVIOUS
<1>3. IsFiniteSet(S) /\ Cardinality(S) = n
    <2>1. 1 \in Int /\ n \in Int
        OBVIOUS
    <2>2. IsFiniteSet(1 .. n) /\ Cardinality(1 .. n) = IF 1 > n THEN 0 ELSE n - 1 + 1
        BY <2>1, FS_Interval
    <2> QED BY <2>2
<1>4. \A k \in S : Models!Before(v, k) = Rank(k)
    <2> SUFFICES ASSUME NEW k \in S PROVE Models!Before(v, k) = Rank(k)
        OBVIOUS
    <2>1. {j \in DOMAIN v : v[j] < v[k] \/ (v[j] = v[k] /\ j < k)} = Below(k)
        OBVIOUS
    <2>2. \A T : Models!Cardinality(T) = Cardinality(T)
        BY DEF Models!Cardinality, Cardinality, Models!IsFiniteSet, IsFiniteSet
    <2> QED BY <2>1, <2>2 DEF Models!Before
<1> HIDE DEF S
<1>5. /\ \A x \in S : ~Sooner(x, x)
      /\ \A x, y \in S : x # y => Sooner(x, y) \/ Sooner(y, x)
    BY <1>2
<1>6. ASSUME NEW x \in S, NEW y \in S, NEW z \in S, Sooner(x, y), Sooner(y, z)
      PROVE  Sooner(x, z)
    <2>1. /\ v[x] \in Int /\ v[y] \in Int /\ v[z] \in Int /\ x \in Int /\ y \in Int /\ z \in Int
          /\ v[x] < v[y] \/ (v[x] = v[y] /\ x < y)
          /\ v[y] < v[z] \/ (v[y] = v[z] /\ y < z)
        BY <1>2, <1>6
    <2> QED BY <2>1
<1> HIDE DEF Sooner
<1>7. ASSUME NEW x \in S PROVE IsFiniteSet(Below(x)) /\ Rank(x) \in 0 .. n - 1
    <2>1. Below(x) \in SUBSET S /\ Below(x) # S
        BY <1>5
    <2> HIDE DEF Below
    <2>2. IsFiniteSet(Below(x)) /\ Rank(x) <= n /\ Rank(x) # n
        BY <1>3, <2>1, FS_Subset
    <2>3. Rank(x) \in Nat
        BY <2>2, FS_CardinalityType
    <2> QED BY <2>2, <2>3
<1>8. ASSUME NEW x \in S, NEW y \in S, Sooner(x, y) PROVE Rank(x) < Rank(y)
    <2>1. Below(x) \in SUBSET Below(y) /\ x \in Below(y) /\ x \notin Below(x)
        BY <1>5, <1>6, <1>8
    <2>2. IsFiniteSet(Below(y)) /\ Rank(x) \in 0 .. n - 1 /\ Rank(y) \in 0 .. n - 1
        BY <1>7
    <2> HIDE DEF Below
    <2>3. Rank(x) <= Rank(y) /\ Rank(x) # Rank(y)
        BY <2>1, <2>2, FS_Subset
    <2> HIDE DEF Rank
    <2> QED BY <2>2, <2>3
<1>9. ASSUME NEW x \in S, NEW y \in S, x # y PROVE Rank(x) # Rank(y)
    <2>1. Rank(x) \in 0 .. n - 1 /\ Rank(y) \in 0 .. n - 1
        BY <1>7
    <2>2. Rank(x) < Rank(y) \/ Rank(y) < Rank(x)
        BY <1>5, <1>8, <1>9
    <2> HIDE DEF Rank
    <2> QED BY <2>1, <2>2
<1>10. \A x \in S : Rank(x) \in 0 .. n - 1
    BY <1>7
<1> HIDE DEF Rank
<1>11. Taken = 0 .. n - 1
    <2>1. f \in Bijection(S, Taken)
        BY <1>9 DEF Bijection, Injection, Surjection, IsInjective
    <2>2. Cardinality(Taken) = n
        BY <1>3, <2>1, FS_Bijection DEF ExistsBijection
    <2>3. Taken \in SUBSET (0 .. n - 1)
        BY <1>10
    <2>4. IsFiniteSet(0 .. n - 1) /\ Cardinality(0 .. n - 1) = n
        <3>1. 0 \in Int /\ n - 1 \in Int
            OBVIOUS
        <3>2. Cardinality(0 .. n - 1) = IF 0 > n - 1 THEN 0 ELSE (n - 1) - 0 + 1
            BY <3>1, FS_Interval
        <3> QED BY <3>1, <3>2, FS_Interval
    <2> HIDE DEF Taken
    <2> QED BY <2>2, <2>3, <2>4, FS_Subset
<1>12. {Models!Before(v, k) : k \in S} = 0 .. n - 1
    BY <1>4, <1>11
<1>13. \A i, k \in S : v[i] < v[k] => Models!Before(v, i) < Models!Before(v, k)
    BY <1>1, <1>4, <1>8
<1>14. \A i, k \in S : Models!Before(v, i) = Models!Before(v, k) => i = k
    BY <1>4, <1>9
<1>15. \A k \in S : Models!Before(v, k) \in 0 .. n - 1
    BY <1>4, <1>10
<1> QED BY <1>12, <1>13, <1>14, <1>15 DEF S

LEMMA NthIs ==
    ASSUME NEW n \in Nat, NEW v \in [1 .. n -> Nat], NEW r \in 1 .. n
    PROVE  Models!Nth(v, r) \in Nat
<1>1. v \in [1 .. n -> Int] /\ r - 1 \in 0 .. n - 1 /\ DOMAIN v = 1 .. n
    OBVIOUS
<1>2. \E k \in DOMAIN v : Models!Before(v, k) = r - 1
    <2>1. r - 1 \in {Models!Before(v, k) : k \in 1 .. n}
        BY <1>1, Sorted
    <2> QED BY <1>1, <2>1
<1>3. (CHOOSE k \in DOMAIN v : Models!Before(v, k) = r - 1) \in 1 .. n
    BY <1>1, <1>2
<1> QED BY <1>3 DEF Models!Nth

(* Scores that are better one by one, from the worst to the best, have a   *)
(* better median.                                                          *)
LEMMA MedianRises ==
    ASSUME NEW n \in Nat \ {0}, NEW v \in Seq(Nat), NEW w \in Seq(Nat),
           Len(v) = n, Len(w) = n
    PROVE  /\ Models!Median(v) \in Nat
           /\ (\A r \in 1 .. n : Models!Nth(v, r) < Models!Nth(w, r)) =>
                Models!Median(v) < Models!Median(w)
<1>1. v \in [1 .. n -> Nat] /\ w \in [1 .. n -> Nat]
    BY LenProperties
<1>2. \A r \in 1 .. n : Models!Nth(v, r) \in Nat /\ Models!Nth(w, r) \in Nat
    BY <1>1, NthIs
<1> DEFINE h == n \div 2
<1>3. h \in Nat /\ n = 2 * h + (n % 2) /\ n % 2 \in 0 .. 1
    OBVIOUS
<1>4. /\ Models!Median(v) = IF n % 2 = 0 THEN Models!Nth(v, h) + Models!Nth(v, h + 1)
                            ELSE 2 * Models!Nth(v, h + 1)
      /\ Models!Median(w) = IF n % 2 = 0 THEN Models!Nth(w, h) + Models!Nth(w, h + 1)
                            ELSE 2 * Models!Nth(w, h + 1)
    BY DEF Models!Median
<1> HIDE DEF h
<1>5. h + 1 \in 1 .. n /\ (n % 2 = 0 => h \in 1 .. n)
    <2> DEFINE m == n % 2
    <2>1. h \in Nat /\ n = 2 * h + m /\ m \in 0 .. 1 /\ n \in Nat \ {0}
        BY <1>3
    <2> HIDE DEF m
    <2>2. h + 1 \in 1 .. n /\ (m = 0 => h \in 1 .. n)
        BY <2>1
    <2> QED BY <2>2 DEF m
<1> DEFINE V(r) == Models!Nth(v, r)
           W(r) == Models!Nth(w, r)
<1>6. /\ V(h + 1) \in Nat /\ W(h + 1) \in Nat
      /\ (\A r \in 1 .. n : V(r) < W(r)) => V(h + 1) < W(h + 1)
    BY <1>2, <1>5
<1>7. CASE n % 2 = 0
    <2>1. /\ V(h) \in Nat /\ W(h) \in Nat
          /\ (\A r \in 1 .. n : V(r) < W(r)) => V(h) < W(h)
        BY <1>2, <1>5, <1>7
    <2>2. Models!Median(v) = V(h) + V(h + 1) /\ Models!Median(w) = W(h) + W(h + 1)
        BY <1>4, <1>7
    <2> HIDE DEF V, W
    <2>3. /\ Models!Median(v) \in Nat
          /\ (\A r \in 1 .. n : V(r) < W(r)) => Models!Median(v) < Models!Median(w)
        BY <1>6, <2>1, <2>2
    <2> QED BY <2>3 DEF V, W
<1>8. CASE n % 2 # 0
    <2>2. Models!Median(v) = 2 * V(h + 1) /\ Models!Median(w) = 2 * W(h + 1)
        BY <1>4, <1>8
    <2> HIDE DEF V, W
    <2>3. /\ Models!Median(v) \in Nat
          /\ (\A r \in 1 .. n : V(r) < W(r)) => Models!Median(v) < Models!Median(w)
        BY <1>6, <2>2
    <2> QED BY <2>3 DEF V, W
<1> QED BY <1>7, <1>8

LEMMA ModelsFacts ==
    /\ ModelProblems \in Nat \ {0} /\ ModelScores \subseteq Nat /\ Provided \subseteq Clients
    /\ ModelLists \subseteq Seq(ModelNames)
    /\ None \notin ModelNames /\ None \notin Clients /\ None \notin Nat
    /\ \A S : Models!Cardinality(S) = Cardinality(S)
BY CallsAssumption
DEF Models!ValidModels, Models!IsFiniteSet, IsFiniteSet, Models!Cardinality, Cardinality

AModel == [id : ModelNames, client : Clients, scores : Seq(Nat), errors : Nat, verdicts : Nat]

(* An alias is of a name that has a client.                                *)
Registered ==
    /\ clients \in [ModelNames -> Clients \cup {None}]
    /\ aliases \in [ModelNames -> ModelNames \cup {None}]
    /\ \A n \in ModelNames : aliases[n] # None => clients[aliases[n]] # None
    /\ order \in Seq(ModelNames) /\ group \in Seq(ModelNames)

Tallied(m) == m.errors + m.verdicts = Len(m.scores)

Swept ==
    /\ todo = None \/ todo \in Seq(ModelNames)
    /\ asked # None => asked \in AModel /\ Tallied(asked)
    /\ results \in Seq(AModel)
    /\ \A k \in 1 .. Len(results) :
          Tallied(results[k]) /\ Len(results[k].scores) = ModelProblems
    /\ \A i, k \in 1 .. Len(results) : results[i].id = results[k].id => i = k

(* Names have no ranks while a sweep runs, and afterwards those of it.      *)
Unranked == \A n \in ModelNames : ranks[n] = None

Ranked ==
    ranks = [n \in ModelNames |->
                IF \E k \in DOMAIN results : results[k].id = n
                THEN Models!RankOf(Models!At(n)) ELSE None]

Standing ==
    /\ todo # None \/ asked # None => Unranked
    /\ Unranked \/ Ranked

ModelsInv == Registered /\ Swept /\ Standing

LEMMA ModelsInit == ASSUME Models!Init PROVE ModelsInv
<1> USE DEF Models!Init
<1>1. Registered
    BY DEF Registered
<1>2. Swept
    <2>1. Len(results) = 0
        OBVIOUS
    <2> QED BY <2>1 DEF Swept
<1>3. Standing
    BY DEF Standing, Unranked
<1> QED BY <1>1, <1>2, <1>3 DEF ModelsInv

LEMMA ModelsRegister ==
    ASSUME ModelsInv, NEW m \in ModelNames, NEW client \in Clients, Models!Register(m, client)
    PROVE  ModelsInv'
<1> USE DEF Models!Register
<1>1. Registered /\ Swept /\ Standing
    BY DEF ModelsInv
<1>2. Registered'
    <2>1. clients' \in [ModelNames -> Clients \cup {None}]
        BY <1>1 DEF Registered
    <2>2. order' \in Seq(ModelNames) /\ group' \in Seq(ModelNames)
        BY <1>1 DEF Registered
    <2>3. ASSUME NEW n \in ModelNames, aliases'[n] # None PROVE clients'[aliases'[n]] # None
        <3>1. aliases[n] \in ModelNames /\ clients[aliases[n]] # None
            BY <1>1, <2>3 DEF Registered
        <3>2. clients'[aliases[n]] \in {client, clients[aliases[n]]}
            BY <1>1, <3>1 DEF Registered
        <3> QED BY <3>1, <3>2, ModelsFacts
    <2> QED BY <1>1, <2>1, <2>2, <2>3 DEF Registered
<1>3. Swept'
    BY <1>1 DEF Swept, Tallied
<1>4. Standing'
    <2>1. UNCHANGED <<todo, asked, ranks, results>>
        OBVIOUS
    <2>2. Unranked' = Unranked /\ Ranked' = Ranked
        BY <2>1 DEF Unranked, Ranked, Models!RankOf, Models!At
    <2> QED BY <1>1, <2>1, <2>2 DEF Standing
<1> QED BY <1>2, <1>3, <1>4 DEF ModelsInv

LEMMA ModelsAlias ==
    ASSUME ModelsInv, NEW m \in ModelNames, NEW id \in ModelNames, Models!Alias(m, id)
    PROVE  ModelsInv'
<1> USE DEF Models!Alias
<1>1. Registered /\ Swept /\ Standing
    BY DEF ModelsInv
<1>2. Registered'
    <2>1. aliases' \in [ModelNames -> ModelNames \cup {None}]
        BY <1>1 DEF Registered
    <2>2. ASSUME NEW n \in ModelNames, aliases'[n] # None PROVE clients'[aliases'[n]] # None
        <3>1. aliases'[n] \in {id, aliases[n]}
            BY <1>1 DEF Registered
        <3> QED BY <1>1, <2>2, <3>1 DEF Registered
    <2> QED BY <1>1, <2>1, <2>2 DEF Registered
<1>3. Swept'
    BY <1>1 DEF Swept, Tallied
<1>4. Standing'
    <2>1. UNCHANGED <<todo, asked, ranks, results>>
        OBVIOUS
    <2>2. Unranked' = Unranked /\ Ranked' = Ranked
        BY <2>1 DEF Unranked, Ranked, Models!RankOf, Models!At
    <2> QED BY <1>1, <2>1, <2>2 DEF Standing
<1> QED BY <1>2, <1>3, <1>4 DEF ModelsInv

(* A sweep begins, goes on to the next model of its list, or asks it.      *)
LEMMA ModelsSweep ==
    ASSUME ModelsInv, Models!StartSweep \/ Models!SkipModel \/ Models!AskModel
    PROVE  ModelsInv'
<1>1. Registered /\ Swept /\ Standing
    BY DEF ModelsInv
<1>2. Registered'
    <2>1. UNCHANGED <<clients, aliases, order, group>>
        BY DEF Models!StartSweep, Models!SkipModel, Models!AskModel
    <2> QED BY <1>1, <2>1 DEF Registered
<1>3. CASE Models!StartSweep
    <2>1. /\ todo' \in ModelLists \cup {group, order} /\ results' = <<>> /\ asked' = asked
          /\ ranks' = [n \in ModelNames |-> None]
        BY <1>3 DEF Models!StartSweep, Models!Listed
    <2>2. todo' \in Seq(ModelNames)
        BY <1>1, <2>1, ModelsFacts DEF Registered
    <2>3. Len(results') = 0 /\ results' \in Seq(AModel)
        BY <2>1
    <2>4. Swept'
        BY <1>1, <2>1, <2>2, <2>3 DEF Swept, Tallied
    <2>5. Standing'
        BY <2>1 DEF Standing, Unranked
    <2> QED BY <1>2, <2>4, <2>5 DEF ModelsInv
<1>4. CASE Models!SkipModel \/ Models!AskModel
    <2>1. todo \in Seq(ModelNames) /\ todo # <<>> /\ todo # None /\ UNCHANGED <<results, ranks>>
          /\ todo' = Tail(todo)
        BY <1>1, <1>4 DEF Models!SkipModel, Models!AskModel, Swept
    <2>2. Head(todo) \in ModelNames /\ todo' \in Seq(ModelNames)
        BY <2>1
    <2>3. asked' # None => asked' \in AModel /\ Tallied(asked')
        <3>1. CASE Models!SkipModel
            BY <1>1, <3>1 DEF Models!SkipModel, Swept
        <3>2. CASE Models!AskModel
            <4> DEFINE name == Models!Resolved(Head(todo))
            <4>1. /\ Models!Known(Head(todo))
                  /\ asked' = [id |-> Head(todo), client |-> clients[name],
                               scores |-> <<>>, errors |-> 0, verdicts |-> 0]
                BY <3>2 DEF Models!AskModel
            <4>2. clients[name] \in Clients
                <5>1. name \in ModelNames /\ clients[name] # None
                    BY <1>1, <2>2, <4>1 DEF Registered, Models!Resolved, Models!Known
                <5> QED BY <1>1, <5>1 DEF Registered
            <4> HIDE DEF name
            <4>3. asked' \in AModel
                BY <2>2, <4>1, <4>2 DEF AModel
            <4>4. Tallied(asked')
                <5>1. asked'.errors = 0 /\ asked'.verdicts = 0 /\ asked'.scores = <<>>
                    BY <4>1
                <5>2. Len(asked'.scores) = 0
                    BY <5>1
                <5> QED BY <5>1, <5>2 DEF Tallied
            <4> QED BY <4>3, <4>4
        <3> QED BY <1>4, <3>1, <3>2
    <2>4. Swept'
        BY <1>1, <2>1, <2>2, <2>3 DEF Swept, Tallied
    <2>5. Unranked'
        BY <1>1, <2>1 DEF Standing, Unranked
    <2> QED BY <1>2, <2>4, <2>5 DEF ModelsInv, Standing
<1> QED BY <1>3, <1>4

LEMMA ModelsSolve == ASSUME ModelsInv, Models!Solve PROVE ModelsInv'
<1>1. Registered /\ Swept /\ Standing
    BY DEF ModelsInv
<1>2. asked \in AModel /\ Tallied(asked) /\ asked # None
    BY <1>1 DEF Swept, Models!Solve
<1>3. /\ asked.scores \in Seq(Nat) /\ asked.errors \in Nat /\ asked.verdicts \in Nat
      /\ asked.id \in ModelNames /\ asked.client \in Clients
    BY <1>2 DEF AModel
<1> DEFINE Grown(s, e, f) ==
        [id |-> asked.id, client |-> asked.client, scores |-> Append(asked.scores, s),
         errors |-> asked.errors + e, verdicts |-> asked.verdicts + f]
<1>4. ASSUME NEW s \in Nat, NEW e \in 0 .. 1, NEW f \in 0 .. 1, e + f = 1
      PROVE  Grown(s, e, f) \in AModel /\ Tallied(Grown(s, e, f))
    <2> DEFINE t == Append(asked.scores, s)
               e1 == asked.errors
               v1 == asked.verdicts
               l == Len(asked.scores)
    <2>1. t \in Seq(Nat) /\ Len(t) = l + 1 /\ l \in Nat
        <3> DEFINE u == asked.scores
        <3>1. u \in Seq(Nat)
            BY <1>3
        <3> HIDE DEF u
        <3>2. Append(u, s) \in Seq(Nat) /\ Len(Append(u, s)) = Len(u) + 1 /\ Len(u) \in Nat
            BY <3>1, Appended
        <3> QED BY <3>2 DEF u
    <2>2. e1 \in Nat /\ v1 \in Nat /\ e1 + v1 = l
        BY <1>2, <1>3 DEF Tallied
    <2> HIDE DEF e1, v1, l, t
    <2>3. e1 + e \in Nat /\ v1 + f \in Nat /\ (e1 + e) + (v1 + f) = l + 1
        <3>1. e \in Nat /\ f \in Nat /\ e + f = 1
            BY <1>4
        <3>2. l \in Nat /\ e1 \in Nat /\ v1 \in Nat /\ e1 + v1 = l
            BY <2>1, <2>2
        <3> HIDE DEF Grown
        <3> QED BY <3>1, <3>2
    <2>4. Grown(s, e, f) = [id |-> asked.id, client |-> asked.client, scores |-> t,
                           errors |-> e1 + e, verdicts |-> v1 + f]
        BY DEF e1, v1, t
    <2> QED BY <1>3, <2>1, <2>3, <2>4 DEF AModel, Tallied
<1>5. asked' \in AModel /\ Tallied(asked')
    <2>1. CASE asked' = [asked EXCEPT !.scores = Append(@, 0), !.errors = @ + 1]
        <3>1. asked.verdicts + 0 = asked.verdicts
            BY <1>3
        <3>2. asked' = Grown(0, 1, 0)
            BY <1>2, <2>1, <3>1 DEF AModel
        <3> HIDE DEF Grown
        <3>3. 0 \in Nat /\ 1 \in 0 .. 1 /\ 0 \in 0 .. 1 /\ 1 + 0 = 1
            OBVIOUS
        <3> QED BY <1>4, <3>2, <3>3
    <2>2. ASSUME NEW s \in ModelScores,
                 asked' = [asked EXCEPT !.scores = Append(@, s), !.verdicts = @ + 1]
          PROVE  asked' \in AModel /\ Tallied(asked')
        <3>1. asked.errors + 0 = asked.errors /\ s \in Nat
            BY <1>3, ModelsFacts
        <3>2. asked' = Grown(s, 0, 1)
            BY <1>2, <2>2, <3>1 DEF AModel
        <3> HIDE DEF Grown
        <3>3. 1 \in 0 .. 1 /\ 0 \in 0 .. 1 /\ 0 + 1 = 1
            OBVIOUS
        <3> QED BY <1>4, <3>1, <3>2, <3>3
    <2> QED BY <2>1, <2>2 DEF Models!Solve
<1>6. UNCHANGED <<clients, order, aliases, group, todo, results, ranks>>
    BY DEF Models!Solve
<1>10. Registered'
    BY <1>1, <1>6 DEF Registered
<1>11. Swept'
    BY <1>1, <1>5, <1>6 DEF Swept, Tallied
<1>12. Unranked'
    BY <1>1, <1>2, <1>6 DEF Standing, Unranked
<1> QED BY <1>10, <1>11, <1>12 DEF ModelsInv, Standing

(* The place of a model in the results.                                    *)
LEMMA AtIs ==
    ASSUME Swept, NEW k \in 1 .. Len(results)
    PROVE  Models!At(results[k].id) = k
<1>1. DOMAIN results = 1 .. Len(results)
    BY LenProperties DEF Swept
<1> DEFINE a == CHOOSE j \in DOMAIN results : results[j].id = results[k].id
<1>2. a \in 1 .. Len(results) /\ results[a].id = results[k].id
    BY <1>1
<1> HIDE DEF a
<1>3. a = k
    BY <1>2 DEF Swept
<1> QED BY <1>3 DEF Models!At, a

LEMMA ModelsClose == ASSUME ModelsInv, Models!CloseModel PROVE ModelsInv'
<1> USE DEF Models!CloseModel
<1>1. Registered /\ Swept /\ Standing
    BY DEF ModelsInv
<1>2. asked \in AModel /\ Tallied(asked) /\ asked # None /\ Len(asked.scores) = ModelProblems
    BY <1>1 DEF Swept
<1>3. /\ results \in Seq(AModel) /\ DOMAIN results = 1 .. Len(results) /\ Len(results) \in Nat
      /\ \A k \in 1 .. Len(results) :
            Tallied(results[k]) /\ Len(results[k].scores) = ModelProblems
      /\ \A i, k \in 1 .. Len(results) : results[i].id = results[k].id => i = k
      /\ \A k \in 1 .. Len(results) : results[k] \in AModel
    BY <1>1, LenProperties, ElementOfSeq DEF Swept
<1>4. /\ results' \in Seq(AModel)
      /\ \A k \in 1 .. Len(results') :
            Tallied(results'[k]) /\ Len(results'[k].scores) = ModelProblems
      /\ \A i, k \in 1 .. Len(results') : results'[i].id = results'[k].id => i = k
    <2>1. CASE \E k \in DOMAIN results : results[k].id = asked.id
        <3>1. PICK at \in 1 .. Len(results) : results[at].id = asked.id
            BY <1>3, <2>1
        <3>2. Models!At(asked.id) = at
            BY <1>1, <3>1, AtIs
        <3>3. results' = [results EXCEPT ![at] = asked]
            BY <2>1, <3>2
        <3>4. results' \in Seq(AModel) /\ Len(results') = Len(results)
            <4>1. at \in 1 .. Len(results) /\ asked \in AModel
                BY <1>2
            <4>2. results \in [1 .. Len(results) -> AModel]
                BY SMTT(30), <1>3
            <4>3. results' \in [1 .. Len(results) -> AModel]
                BY ZenonT(30), <3>3, <4>1, <4>2
            <4> DEFINE l == Len(results)
            <4>4. l \in Nat /\ results' \in [1 .. l -> AModel]
                BY <1>3, <4>3
            <4> HIDE DEF l
            <4>5. results' \in Seq(AModel)
                BY <4>4, SeqDef
            <4>6. Len(results') = l
                BY <4>4, <4>5, LenProperties
            <4> QED BY <4>5, <4>6 DEF l
        <3>5. \A k \in 1 .. Len(results) : results'[k] = IF k = at THEN asked ELSE results[k]
            BY <1>3, <3>3
        <3>6. \A k \in 1 .. Len(results) : results'[k].id = results[k].id
            BY SMTT(30), <3>1, <3>5
        <3>7. \A k \in 1 .. Len(results') :
                Tallied(results'[k]) /\ Len(results'[k].scores) = ModelProblems
            BY <1>2, <1>3, <3>4, <3>5
        <3>8. \A i, k \in 1 .. Len(results') : results'[i].id = results'[k].id => i = k
            <4> TAKE i, k \in 1 .. Len(results')
            <4>1. i \in 1 .. Len(results) /\ k \in 1 .. Len(results)
                BY <3>4
            <4>2. results'[i].id = results[i].id /\ results'[k].id = results[k].id
                BY <3>6, <4>1
            <4> QED BY <1>3, <4>1, <4>2
        <3> QED BY <3>4, <3>7, <3>8
    <2>2. CASE ~\E k \in DOMAIN results : results[k].id = asked.id
        <3> DEFINE l == Len(results)
        <3>1. results' = Append(results, asked)
            BY <2>2
        <3>2. /\ results' \in Seq(AModel) /\ l \in Nat /\ Len(results') = l + 1
              /\ \A k \in 1 .. l : results'[k] = results[k]
              /\ results'[l + 1] = asked
            <4>1. asked \in AModel /\ results \in Seq(AModel)
                BY <1>2, <1>3
            <4> QED BY <3>1, <4>1, Appended
        <3>3. \A k \in 1 .. l + 1 : k \in 1 .. l \/ k = l + 1
            BY <3>2
        <3>4. \A k \in 1 .. l : results[k].id # asked.id
            BY <1>3, <2>2
        <3> HIDE DEF l
        <3>5. \A k \in 1 .. l : /\ Tallied(results[k]) /\ Len(results[k].scores) = ModelProblems
                                /\ \A i \in 1 .. l : results[i].id = results[k].id => i = k
            BY <1>3 DEF l
        <3>6. \A i, k \in 1 .. l + 1 : results'[i].id = results'[k].id => i = k
            BY <3>2, <3>3, <3>4, <3>5
        <3>7. \A k \in 1 .. l + 1 :
                Tallied(results'[k]) /\ Len(results'[k].scores) = ModelProblems
            BY <1>2, <3>2, <3>3, <3>5
        <3> QED BY <3>2, <3>6, <3>7
    <2> QED BY <2>1, <2>2
<1>5. Registered'
    BY <1>1 DEF Registered
<1>6. Swept'
    BY <1>1, <1>4 DEF Swept, Tallied
<1>7. Unranked'
    BY <1>1, <1>2 DEF Standing, Unranked
<1> QED BY <1>5, <1>6, <1>7 DEF ModelsInv, Standing

LEMMA ModelsNormalize == ASSUME ModelsInv, Models!Normalize PROVE ModelsInv'
<1> USE DEF Models!Normalize
<1>1. Registered /\ Swept
    BY DEF ModelsInv
<1>2. Registered'
    BY <1>1 DEF Registered
<1>3. Swept'
    BY <1>1 DEF Swept, Tallied
<1>4. Ranked' /\ todo' = None /\ asked' = None
    BY DEF Ranked, Models!RankOf, Models!At
<1> QED BY <1>2, <1>3, <1>4 DEF ModelsInv, Standing

LEMMA ModelsStep == ASSUME ModelsInv, Models!Next PROVE ModelsInv'
BY ModelsRegister, ModelsAlias, ModelsSweep, ModelsSolve, ModelsClose, ModelsNormalize
DEF Models!Next

(* The ranks are those of the medians, each model on a place of its own,    *)
(* and the table goes down the ranks.                                      *)
LEMMA RanksFit ==
    ASSUME Swept, Ranked, ~Unranked
    PROVE  Models!RanksSound
<1> DEFINE l == Len(results)
           D == 1 .. l
           M == [k \in D |-> Models!Median(results[k].scores)]
           Place(k) == Models!Before(M, k)
           ids == {results[k].id : k \in D}
<1>1. /\ results \in Seq(AModel) /\ l \in Nat /\ DOMAIN results = D
      /\ \A k \in D : results[k] \in AModel /\ Len(results[k].scores) = ModelProblems
      /\ \A i, k \in D : results[i].id = results[k].id => i = k
    BY LenProperties, ElementOfSeq DEF Swept
<1>2. \A k \in D : results[k].scores \in Seq(Nat) /\ results[k].id \in ModelNames
    BY <1>1 DEF AModel
<1>3. M \in [1 .. l -> Int]
    <2>1. \A k \in D : Models!Median(results[k].scores) \in Nat
        BY <1>1, <1>2, ModelsFacts, MedianRises
    <2> QED BY <2>1
<1>4. /\ \A k \in D : Place(k) \in 0 .. l - 1
      /\ \A i, k \in D : Place(i) = Place(k) => i = k
      /\ {Place(k) : k \in D} = 0 .. l - 1
      /\ \A i, k \in D : M[i] < M[k] => Place(i) < Place(k)
    <2> HIDE DEF l, M
    <2>1. l \in Nat /\ M \in [1 .. l -> Int]
        BY <1>1, <1>3
    <2> QED BY <2>1, Sorted
<1>5. \A k \in D : Models!RankOf(k) = Place(k)
    BY <1>1 DEF Models!RankOf
<1> HIDE DEF Place
<1>6. \A k \in D : ranks[results[k].id] = Place(k) /\ Models!At(results[k].id) = k
    <2> SUFFICES ASSUME NEW k \in D
                 PROVE  ranks[results[k].id] = Place(k) /\ Models!At(results[k].id) = k
        OBVIOUS
    <2>1. Models!At(results[k].id) = k
        BY AtIs
    <2>2. ranks[results[k].id] = Models!RankOf(Models!At(results[k].id))
        BY <1>1, <1>2 DEF Ranked
    <2> QED BY <1>5, <2>1, <2>2
<1> HIDE DEF D, l
<1>7. {n \in ModelNames : ranks[n] # None} = ids
    <2>1. ASSUME NEW n \in ModelNames, ranks[n] # None PROVE n \in ids
        BY <1>1, <2>1 DEF Ranked
    <2>2. ASSUME NEW k \in D PROVE ranks[results[k].id] # None
        <3>1. Place(k) \in Nat
            BY <1>1, <1>4
        <3> QED BY <1>6, <3>1, ModelsFacts
    <2> QED BY <1>2, <2>1, <2>2
<1>8. Models!Cardinality(ids) = l
    <2> DEFINE f == [k \in D |-> results[k].id]
    <2>1. f \in Bijection(D, ids)
        BY <1>1 DEF Bijection, Injection, Surjection, IsInjective
    <2>2. IsFiniteSet(D) /\ Cardinality(D) = l
        <3>1. 1 \in Int /\ l \in Int /\ D = 1 .. l /\ l \in Nat
            BY <1>1 DEF D
        <3>2. IsFiniteSet(D) /\ Cardinality(D) = IF 1 > l THEN 0 ELSE l - 1 + 1
            BY <3>1, FS_Interval
        <3> QED BY <3>1, <3>2
    <2> HIDE DEF ids
    <2>3. Cardinality(ids) = l
        BY <2>1, <2>2, FS_Bijection DEF ExistsBijection
    <2> QED BY <2>3, ModelsFacts
<1>9. {ranks[n] : n \in ids} = 0 .. l - 1
    <2>1. {ranks[n] : n \in ids} = {Place(k) : k \in D}
        <3>1. \A k \in D : ranks[results[k].id] = Place(k)
            BY <1>6
        <3> QED BY <3>1
    <2> QED BY <1>4, <2>1
<1>10. DOMAIN Models!Table = D
    BY <1>1 DEF Models!Table
<1>11. ASSUME NEW i \in D PROVE Models!Table[i] \in D /\ Place(Models!Table[i]) = l - i
    <2>1. i \in Nat /\ 1 <= i /\ i <= l /\ l \in Nat
        BY <1>1 DEF D
    <2>2. l - i \in 0 .. l - 1
        BY <2>1
    <2>3. \E k \in D : Place(k) = l - i
        BY <1>4, <2>2
    <2>4. \E k \in D : ranks[results[k].id] = l - i
        BY <1>6, <2>3
    <2> DEFINE t == CHOOSE k \in D : ranks[results[k].id] = l - i
    <2>5. Models!Table[i] = t
        BY <1>1 DEF Models!Table, l
    <2>6. t \in D /\ ranks[results[t].id] = l - i
        BY <2>4
    <2> HIDE DEF t
    <2> QED BY <1>6, <2>5, <2>6
<1>12. ASSUME NEW i \in D, NEW j \in D, i < j,
              \A n \in 1 .. ModelProblems : Models!Nth(results[Models!Table[i]].scores, n)
                                            < Models!Nth(results[Models!Table[j]].scores, n)
       PROVE  FALSE
    <2> DEFINE a == Models!Table[i]
               b == Models!Table[j]
    <2>1. a \in D /\ b \in D /\ Place(a) = l - i /\ Place(b) = l - j
        BY <1>11
    <2>2. \A n \in 1 .. ModelProblems :
            Models!Nth(results[a].scores, n) < Models!Nth(results[b].scores, n)
        BY <1>12
    <2> HIDE DEF a, b
    <2>3. Models!Median(results[a].scores) < Models!Median(results[b].scores)
        <3>1. /\ results[a].scores \in Seq(Nat) /\ Len(results[a].scores) = ModelProblems
              /\ results[b].scores \in Seq(Nat) /\ Len(results[b].scores) = ModelProblems
            BY <1>1, <1>2, <2>1
        <3> QED BY <2>2, <3>1, ModelsFacts, MedianRises
    <2>4. M[a] < M[b]
        BY <2>1, <2>3
    <2>5. Place(a) < Place(b)
        BY <1>4, <2>1, <2>4
    <2>6. i \in Int /\ j \in Int /\ l \in Int
        BY <1>1 DEF D
    <2> QED BY <1>12, <2>1, <2>5, <2>6
<1>13. \A i, j \in DOMAIN Models!Table :
         i < j => ~\A n \in 1 .. ModelProblems : Models!Nth(results[Models!Table[i]].scores, n)
                                                 < Models!Nth(results[Models!Table[j]].scores, n)
    BY <1>10, <1>12
<1>14. ASSUME ids # {} PROVE results[Models!TopK(1)[1]].id = results[1].id
    <2>1. 1 \in D
        <3>1. D # {} /\ D = 1 .. l /\ l \in Nat
            BY <1>1, <1>14 DEF D
        <3> QED BY <3>1
    <2> DEFINE s == [n \in D |-> n]
    <2>2. \A n \in 1 .. 1 : s[n] \in Nat
        BY <2>1
    <2>3. SubSeq(s, 1, 1)[1] = s[1]
        <3> HIDE DEF s
        <3>1. \A n \in 1 .. 1 - 1 + 1 : SubSeq(s, 1, 1)[n] = s[1 + n - 1]
            BY <2>2, SubSeqProperties
        <3> QED BY <3>1
    <2>4. Models!TopK(1) = SubSeq(s, 1, 1)
        BY <1>1 DEF Models!TopK
    <2> QED BY <2>1, <2>3, <2>4
<1>15. ids = {results[k].id : k \in DOMAIN results}
    BY <1>1
<1> HIDE DEF ids
<1> QED BY <1>7, <1>8, <1>9, <1>13, <1>14, <1>15 DEF Models!RanksSound, l

LEMMA ModelsShow == ASSUME ModelsInv PROVE Models!ModelsSound
<1>1. Registered /\ Swept /\ Standing
    BY DEF ModelsInv
<1>2. Models!AliasesLead
    <2>1. ASSUME NEW n \in ModelNames, Models!Known(n) PROVE clients[Models!Resolved(n)] # None
        BY <1>1, <2>1 DEF Registered, Models!Known, Models!Resolved
    <2>2. asked # None => asked.client \in Clients
        BY <1>1 DEF Swept, AModel
    <2> QED BY <2>1, <2>2 DEF Models!AliasesLead
<1>3. Models!RanksSound
    <2>1. CASE Unranked
        <3>1. {n \in ModelNames : ranks[n] # None} = {}
            BY <2>1 DEF Unranked
        <3> QED BY <3>1 DEF Models!RanksSound
    <2>2. CASE ~Unranked
        BY <1>1, <2>2, RanksFit DEF Standing
    <2> QED BY <2>1, <2>2
<1>4. Models!ProblemsCounted
    <2>1. DOMAIN results = 1 .. Len(results)
        BY <1>1, LenProperties DEF Swept
    <2> QED BY <1>1, <2>1 DEF Swept, Tallied, Models!ProblemsCounted
<1> QED BY <1>2, <1>3, <1>4 DEF Models!ModelsSound

(* However models are registered and aliased, and whatever their clients    *)
(* answer or raise, a known name has a client, each model that was asked is *)
(* ranked once on a place of its own, no model stands above one that is     *)
(* better throughout, and each problem is an error or a verdict             *)
(* (llm/models.py).                                                        *)
THEOREM ModelsAreRanked == Spec => []ModelsSound
<1> DEFINE I == machine = "models" => ModelsInv
<1>1. Init => I
    BY ModelsInit DEF Init
<1>2. I /\ [Next]_vars => I'
    <2> SUFFICES ASSUME I, [Next]_vars, machine' = "models" PROVE ModelsInv'
        OBVIOUS
    <2>1. CASE ModelsNext
        BY <2>1, ModelsStep DEF ModelsNext
    <2>2. CASE UNCHANGED vars
        <3>1. /\ UNCHANGED <<machine, todo, results, clients, order, aliases, group, asked, ranks>>
              /\ ModelsInv
            BY <2>2 DEF vars, modelsOnly
        <3>2. Registered' = Registered /\ Swept' = Swept
            BY <3>1 DEF Registered, Swept, Tallied
        <3>3. Unranked' = Unranked /\ Ranked' = Ranked
            BY <3>1 DEF Unranked, Ranked, Models!RankOf, Models!At
        <3>4. Standing' = Standing
            BY <3>1, <3>3 DEF Standing
        <3> QED BY <3>1, <3>2, <3>4 DEF ModelsInv
    <2>3. CASE Next /\ ~ModelsNext
        <3>1. machine = "models"
            BY <2>3, OneMachine
        <3> QED BY <2>3, <3>1 DEF Next, WorkerNext, ImproverNext, EvaluatorNext,
               BudgetNext, GpuNext, CurriculumNext, RenameNext, ShaderNext, PublishNext
    <2> QED BY <2>1, <2>2, <2>3
<1>3. I => ModelsSound
    BY ModelsShow DEF ModelsSound
<1> QED BY <1>1, <1>2, <1>3, PTL DEF Spec
=============================================================================
