--------------------------- MODULE CaseEvaluation ---------------------------
(***************************************************************************)
(* One run of BenchmarkEvaluator (evaluator/engine.py): the attempts of    *)
(* every case, the inputs of every attempt, the events, and the pool of    *)
(* anonymous judges (evaluator/judging.py, llm/judge.py) that runs in      *)
(* threads beside it and is waited for at most sixty seconds a judge.      *)
(*                                                                         *)
(* What an execution in the sandbox returns is judged twice: by the        *)
(* executor (engines/sandbox.py) and again, from the texts alone, by the   *)
(* evaluator (emit_verdict).  A stderr is the set of the marks that the    *)
(* two look for in it; a stdout is compared with the expected output in    *)
(* four ways.                                                              *)
(*                                                                         *)
(* Scores are fractions: p_score is the pair <<inputs passed, inputs>>.    *)
(***************************************************************************)
EXTENDS Naturals, FiniteSets, Sequences, Functions

(***************************************************************************)
(* "rss": the text "Memory limit exceeded" that _run_subprocess writes;    *)
(* "oom": a memory pattern both know; "trace": a runtime-error pattern     *)
(* both know; "panic": one that only the executor knows; "build": one of   *)
(* the evaluator's compilation indicators, any "error:" among them;        *)
(* "timeout": the executor's own message.                                  *)
(***************************************************************************)
Marks == {"rss", "oom", "trace", "panic", "build", "timeout"}

(* The stdout is the expected one, empty, overlaps with it (one contains   *)
(* the other), or differs.  An empty one is contained in every text.       *)
Stdouts == {"equal", "empty", "overlap", "different"}

Verdicts == {"CE", "RE", "TLE", "MLE", "VF", "WA", "OK"}

(* The precedence of evaluator/types.py, the worst first.  It is not that  *)
(* of emit_verdict: here RE comes before TLE and MLE.                      *)
Precedence == <<"CE", "RE", "TLE", "MLE", "VF", "WA", "OK">>

Rank(v) == CHOOSE i \in DOMAIN Precedence : Precedence[i] = v

(* Mutant: the best of them.                                               *)
MutantWorstVerdict(vs) ==
    IF vs = {} THEN "OK" ELSE CHOOSE v \in vs : \A w \in vs : Rank(v) >= Rank(w)

WorstVerdict(vs) ==
    IF vs = {} THEN "OK" ELSE CHOOSE v \in vs : \A w \in vs : Rank(v) <= Rank(w)

(* A completed command: exit code 0 or not, what it wrote, and whether it  *)
(* took longer than the case allows.                                       *)
Completed == [ok : BOOLEAN, err : SUBSET Marks, out : Stdouts, late : BOOLEAN]

(* The executor's reading of a completed command (not a timeout).          *)
ExecutorVerdict(c) ==
    IF "rss" \in c.err THEN "MLE"
    ELSE IF ~c.ok
         THEN IF c.err \cap {"trace", "panic"} # {} THEN "RE" ELSE "WA"
         ELSE IF "oom" \in c.err THEN "MLE" ELSE "OK"

(* The evaluator's reading of the same texts.  The executor's verdict is   *)
(* not among its inputs.  "rss" is not one of its memory indicators: they  *)
(* are compared with the case of the letters, and this one is in lower     *)
(* case there.                                                             *)
EmitVerdict(c, expects) ==
    IF ~c.ok /\ "build" \in c.err THEN "CE"
    ELSE IF c.late THEN "TLE"
    ELSE IF "oom" \in c.err THEN "MLE"
    ELSE IF "trace" \in c.err THEN "RE"
    ELSE IF expects /\ c.out = "different" THEN "WA"
    ELSE "OK"

(***************************************************************************)
(* ShaderExecutor.run: the stages of a shader, and the verdict of the      *)
(* first that fails.  A validator that is missing or hangs says "invalid". *)
(***************************************************************************)
Shaders == [valid : BOOLEAN, backend : BOOLEAN, link : BOOLEAN, late : BOOLEAN,
            reference : BOOLEAN, ssim : {"match", "near", "far"}]

ShaderVerdict(s) ==
    IF ~s.valid THEN "CE"
    ELSE IF ~s.backend THEN "RE"
    ELSE IF ~s.link THEN "CE"
    ELSE IF s.late THEN "TLE"
    ELSE IF ~s.reference THEN "RE"
    ELSE CASE s.ssim = "match" -> "OK" [] s.ssim = "near" -> "VF" [] s.ssim = "far" -> "WA"
-----------------------------------------------------------------------------

CONSTANTS
    Cases,         \* the cases, in order: [inputs, glsl, expects]
    Protocol,      \* the rollout protocol of the harness
    Executions,    \* the completed commands that occur
    ShaderRuns,    \* the shaders that occur
    Judges,        \* slots of the pool; one judge or none is no pool
    Opinions       \* the verdicts that judges give of their own

(* What the constants may be; the MC module assumes it.                     *)
ValidEvaluation ==
    /\ Cases \in Seq([inputs : Nat, glsl : BOOLEAN, expects : BOOLEAN])
    /\ Protocol \in {"single_pass", "iterative", "self_revision"}
    /\ Executions \subseteq Completed /\ ShaderRuns \subseteq Shaders
    /\ IsFiniteSet(Judges) /\ Opinions \subseteq Verdicts

MaxAttempts ==
    CASE Protocol = "iterative" -> 3
      [] Protocol = "self_revision" -> 2
      [] OTHER -> 1

(* A case without inputs runs once, with an empty stdin.                   *)
Runs(c) == IF c.inputs = 0 THEN 1 ELSE c.inputs

VARIABLES
    pc,
    case, attempt,
    feedback,      \* verdict that the prompt of this attempt quotes, or "none"
    per,           \* completed commands of this attempt
    current,       \* the result of this attempt
    votes,         \* votes_by_slot of this attempt: "pending", "none" or a verdict
    joined,        \* judges that are not waited for any more
    counted,       \* the votes that were aggregated
    results,       \* of the cases that are over
    usage,         \* accounted calls of the worker
    calls,         \* history: calls of the worker that returned
    events         \* case_result events: <<case, attempt, verdict>>

vars == <<pc, case, attempt, feedback, per, current, votes, joined, counted,
          results, usage, calls, events>>
poolVars == <<votes, joined, counted>>

NoPool == [counted |-> <<>>, summary |-> <<>>, consensus |-> "none"]
NoResult == [verdict |-> "none", passed |-> 0, of |-> 1, pool |-> NoPool]

MaxSteps == Len(Cases) * MaxAttempts

Voted(v) == {j \in DOMAIN v : v[j] \in Verdicts}

TypeOK ==
    /\ pc \in {"Case", "Generate", "Input", "Shader", "Report", "Fan", "Join",
               "Count", "Summary", "Next", "Done"}
    /\ case \in 1 .. Len(Cases) + 1 /\ attempt \in 1 .. MaxAttempts
    /\ feedback \in Verdicts \cup {"none"}
    /\ per \in Seq(Executions)
    /\ current.verdict \in Verdicts \cup {"none"} /\ current.passed <= current.of
    /\ votes \in [Judges -> Verdicts \cup {"none", "pending"}]
    /\ joined \subseteq Judges
    /\ Len(results) < case
    /\ usage <= calls /\ calls <= MaxSteps /\ Len(events) <= MaxSteps
-----------------------------------------------------------------------------
Init ==
    /\ pc = "Case" /\ case = 1 /\ attempt = 1 /\ feedback = "none"
    /\ per = <<>> /\ current = NoResult
    /\ votes = [j \in Judges |-> "none"] /\ joined = {} /\ counted = <<>>
    /\ results = <<>>
    /\ usage = 0 /\ calls = 0 /\ events = <<>>

StartCase ==
    /\ pc = "Case"
    /\ pc' = IF case > Len(Cases) THEN "Done" ELSE "Generate"
    /\ UNCHANGED <<case, attempt, feedback, per, current, poolVars, results,
                   usage, calls, events>>

(* The worker may raise: the attempt is RE, without event, judges or       *)
(* account.  An answer is accounted if the worker shows its usage.         *)
Generate ==
    /\ pc = "Generate"
    /\ per' = <<>>
    /\ \/ /\ pc' = "Next"
          /\ current' = [NoResult EXCEPT !.verdict = "RE"]
          /\ UNCHANGED <<usage, calls>>
       \/ /\ pc' = IF Cases[case].glsl THEN "Shader" ELSE "Input"
          /\ current' = NoResult
          /\ calls' = calls + 1
          /\ usage' \in {usage, usage + 1}
    /\ UNCHANGED <<case, attempt, feedback, poolVars, results, events>>

InputVerdict(c) == EmitVerdict(c, Cases[case].expects)

(* One input after the other, each judged from its texts; an input that    *)
(* fails does not stop the others.                                         *)
RunInput ==
    /\ pc = "Input"
    /\ \E c \in Executions : per' = Append(per, c)
    /\ pc' = IF Len(per') = Runs(Cases[case]) THEN "Report" ELSE "Input"
    /\ UNCHANGED <<case, attempt, feedback, current, poolVars, results, usage,
                   calls, events>>

Pooled == Cardinality(Judges) > 1

Emit(v) == events' = Append(events, <<case, attempt, v>>)

Report ==
    /\ pc = "Report"
    /\ LET verdicts == [i \in DOMAIN per |-> InputVerdict(per[i])]
           worst == WorstVerdict(Range(verdicts))
       IN /\ current' = [verdict |-> worst,
                         passed |-> Cardinality({i \in DOMAIN verdicts : verdicts[i] = "OK"}),
                         of |-> Len(per), pool |-> NoPool]
          /\ Emit(worst)
    /\ pc' = IF Pooled THEN "Fan" ELSE "Next"
    /\ UNCHANGED <<case, attempt, feedback, per, poolVars, results, usage,
                   calls>>

(* A shader has no input and no judges; its score is the similarity of     *)
(* what it rendered, if it was rendered in time.                           *)
RunShader ==
    /\ pc = "Shader"
    /\ \E s \in ShaderRuns :
          LET v == ShaderVerdict(s)
          IN /\ current' = [NoResult EXCEPT !.verdict = v, !.of = 3,
                  !.passed = CASE v = "OK" -> 3 [] v = "VF" -> 2 [] v = "WA" -> 1 [] OTHER -> 0]
             /\ Emit(v)
    /\ pc' = "Next"
    /\ UNCHANGED <<case, attempt, feedback, per, poolVars, results, usage,
                   calls>>
-----------------------------------------------------------------------------
(***************************************************************************)
(* _score_with_pool.                                                       *)
(***************************************************************************)
FanOut ==
    /\ pc = "Fan"
    /\ votes' = [j \in Judges |-> "pending"]
    /\ joined' = {} /\ counted' = <<>>
    /\ pc' = "Join"
    /\ UNCHANGED <<case, attempt, feedback, per, current, results, usage, calls,
                   events>>

(* A judge answers with a verdict of its own; or none of its attempts      *)
(* worked and it repeats the sandbox's; or it raises and has no vote.  It  *)
(* may do so long after the pool stopped waiting.                          *)
Vote(j) ==
    /\ votes[j] = "pending"
    /\ \E v \in Opinions \cup {current.verdict, "none"} : votes' = [votes EXCEPT ![j] = v]
    /\ UNCHANGED <<pc, case, attempt, feedback, per, current, joined, counted,
                   results, usage, calls, events>>

(* join(timeout = 60): the judge is done, or its time is over.             *)
Join(j) ==
    /\ pc = "Join" /\ j \notin joined
    /\ joined' = joined \cup {j}
    /\ pc' = IF joined' = Judges THEN "Count" ELSE "Join"
    /\ UNCHANGED <<case, attempt, feedback, per, current, votes, counted,
                   results, usage, calls, events>>

(* Votes are read here, without the lock, ...                              *)
Count ==
    /\ pc = "Count"
    /\ counted' = [j \in Voted(votes) |-> votes[j]]
    /\ pc' = "Summary"
    /\ UNCHANGED <<case, attempt, feedback, per, current, votes, joined,
                   results, usage, calls, events>>

Share(f, v) == Cardinality({j \in DOMAIN f : f[j] = v})

(* The most frequent verdict; of several, the one that was counted first,  *)
(* which is that of the lowest slot.  Without a vote it is OK.             *)
Consensuses(f) ==
    IF DOMAIN f = {} THEN {"OK"}
    ELSE {v \in Verdicts : Share(f, v) > 0 /\ \A w \in Verdicts : Share(f, w) <= Share(f, v)}

(* ... and again here, for the summary that is published.  Judges that are *)
(* still at work write where nobody reads any more.                        *)
Summarise ==
    /\ pc = "Summary"
    /\ \E v \in Consensuses(counted) :
          current' = [current EXCEPT !.pool =
             [counted |-> counted, summary |-> [j \in Voted(votes) |-> votes[j]], consensus |-> v]]
    /\ pc' = "Next"
    /\ votes' = [j \in Judges |-> "none"] /\ joined' = {} /\ counted' = <<>>
    /\ UNCHANGED <<case, attempt, feedback, per, results, usage, calls, events>>
-----------------------------------------------------------------------------
(* After a pass, or the last attempt, the case is over; else it is tried   *)
(* again, in self-revision with the verdict in the prompt.                 *)
Retries == current.verdict # "OK" /\ attempt < MaxAttempts

TryAgain ==
    /\ pc = "Next" /\ Retries
    /\ attempt' = attempt + 1
    /\ feedback' = IF Protocol = "self_revision" THEN current.verdict ELSE feedback
    /\ pc' = "Generate"
    /\ UNCHANGED <<case, per, current, poolVars, results, usage, calls, events>>

CloseCase ==
    /\ pc = "Next" /\ ~Retries
    /\ results' = Append(results, current)
    /\ case' = case + 1 /\ attempt' = 1 /\ feedback' = "none"
    /\ pc' = "Case"
    /\ UNCHANGED <<per, current, poolVars, usage, calls, events>>

Evaluator ==
    \/ StartCase \/ Generate \/ RunInput \/ Report \/ RunShader \/ FanOut
    \/ \E j \in Judges : Join(j)
    \/ Count \/ Summarise \/ TryAgain \/ CloseCase

Next == Evaluator \/ \E j \in Judges : Vote(j)

Spec == Init /\ [][Next]_vars
-----------------------------------------------------------------------------
(* A case of the sandbox passes exactly if every one of its inputs passed: *)
(* verdict and score of a result are computed apart and never disagree.    *)
PassMeansAll ==
    \A i \in DOMAIN results :
        ~Cases[i].glsl =>
            (results[i].verdict = "OK") = (results[i].passed = results[i].of)

Reported(i) == {k \in DOMAIN events : events[k][1] = i}

(* No attempt of a case has two events, and they are in the order of the   *)
(* attempts, of which those whose generation raises have none; nothing     *)
(* follows a pass; and what is recorded of the case is what the last event *)
(* said, or the failure to generate after it.                              *)
AttemptsReported ==
    \A i \in DOMAIN results :
        /\ \A a, b \in Reported(i) :
              a < b => events[a][2] < events[b][2] /\ events[a][3] # "OK"
        /\ \A a \in Reported(i) : events[a][2] <= MaxAttempts
        /\ results[i].verdict # "RE" =>
              \E last \in Reported(i) : /\ \A a \in Reported(i) : a <= last
                                        /\ events[last][3] = results[i].verdict

(* What is published of a pool agrees with itself although judges vote     *)
(* while it is put together: every vote that was counted is in the         *)
(* summary, and the consensus is a verdict that no other one outvoted.     *)
PoolAgrees ==
    \A i \in DOMAIN results :
        LET p == results[i].pool
        IN p # NoPool =>
             /\ DOMAIN p.counted \subseteq DOMAIN p.summary
             /\ \A j \in DOMAIN p.counted : p.summary[j] = p.counted[j]
             /\ \A v \in Verdicts : Share(p.counted, v) <= Share(p.counted, p.consensus)
=============================================================================
