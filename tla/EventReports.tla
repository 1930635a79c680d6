------------------------------ MODULE EventReports ------------------------------
(***************************************************************************)
(* The debug file that every program of the repository appends its events  *)
(* to, and the three that read it again: the digest of surprises           *)
(* (daemons/continuous.py), the report of a triggered cycle                *)
(* (evaluation/distillation.py) and the audit of the claims                *)
(* (audit/claims_audit.py).                                                *)
(*                                                                         *)
(* An event has the fields its publisher gives it, no others: a reader     *)
(* that asks for one that is not there gets its default.  Scores and       *)
(* confidences are in percent; the size of a file is its lines.            *)
(***************************************************************************)
EXTENDS Integers, Sequences, FiniteSets, FiniteSetsExt

CONSTANTS
    Daemon,      \* the trigger daemon, by its session, the same for all its cycles
    Others,      \* the continuous daemons, by theirs, the same for all they run
    Piped,       \* those whose events go down the zellij pipe
    Advocates,   \* how many advocates a request may ask for, one after the other
    MaxIter,     \* max_iterations
    Outcomes,    \* what an iteration may come to
    Claims,      \* the claims of claims.yaml, in order
    AuditPiped,  \* does the pipe work for the auditor?
    Window,      \* window_seconds
    MaxRuns,     \* bound: iterations, of all the daemons
    MaxCycles,   \* bound: triggered cycles
    MaxAsides,   \* bound: passes, digests, decisions and ticks of the clock
    None

(* What the constants may be; the MC module assumes it.                     *)
ValidReports ==
    /\ Daemon \notin Others /\ Advocates \subseteq Nat \ {0} /\ MaxIter \in Nat \ {0}
    /\ Window \in Nat

Sessions == Others \cup {Daemon}

Confident == 75  \* CONFIDENT_THRESHOLD

VARIABLES
    work,     \* where each daemon is
    file,     \* the debug file
    stats,    \* stats.jsonl of the continuous daemons
    now,      \* the clock
    reports,  \* the reports of the triggered cycles
    audit,    \* the auditor in watch mode
    digests,  \* how many digests were written
    told      \* what the iterations of each daemon came to

vars == <<work, file, stats, now, reports, audit, digests, told>>

Fresh(cycle, lineage, n) ==
    [pc |-> "iterate", cycle |-> cycle, lineage |-> lineage, advocates |-> n, iter |-> 0,
     pending |-> None]

Init ==
    /\ \E n \in Advocates : work = [s \in Sessions |-> Fresh(1, 1, IF s = Daemon THEN n ELSE 1)]
    /\ file = <<>> /\ stats = <<>> /\ now = 0 /\ reports = <<>> /\ digests = 0
    /\ audit = [pc |-> "idle", known |-> 0, results |-> <<>>, read |-> 0, passes |-> 0]
    /\ told = [s \in Sessions |-> <<>>]
-----------------------------------------------------------------------------
(* The events (observability/core.py, events.py)                           *)

Written(s, events) == IF s \in Piped THEN file ELSE file \o events

Event(s, kind, i) == [session |-> s, kind |-> kind, time |-> now, iter |-> i]

(* An event with more fields than those.                                   *)
With(e, more) ==
    [f \in DOMAIN e \cup DOMAIN more |-> IF f \in DOMAIN e THEN e[f] ELSE more[f]]

Prediction(s, i, p) ==
    With(Event(s, "prediction", i),
         [id |-> p.id, confidence |-> p.confidence, active |-> TRUE])

Verified(s, i, p, result) ==
    With(Event(s, "verified", i), [predicted |-> p, outcome |-> result])

RefutedLive(s, i) == With(Event(s, "refuted_live", i), [refuted |-> TRUE])

Divergence(s, i, divergent) == With(Event(s, "divergence", i), [divergent |-> divergent])

Diff(s, i, edit) == With(Event(s, "diff", i), [edit |-> edit])

CaseResult(s, i, verdict) ==
    With(Event(s, "case", i), [case |-> "case", verdict |-> verdict])

ImproverCall(s, status) == With(Event(s, "improver", None), [status |-> status])

Complete(s, i, score, verdict) ==
    With(Event(s, "iteration", i),
         [score |-> score, verdicts |-> {verdict}, status |-> "complete"])

Summary(advocates) == With(Event("population", "summary", None), [advocates |-> advocates])

(* What iteration i of a session leaves: the pending prediction verified,  *)
(* the improver's call, its prediction, what it changed, and the end.      *)
IterationEvents(s, i, pending, o, made) ==
    LET Given(test, e) == IF test THEN <<e>> ELSE <<>>
    IN <<Event(s, "worker", None), CaseResult(s, i, o.verdict)>>
       \o (IF pending = None THEN <<>>
           ELSE Given(o.live, RefutedLive(s, i)) \o <<Verified(s, i, pending, o.result)>>)
       \o <<ImproverCall(s, "start"), ImproverCall(s, "complete"), Divergence(s, i, o.divergent)>>
       \o Given(made # None, Prediction(s, i, made))
       \o <<Diff(s, i + 1, IF o.changed THEN <<s, work[s].cycle, work[s].lineage, i + 1>>
                           ELSE None),
            Complete(s, i, o.score, o.verdict)>>
-----------------------------------------------------------------------------
(* Those who write *)

Iterate(s) ==
    LET w == work[s]
        Made(o) == IF o.predicts = 0 THEN None
                   ELSE [id |-> <<s, w.cycle, w.lineage, w.iter>>, confidence |-> o.predicts]
    IN /\ w.pc = "iterate" /\ FoldFunction(LAMBDA h, n : n + Len(h), 0, told) < MaxRuns
       /\ \E o \in Outcomes, stop \in BOOLEAN :
            /\ w.iter = MaxIter - 1 => stop
            /\ o.live => o.result = "refuted"
            /\ file' = Written(s, IterationEvents(s, w.iter, w.pending, o, Made(o)))
            /\ told' = [told EXCEPT ![s] =
                          Append(@, [cycle |-> w.cycle, lineage |-> w.lineage, iter |-> w.iter,
                                     o |-> o, pending |-> w.pending, time |-> now])]
            /\ work' = [work EXCEPT ![s] =
                          [w EXCEPT !.pc = IF stop THEN "over" ELSE "iterate",
                                    !.iter = IF stop THEN w.iter ELSE w.iter + 1,
                                    !.pending = Made(o)]]
       /\ UNCHANGED <<stats, now, reports, audit, digests>>

NextAdvocate ==
    LET w == work[Daemon]
    IN /\ w.pc = "over" /\ w.lineage < w.advocates
       /\ work' = [work EXCEPT ![Daemon] = Fresh(w.cycle, w.lineage + 1, w.advocates)]
       /\ UNCHANGED <<file, stats, now, reports, audit, digests, told>>

(* run_one_session ends: the line of its statistics and its event; the     *)
(* next session has the same observability, and so the same id.            *)
EndSession(s) ==
    /\ work[s].pc = "over" /\ s \in Others
    /\ stats' = Append(stats, now)
    /\ file' = Written(s, <<Event(s, "session", None)>>)
    /\ work' = [work EXCEPT ![s] = Fresh(@.cycle + 1, 1, 1)]
    /\ UNCHANGED <<now, reports, audit, digests, told>>

Asides ==
    now + digests + audit.passes + Cardinality({k \in DOMAIN file : file[k].kind = "promotion"})

(* The promotion of a population that somebody ran is decided.             *)
Decide ==
    /\ Asides < MaxAsides
    /\ \E accepted \in BOOLEAN :
         file' = Append(file, With(Event(None, "promotion", None), [accepted |-> accepted]))
    /\ UNCHANGED <<work, stats, now, reports, audit, digests, told>>

Tick ==
    /\ Asides < MaxAsides /\ now' = now + 1
    /\ UNCHANGED <<work, file, stats, reports, audit, digests, told>>
-----------------------------------------------------------------------------
(* SurpriseDigest *)

Field(e, f, default) == IF f \in DOMAIN e THEN e[f] ELSE default

Recent(time) == now - time <= Window

Events(kind) == {k \in DOMAIN file : file[k].kind = kind /\ Recent(file[k].time)}

Completed == {k \in Events("iteration") : file[k].status = "complete"}

LatestOf(S) == CHOOSE k \in S : \A n \in S : n <= k

(* iter_scores: the last of a session's iterations with a number, of those *)
(* that completed.                                                         *)
ScoreOf(done, s, i) ==
    LET all == {k \in done : file[k].session = s /\ file[k].iter = i}
    IN IF all = {} THEN None ELSE file[LatestOf(all)].score

Numbers(done, s) == {file[k].iter : k \in {n \in done : file[n].session = s}}

Smaller(a, b) == IF a < b THEN a ELSE b

Surprise(kind, s, i, interest) == [kind |-> kind, session |-> s, iter |-> i, interest |-> interest]

(* The confidence is asked for beside the outcome, where no event has it.  *)
ConfidentWrong ==
    {Surprise("confident_wrong", file[k].session, file[k].iter,
              50 + 2 * (Field(file[k], "confidence", 0) - Confident)) :
        k \in {n \in Events("verified") : /\ file[n].outcome = "refuted"
                                          /\ Field(file[n], "confidence", 0) >= Confident}}

(* Mutant: a fall is a win as well.                                        *)
MutantDivergenceWins(done) ==
    {Surprise("divergence_win", file[k].session, file[k].iter, 50) :
        k \in {n \in Events("divergence") :
                 /\ file[n].divergent
                 /\ ScoreOf(done, file[n].session, file[n].iter) # None
                 /\ ScoreOf(done, file[n].session, file[n].iter - 1) # None}}

(* An iteration whose improver diverged, and that scored above the one     *)
(* before it.                                                              *)
DivergenceWins(done) ==
    LET Gain(k) == ScoreOf(done, file[k].session, file[k].iter)
                   - ScoreOf(done, file[k].session, file[k].iter - 1)
    IN {Surprise("divergence_win", file[k].session, file[k].iter, 50 + Smaller(5 * Gain(k), 150)) :
          k \in {n \in Events("divergence") :
                   /\ file[n].divergent
                   /\ ScoreOf(done, file[n].session, file[n].iter) # None
                   /\ ScoreOf(done, file[n].session, file[n].iter - 1) # None
                   /\ Gain(n) > 1}}

Regressions(done) ==
    LET Fall(s) == ScoreOf(done, s, Min(Numbers(done, s)))
                   - ScoreOf(done, s, Max(Numbers(done, s)))
    IN {Surprise("regression", s, Max(Numbers(done, s)), 40 + Smaller(5 * Fall(s), 150)) :
          s \in {x \in Sessions : Cardinality(Numbers(done, x)) >= 2 /\ Fall(x) > 1}}

(* The rows of a session sorted by iteration; two of the same iteration    *)
(* whose verdicts differ are compared as dicts, which raises.              *)
Unsortable(done) ==
    \E k, n \in done : /\ file[k].session = file[n].session /\ file[k].iter = file[n].iter
                       /\ file[k].verdicts # file[n].verdicts

Precedes(n, k) ==
    /\ file[n].session = file[k].session
    /\ file[n].iter < file[k].iter \/ (file[n].iter = file[k].iter /\ n < k)

Before(done, k) == {n \in done : Precedes(n, k)}

(* The row before k.                                                       *)
Previous(done, k) ==
    CHOOSE n \in Before(done, k) : \A m \in Before(done, k) : m = n \/ Precedes(m, n)

Flips(done) ==
    LET Changed(k) == SymDiff(file[Previous(done, k)].verdicts, file[k].verdicts)
    IN {Surprise("verdict_flip", file[k].session, file[k].iter,
                 30 + 20 * Cardinality(Changed(k) \ {"OK", "RV"})) :
          k \in {n \in done : Before(done, n) # {} /\ Changed(n) # {}}}

Digest ==
    LET done == Completed
    IN IF Unsortable(done) THEN [raised |-> TRUE, surprises |-> {}]
       ELSE [raised |-> FALSE,
             surprises |-> ConfidentWrong \cup DivergenceWins(done) \cup Regressions(done)
                           \cup Flips(done),
             sessions |-> Cardinality({k \in DOMAIN stats : Recent(stats[k])})]

(* The digest command: nothing is written when it raises.                  *)
WriteDigest ==
    /\ Asides < MaxAsides
    /\ LET digest == Digest
       IN /\ ~digest.raised
          /\ file' = Append(file, With(Event(None, "digest", None),
                                       [surprises |-> Cardinality(digest.surprises),
                                        sessions |-> digest.sessions]))
    /\ digests' = digests + 1
    /\ UNCHANGED <<work, stats, now, reports, audit, told>>
-----------------------------------------------------------------------------
(* CycleDistiller, on the events of the whole file *)

All(kind) == {k \in DOMAIN file : file[k].kind = kind}

Labels == {"confirmed", "partial", "refuted", "none"}

AheOutcomes ==
    LET Label(k) == IF file[k].outcome \in Labels THEN file[k].outcome ELSE "none"
    IN [label \in Labels \cup {"refuted_live"} |->
          IF label = "refuted_live"
          THEN Cardinality({k \in All("refuted_live") : file[k].refuted})
          ELSE Cardinality({k \in All("verified") : Label(k) = label})]

(* The last edit that led to an iteration with this number, of whatever    *)
(* session.                                                                *)
EditOf(i) ==
    LET diffs == {k \in All("diff") : file[k].iter = i}
    IN IF diffs = {} THEN None ELSE file[LatestOf(diffs)].edit

(* Told by its rationale where there is no edit.                           *)
SuccessfulDeltas ==
    {<<file[k].iter, EditOf(file[k].iter)>> :
        k \in {n \in All("verified") : file[n].outcome = "confirmed"}}

FailureModes ==
    [v \in {file[k].verdict : k \in All("case")} \ {"OK"} |->
        Cardinality({k \in All("case") : file[k].verdict = v})]

(* What the last summary tells of the advocates.                           *)
Summarised == file[LatestOf(All("summary"))].advocates

Iterations ==
    LET UpTo[a \in Nat] == IF a = 0 THEN 0 ELSE UpTo[a - 1] + Summarised[a].best + 1
    IN IF All("summary") = {} THEN Cardinality({file[k].iter : k \in All("case")})
       ELSE UpTo[Len(Summarised)]

BestScore ==
    IF All("summary") = {} THEN 0
    ELSE Max({Summarised[a].score : a \in DOMAIN Summarised})

Promoted == All("promotion") # {} /\ file[LatestOf(All("promotion"))].accepted

Cost ==
    LET complete == {k \in All("improver") : file[k].status = "complete"}
    IN [worker |-> Cardinality(All("worker")),
        improver |-> Cardinality(IF complete = {} THEN All("improver") ELSE complete)]

Distilled ==
    [advocates |-> work[Daemon].advocates, iterations |-> Iterations, best |-> BestScore,
     promoted |-> Promoted, ahe |-> AheOutcomes, failures |-> FailureModes,
     deltas |-> SuccessfulDeltas, cost |-> Cost]

Iterated(cycle, lineage) ==
    {n \in DOMAIN told[Daemon] : told[Daemon][n].cycle = cycle
                                 /\ told[Daemon][n].lineage = lineage}

(* The first iteration with the highest score.                             *)
BestOf(history) ==
    LET Score(n) == told[Daemon][n].o.score
        top == Max({Score(n) : n \in history})
        best == CHOOSE n \in history : /\ Score(n) = top
                                       /\ \A m \in history : Score(m) = top => n <= m
    IN [score |-> top, best |-> Cardinality({n \in history : n < best})]

(* The runner's summary of the cycle, unless it has but one advocate.      *)
Summarise ==
    LET w == work[Daemon]
        best == [l \in 1 .. w.advocates |-> BestOf(Iterated(w.cycle, l))]
    IN /\ w.pc = "over" /\ w.lineage = w.advocates
       /\ file' = IF w.advocates = 1 THEN file ELSE Written(Daemon, <<Summary(best)>>)
       /\ work' = [work EXCEPT ![Daemon].pc = "report"]
       /\ UNCHANGED <<stats, now, reports, audit, digests, told>>

(* handle_trigger: the file as it is now, the report, and the seal of the  *)
(* bead, which passes when the report says promoted.                       *)
Report ==
    LET w == work[Daemon]
    IN /\ w.pc = "report"
       /\ reports' = Append(reports, [cycle |-> w.cycle, report |-> Distilled,
                                      alone |-> \A k \in DOMAIN file :
                                          file[k].session \in {Daemon, "population"}])
       /\ file' = Written(Daemon, <<Event(Daemon, "report", None),
                                    With(Event(Daemon, "bench", None), [passes |-> Promoted])>>)
       /\ work' = [work EXCEPT ![Daemon] = [@ EXCEPT !.pc = "done"]]
       /\ UNCHANGED <<stats, now, audit, digests, told>>

NextCycle ==
    /\ work[Daemon].pc = "done" /\ work[Daemon].cycle < MaxCycles
    /\ \E n \in Advocates : work' = [work EXCEPT ![Daemon] = Fresh(@.cycle + 1, 1, n)]
    /\ UNCHANGED <<file, stats, now, reports, audit, digests, told>>
-----------------------------------------------------------------------------
(* ClaimsAuditor *)

Result(claim, status, matched, total) ==
    [claim |-> claim, status |-> status, matched |-> matched, total |-> total]

(* prediction_id, which only the event of the prediction itself has, else  *)
(* session_id.                                                             *)
IdOf(e) == IF "id" \in DOMAIN e THEN e.id ELSE e.session

Ids(kind) == {IdOf(file[k]) : k \in All(kind)}

(* Which of the predictions has no answer.                                 *)
Unverified ==
    {IdOf(file[k]) : k \in {n \in All("prediction") : file[n].active}}
    \ (Ids("verified") \cup Ids("refuted_live"))

(* One claim on the file as it is now.                                     *)
Evaluate(claim) ==
    CASE claim = "predictions_verified" ->
            LET n == Cardinality(Ids("prediction"))
            IN IF n = 0 THEN Result(claim, "INCONCLUSIVE", 0, 0)
               ELSE Result(claim, IF Unverified = {} THEN "PASS" ELSE "FAIL",
                           n - Cardinality(Unverified), n)
      [] claim = "predictions_complete" ->
            LET records == All("prediction")
                good == {k \in records : file[k].confidence # 0}
            IN Result(claim, IF good = records THEN "PASS" ELSE "FAIL",
                      Cardinality(good), Cardinality(records))
      [] claim = "no_bench_event" ->
            Result(claim, IF All("bench") = {} THEN "PASS" ELSE "FAIL",
                   Cardinality(All("bench")), 0)
      [] claim = "aggregate_conflict" -> Result(claim, "INCONCLUSIVE", 0, 0)

(* watch_mode: the size is taken before the claims are evaluated, each on  *)
(* the file as it then is.                                                 *)
Poll ==
    /\ audit.pc = "idle" /\ Len(file) > audit.known /\ Asides < MaxAsides
    /\ audit' = [audit EXCEPT !.pc = "claims", !.known = Len(file), !.results = <<>>,
                              !.read = 0, !.passes = @ + 1]
    /\ UNCHANGED <<work, file, stats, now, reports, digests, told>>

EvaluateClaim ==
    /\ audit.pc = "claims" /\ Len(audit.results) < Len(Claims)
    /\ audit' = [audit EXCEPT !.results = Append(@, Evaluate(Claims[Len(@) + 1])),
                              !.read = IF audit.results = <<>> THEN Len(file) ELSE @]
    /\ UNCHANGED <<work, file, stats, now, reports, digests, told>>

(* The results are events too: without the pipe they go to the file that   *)
(* is watched.                                                             *)
Emit ==
    /\ audit.pc = "claims" /\ Len(audit.results) = Len(Claims)
    /\ file' = IF AuditPiped THEN file
               ELSE file \o [k \in DOMAIN Claims |-> Event(None, "claim", None)]
    /\ audit' = [audit EXCEPT !.pc = "idle"]
    /\ UNCHANGED <<work, stats, now, reports, digests, told>>

Next ==
    \/ \E s \in Sessions : Iterate(s) \/ EndSession(s)
    \/ Decide \/ NextAdvocate \/ Summarise \/ Report \/ NextCycle \/ Tick \/ WriteDigest
    \/ Poll \/ EvaluateClaim \/ Emit

Spec == Init /\ [][Next]_vars
-----------------------------------------------------------------------------
(* Of a daemon that ran one session, all of it in the window, the digest   *)
(* tells the regression, the flips and the divergences that won that it    *)
(* had, and never a confident prediction that was refuted, which is what   *)
(* it was made to find (continuous_README.md:37-38): the event keeps the   *)
(* confidence with the prediction (observability/core.py:687-689), and the *)
(* digest asks for it beside the outcome.  It does not raise unless        *)
(* sessions shared an id (daemons/continuous.py, generate_digest).         *)
SurprisesSound ==
    LET digest == Digest
        Told(s) == \A k \in DOMAIN told[s] : told[s][k].cycle = 1 /\ Recent(told[s][k].time)
        Of(s, kind) == {x.iter : x \in {y \in digest.surprises : y.kind = kind /\ y.session = s}}
    IN /\ digest.raised => \E s \in Sessions : <<1, 1>> # <<work[s].cycle, work[s].lineage>>
       /\ ~digest.raised =>
            \A s \in {x \in Others \ Piped : Told(x)} :
               LET h == told[s]
                   Score(n) == h[n].o.score
               IN /\ Of(s, "regression") # {} <=> Len(h) > 1 /\ Score(1) - Score(Len(h)) > 1
                  /\ Of(s, "verdict_flip") =
                        {n - 1 : n \in {k \in 2 .. Len(h) : h[k - 1].o.verdict # h[k].o.verdict}}
                  /\ Of(s, "divergence_win") =
                        {n - 1 : n \in {k \in 2 .. Len(h) : h[k].o.divergent
                                                        /\ Score(k) - Score(k - 1) > 1}}
                  /\ Of(s, "confident_wrong") = {}

(* The report of a cycle that had the file to itself is of that cycle: its *)
(* answers by label, its calls, its iterations up to the best ones, its    *)
(* best score unless it had one advocate, and the confirmed predictions of *)
(* the last advocate with the edits they were made for                     *)
(* (evaluation/distillation.py).                                           *)
ReportSound ==
    \A k \in DOMAIN reports :
        LET r == reports[k].report
            h == told[Daemon]
            own == {n \in DOMAIN h : h[n].cycle = reports[k].cycle}
            Answers(result) == {n \in own : h[n].pending # None /\ h[n].o.result = result}
            Edit(n) == IF h[n - 1].o.changed
                       THEN <<Daemon, h[n].cycle, h[n].lineage, h[n].iter>> ELSE None
        IN (reports[k].cycle = 1 /\ reports[k].alone /\ Daemon \notin Piped) =>
             /\ ~r.promoted
             /\ \A label \in {"confirmed", "refuted"} :
                   r.ahe[label] = Cardinality(Answers(label))
             /\ r.cost = [worker |-> Cardinality(own), improver |-> Cardinality(own)]
             /\ r.advocates <= r.iterations /\ r.iterations <= Cardinality(own)
             /\ r.best = IF r.advocates = 1 THEN 0 ELSE Max({h[n].o.score : n \in own})
             /\ \A n \in Answers("confirmed") :
                   h[n].lineage = r.advocates => <<h[n].iter, Edit(n)>> \in r.deltas

(* What an idle auditor counts as seen, its last pass has read: an event   *)
(* appended during a pass makes another (audit/claims_audit.py,            *)
(* watch_mode).                                                            *)
NothingUnaudited == audit.pc = "idle" => audit.read >= audit.known
===============================================================================
