----------------------------- MODULE SessionReplay -----------------------------
(***************************************************************************)
(* What the runs of the improvement loop leave in the debug file           *)
(* (observability/core.py), and what autobench replay reads out of it      *)
(* again (rsi/replay.py): the harness an iteration ran with, its verdicts, *)
(* and the comparison with the same cases under an override.               *)
(*                                                                         *)
(* A harness is the edits that were made to the one a lineage starts with. *)
(* The lineages of a session share its observability, as the advocates of  *)
(* the trigger daemon do.                                                  *)
(***************************************************************************)
EXTENDS Integers, Sequences, FiniteSets, TLC, Functions

CONSTANTS
    Sessions,
    Lineages,   \* how many advocates a session runs, one after the other
    MaxIter,    \* max_iterations
    Cases,      \* the benchmark, in order
    Foreign,    \* the cases of other domains that a session's final harness is tried on
    Verdicts,
    Improvers,  \* "rules" and "model"
    Edits,      \* what a model may answer
    Outlet,     \* where the events of a session go at first: "pipe" or "file"
    Library,    \* the cases that the directory given to the replay holds
    Overrides,  \* the lists of --override that may be given
    MaxRuns,    \* bound: iterations begun, of all the sessions
    None

(* What the constants may be; the MC module assumes it.                     *)
ValidReplay ==
    /\ Lineages \in [Sessions -> Nat \ {0}] /\ MaxIter \in Nat \ {0}
    /\ Cases \in Seq(Range(Cases)) \ {<<>>} /\ IsInjective(Cases)
    /\ \A s \in Sessions : Range(Cases) \cap Foreign[s] = {}

VARIABLES
    run,       \* where the loop of each session is
    outlet,    \* _pipe_disabled of its observability
    file,      \* the debug file
    lost,      \* the sessions with an event that is not in the file
    ran,       \* the harness each iteration of a lineage ran with
    judged,    \* the verdict a session last gave a case in an iteration
    marred     \* the lineages that reverted, or changed more than they told

vars == <<run, outlet, file, lost, ran, judged, marred>>

Iterations == 0 .. MaxIter - 1

(* The defaults of HarnessConfig, before any edit.                         *)
Base == [prompt |-> <<>>, tools |-> <<>>, protocol |-> "single", context |-> "full",
         budget |-> [tokens |-> <<>>, time |-> <<>>]]

NoDelta == [prompt |-> None, tools |-> None, protocol |-> FALSE, context |-> FALSE,
            budget |-> <<>>]

Fresh(l) == [pc |-> "start", lineage |-> l, iter |-> 0, harness |-> Base, best |-> Base,
             score |-> -1, verdicts |-> <<>>]

Init ==
    /\ run = [s \in Sessions |-> Fresh(1)]
    /\ outlet = Outlet
    /\ file = <<>> /\ lost = {} /\ ran = <<>> /\ judged = <<>> /\ marred = {}
-----------------------------------------------------------------------------
(* The events *)

Started(s, i) == [session |-> s, kind |-> "iteration", status |-> "start", iter |-> i]

Completed(s, i, score, delta) ==
    [session |-> s, kind |-> "iteration", status |-> "complete", iter |-> i,
     score |-> score, delta |-> delta]

Dispatched(s, c) == [session |-> s, kind |-> "sandbox", status |-> "dispatch", case |-> c]

Judged(s, c, v) ==
    [session |-> s, kind |-> "sandbox", status |-> "complete", case |-> c, verdict |-> v]

Reverted(s, i) == [session |-> s, kind |-> "revert", status |-> "revert", iter |-> i]

(***************************************************************************)
(* _publish of each event: down the pipe, until that fails once; from then *)
(* on into the file.                                                       *)
(***************************************************************************)
Publish(s, events) ==
    \E piped \in IF outlet[s] = "pipe" THEN 0 .. Len(events) ELSE {0} :
        /\ file' = file \o SubSeq(events, piped + 1, Len(events))
        /\ outlet' = [outlet EXCEPT ![s] = IF piped = Len(events) THEN @ ELSE "file"]
        /\ lost' = IF piped > 0 THEN lost \cup {s} ELSE lost
-----------------------------------------------------------------------------
(* The loop *)

Put(f, key, value) == [k \in DOMAIN f \cup {key} |-> IF k = key THEN value ELSE f[k]]

Begin(s) ==
    /\ run[s].pc = "start" /\ Cardinality(DOMAIN ran) < MaxRuns
    /\ run' = [run EXCEPT ![s].pc = "cases", ![s].verdicts = <<>>]
    /\ ran' = Put(ran, <<s, run[s].lineage, run[s].iter>>, run[s].harness)
    /\ Publish(s, <<Started(s, run[s].iter)>>)
    /\ UNCHANGED <<judged, marred>>

RunCase(s) ==
    /\ run[s].pc = "cases" /\ Len(run[s].verdicts) < Len(Cases)
    /\ LET c == Cases[Len(run[s].verdicts) + 1]
       IN \E v \in Verdicts :
            /\ run' = [run EXCEPT ![s].verdicts = Append(@, v)]
            /\ judged' = Put(judged, <<s, run[s].iter, c>>, v)
            /\ Publish(s, <<Dispatched(s, c), Judged(s, c, v)>>)
    /\ UNCHANGED <<ran, marred>>

Number(verdicts, v) == Cardinality({k \in DOMAIN verdicts : verdicts[k] = v})

Share(verdicts, v, percent) ==
    Number(verdicts, v) > 0 /\ 100 * Number(verdicts, v) >= percent * Len(verdicts)

Scaled(h, part, factor) == [h EXCEPT !.budget[part] = Append(@, factor)]

(* improve_harness: the rules, and the delta they tell.                    *)
RuleEdit(h, verdicts) ==
    CASE Share(verdicts, "CE", 30) ->
            LET new == Scaled(h, "tokens", 80)
            IN <<new, [NoDelta EXCEPT !.budget = new.budget]>>
      [] ~Share(verdicts, "CE", 30) /\ Share(verdicts, "TLE", 20) ->
            IF h.protocol = "single"
            THEN <<[Scaled(h, "time", 80) EXCEPT !.protocol = "iterative"],
                   [NoDelta EXCEPT !.protocol = TRUE]>>
            ELSE <<Scaled(h, "time", 80), NoDelta>>
      [] ~Share(verdicts, "CE", 30) /\ ~Share(verdicts, "TLE", 20)
         /\ Share(verdicts, "WA", 30) ->
            IF h.context = "full"
            THEN <<[h EXCEPT !.context = "hierarchical"], [NoDelta EXCEPT !.context = TRUE]>>
            ELSE <<h, NoDelta>>
      [] ~Share(verdicts, "CE", 30) /\ ~Share(verdicts, "TLE", 20)
         /\ ~Share(verdicts, "WA", 30) /\ Share(verdicts, "RE", 20) ->
            <<[h EXCEPT !.tools = Append(@, "rule")], [NoDelta EXCEPT !.tools = "guidance"]>>
      [] OTHER ->
            <<Scaled(h, "tokens", IF Share(verdicts, "OK", 90) THEN 110 ELSE 95), NoDelta>>

Told(h, edit, part) == IF edit[part] = None THEN h[part] ELSE Append(h[part], edit[part])

(* _parse_llm_response: the fields a model names are changed and told, of  *)
(* the protocol and the context only that they were chosen.                *)
ModelEdit(h, edit) ==
    <<[prompt |-> Told(h, edit, "prompt"), tools |-> Told(h, edit, "tools"),
       protocol |-> IF edit.protocol = None THEN h.protocol ELSE edit.protocol,
       context |-> IF edit.context = None THEN h.context ELSE edit.context,
       budget |-> edit.budget @@ h.budget],
      [prompt |-> edit.prompt, tools |-> edit.tools, protocol |-> edit.protocol # None,
       context |-> edit.context # None, budget |-> edit.budget]>>

Changes(h, verdicts) ==
    (IF "rules" \in Improvers THEN {RuleEdit(h, verdicts)} ELSE {})
    \cup (IF "model" \in Improvers THEN {ModelEdit(h, e) : e \in Edits} ELSE {})

(* The delta tells all of the change, or says that it does not.            *)
Honest(before, change) ==
    \/ change[2].protocol \/ change[2].context
    \/ change[1] = [before EXCEPT !.prompt = Told(before, change[2], "prompt"),
                                  !.tools = Told(before, change[2], "tools"),
                                  !.budget = change[2].budget @@ before.budget]

(* The cases are over: back to the best harness if this one is worse, then *)
(* the improver, and the event that tells of both.                         *)
Improve(s) ==
    /\ run[s].pc = "cases" /\ Len(run[s].verdicts) = Len(Cases)
    /\ LET w == run[s]
           score == Number(w.verdicts, "OK")
           worse == score < w.score
           from == IF worse THEN w.best ELSE w.harness
       IN \E change \in Changes(from, w.verdicts), stop \in BOOLEAN :
            /\ w.iter = MaxIter - 1 => stop
            /\ run' = [run EXCEPT ![s] =
                         [w EXCEPT !.pc = IF stop THEN "over" ELSE "start",
                                   !.iter = IF stop THEN w.iter ELSE w.iter + 1,
                                   !.harness = change[1],
                                   !.best = IF score > w.score THEN w.harness ELSE w.best,
                                   !.score = IF score > w.score THEN score ELSE w.score]]
            /\ marred' = IF worse \/ ~Honest(from, change)
                         THEN marred \cup {<<s, w.lineage>>} ELSE marred
            /\ Publish(s, (IF worse THEN <<Reverted(s, w.iter)>> ELSE <<>>)
                          \o <<Completed(s, w.iter, score, change[2])>>)
    /\ UNCHANGED <<ran, judged>>

(* An evaluator, a guard or an improver that raises ends the lineage.      *)
Fail(s) ==
    /\ run[s].pc = "cases"
    /\ run' = [run EXCEPT ![s].pc = "over"]
    /\ UNCHANGED <<outlet, file, lost, ran, judged, marred>>

(* The final harness on the cases of another domain, whose events are like *)
(* those of any case; what their verdicts are is not told apart.           *)
RunForeign(s) ==
    /\ run[s].pc = "over"
    /\ run' = [run EXCEPT ![s].pc = "done"]
    /\ \/ \E c \in Foreign[s] : Publish(s, <<Dispatched(s, c), Judged(s, c, "OK")>>)
       \/ UNCHANGED <<outlet, file, lost>>
    /\ UNCHANGED <<ran, judged, marred>>

NextLineage(s) ==
    /\ run[s].pc = "done" /\ run[s].lineage < Lineages[s]
    /\ run' = [run EXCEPT ![s] = Fresh(@.lineage + 1)]
    /\ UNCHANGED <<outlet, file, lost, ran, judged, marred>>
-----------------------------------------------------------------------------
(* ReplayLoader *)

(* The iteration that the event at k of the file belongs to.               *)
Active(k) ==
    LET starts == {n \in 1 .. k : /\ file[n].kind = "iteration"
                                  /\ file[n].session = file[k].session}
    IN IF starts = {} THEN -1 ELSE file[CHOOSE n \in starts : \A m \in starts : m <= n].iter

Known == {file[k].session : k \in DOMAIN file}

IterationsOf(s) == {Active(k) : k \in {n \in DOMAIN file : file[n].session = s}} \ {-1}

(* The places of the events of an iteration.                               *)
EventsFor(s, i, kind) ==
    {k \in DOMAIN file : file[k].kind = kind /\ file[k].session = s /\ Active(k) = i}

CaseIds(s, i) == {file[k].case : k \in EventsFor(s, i, "sandbox")}

Final(s, i, kind) ==
    {k \in DOMAIN file : /\ file[k].kind = kind /\ file[k].status = "complete"
                         /\ file[k].session = s /\ Active(k) = i}

LastOf(S) == CHOOSE k \in S : \A n \in S : n <= k
FirstOf(S) == CHOOSE k \in S : \A n \in S : k <= n

OriginalVerdicts(s, i) ==
    LET ends == Final(s, i, "sandbox")
    IN [c \in {file[k].case : k \in ends} |->
           file[LastOf({k \in ends : file[k].case = c})].verdict]

AggregateScore(s, i) ==
    LET ends == Final(s, i, "iteration")
    IN IF ends = {} THEN None ELSE file[FirstOf(ends)].score

(* What is applied of a delta; the flips are only remembered.              *)
Applied(b, delta) ==
    [harness |-> [b.harness EXCEPT !.prompt = Told(b.harness, delta, "prompt"),
                                   !.tools = Told(b.harness, delta, "tools"),
                                   !.budget = delta.budget @@ @],
     flips |-> b.flips + (IF delta.protocol THEN 1 ELSE 0) + (IF delta.context THEN 1 ELSE 0),
     over |-> b.over]

(* Mutant: the delta of the iteration itself is applied too.               *)
MutantEarlier(e, i) == e.iter <= i

Earlier(e, i) == e.iter < i

(* What an event of the file adds to the harness that iteration i of a     *)
(* session is rebuilt with; over says that the first completed iteration   *)
(* that is not earlier was met.                                            *)
Rebuilt(b, e, s, i) ==
    IF \/ b.over \/ e.session # s \/ e.kind # "iteration" \/ e.status # "complete" THEN b
    ELSE IF Earlier(e, i) THEN Applied(b, e.delta)
    ELSE [harness |-> b.harness, flips |-> b.flips, over |-> TRUE]

(* harness_at: the deltas up to the first that is not of an earlier        *)
(* iteration.                                                              *)
HarnessAt(s, i) ==
    LET read[k \in 0 .. Len(file)] ==
          IF k = 0 THEN [harness |-> Base, flips |-> 0, over |-> FALSE]
          ELSE Rebuilt(read[k - 1], file[k], s, i)
    IN  read[Len(file)]
-----------------------------------------------------------------------------
(* cmd_replay *)

(* merge_overrides: an override of a part of the budget keeps the others.  *)
Merged(specs) ==
    LET Of(k) == <<specs[k].field, specs[k].part>>
    IN  [p \in {Of(k) : k \in DOMAIN specs} |->
            specs[LastOf({k \in DOMAIN specs : Of(k) = p})].value]

Coercible(merged) ==
    \A p \in DOMAIN merged :
        /\ p[1] = "protocol" => merged[p] \in {"single", "iterative"}
        /\ p[1] = "context" => merged[p] \in {"full", "hierarchical"}

(* apply_override: an unknown field is kept in the budget.                 *)
Overridden(h, merged) ==
    LET Field(f) == IF <<f, None>> \in DOMAIN merged THEN merged[<<f, None>>] ELSE h[f]
        parts == {p[2] : p \in {q \in DOMAIN merged : q[1] = "budget"}}
        extras == {p[1] : p \in DOMAIN merged} \ (DOMAIN Base)
    IN [f \in DOMAIN h |->
          IF f # "budget" THEN Field(f)
          ELSE [x \in parts |-> merged[<<"budget", x>>]]
               @@ [x \in extras |-> merged[CHOOSE p \in {<<x, None>>} : TRUE]] @@ h.budget]

Exit(code) == [code |-> code]

(* The replay generates with the evaluator's default, which answers the    *)
(* empty program, whatever the harness is.                                 *)
Empty(c) == "CE"

(* What replay prints, and its exit code; it changes nothing.              *)
Replay(s, i, specs) ==
    LET verdicts == OriginalVerdicts(s, i)
        ids == CaseIds(s, i)
        cases == IF ids = {} THEN Library ELSE ids \cap Library
        merged == Merged(specs)
    IN IF file = <<>> THEN Exit(1)
       ELSE IF \/ s \notin Known \/ i \notin IterationsOf(s)
               \/ None \in Range(specs) \/ specs = <<>> \/ cases = {} THEN Exit(2)
       ELSE IF ~Coercible(merged) THEN Exit(1)
       ELSE [code |-> 0,
             original |-> HarnessAt(s, i),
             replayed |-> Overridden(HarnessAt(s, i).harness, merged),
             score |-> AggregateScore(s, i),
             verdicts |-> verdicts,
             flipped |-> {c \in (DOMAIN verdicts) \cap cases : verdicts[c] # Empty(c)}]

Next ==
    \E s \in Sessions :
        Begin(s) \/ RunCase(s) \/ Improve(s) \/ Fail(s) \/ RunForeign(s) \/ NextLineage(s)

Spec == Init /\ [][Next]_vars
-----------------------------------------------------------------------------
(* The harness of the first lineage is rebuilt as it was, when its events  *)
(* are all in the file, it did not revert before, its deltas told all they *)
(* changed and none is an unresolved flip, and the next lineage has not    *)
(* taken its place; whatever the other sessions write in between.  What is *)
(* not named by an override is replayed as it was.                         *)
ReplayFaithful ==
    \A s \in Sessions \ lost, i \in Iterations, specs \in Overrides :
        LET shown == Replay(s, i, specs)
        IN (/\ <<s, 1, i>> \in DOMAIN ran /\ <<s, 1>> \notin marred
            /\ run[s].lineage = 1 \/ <<s, 1, i + 1>> \in DOMAIN ran
            /\ shown.code = 0 /\ shown.original.flips = 0)
           => /\ shown.original.harness = ran[<<s, 1, i>>]
              /\ \A f \in DOMAIN Base \ {"budget"} :
                    (\A k \in DOMAIN specs : specs[k].field # f)
                        => shown.replayed[f] = ran[<<s, 1, i>>][f]

(* The verdict shown for a case of an iteration is the last that session   *)
(* gave it there, and those shown are all there are; the score is theirs,  *)
(* as long as there is one lineage.                                        *)
VerdictsAttributed ==
    \A s \in Sessions \ lost, i \in Iterations :
        LET shown == OriginalVerdicts(s, i)
            score == AggregateScore(s, i)
        IN /\ \A c \in Range(Cases) :
                /\ c \in DOMAIN shown <=> <<s, i, c>> \in DOMAIN judged
                /\ c \in DOMAIN shown => shown[c] = judged[<<s, i, c>>]
           /\ run[s].lineage = 1 /\ score # None =>
                score = Cardinality({c \in Range(Cases) : shown[c] = "OK"})
===============================================================================
