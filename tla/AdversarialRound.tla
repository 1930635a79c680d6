--------------------------- MODULE AdversarialRound ---------------------------
(***************************************************************************)
(* AdversarialDual.run_round of rsi/adversarial.py: a round of          *)
(* curveballs that a worker has to solve.  The worker is put into the      *)
(* caller's evaluator for the time of the round.                           *)
(***************************************************************************)
EXTENDS Curveballs, Integers, Sequences, FiniteSets

CONSTANTS
    Sizes,      \* n_cases
    Targets,    \* target_failure_modes
    Verdicts,
    MaxRounds   \* bound: rounds

VARIABLES
    pc,         \* "Idle", "Generate" or "Evaluate"
    size,
    target,
    cases,      \* the curveballs so far
    verdicts,
    counts,     \* verdict_counts
    traps,      \* failure_categories
    solver,     \* generate_fn of the evaluator: "caller" or "worker"
    reports     \* what round_complete told

vars == <<pc, size, target, cases, verdicts, counts, traps, solver, reports>>

Init ==
    /\ pc = "Idle" /\ size = 0 /\ target = <<>>
    /\ cases = <<>> /\ verdicts = <<>> /\ counts = <<>> /\ traps = <<>>
    /\ solver = "caller" /\ reports = <<>>

Begin ==
    /\ pc = "Idle" /\ Len(reports) < MaxRounds
    /\ pc' = "Generate" /\ solver' = "worker"
    /\ size' \in Sizes /\ target' \in Targets
    /\ cases' = <<>> /\ verdicts' = <<>> /\ counts' = <<>> /\ traps' = <<>>
    /\ UNCHANGED reports

(* The mode for the next case, when the list has one.                      *)
Steered ==
    IF Len(cases) < Len(target) THEN target[Len(cases) + 1] ELSE None

(* Mutant: an exception leaves the worker where it is.                     *)
MutantAbandon == pc' = "Idle" /\ UNCHANGED solver

(* Whatever is raised, the caller's function is put back.                  *)
Abandon == pc' = "Idle" /\ solver' = "caller"

Generate ==
    /\ pc = "Generate" /\ Len(cases) < size
    /\ \E answer \in Answers :
        IF Raises(answer) THEN Abandon /\ UNCHANGED cases
        ELSE /\ cases' = Append(cases, Curveball(Steered, answer))
             /\ pc' = "Evaluate" /\ UNCHANGED solver
    /\ UNCHANGED <<size, target, verdicts, counts, traps, reports>>

Counted(bag, x) == [y \in DOMAIN bag \cup {x} |->
    (IF y \in DOMAIN bag THEN bag[y] ELSE 0) + (IF y = x THEN 1 ELSE 0)]

(* A steered case that is not solved.                                      *)
Sprung(verdict, mode) == verdict # "OK" /\ mode # None

(* The evaluator's verdict; no result at all counts as "RE".               *)
Evaluate ==
    /\ pc = "Evaluate"
    /\ LET mode == cases[Len(cases)].mode
       IN \E v \in Verdicts \cup {"RE"} :
            /\ verdicts' = Append(verdicts, v)
            /\ counts' = Counted(counts, v)
            /\ traps' = IF Sprung(v, mode) THEN Counted(traps, mode) ELSE traps
    /\ pc' = "Generate"
    /\ UNCHANGED <<size, target, cases, solver, reports>>

EvaluatorRaises ==
    /\ pc = "Evaluate"
    /\ Abandon
    /\ UNCHANGED <<size, target, cases, verdicts, counts, traps, reports>>

Finish ==
    /\ pc = "Generate" /\ Len(cases) = size
    /\ pc' = "Idle" /\ solver' = "caller"
    /\ reports' = Append(reports, [cases |-> Len(cases), counts |-> counts, traps |-> traps])
    /\ UNCHANGED <<size, target, cases, verdicts, counts, traps>>

Next == Begin \/ Generate \/ Evaluate \/ EvaluatorRaises \/ Finish

Aims == {None} \cup UNION {{t[k] : k \in DOMAIN t} : t \in Targets}

ValidRound ==
    /\ Sizes \subseteq Nat /\ MaxRounds \in Nat
    /\ \A t \in Targets : t \in Seq(Aims)

Spec == Init /\ [][Next]_vars
-----------------------------------------------------------------------------
(* The evaluator is the worker's for as long as a round lasts, and not a   *)
(* step longer, whatever is raised in between.                             *)
SolverReturned == solver = "worker" <=> pc # "Idle"

(* How often f has each of its values at these places.                     *)
Tally(f, places) ==
    [x \in {f[k] : k \in places} |-> Cardinality({k \in places : f[k] = x})]

(* A round tells of one verdict for each of its cases, and of one trap for *)
(* each that was aimed at a mode and not solved: its figures are those of  *)
(* some verdicts and aims, and of nothing else.                            *)
RoundAccounted ==
    \A n \in DOMAIN reports :
        LET r == reports[n]
        IN  \E v \in [1..r.cases -> Verdicts \cup {"RE"}], aim \in [1..r.cases -> Aims] :
                /\ r.counts = Tally(v, 1..r.cases)
                /\ r.traps = Tally(aim, {k \in 1..r.cases : Sprung(v[k], aim[k])})
===============================================================================
