----------------------------- MODULE DomainScores -----------------------------
(***************************************************************************)
(* The figure of merit over several benchmarks: the registry of domains    *)
(* and what the environment makes of it (evaluation/registry.py), and the  *)
(* scores that the advocates of a cycle get in them                        *)
(* (rsi/population.py, _run_one_advocate), by which one is promoted.       *)
(*                                                                         *)
(* Weights are in tenths.  An aggregate is a fraction, [sum, over].        *)
(***************************************************************************)
EXTENDS Integers, Sequences, FiniteSets

CONSTANTS
    Environments,  \* [enabled, overrides]: AUTOBENCH_DOMAINS, a set of names or None,
                   \* and AUTOBENCH_DOMAIN_WEIGHTS, the sequence of its [name, weight]
    Scores,        \* of an evaluation
    Advocates,     \* how many a cycle has
    MaxCycles,     \* a bound of the model
    None

VARIABLES
    stage,         \* "off", "loaded", "measure" or "chosen"
    registry,      \* BenchmarkRegistry.domains: [name, weight, optional]
    loaded,        \* load_all_cases: [name, cases], in the order of the registry
    given,         \* the secondary domains that the advocate is not yet measured in
    per,           \* per_domain of the advocate: name -> score
    ranked,        \* the advocates that are done: [per, aggregate, told]
    chosen,        \* the one with the highest aggregate, or None
    cyclesRun      \* a bound of the model

domainVars == <<stage, registry, loaded, given, per, ranked, chosen, cyclesRun>>

Names == {"codeforces", "multifile", "shader"}

ValidDomains ==
    /\ Scores \subseteq Nat /\ Advocates \in Nat \ {0} /\ MaxCycles \in Nat
    /\ \A e \in Environments :
        /\ e.enabled = None \/ e.enabled \subseteq Names
        /\ e.overrides \in Seq([name : Names, weight : Int])
-----------------------------------------------------------------------------
Larger(a, b) == IF a > b THEN a ELSE b

(* The shipped domains; only the first is required.                        *)
Shipped ==
    <<[name |-> "codeforces", weight |-> 5, optional |-> FALSE],
      [name |-> "multifile", weight |-> 3, optional |-> TRUE],
      [name |-> "shader", weight |-> 2, optional |-> TRUE]>>

(* _read_weight_overrides_env: the last one of a name, and none below 0.   *)
Weighed(d, overrides) ==
    LET at == {k \in DOMAIN overrides : overrides[k].name = d.name}
        last == CHOOSE k \in at : \A j \in at : j <= k
    IN  IF at = {} THEN d ELSE [d EXCEPT !.weight = Larger(0, overrides[last].weight)]

(* The sequence of what there is of the three domains, in their order.     *)
InOrder(Of(_)) == Of(1) \o Of(2) \o Of(3)

(* default: the order stays that of the shipped weights.                   *)
RegistryOf(e) ==
    LET Entry(k) ==
            IF e.enabled = None \/ Shipped[k].name \in e.enabled
            THEN <<Weighed(Shipped[k], e.overrides)>> ELSE <<>>
    IN  InOrder(Entry)

(* What there is of a domain's cases on the disk.                          *)
Shapes == {"absent", "empty", "torn", "whole"}

(* The two loaders that read a file line by line: no file, and a line that *)
(* does not parse, raise.                                                  *)
FromLines(shape) ==
    CASE shape \in {"absent", "torn"} -> "raises"
      [] shape = "empty" -> "none"
      [] OTHER -> "cases"

(* The loader that reads a directory of files: none is no error, and a     *)
(* file that does not parse is passed over.                                *)
FromFiles(shape) == IF shape \in {"absent", "empty"} THEN "none" ELSE "cases"

LoadOf(d, shape) == IF d.name = "shader" THEN FromFiles(shape) ELSE FromLines(shape)

(* A domain that drops out leaves no entry, one without cases does.        *)
LoadedOf(domains, shapes) ==
    LET Entry(k) ==
            IF k \in DOMAIN domains /\ LoadOf(domains[k], shapes[domains[k].name]) # "raises"
            THEN <<[name |-> domains[k].name,
                    cases |-> LoadOf(domains[k], shapes[domains[k].name]) = "cases"]>>
            ELSE <<>>
    IN  InOrder(Entry)

WeightOf(name) ==
    LET at == {k \in DOMAIN registry : registry[k].name = name}
    IN  IF at = {} THEN 0 ELSE registry[CHOOSE k \in at : TRUE].weight

SumOver(names, Of(_)) ==
    LET Part(n) == IF n \in names THEN Of(n) ELSE 0
    IN  Part("codeforces") + Part("multifile") + Part("shader")

(* A bug: the weights of domains that did not load count as well.          *)
MutantTotal(names) == SumOver(names \cup {registry[k].name : k \in DOMAIN registry}, WeightOf)

(* The weight of the domains that there are scores of.                     *)
Total(names) == SumOver(names, WeightOf)

(* aggregate_score.                                                        *)
Aggregate(scores) ==
    LET names == DOMAIN scores
        Weighted(n) == WeightOf(n) * scores[n]
        Plain(n) == scores[n]
        One(n) == 1
    IN  IF Total(names) > 0
        THEN [sum |-> SumOver(names, Weighted), over |-> Total(names)]
        ELSE [sum |-> SumOver(names, Plain), over |-> SumOver(names, One)]

(* The event of an advocate that has scores in more than one domain.       *)
EventOf(scores) ==
    IF Cardinality(DOMAIN scores) > 1
    THEN [weights |-> [n \in DOMAIN scores |-> WeightOf(n)], over |-> Total(DOMAIN scores)]
    ELSE None

(* The first domain, empty or not, and the default one if there is none.   *)
Primary == IF loaded = <<>> THEN "codeforces" ELSE loaded[1].name

HasCases(name) == \E k \in DOMAIN loaded : loaded[k] = [name |-> name, cases |-> TRUE]
-----------------------------------------------------------------------------
Init ==
    /\ stage = "off" /\ registry = <<>> /\ loaded = <<>> /\ given = <<>>
    /\ per = None /\ ranked = <<>> /\ chosen = None /\ cyclesRun = 0

(* load_all_cases: a required domain must not raise.                       *)
Load ==
    /\ stage \in {"off", "chosen"} /\ cyclesRun < MaxCycles
    /\ \E e \in Environments, shapes \in [Names -> Shapes] :
        LET domains == RegistryOf(e)
        IN  /\ \A k \in DOMAIN domains :
                LoadOf(domains[k], shapes[domains[k].name]) = "raises" =>
                    domains[k].optional
            /\ registry' = domains
            /\ loaded' = LoadedOf(domains, shapes)
    /\ stage' = "loaded" /\ ranked' = <<>> /\ chosen' = None
    /\ cyclesRun' = cyclesRun + 1
    /\ UNCHANGED <<given, per>>

(* A required domain that does not load sinks the cycle, of any domain.    *)
LoadRaises ==
    /\ stage \in {"off", "chosen"} /\ cyclesRun < MaxCycles
    /\ \E e \in Environments, shape \in Shapes :
        LET domains == RegistryOf(e)
        IN  \E k \in DOMAIN domains :
                ~domains[k].optional /\ LoadOf(domains[k], shape) = "raises"
    /\ stage' = "off" /\ registry' = <<>> /\ loaded' = <<>>
    /\ ranked' = <<>> /\ chosen' = None
    /\ cyclesRun' = cyclesRun + 1
    /\ UNCHANGED <<given, per>>

(* The best score of its iterations, and 0 if there was none.              *)
Improve ==
    /\ stage = "loaded" /\ Len(ranked) < Advocates
    /\ \E s \in Scores \cup {0} :
        /\ HasCases(Primary) \/ s = 0
        /\ per' = [n \in {Primary} |-> s]
    /\ given' = [k \in 1..(Len(loaded) - 1) |-> loaded[k + 1].name]
    /\ stage' = "measure"
    /\ UNCHANGED <<registry, loaded, ranked, chosen, cyclesRun>>

(* The final harness in the next domain: nothing if it has no cases or the *)
(* evaluation raises.                                                      *)
MeasureNext ==
    /\ stage = "measure" /\ given # <<>>
    /\ \E s \in Scores \cup {0} :
        /\ HasCases(Head(given)) \/ s = 0
        /\ per' = [n \in DOMAIN per \cup {Head(given)} |->
                    IF n = Head(given) THEN s ELSE per[n]]
    /\ given' = Tail(given)
    /\ UNCHANGED <<stage, registry, loaded, ranked, chosen, cyclesRun>>

Conclude ==
    /\ stage = "measure" /\ given = <<>>
    /\ ranked' =
        Append(ranked, [per |-> per, aggregate |-> Aggregate(per), told |-> EventOf(per)])
    /\ stage' = "loaded" /\ per' = None
    /\ UNCHANGED <<registry, loaded, given, chosen, cyclesRun>>

Exceeds(a, b) == a.sum * b.over > b.sum * a.over

(* Of advocates that predicted equally well the one with the highest       *)
(* aggregate is promoted.                                                  *)
Choose ==
    /\ stage = "loaded" /\ Len(ranked) = Advocates
    /\ \E k \in DOMAIN ranked :
        /\ \A j \in DOMAIN ranked : ~Exceeds(ranked[j].aggregate, ranked[k].aggregate)
        /\ chosen' = k
    /\ stage' = "chosen"
    /\ UNCHANGED <<registry, loaded, given, per, ranked, cyclesRun>>

Next ==
    \/ Load \/ LoadRaises
    \/ Improve \/ MeasureNext \/ Conclude
    \/ Choose

Spec == Init /\ [][Next]_domainVars
-----------------------------------------------------------------------------
(* The domains that count for an advocate.                                 *)
Counting(a) ==
    LET weighted == {n \in DOMAIN a.per : WeightOf(n) > 0}
    IN  IF weighted = {} THEN DOMAIN a.per ELSE weighted

(* An aggregate is a mean of the scores that count, whatever dropped out   *)
(* and whatever the environment says.                                      *)
IsAMean(a) ==
    /\ \E n \in Counting(a) : a.per[n] * a.aggregate.over <= a.aggregate.sum
    /\ \E n \in Counting(a) : a.per[n] * a.aggregate.over >= a.aggregate.sum

(* The event's weights give the event's aggregate, unless nothing counts.  *)
EventExplains(a) ==
    (a.told # None /\ a.told.over > 0) =>
        LET Part(n) == a.told.weights[n] * a.per[n]
        IN  SumOver(DOMAIN a.per, Part) * a.aggregate.over = a.aggregate.sum * a.told.over

(* No advocate is promoted past one that is better wherever it counts: an  *)
(* evaluation that fails, or a domain that is lost, does not pay.          *)
Undominated ==
    chosen # None =>
        ~\E k \in DOMAIN ranked : \A n \in Counting(ranked[k]) :
            ranked[k].per[n] > ranked[chosen].per[n]

DomainsSound ==
    (\A k \in DOMAIN ranked : IsAMean(ranked[k]) /\ EventExplains(ranked[k])) /\ Undominated
=============================================================================
