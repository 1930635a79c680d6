----------------------------- MODULE ImproverCalls -----------------------------
(***************************************************************************)
(* One improvement as the RSI loop asks for it: the ensemble of improvers  *)
(* (llm/ensemble.py), each of them a wrapper around a model with its       *)
(* retries (llm/minimax.py), and the vote on what they propose.            *)
(*                                                                         *)
(* A harness is told apart from the one the call started with by what was  *)
(* changed in it; a delta is what the improver says it has changed.  What  *)
(* the model answers is any proposal, a text without JSON, or one whose    *)
(* fields have other types than the parser adds and compares.              *)
(***************************************************************************)
EXTENDS Naturals, Sequences, FiniteSets, Functions

CONSTANTS
    Instances,    \* n_instances
    MaxRetries,   \* max_retries of a wrapper
    Prompts,      \* texts a model may add to the prompt
    Protocols,    \* protocols it may choose: the harness's own, None here, is one
    Budgets,      \* changes of the budget
    Unhashable,   \* a change of the budget that cannot be a key
    RuleBased,    \* what the rule-based improver adds to the prompt
    Strategies,   \* the strategies of the ensemble
    None

(* What the constants may be; the MC module assumes it.                     *)
ValidImprover ==
    /\ Instances \in Nat \ {0} /\ MaxRetries \in Nat \ {0}
    /\ None \notin Prompts \cup Budgets /\ Unhashable \in Budgets
    /\ BOOLEAN \cap (Prompts \cup Budgets \cup {RuleBased, None}) = {}
    /\ Strategies \subseteq {"vote", "parallel"}

VARIABLES
    strategy,
    pc,        \* "Post", "Aggregate", "Improved" or "Failed"
    calls,     \* the times the loop has called the improver, at most four
    arm,       \* the instance that is asked
    tries,     \* the times the ensemble has called it, at most four
    attempt,   \* the posts of this call
    posts,     \* the posts for this instance
    pairs,     \* the harness and the delta of each instance that answered
    outcome    \* what the loop gets

vars == <<strategy, pc, calls, arm, tries, attempt, posts, pairs, outcome>>

Proposals == [prompt : Prompts \cup {None}, chooses : BOOLEAN, protocol : Protocols,
              budget : Budgets \cup {None}]

Fields == {"prompt", "protocolChanged", "budget"}
NoDelta == [prompt |-> None, protocolChanged |-> FALSE, budget |-> None]
Baseline == [prompt |-> None, protocol |-> None, budget |-> None]

(* _parse_llm_response: a protocol that is named counts as changed, the    *)
(* harness's own as well.                                                  *)
HarnessOf(a) ==
    [prompt |-> a.prompt, protocol |-> IF a.chooses THEN a.protocol ELSE None, budget |-> a.budget]
DeltaOf(a) == [prompt |-> a.prompt, protocolChanged |-> a.chooses, budget |-> a.budget]

Pair(harness, delta) == [harness |-> harness, delta |-> delta]
RulePair == Pair([Baseline EXCEPT !.prompt = RuleBased], [NoDelta EXCEPT !.prompt = RuleBased])

Scores == 0 .. 1   \* 0 for an evaluator that raises; what differs is which is best

Init ==
    /\ strategy \in Strategies
    /\ pc = "Post" /\ calls = 1 /\ arm = 1 /\ tries = 1 /\ attempt = 0 /\ posts = 0
    /\ pairs = <<>> /\ outcome = None

TypeOK ==
    /\ strategy \in Strategies
    /\ pc \in {"Post", "Aggregate", "Improved", "Failed"}
    /\ calls \in 1 .. 4 /\ arm \in 1 .. Instances /\ tries \in 1 .. 4
    /\ attempt \in 0 .. MaxRetries
    /\ Len(pairs) <= Instances
-----------------------------------------------------------------------------
(* The loop takes a TypeError of the improver, the vote's too, for a        *)
(* signature that does not fit, and calls it again with fewer arguments.   *)
CallAgain ==
    /\ UNCHANGED outcome
    /\ IF calls < 4
       THEN /\ calls' = calls + 1 /\ pc' = "Post"
            /\ arm' = 1 /\ tries' = 1 /\ attempt' = 0 /\ posts' = 0
            /\ pairs' = <<>>
       ELSE /\ pc' = "Failed" /\ posts' = 0
            /\ UNCHANGED <<calls, arm, tries, attempt, pairs>>

(* The instance is done; the next one is asked, or the answers are judged. *)
(* An ensemble without any answer raises what the last instance raised.    *)
AfterArm(result) ==
    /\ UNCHANGED strategy
    /\ IF arm = Instances /\ pairs \o result = <<>> THEN CallAgain
       ELSE /\ pairs' = pairs \o result /\ posts' = 0
            /\ attempt' = 0 /\ tries' = 1
            /\ arm' = IF arm < Instances THEN arm + 1 ELSE arm
            /\ pc' = IF arm < Instances THEN "Post"
                     ELSE IF Instances = 1 THEN "Improved" ELSE "Aggregate"
            /\ outcome' = IF pc' = "Improved" THEN pairs'[1] ELSE None
            /\ UNCHANGED calls

(* An answer that parses.                                                  *)
Propose ==
    /\ pc = "Post"
    /\ \E a \in Proposals : AfterArm(<<Pair(HarnessOf(a), DeltaOf(a))>>)

(* A text without JSON, or JSON that does not parse: nothing is changed.   *)
Unparsed ==
    /\ pc = "Post"
    /\ AfterArm(<<Pair(Baseline, NoDelta)>>)

(* A status that is not retried, or an answer of another shape: the rules. *)
FallBack ==
    /\ pc = "Post"
    /\ AfterArm(<<RulePair>>)

Transient ==
    /\ pc = "Post"
    /\ IF attempt + 1 < MaxRetries
       THEN /\ attempt' = attempt + 1
            /\ posts' = posts + 1
            /\ UNCHANGED <<strategy, pc, calls, arm, tries, pairs, outcome>>
       ELSE AfterArm(<<RulePair>>)

(* A field that is no text, or no number: the parser raises a TypeError,   *)
(* and the ensemble asks the instance again, four times in all.            *)
TypeError ==
    /\ pc = "Post"
    /\ IF tries < 4
       THEN /\ tries' = tries + 1 /\ attempt' = 0 /\ posts' = posts + 1
            /\ UNCHANGED <<strategy, pc, calls, arm, pairs, outcome>>
       ELSE AfterArm(<<>>)
-----------------------------------------------------------------------------
Values(f) == [k \in DOMAIN pairs |-> pairs[k].delta[f]]
IsNoop(v) == v \in {None, FALSE}
CountOf(f, v) == Cardinality({k \in DOMAIN pairs : pairs[k].delta[f] = v})
Contenders(f) == {v \in Range(Values(f)) : \A w \in Range(Values(f)) : CountOf(f, w) <= CountOf(f, v)}
FirstOf(f, S) == LET k == CHOOSE k \in DOMAIN pairs : Values(f)[k] \in S /\
                              \A l \in DOMAIN pairs : Values(f)[l] \in S => k <= l
                 IN Values(f)[k]

(* The value of a field with the most votes; of several with as many, the  *)
(* first that changes something.                                           *)
Winner(f) ==
    LET best == Contenders(f)
        changes == {v \in best : ~IsNoop(v)}
    IN IF Cardinality(best) > 1 /\ changes # {} THEN FirstOf(f, changes) ELSE FirstOf(f, best)

Winners == [f \in Fields |-> Winner(f)]

Matches(k, winners) == Cardinality({f \in Fields : pairs[k].delta[f] = winners[f]})

(* The first instance that matches most winners.                           *)
BestArm(winners) ==
    LET n == [k \in DOMAIN pairs |-> Matches(k, winners)]
    IN CHOOSE k \in DOMAIN pairs : \A l \in DOMAIN pairs : n[l] <= n[k] /\ (n[l] = n[k] => k <= l)

(* The candidates are scored one after the other; the first of the best.   *)
BestScored(scores) ==
    CHOOSE k \in DOMAIN scores :
       \A l \in DOMAIN scores : scores[l] <= scores[k] /\ (scores[l] = scores[k] => k <= l)

(* A budget that cannot be counted makes the vote raise a TypeError, and   *)
(* the loop calls the whole ensemble again.                                *)
Uncountable == strategy = "vote" /\ \E k \in DOMAIN pairs : pairs[k].delta.budget = Unhashable

Voted ==
    LET winners == Winners
    IN Pair(IF \A f \in Fields : IsNoop(winners[f]) THEN Baseline ELSE pairs[BestArm(winners)].harness,
            winners)

Aggregate ==
    /\ pc = "Aggregate"
    /\ UNCHANGED strategy
    /\ IF Uncountable THEN CallAgain
       ELSE /\ pc' = "Improved" /\ UNCHANGED posts
            /\ \/ strategy = "vote" /\ outcome' = Voted
               \/ /\ strategy = "parallel"
                  /\ \E scores \in [DOMAIN pairs -> Scores] : outcome' = pairs[BestScored(scores)]
            /\ UNCHANGED <<calls, arm, tries, attempt, pairs>>

Step ==
    \/ Propose \/ Unparsed \/ FallBack \/ Transient \/ TypeError \/ Aggregate

Next == Step

Spec == Init /\ [][Next]_vars
-----------------------------------------------------------------------------
(***************************************************************************)
(* An improvement is paid with a bounded number of posts, whatever the     *)
(* models answer: the loop calls the ensemble at most four times, which    *)
(* calls each instance at most four times, each with its retries.          *)
(***************************************************************************)
PostsBounded == calls <= 4 /\ arm <= Instances /\ posts <= 4 * MaxRetries

(* A value that more than half of the answers agree on is in the delta,    *)
(* and when one answer agrees with the vote in everything, the harness is  *)
(* one whose delta is the delta of the vote.                               *)
MajorityRules ==
    pc = "Improved" /\ strategy = "vote" /\ Instances > 1 =>
        /\ \A f \in Fields : \A k \in DOMAIN pairs :
              2 * CountOf(f, pairs[k].delta[f]) > Len(pairs) => outcome.delta[f] = pairs[k].delta[f]
        /\ (\E k \in DOMAIN pairs : pairs[k].delta = outcome.delta) =>
              \/ \E k \in DOMAIN pairs : pairs[k] = outcome
              \/ outcome = Pair(Baseline, NoDelta)
=============================================================================
