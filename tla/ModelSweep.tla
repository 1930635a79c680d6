------------------------------ MODULE ModelSweep ------------------------------
(***************************************************************************)
(* The comparison of models (llm/models.py): clients are registered under  *)
(* ids and aliases, a sweep asks each model of a list for each problem,    *)
(* and the medians of the scores are ranked for a leaderboard.             *)
(***************************************************************************)
EXTENDS Integers, Sequences, FiniteSets, Functions

CONSTANTS
    Names,         \* model ids and aliases, which are the same kind of string
    Clients,
    Provided,      \* those that are registered with a provider
    Scores,        \* p_scores of executed code
    Problems,      \* how many there are
    Lists,         \* lists of models that sweeps are asked for, besides the
                   \* registry's own
    MaxOps, MaxSweeps,   \* bounds of the model
    None

VARIABLES
    clients,       \* _clients, in the order of registration: id -> client
    order,         \* the order of its keys
    aliases,       \* _aliases: name -> id, or None
    group,         \* _provider_groups of the provider
    todo,          \* the models that the sweep has yet to ask, or None
    asked,         \* the model that it asks: [id, client, scores, errors], or None
    results,       \* those it asked, in the order of the results' keys
    ranks,         \* id -> place in the ranking, from 0, or None
    ops, sweeps

modelVars ==
    <<clients, order, aliases, group, todo, asked, results, ranks, ops, sweeps>>

ValidModels ==
    /\ Problems \in Nat \ {0} /\ Scores \subseteq Nat /\ Provided \subseteq Clients
    /\ Lists \subseteq Seq(Names) /\ None \notin Names \cup Clients \cup Nat
-----------------------------------------------------------------------------
(* get: an alias comes before an id of the same name.                      *)
Resolved(name) == IF aliases[name] # None THEN aliases[name] ELSE name

Known(name) == clients[name] # None \/ aliases[name] # None

(* list_models of the provider, in which an id is as often as it was       *)
(* registered, or of all.                                                  *)
Listed == {group, order}

(* A bug: the models are ranked by their last score.                       *)
MutantMedian(scores) == 2 * scores[Len(scores)]

(* How many stand before the kth in a stable sort.                         *)
Before(values, k) ==
    Cardinality({j \in DOMAIN values :
                    values[j] < values[k] \/ (values[j] = values[k] /\ j < k)})

Nth(values, n) == values[CHOOSE k \in DOMAIN values : Before(values, k) = n - 1]

(* _aggregate_p_score: the median, doubled.                                *)
Median(scores) ==
    LET n == Len(scores)
    IN  IF n % 2 = 0 THEN Nth(scores, n \div 2) + Nth(scores, n \div 2 + 1)
        ELSE 2 * Nth(scores, n \div 2 + 1)

(* _rank_normalize: a stable sort by the median, so that of equals the one *)
(* that was asked first is ranked lower.                                   *)
RankOf(k) == Before([j \in DOMAIN results |-> Median(results[j].scores)], k)

At(id) == CHOOSE k \in DOMAIN results : results[k].id = id

(* print_table: by rank, the best first.                                   *)
Table ==
    [n \in DOMAIN results |->
        (CHOOSE k \in DOMAIN results : ranks[results[k].id] = Len(results) - n)]

(* top_k by its default key, "p_score", which no normalised score has: all *)
(* keys are 0, and the order is that of the sweep.                         *)
TopK(k) == SubSeq([n \in DOMAIN results |-> n], 1, k)
-----------------------------------------------------------------------------
Init ==
    /\ clients = [n \in Names |-> None] /\ order = <<>>
    /\ aliases = [n \in Names |-> None] /\ group = <<>>
    /\ todo = None /\ asked = None /\ results = <<>>
    /\ ranks = [n \in Names |-> None] /\ ops = 0 /\ sweeps = 0

Idle == todo = None /\ ops < MaxOps

Register(id, client) ==
    /\ Idle /\ ops' = ops + 1
    /\ clients' = [clients EXCEPT ![id] = client]
    /\ order' = IF clients[id] = None THEN Append(order, id) ELSE order
    /\ group' = IF client \in Provided THEN Append(group, id) ELSE group
    /\ UNCHANGED <<aliases, todo, asked, results, ranks, sweeps>>

(* An alias of what is no id raises, even of an alias.                     *)
Alias(name, id) ==
    /\ Idle /\ ops' = ops + 1 /\ clients[id] # None
    /\ aliases' = [aliases EXCEPT ![name] = id]
    /\ UNCHANGED <<clients, order, group, todo, asked, results, ranks, sweeps>>

(* run_sweep.                                                              *)
StartSweep ==
    /\ todo = None /\ sweeps < MaxSweeps /\ sweeps' = sweeps + 1
    /\ todo' \in Lists \cup Listed
    /\ results' = <<>> /\ ranks' = [n \in Names |-> None]
    /\ UNCHANGED <<clients, order, aliases, group, asked, ops>>

SkipModel ==
    /\ todo \notin {None, <<>>} /\ asked = None /\ ~Known(Head(todo))
    /\ todo' = Tail(todo)
    /\ UNCHANGED <<clients, order, aliases, group, asked, results, ranks, ops,
                   sweeps>>

AskModel ==
    /\ todo \notin {None, <<>>} /\ asked = None /\ Known(Head(todo))
    /\ asked' = [id |-> Head(todo), client |-> clients[Resolved(Head(todo))],
                 scores |-> <<>>, errors |-> 0, verdicts |-> 0]
    /\ todo' = Tail(todo)
    /\ UNCHANGED <<clients, order, aliases, group, results, ranks, ops, sweeps>>

(* One problem: a client that raises leaves a result of score 0 that no    *)
(* verdict is counted of.                                                  *)
Solve ==
    /\ asked # None /\ Len(asked.scores) < Problems
    /\ \/ asked' = [asked EXCEPT !.scores = Append(@, 0), !.errors = @ + 1]
       \/ \E s \in Scores :
            asked' = [asked EXCEPT !.scores = Append(@, s), !.verdicts = @ + 1]
    /\ UNCHANGED <<clients, order, aliases, group, todo, results, ranks, ops,
                   sweeps>>

(* A model that is asked again replaces its results and keeps its place.   *)
CloseModel ==
    /\ asked # None /\ Len(asked.scores) = Problems
    /\ results' =
        IF \E k \in DOMAIN results : results[k].id = asked.id
        THEN [results EXCEPT ![At(asked.id)] = asked] ELSE Append(results, asked)
    /\ asked' = None
    /\ UNCHANGED <<clients, order, aliases, group, todo, ranks, ops, sweeps>>

Normalize ==
    /\ todo = <<>> /\ asked = None
    /\ ranks' =
        [n \in Names |->
            IF \E k \in DOMAIN results : results[k].id = n THEN RankOf(At(n)) ELSE None]
    /\ todo' = None
    /\ UNCHANGED <<clients, order, aliases, group, asked, results, ops, sweeps>>

Next ==
    \/ \E n \in Names, c \in Clients : Register(n, c)
    \/ \E n, id \in Names : Alias(n, id)
    \/ StartSweep \/ SkipModel \/ AskModel \/ Solve \/ CloseModel \/ Normalize

Spec == Init /\ [][Next]_modelVars
-----------------------------------------------------------------------------
(* An alias always has a client, so that a model that is known can be      *)
(* asked; a client that is registered under the name of an alias is only   *)
(* reached through other aliases, and a client may be asked under several  *)
(* names.                                                                  *)
AliasesLead ==
    /\ \A n \in Names : Known(n) => clients[Resolved(n)] # None
    /\ asked # None => asked.client \in Clients

(* Every model that was asked is ranked once, each on a place of its own,  *)
(* the table goes down the medians, and the first of top_k is the first    *)
(* that was asked, wherever it is in the table.                            *)
RanksSound ==
    LET ids == {results[k].id : k \in DOMAIN results}
        ranked == {n \in Names : ranks[n] # None}
    IN  ranked # {} =>
            /\ ranked = ids /\ Cardinality(ids) = Len(results)
            /\ {ranks[n] : n \in ids} = 0..(Len(results) - 1)
            /\ \A i, j \in DOMAIN Table :
                 i < j => ~\A n \in 1 .. Problems :
                             Nth(results[Table[i]].scores, n) < Nth(results[Table[j]].scores, n)
            /\ results[TopK(1)[1]].id = results[1].id

(* What raised and what was judged are all the problems.                   *)
ProblemsCounted ==
    \A k \in DOMAIN results :
        /\ results[k].errors + results[k].verdicts = Problems
        /\ Len(results[k].scores) = Problems

ModelsSound == AliasesLead /\ RanksSound /\ ProblemsCounted
=============================================================================
