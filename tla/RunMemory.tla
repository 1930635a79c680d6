------------------------------ MODULE RunMemory ------------------------------
(***************************************************************************)
(* What passes from a run of a kernel to the next: the laps that deployed  *)
(* pilots drove, from the episode stream, which set the bar of the tracks  *)
(* (racing_kernel/loop_feedback.py, from RacingKernel.__init__), and the   *)
(* programs that the ConsolidatedPrior of kernels/base.py keeps in a file. *)
(***************************************************************************)
EXTENDS Integers, Sequences, FiniteSets

CONSTANTS
    Tracks,        \* the instances, one for each island
    Synthetic,     \* track -> the reference lap of generate_instance
    Programs,      \* told apart by their code_hash
    Lap,           \* program -> the lap it drives, on any track
    Style,         \* program -> what smoothness, track and rhythm are worth to it
    Episodes,      \* what may be on the stream
    ScanCount,     \* count
    TopK,          \* config.prior_top_k
    MaxEpisodes, MaxRuns, MaxCrashes,   \* bounds of the model
    Garbage,       \* a line of the file that does not parse
    None

VARIABLES
    stream,        \* tengine.race.episode.v1, the newest last
    runs,          \* how many runs were started
    stage,         \* "idle", "searching" or "saving"
    ref,           \* track -> ref_lap_time_s of the instance of this run
    pool,          \* the programs measured in this run: program, track, fitness
    todo,          \* those of them that are to be appended to the prior
    file,          \* prior.jsonl
    torn,          \* whether its last line lacks an end
    memory,        \* _entries
    written,       \* the lines that append wrote out whole (history)
    crashes        \* how many runs died while saving (history)

memoryVars ==
    <<stream, runs, stage, ref, pool, todo, file, torn, memory, written, crashes>>
-----------------------------------------------------------------------------
Smallest(S) == CHOOSE n \in S : \A m \in S : n <= m

(* The nth of a set of places in a sequence.                               *)
Nth(places, n) ==
    CHOOSE k \in places : Cardinality({j \in places : j <= k}) = n

(* consume_ai_brain_episodes: the laps of deployed brains that were ended, *)
(* for the track of that name or else of that seed.                        *)
Resolved(e) ==
    IF e.id \in Tracks THEN e.id ELSE IF e.seed \in Tracks THEN e.seed ELSE None

Qualifies(e) == e.pilot = "ai_brain" /\ e.completed /\ e.lap > 0

(* XREVRANGE: the newest entries.                                          *)
Scanned == {stream[k] : k \in {n \in DOMAIN stream : n > Len(stream) - ScanCount}}

(* recalibrate_instances_from_episodes: only ever faster.                  *)
Calibrated(entries) ==
    [t \in Tracks |->
        LET laps == {e \in entries : Qualifies(e) /\ Resolved(e) = t}
        IN  Smallest({Synthetic[t]} \cup {e.lap : e \in laps})]

(* The speed term, which rises with ref_lap / lap and is full at the bar.  *)
Speed(p, bar) == IF Lap[p] <= bar THEN 10 ELSE (10 * bar) \div Lap[p]

(* The fitness in hundredths: 40 of them are for the speed, and the bar    *)
(* has no part in the others.                                              *)
Score(p, bar) == 4 * Speed(p, bar) + Style[p]

(* ConsolidatedPrior.load: of each hash the first line; those that do not  *)
(* parse are left out.                                                     *)
Loaded(lines) ==
    LET First(k) == \A j \in 1..(k - 1) :
                        lines[j] = Garbage \/ lines[j].program # lines[k].program
        kept == {k \in DOMAIN lines : lines[k] # Garbage /\ First(k)}
    IN  [n \in 1..Cardinality(kept) |-> lines[Nth(kept, n)]]
-----------------------------------------------------------------------------
Init ==
    /\ stream = <<>> /\ runs = 0 /\ stage = "idle" /\ ref = Synthetic /\ pool = {}
    /\ todo = <<>> /\ file = <<>> /\ torn = FALSE /\ memory = <<>>
    /\ written = 0 /\ crashes = 0

(* External: the engine reports an episode.                                *)
Episode ==
    /\ Len(stream) < MaxEpisodes
    /\ \E e \in Episodes : stream' = Append(stream, e)
    /\ UNCHANGED <<runs, stage, ref, pool, todo, file, torn, memory, written,
                   crashes>>

(* __init__ and initialize.  Without an answer of Redis there is nothing   *)
(* to learn, and the synthetic laps are the bar again.                     *)
Start ==
    /\ stage = "idle" /\ runs < MaxRuns
    /\ stage' = "searching" /\ runs' = runs + 1
    /\ \E entries \in {Scanned, {}} : ref' = Calibrated(entries)
    /\ memory' = Loaded(file)
    /\ pool' = {}
    /\ UNCHANGED <<stream, todo, file, torn, written, crashes>>

(* A bug: the bar follows the episodes while the search goes on.           *)
MutantMeasure ==
    /\ stage = "searching"
    /\ \E p \in Programs, t \in Tracks :
        /\ \A m \in pool : m.program # p \/ m.track # t
        /\ pool' = pool \cup
            {[program |-> p, track |-> t, fitness |-> Score(p, Calibrated(Scanned)[t])]}
    /\ UNCHANGED <<stream, runs, stage, ref, todo, file, torn, memory, written,
                   crashes>>

(* evaluate_fitness: once, on the track of the island.                     *)
Measure ==
    /\ stage = "searching"
    /\ \E p \in Programs, t \in Tracks :
        /\ \A m \in pool : m.program # p \/ m.track # t
        /\ pool' = pool \cup {[program |-> p, track |-> t, fitness |-> Score(p, ref[t])]}
    /\ UNCHANGED <<stream, runs, stage, ref, todo, file, torn, memory, written,
                   crashes>>

(* The end of run(): of the first prior_top_k of all programs, those that  *)
(* score and whose hash was not seen before.                               *)
Ended ==
    /\ stage = "searching" /\ stage' = "saving"
    /\ \E order \in [1..Cardinality(pool) -> pool] :
        /\ pool = {order[k] : k \in DOMAIN order}
        /\ \A i, j \in DOMAIN order : i < j => order[i].fitness >= order[j].fitness
        /\ LET Fresh(k) == \A j \in 1..(k - 1) : order[j].program # order[k].program
               kept == {k \in DOMAIN order :
                           k <= TopK /\ order[k].fitness > 0 /\ Fresh(k)}
           IN  todo' = [n \in 1..Cardinality(kept) |-> order[Nth(kept, n)]]
    /\ UNCHANGED <<stream, runs, ref, pool, file, torn, memory, written,
                   crashes>>

(* append: in memory and at the end of the file.  What follows a line that *)
(* lacks its end becomes part of it.                                       *)
Save ==
    /\ stage = "saving" /\ todo # <<>>
    /\ todo' = Tail(todo)
    /\ memory' = Append(memory, Head(todo))
    /\ IF torn
       THEN file' = [file EXCEPT ![Len(file)] = Garbage]
       ELSE file' = Append(file, Head(todo))
    /\ torn' = FALSE /\ written' = written + 1
    /\ UNCHANGED <<stream, runs, stage, ref, pool, crashes>>

Completed ==
    /\ stage = "saving" /\ todo = <<>> /\ stage' = "idle"
    /\ UNCHANGED <<stream, runs, ref, pool, todo, file, torn, memory, written,
                   crashes>>

(* The process dies, at its worst in the middle of a line.                 *)
Crash ==
    /\ stage = "saving" /\ crashes < MaxCrashes
    /\ stage' = "idle" /\ crashes' = crashes + 1 /\ todo' = <<>>
    /\ IF todo # <<>> /\ ~torn
       THEN file' = Append(file, Garbage) /\ torn' = TRUE
       ELSE UNCHANGED <<file, torn>>
    /\ UNCHANGED <<stream, runs, ref, pool, memory, written>>

Next == Episode \/ Start \/ Measure \/ Ended \/ Save \/ Completed \/ Crash

ValidMemory ==
    /\ \A p \in Programs : Lap[p] \in Nat \ {0} /\ Style[p] \in 0..60
    /\ Synthetic \in [Tracks -> Nat \ {0}]
    /\ \A e \in Episodes : e.lap \in Nat /\ e.completed \in BOOLEAN
    /\ \A e \in Episodes : Resolved(e) \in {e.track, None}
    /\ None \notin Tracks
    /\ Garbage \notin [program : Programs, track : Tracks, fitness : Nat]
    /\ ScanCount \in Nat /\ TopK \in Nat /\ MaxCrashes \in Nat

Spec == Init /\ [][Next]_memoryVars
-----------------------------------------------------------------------------
(* The bar of a run is its own: whatever comes in on the stream meanwhile, *)
(* of two programs measured on a track the slower one may well score       *)
(* higher, but by no more than its line is the better one: its speed never *)
(* counts for more.                                                        *)
Comparable ==
    \A a, b \in pool :
        (a.track = b.track /\ Lap[a.program] >= Lap[b.program]) =>
            a.fitness - b.fitness <= Style[a.program] - Style[b.program]

(* A bar is never above the synthetic one, and below it only with a lap    *)
(* that a deployed brain really drove on that track.                       *)
BarHonest ==
    \A t \in Tracks :
        /\ ref[t] <= Synthetic[t]
        /\ ref[t] < Synthetic[t] =>
            \E k \in DOMAIN stream :
                stream[k].pilot = "ai_brain" /\ stream[k].completed
                /\ stream[k].track = t /\ stream[k].lap = ref[t]

(* A crash in the middle of a line costs that line and the next one, and   *)
(* no other line: the rest of the prior is there for the next run.         *)
LossBounded ==
    /\ Cardinality({k \in DOMAIN file : file[k] # Garbage}) >= written - crashes
    /\ {file[k].program : k \in {n \in DOMAIN file : file[n] # Garbage}}
       = {Loaded(file)[n].program : n \in DOMAIN Loaded(file)}

MemorySound == Comparable /\ BarHonest /\ LossBounded
=============================================================================
