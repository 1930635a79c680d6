----------------------------- MODULE KernelEvents -----------------------------
(***************************************************************************)
(* What a kernel says of its run (kernels/base.py): every event is counted *)
(* and written to the debug log, a mute knob and a sampling knob thin the  *)
(* live bus, and a snapshot from time to time tells how many raw events it *)
(* stands for.  TSPKernel has an __init__ of its own, which sets none of   *)
(* the fields of the knobs and of the snapshot (tsp_kernel/loop.py).       *)
(***************************************************************************)
EXTENDS Integers, FiniteSets

CONSTANTS
    Generations,   \* config.generations
    Wave,          \* the candidates of a generation
    Islands,       \* the number of islands
    SampleN,       \* AUTOBENCH_KERNEL_SAMPLE_N
    MinInterval,   \* _snapshot_min_interval_s, in ticks
    GaugeEvery     \* a budget gauge every so many generations: 5 in the code

VARIABLES
    kernel,        \* "base", or "tsp" with an __init__ of its own
    muted,         \* whether one of the DISABLE_PIPE variables is set
    stage,         \* what run() does next
    gens,          \* self.generation
    tally,         \* _snapshot_event_count
    since,         \* ticks since _snapshot_last_emit, up to MinInterval
    sampled,       \* channel -> _sample_counters
    logged,        \* channel -> its events in the debug log
    live,          \* channel -> its events given to the live bus
    told           \* the event_counts of the snapshots, summed (history)

eventVars ==
    <<kernel, muted, stage, gens, tally, since, sampled, logged, live, told>>
-----------------------------------------------------------------------------
(* The channels of a run, as _unify_kernel_channel names them: those of    *)
(* _should_sample, the rest of the kernel's own, and the others.           *)

Thinned == {"candidate", "health"}

Raw ==
    Thinned \cup
    {"started", "prior", "generation", "improved", "reset", "hint", "completed"}

Channels == Raw \cup {"gauge", "snapshot"}

Silence == [c \in Channels |-> 0]

(* What __init__ reads from the environment.  A class with one of its own  *)
(* leaves _publish with the defaults of its getattr.                       *)
Mute == kernel = "base" /\ muted

SampleEvery == IF kernel = "base" THEN SampleN ELSE 1

(* _should_sample, for the next event of a channel that saw so many.       *)
Forwards(channel, seen) ==
    SampleEvery <= 1 \/ channel \notin Thinned \/ (seen + 1) % SampleEvery = 0

(* Of the next n events of a channel, those that go to the live bus.       *)
Forwarded(channel, n) ==
    IF Mute THEN 0
    ELSE Cardinality({k \in 1..n : Forwards(channel, sampled[channel] + k - 1)})

(* What _publish adds to the event count: the raw events, no summaries.    *)
Tallied(events) ==
    events["candidate"] + events["health"] + events["started"] + events["prior"]
    + events["generation"] + events["improved"] + events["reset"] + events["hint"]
    + events["completed"]

(* _publish of events, which maps a channel to their number: the log, the  *)
(* live bus, and the counters of the channels that are thinned.            *)
Publish(events) ==
    /\ logged' = [c \in Channels |-> logged[c] + events[c]]
    /\ live' = [c \in Channels |-> live[c] + Forwarded(c, events[c])]
    /\ sampled' =
        [c \in Channels |->
            IF c \in Thinned /\ SampleEvery > 1 /\ ~Mute
            THEN sampled[c] + events[c] ELSE sampled[c]]

(* Publish with nothing but its count.                                     *)
Tell(events) ==
    /\ Publish(events)
    /\ tally' = tally + Tallied(events)
    /\ UNCHANGED <<since, told>>

Init ==
    /\ kernel \in {"base", "tsp"} /\ muted \in BOOLEAN
    /\ stage = "start" /\ gens = 0 /\ tally = 0
    /\ since = MinInterval
    /\ sampled = Silence /\ logged = Silence /\ live = Silence /\ told = 0

(* initialize: a prior that was loaded, and the start of the run.          *)
Start ==
    /\ stage = "start" /\ stage' = "top"
    /\ \E prior \in IF kernel = "base" THEN 0..1 ELSE {0} :
        Tell([Silence EXCEPT !["started"] = 1, !["prior"] = prior])
    /\ UNCHANGED <<kernel, muted, gens>>

(* The candidates of a wave.  Those that raised are not told of, nor, by   *)
(* _publish_candidate, those that scored nothing.  Time passes.            *)
Candidates ==
    /\ stage = "top" /\ gens < Generations /\ stage' = "scored"
    /\ \E n \in 0..Wave, ticks \in 0..MinInterval :
        /\ Publish([Silence EXCEPT !["candidate"] = n])
        /\ tally' = tally + n
        /\ since' = IF since + ticks < MinInterval THEN since + ticks ELSE MinInterval
    /\ UNCHANGED <<kernel, muted, gens, told>>

(* _publish_snapshot: due when the interval is over.                       *)
SnapshotDue == since >= MinInterval

(* A bug: the count starts again although the snapshot was not due.        *)
MutantReport ==
    /\ stage = "scored" /\ stage' = "judged" /\ gens' = gens + 1
    /\ \E gauge, improved \in 0..1 :
        LET before == [Silence EXCEPT !["generation"] = 1, !["health"] = Islands]
            after == [Silence EXCEPT !["improved"] = improved]
        IN  /\ Publish([before EXCEPT
                !["snapshot"] = IF SnapshotDue THEN 1 ELSE 0,
                !["gauge"] = gauge, !["improved"] = improved])
            /\ tally' = Tallied(after)
            /\ told' = IF SnapshotDue THEN told + tally + Tallied(before) ELSE told
            /\ since' = IF SnapshotDue THEN 0 ELSE since
    /\ UNCHANGED <<kernel, muted>>

(* The end of step(): the generation, the health of every island, the      *)
(* snapshot, then the gauge of a run with a request budget and a better    *)
(* best.  Without a best program, which seeds always give, it is silent.   *)
Report ==
    /\ stage = "scored" /\ stage' = "judged" /\ gens' = gens + 1
    /\ \E gauge \in IF gens % GaugeEvery = 0 THEN 0..1 ELSE {0}, improved \in 0..1 :
        LET before == [Silence EXCEPT !["generation"] = 1, !["health"] = Islands]
            after == [Silence EXCEPT !["improved"] = improved]
            count == tally + Tallied(before)
        IN  /\ Publish([before EXCEPT
                !["snapshot"] = IF SnapshotDue THEN 1 ELSE 0,
                !["gauge"] = gauge, !["improved"] = improved])
            /\ IF SnapshotDue
               THEN told' = told + count /\ tally' = Tallied(after) /\ since' = 0
               ELSE tally' = count + Tallied(after) /\ UNCHANGED <<told, since>>
    /\ UNCHANGED <<kernel, muted>>

(* run() after a step: at the midpoint of a plateau the reset, and a hint  *)
(* if one is asked for and given.                                          *)
Judge ==
    /\ stage = "judged" /\ stage' = "top"
    /\ \E reset \in 0..1 : \E hint \in 0..reset :
        Tell([Silence EXCEPT !["reset"] = reset, !["hint"] = hint])
    /\ UNCHANGED <<kernel, muted, gens>>

(* The end of the run, at the cap or at a horizon.                         *)
Complete ==
    /\ stage = "top" /\ stage' = "done"
    /\ \E prior \in IF kernel = "base" THEN 0..1 ELSE {0} :
        Tell([Silence EXCEPT !["completed"] = 1, !["prior"] = prior])
    /\ UNCHANGED <<kernel, muted, gens>>

Done == stage = "done" /\ UNCHANGED eventVars

Next == Start \/ Candidates \/ Report \/ Judge \/ Complete \/ Done

ValidEvents ==
    /\ {Generations, Wave} \subseteq Nat
    /\ {Islands, SampleN, MinInterval, GaugeEvery} \subseteq Nat \ {0}
-----------------------------------------------------------------------------
(* The snapshots, rate-limited as they are, leave no event of the kernel   *)
(* out: those they told of and those yet to be told of are the log.        *)
EventsAccounted == told + tally = Tallied(logged)

(* The knobs thin the live bus of the channels they are for and nothing    *)
(* else: lifecycle events all arrive unless the bus is muted, and the log  *)
(* is complete whatever they are.  TSPKernel does not heed them.           *)
LiveIsThinned ==
    \A c \in Channels :
        live[c] = IF Mute THEN 0
                  ELSE IF c \in Thinned THEN logged[c] \div SampleEvery ELSE logged[c]

(* What the bus and the log say of a run agree.                            *)
EventsSound == EventsAccounted /\ LiveIsThinned
=============================================================================
