------------------------------ MODULE Curriculum ------------------------------
(***************************************************************************)
(* Curriculum cycles (evaluation/curriculum.py): CurriculumScheduler, from *)
(* the daemon and from the command line, and daily_synthesis, which the    *)
(* RSI cycle calls.  Both ask a model for problems, let a judge look at    *)
(* each of them, write a shard of their own and rebuild the file of the    *)
(* day from all shards.  Several of them share a directory without a lock. *)
(*                                                                         *)
(* A cycle is named after the second in which it starts.                   *)
(***************************************************************************)
EXTENDS RateBudget

CONSTANTS
    Procs,        \* the processes
    N,            \* the problems a cycle asks for
    MaxAttempts,  \* max_attempts of synthesize_problems
    Answers,      \* what the generator may answer: sequences of rows, or Raised, Garbled
    Replies,      \* what the judge may answer
    Raised, Garbled, None,
    MaxTime,      \* bound: the clock
    MaxCycles,    \* bound: cycles that are started
    MaxCrashes    \* bound: processes that die

(* Rows of an answer: a problem, or what _parse_problems rejects.          *)
RowKinds == {"good", "blank", "not_an_object", "missing_required_keys", "field_validation_error"}

(* What the constants may be; the MC module assumes it.                     *)
ValidCurriculum ==
    /\ IsFiniteSet(Procs)
    /\ N \in Nat \ {0} /\ MaxAttempts \in Nat \ {0}
    /\ \A a \in Answers : a \in {Raised, Garbled} \/ a \in Seq(RowKinds)
    /\ \A r \in Replies : r \in {Raised, Garbled} \/
          r \in [solvable : BOOLEAN, matches : BOOLEAN, same : BOOLEAN,
                 skillsValid : BOOLEAN, disjoint : BOOLEAN]
    /\ MaxTime \in Nat /\ MaxCycles \in Nat /\ MaxCrashes \in Nat

VARIABLES
    daily,     \* the processes run daily_synthesis, and not the scheduler
    clock,
    proc,      \* the control state of each process
    cycle,     \* the cycle a process runs: its id, attempts, rows, verdicts, listing
    stamps,    \* the guard of each process
    judged,    \* when the judge answered each process
    shards,    \* the shard of each cycle: [rows, torn, manifest]
    rollup,    \* the file of the day: None or [rows, torn]
    returned,  \* what daily_synthesis returned last
    cycles, crashes

procVars == <<proc, cycle, stamps, judged>>
disk == <<shards, rollup>>
vars == <<daily, clock, procVars, disk, returned, cycles, crashes>>

Problem == [cycle : 0 .. MaxTime, row : Nat, by : {"ok", "judge_skipped_budget"}]

Steps == {"Idle", "Generate", "Judge", "ShardRows", "ShardManifest", "List", "Roll",
          "Emit", "Dead"}

NoCycle == [id |-> 0, attempt |-> 0, answer |-> <<>>, lost |-> {}, told |-> {}, next |-> 1, kept |-> {},
            listed |-> {}, saved |-> FALSE, alone |-> TRUE]

TypeOK ==
    /\ daily \in BOOLEAN /\ clock \in 0 .. MaxTime
    /\ proc \in [Procs -> Steps]
    /\ \A p \in Procs : cycle[p].attempt \in 0 .. MaxAttempts /\ cycle[p].kept \subseteq Problem
    /\ \A c \in DOMAIN shards : shards[c].rows \subseteq Problem
    /\ rollup = None \/ rollup.rows \subseteq Problem

Init ==
    /\ daily \in BOOLEAN /\ clock = 0
    /\ proc = [p \in Procs |-> "Idle"]
    /\ cycle = [p \in Procs |-> NoCycle]
    /\ stamps = [p \in Procs |-> <<>>] /\ judged = [p \in Procs |-> <<>>]
    /\ shards = <<>> /\ rollup = None
    /\ returned = None
    /\ cycles = 0 /\ crashes = 0

Busy(p) == proc[p] \notin {"Idle", "Dead"}
Saving(p) == proc[p] \in {"ShardRows", "ShardManifest", "List", "Roll"}

Tick ==
    /\ clock < MaxTime
    /\ clock' = clock + 1
    /\ UNCHANGED <<daily, procVars, disk, returned, cycles, crashes>>

(***************************************************************************)
(* run_once, or daily_synthesis when the cache misses.  The id of the      *)
(* cycle is the second in which it starts.                                 *)
(***************************************************************************)
Begin(p) ==
    /\ cycles' = cycles + 1
    /\ proc' = [proc EXCEPT ![p] = "Generate"]
    /\ cycle' = [cycle EXCEPT ![p] = [NoCycle EXCEPT !.id = clock]]
    /\ UNCHANGED <<daily, clock, stamps, judged, disk, crashes>>

RunOnce(p) ==
    /\ ~daily /\ proc[p] = "Idle" /\ cycles < MaxCycles
    /\ Begin(p)
    /\ UNCHANGED returned

(* A file that does not parse to its end is no hit; an empty file is one.  *)
CacheHit == rollup # None /\ ~rollup.torn

DailySynthesis(p) ==
    /\ daily /\ proc[p] = "Idle" /\ cycles < MaxCycles
    /\ \/ /\ CacheHit
          /\ returned' = IF rollup.rows = {} THEN "empty hit" ELSE "problems"
          /\ cycles' = cycles + 1
          /\ UNCHANGED <<daily, clock, procVars, disk, crashes>>
       \/ ~CacheHit /\ Begin(p) /\ UNCHANGED returned
-----------------------------------------------------------------------------
(* _parse_problems: the rows of an answer that are problems; the others    *)
(* are rejected one by one, and an answer that is no array as a whole.     *)
Problems(answer) ==
    IF answer \in {Raised, Garbled} THEN {}
    ELSE {i \in DOMAIN answer : answer[i] \in {"good", "blank"}}

ParseRejections(answer) ==
    IF answer = Raised THEN {}
    ELSE IF answer = Garbled THEN {[row |-> 0, reason |-> "json_decode_error"]}
    ELSE {[row |-> i, reason |-> answer[i]] : i \in DOMAIN answer \ Problems(answer)}

(***************************************************************************)
(* One attempt of synthesize_problems: the first answer with a problem in  *)
(* it ends the attempts.  All rejections are published in the end.         *)
(***************************************************************************)
Generate(p) ==
    /\ proc[p] = "Generate"
    /\ \E answer \in Answers :
        /\ LET found == Problems(answer) # {}
               lost  == cycle[p].lost \cup ParseRejections(answer)
               ends  == found \/ cycle[p].attempt + 1 = MaxAttempts
           IN /\ cycle' = [cycle EXCEPT ![p].attempt = @ + 1, ![p].lost = lost,
                                        ![p].told = IF ends THEN lost ELSE {},
                                        ![p].answer = IF found THEN answer ELSE <<>>]
              /\ proc' = [proc EXCEPT ![p] = IF ends THEN "Judge" ELSE "Generate"]
    /\ UNCHANGED <<daily, clock, stamps, judged, disk, returned, cycles,
                   crashes>>
-----------------------------------------------------------------------------
(* judge_problem: what the judge's answer says of the problem.             *)
Verdict(reply) ==
    IF reply \in {Raised, Garbled} THEN "judge_error"
    ELSE IF ~reply.solvable THEN "judge_unsolvable"
    ELSE IF ~reply.matches /\ ~reply.same THEN "output_mismatch"
    ELSE IF ~reply.skillsValid /\ reply.disjoint THEN "skill_mismatch"
    ELSE "ok"

(* The problems that the light validation leaves, in their order.          *)
ToJudge(p) == {i \in DOMAIN cycle[p].answer : cycle[p].answer[i] = "good"}
Unjudged(p) == {i \in ToJudge(p) : i >= cycle[p].next}

(* The answers that count now: those of the last WindowSeconds.             *)
InWindow(p) == {k \in DOMAIN judged[p] : judged[p][k] + WindowSeconds > clock}

Keep(p, i, by) ==
    cycle' = [cycle EXCEPT ![p].next = i + 1,
                           ![p].kept = @ \cup {[cycle |-> cycle[p].id, row |-> i, by |-> by]}]
Drop(p, i, reason) ==
    cycle' = [cycle EXCEPT ![p].next = i + 1, ![p].told = @ \cup {[row |-> i, reason |-> reason]}]

(***************************************************************************)
(* The judge looks at the next problem.  The scheduler's guard is asked    *)
(* first, and a problem that it leaves no request for is accepted as it    *)
(* is; a call that raises is not recorded.  daily_synthesis has no guard.  *)
(***************************************************************************)
JudgeProblem(p) ==
    /\ proc[p] = "Judge" /\ Unjudged(p) # {}
    /\ LET i == CHOOSE k \in Unjudged(p) : \A l \in Unjudged(p) : k <= l
       IN \/ /\ ~daily /\ ~RateOk(stamps[p], clock)
             /\ Keep(p, i, "judge_skipped_budget")
             /\ stamps' = [stamps EXCEPT ![p] = Pruned(@, clock)]
             /\ UNCHANGED judged
          \/ /\ daily \/ RateOk(stamps[p], clock)
             /\ \E reply \in Replies :
                 /\ IF Verdict(reply) = "ok" THEN Keep(p, i, "ok") ELSE Drop(p, i, Verdict(reply))
                 /\ IF reply = Raised \/ daily
                    THEN UNCHANGED <<stamps, judged>>
                    ELSE /\ stamps' = [stamps EXCEPT ![p] = Recorded(@, clock)]
                         /\ judged' = [judged EXCEPT ![p] = Append(@, clock)]
    /\ UNCHANGED <<daily, clock, proc, disk, returned, cycles, crashes>>

(* What a cycle still needs when its problems are judged.                  *)
Saved(c, alone) == [NoCycle EXCEPT !.id = c.id, !.kept = c.kept, !.alone = alone]

(***************************************************************************)
(* The last problem is judged.  daily_synthesis writes nothing when none   *)
(* is left; the scheduler saves an empty shard.  Opening a shard empties   *)
(* the one of a cycle with the same id.                                    *)
(***************************************************************************)
OpenShard(p) ==
    /\ proc[p] = "Judge" /\ Unjudged(p) = {}
    /\ IF daily /\ cycle[p].kept = {}
       THEN /\ proc' = [proc EXCEPT ![p] = "Emit"]
            /\ cycle' = [cycle EXCEPT ![p] = Saved(@, TRUE)]
            /\ UNCHANGED shards
       ELSE LET others == {q \in Procs \ {p} : Saving(q) \/ proc[q] = "Emit"}
                id     == cycle[p].id
            IN /\ proc' = [proc EXCEPT ![p] = "ShardRows"]
               /\ cycle' = [q \in Procs |-> IF q = p THEN Saved(cycle[p], others = {})
                                            ELSE IF q \in others THEN [cycle[q] EXCEPT !.alone = FALSE]
                                            ELSE cycle[q]]
               /\ shards' = [c \in DOMAIN shards \cup {id} |->
                                IF c # id THEN shards[c]
                                ELSE [rows |-> {}, torn |-> FALSE,
                                      manifest |-> c \in DOMAIN shards /\ shards[c].manifest]]
    /\ UNCHANGED <<daily, clock, stamps, judged, rollup, returned, cycles,
                   crashes>>

(* A buffer of the shard reaches the disk, with half a row at its end.     *)
FlushShard(p) ==
    /\ proc[p] = "ShardRows" /\ cycle[p].kept # {}
    /\ shards' = [shards EXCEPT ![cycle[p].id].torn = TRUE]
    /\ UNCHANGED <<daily, clock, procVars, rollup, returned, cycles, crashes>>

CloseShard(p) ==
    /\ proc[p] = "ShardRows"
    /\ shards' = [shards EXCEPT ![cycle[p].id].rows = cycle[p].kept, ![cycle[p].id].torn = FALSE]
    /\ proc' = [proc EXCEPT ![p] = IF daily THEN "List" ELSE "ShardManifest"]
    /\ UNCHANGED <<daily, clock, cycle, stamps, judged, rollup, returned,
                   cycles, crashes>>

WriteManifest(p) ==
    /\ proc[p] = "ShardManifest"
    /\ shards' = [shards EXCEPT ![cycle[p].id].manifest = TRUE]
    /\ proc' = [proc EXCEPT ![p] = "List"]
    /\ UNCHANGED <<daily, clock, cycle, stamps, judged, rollup, returned,
                   cycles, crashes>>

(* The shards are listed, then the file of the day is opened and emptied.  *)
ListShards(p) ==
    /\ proc[p] = "List"
    /\ cycle' = [cycle EXCEPT ![p].listed = DOMAIN shards]
    /\ rollup' = [rows |-> {}, torn |-> FALSE]
    /\ proc' = [proc EXCEPT ![p] = "Roll"]
    /\ UNCHANGED <<daily, clock, stamps, judged, shards, returned, cycles,
                   crashes>>

(* One shard after the other is copied, with the half row a crash left.    *)
CopyShard(p) ==
    /\ proc[p] = "Roll" /\ cycle[p].listed # {}
    /\ LET c == CHOOSE c \in cycle[p].listed : \A d \in cycle[p].listed : c <= d
       IN /\ rollup' = [rows |-> rollup.rows \cup shards[c].rows,
                        torn |-> rollup.torn \/ shards[c].torn]
          /\ cycle' = [cycle EXCEPT ![p].listed = @ \ {c}]
    /\ UNCHANGED <<daily, clock, proc, stamps, judged, shards, returned, cycles,
                   crashes>>

CloseRollup(p) ==
    /\ proc[p] = "Roll" /\ cycle[p].listed = {}
    /\ proc' = [proc EXCEPT ![p] = "Emit"]
    /\ cycle' = [cycle EXCEPT ![p].saved = TRUE]
    /\ UNCHANGED <<daily, clock, stamps, judged, disk, returned, cycles,
                   crashes>>

(* A write fails: daily_synthesis goes on without a cache, the cycle of    *)
(* the scheduler ends there, and the daemon waits for the next day.        *)
WriteFails(p) ==
    /\ Saving(p)
    /\ proc' = [proc EXCEPT ![p] = IF daily THEN "Emit" ELSE "Idle"]
    /\ cycle' = [cycle EXCEPT ![p] = IF daily THEN [@ EXCEPT !.alone = FALSE] ELSE NoCycle]
    /\ UNCHANGED <<daily, clock, stamps, judged, disk, returned, cycles,
                   crashes>>

(* The events; daily_synthesis returns the problems of this cycle only.    *)
Emit(p) ==
    /\ proc[p] = "Emit"
    /\ proc' = [proc EXCEPT ![p] = "Idle"]
    /\ returned' = IF ~daily THEN returned ELSE IF cycle[p].kept = {} THEN "nothing" ELSE "problems"
    /\ cycle' = [cycle EXCEPT ![p] = NoCycle]
    /\ UNCHANGED <<daily, clock, stamps, judged, disk, cycles, crashes>>

(* A process dies; the daemon's supervisor starts it again.                *)
Crash(p) ==
    /\ Busy(p) /\ crashes < MaxCrashes
    /\ crashes' = crashes + 1
    /\ proc' = [proc EXCEPT ![p] = "Dead"]
    /\ cycle' = [cycle EXCEPT ![p] = NoCycle]
    /\ stamps' = [stamps EXCEPT ![p] = <<>>] /\ judged' = [judged EXCEPT ![p] = <<>>]
    /\ UNCHANGED <<daily, clock, disk, returned, cycles>>

Restart(p) ==
    /\ proc[p] = "Dead"
    /\ proc' = [proc EXCEPT ![p] = "Idle"]
    /\ UNCHANGED <<daily, clock, cycle, stamps, judged, disk, returned, cycles,
                   crashes>>

Work(p) ==
    \/ Generate(p) \/ JudgeProblem(p) \/ OpenShard(p) \/ CloseShard(p) \/ WriteManifest(p)
    \/ ListShards(p) \/ CopyShard(p) \/ CloseRollup(p) \/ Emit(p)

Next ==
    \/ Tick
    \/ \E p \in Procs : \/ RunOnce(p) \/ DailySynthesis(p) \/ Work(p)
                        \/ FlushShard(p) \/ WriteFails(p) \/ Crash(p) \/ Restart(p)

Spec == Init /\ [][Next]_vars
-----------------------------------------------------------------------------
(***************************************************************************)
(* The judge is asked at most EffectiveMax times in any window, wherever   *)
(* the window starts and however the calls and the pruning interleave.     *)
(* A cycle without a guard, a call that raises and the generator's calls   *)
(* are outside of it.                                                      *)
(***************************************************************************)
JudgeBounded ==
    \A p \in Procs : Cardinality(InWindow(p)) <= EffectiveMax

(***************************************************************************)
(* When its judging ends, every row of the answer that a cycle used is kept *)
(* for the save, or a rejection was published for it; the rows of a blank  *)
(* problem vanish without a word.  What is kept is in memory only: a death *)
(* or a write that fails loses it.                                         *)
(***************************************************************************)
RowsAccounted ==
    \A p \in Procs : proc[p] = "Judge" /\ Unjudged(p) = {} =>
        \A i \in DOMAIN cycle[p].answer :
            \/ \E r \in cycle[p].kept : r.row = i
            \/ \E e \in cycle[p].told : e.row = i
            \/ cycle[p].answer[i] = "blank"

(***************************************************************************)
(* A save that ends, and that no other save overlapped, leaves every row   *)
(* of every shard in the file of the day: those of the cycles that died    *)
(* in the middle of theirs, and of those whose roll-up another one         *)
(* overwrote.                                                              *)
(***************************************************************************)
SoleSaveRepairs ==
    \A p \in Procs : proc[p] = "Emit" /\ cycle[p].saved /\ cycle[p].alone =>
        UNION {shards[c].rows : c \in DOMAIN shards} \subseteq rollup.rows
=============================================================================
