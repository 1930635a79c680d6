-------------------------- MODULE CanonicalHarness --------------------------
(***************************************************************************)
(* daemons/continuous.py: the canonical harness of a workspace and the     *)
(* processes that replace it, with select_promotion_candidate of           *)
(* rsi/population.py and the scope keys of audit/invalidation.py.          *)
(*                                                                         *)
(* Daemons run `continuous run` (which loops) or `continuous once` (which  *)
(* a cron job does), Operators call stage_promotion_from_population.  They *)
(* share harness.json, archive/, stats.jsonl and the promotion ledger      *)
(* without a lock.  What a session or an advocate measures is              *)
(* SelfImprovement's business; here it is a score.                         *)
(*                                                                         *)
(* harness.json is written in place: opening it empties it, so a reader or *)
(* a crash in between finds Torn, which does not parse.  Archive files are *)
(* named by the second; `latest` is the file of the current second and     *)
(* `archive` holds what the files of earlier seconds contain.              *)
(***************************************************************************)
EXTENDS Naturals, FiniteSets

CONSTANTS
  Daemons, Operators,  (* processes *)
  MaxHarness,   (* bound: harnesses ever built; 0 is _empty_canonical() *)
  MaxLines,     (* bound: different decisions in the ledger *)
  Scores,       (* scores of an evaluation; 0.0 is the score of none *)
  Cycles,       (* population cycle ids *)
  Populations,  (* finished cycles' advocates: index -> record *)
  Torn,         (* a truncated or mixed file *)
  None,         (* no file; no candidate *)
  Faults,       (* whether a file operation may fail *)
  Crashes       (* whether a process may be killed *)

Outcomes == {"confirmed", "partial", "refuted", "refuted_live", "none"}

Score0 == Scores \cup {0}

(* AdvocateResult as the selection sees it. *)
Advocates == [outcome : Outcomes, aggregate : Score0, best : Score0]

ValidProcesses == Daemons \cap Operators = {}
ValidHarnesses == MaxHarness \in Nat \ {0}
ValidScores == Scores \subseteq Nat \ {0}
ValidPopulations ==
  \A pop \in Populations :
    DOMAIN pop \subseteq Nat /\ pop \in [DOMAIN pop -> Advocates]
ValidMarks == Torn \notin Nat /\ None \notin Nat /\ Torn # None
ValidFlags == {Faults, Crashes} \subseteq BOOLEAN

ASSUME ProcessAssumption == ValidProcesses
ASSUME HarnessAssumption == ValidHarnesses
ASSUME ScoreAssumption == ValidScores
ASSUME PopulationAssumption == ValidPopulations
ASSUME MarkAssumption == ValidMarks
ASSUME FlagAssumption == ValidFlags

Procs == Daemons \cup Operators
Harnesses == 0..MaxHarness
Default == 0

NoCall == [cycle |-> None, outcome |-> "none",
           confirm |-> FALSE, reject |-> FALSE]
Calls == [cycle : Cycles \cup {None}, outcome : Outcomes,
          confirm : BOOLEAN, reject : BOOLEAN]

Idle == {"off", "idle", "sleep"}
Labels == Idle \cup {"measure", "improve", "archive", "open", "write",
                     "stats", "ledger"}

VARIABLES
  canon,        (* contents of harness.json *)
  archive,      (* contents of the archive files of earlier seconds *)
  latest,       (* contents of the archive file of this second, or None *)
  ledger,       (* promotion ledger: cycle, harness and decision *)
  invalidated,  (* InvalidationStore *)
  pc,
  loops,        (* whether a daemon is in run_forever *)
  stop,         (* its self._stop *)
  new,          (* the harness a process builds or promotes *)
  init, final,  (* initial_score and final_score of its session *)
  call,         (* what a staging call was given and selected *)
  stale,        (* was_invalidated of its call *)
  built,        (* harnesses built so far *)
  promoted,     (* history: harnesses that were completely written *)
  failed,       (* history: a promotion failed *)
  clashed       (* history: two promotions overlapped or shared a second *)

fileVars == <<canon, archive, latest>>
logVars == <<ledger, invalidated>>
modeVars == <<loops, stop>>
jobVars == <<new, init, final, call, stale>>
procVars == <<pc, modeVars, jobVars>>
histVars == <<built, promoted, failed, clashed>>
vars == <<fileVars, logVars, procVars, histVars>>

-----------------------------------------------------------------------------
(* The canonical a process would load: JSON that does not parse falls back *)
(* to the default harness.                                                 *)
Load == IF canon = Torn THEN Default ELSE canon

(* select_promotion_candidate.  Of the two keys that break a tie of the    *)
(* aggregates, adjusted_score and best_score, one is enough here.          *)
Promotable == {"confirmed", "partial"}

Rank(o) == IF o = "confirmed" THEN 2 ELSE 1

Outranks(pop, i, j) ==
  LET a == pop[i]  b == pop[j] IN
  \/ Rank(a.outcome) > Rank(b.outcome)
  \/ /\ a.outcome = b.outcome
     /\ \/ a.aggregate > b.aggregate
        \/ /\ a.aggregate = b.aggregate
           /\ a.best > b.best \/ (a.best = b.best /\ i < j)

IsCandidate(pop, i) ==
  /\ pop[i].outcome \in Promotable
  /\ \A j \in DOMAIN pop \ {i} :
       pop[j].outcome \in Promotable => Outranks(pop, i, j)

(* check_and_invalidate: only a scope that is in the store is put there.   *)
WasInvalidated(c) == c \in invalidated
MarkInvalidated(c) ==
  invalidated' = IF WasInvalidated(c) THEN invalidated \cup {c}
                 ELSE invalidated

-----------------------------------------------------------------------------
Init ==
  /\ canon = Default /\ archive = {} /\ latest = None
  /\ ledger = {} /\ invalidated = {}
  /\ pc = [p \in Procs |-> "off"]
  /\ loops = [p \in Procs |-> FALSE]
  /\ stop = [p \in Procs |-> FALSE]
  /\ new = [p \in Procs |-> Default]
  /\ init = [p \in Procs |-> 0]
  /\ final = [p \in Procs |-> 0]
  /\ call = [p \in Procs |-> NoCall]
  /\ stale = [p \in Procs |-> FALSE]
  /\ built = 0 /\ promoted = {Default}
  /\ failed = FALSE /\ clashed = FALSE

Goto(p, from, to) == pc[p] = from /\ pc' = [pc EXCEPT ![p] = to]

(* What a process has in memory when its operation is over. *)
Forget(p) ==
  /\ new' = [new EXCEPT ![p] = Default]
  /\ init' = [init EXCEPT ![p] = 0]
  /\ final' = [final EXCEPT ![p] = 0]
  /\ call' = [call EXCEPT ![p] = NoCall]
  /\ stale' = [stale EXCEPT ![p] = FALSE]

(* The clock reaches the next second. *)
Tick ==
  /\ latest # None
  /\ archive' = archive \cup {latest}
  /\ latest' = None
  /\ UNCHANGED <<canon, logVars, procVars, histVars>>

-----------------------------------------------------------------------------
(* The daemon: run_forever and run_one_session                             *)

(* `continuous run` *)
StartDaemon(p) ==
  /\ p \in Daemons
  /\ Goto(p, "off", "idle")
  /\ loops' = [loops EXCEPT ![p] = TRUE]
  /\ UNCHANGED <<fileVars, logVars, stop, jobVars, histVars>>

(* SIGINT or SIGTERM sets the flag the loop reads. *)
Signal(p) ==
  /\ pc[p] # "off" /\ loops[p]
  /\ stop' = [stop EXCEPT ![p] = TRUE]
  /\ UNCHANGED <<fileVars, logVars, pc, loops, jobVars, histVars>>

ExitDaemon(p) ==
  /\ stop[p]
  /\ Goto(p, "idle", "off")
  /\ loops' = [loops EXCEPT ![p] = FALSE]
  /\ stop' = [stop EXCEPT ![p] = FALSE]
  /\ UNCHANGED <<fileVars, logVars, jobVars, histVars>>

(* The rate budget reports its cap. *)
Backoff(p) ==
  /\ ~stop[p]
  /\ Goto(p, "idle", "sleep")
  /\ UNCHANGED <<fileVars, logVars, modeVars, jobVars, histVars>>

(* _sleep_interruptible ends: its time is over or a stop was requested. *)
Wake(p) ==
  /\ Goto(p, "sleep", "idle")
  /\ UNCHANGED <<fileVars, logVars, modeVars, jobVars, histVars>>

(* run_one_session loads the canonical harness; new holds it until the     *)
(* improver has built another one.                                         *)
StartSession(p) ==
  /\ p \in Daemons
  /\ \/ ~stop[p] /\ Goto(p, "idle", "measure")
     \/ Goto(p, "off", "measure")
  /\ new' = [new EXCEPT ![p] = Load]
  /\ UNCHANGED <<fileVars, logVars, modeVars, init, final, call, stale,
                 histVars>>

(* The baseline score of the harness that was loaded. *)
Measure(p) ==
  /\ Goto(p, "measure", "improve")
  /\ \E s \in Score0 : init' = [init EXCEPT ![p] = s]
  /\ UNCHANGED <<fileVars, logVars, modeVars, new, final, call, stale,
                 histVars>>

(* Noise churns the canonical harness. *)
MutantBetter(p, s) == s >= init[p]

(* "strict > so noise doesn't churn canonical" *)
Better(p, s) == s > init[p]

(* improve() returns the loaded harness or an edited one, and a score.     *)
Improve(p) ==
  /\ \E s \in Score0 :
       /\ Goto(p, "improve", IF Better(p, s) THEN "archive" ELSE "stats")
       /\ final' = [final EXCEPT ![p] = s]
  /\ \/ UNCHANGED <<new, built>>
     \/ /\ built < MaxHarness
        /\ built' = built + 1
        /\ new' = [new EXCEPT ![p] = built']
  /\ UNCHANGED <<fileVars, logVars, modeVars, init, call, stale, promoted,
                 failed, clashed>>

(* No cases, or an exception of the evaluator or the improver. *)
FailSession(p) ==
  /\ Goto(p, "measure", "stats") \/ Goto(p, "improve", "stats")
  /\ UNCHANGED <<fileVars, logVars, modeVars, jobVars, histVars>>

(* The line of stats.jsonl is left out: nothing modelled reads it. *)
AppendStats(p) ==
  /\ Goto(p, "stats", IF loops[p] THEN "sleep" ELSE "off")
  /\ Forget(p)
  /\ UNCHANGED <<fileVars, logVars, modeVars, histVars>>

-----------------------------------------------------------------------------
(* _promote, of a session or of an accepted staging call                   *)

AfterPromote(p) == IF p \in Operators THEN "ledger" ELSE "stats"

(* Two promotions are in each other's way: another one is past its archive *)
(* step, or this second's archive file exists.                             *)
Clash(p) ==
  \/ latest # None
  \/ \E q \in Procs \ {p} : pc[q] \in {"open", "write"}

(* The new harness is archived in place of the one it replaces. *)
MutantArchive(p) ==
  /\ Goto(p, "archive", "open")
  /\ latest' = new[p]
  /\ clashed' = (clashed \/ Clash(p))
  /\ UNCHANGED <<canon, archive, logVars, modeVars, jobVars, built, promoted,
                 failed>>

(* archive/<second>.json := harness.json *)
Archive(p) ==
  /\ Goto(p, "archive", "open")
  /\ latest' = canon
  /\ clashed' = (clashed \/ Clash(p))
  /\ UNCHANGED <<canon, archive, logVars, modeVars, jobVars, built, promoted,
                 failed>>

(* harness_path.write_text opens the file, which empties it, *)
Open(p) ==
  /\ Goto(p, "open", "write")
  /\ canon' = Torn
  /\ UNCHANGED <<archive, latest, logVars, modeVars, jobVars, histVars>>

(* and writes it.  Text over another process's text may leave a mixture.   *)
Write(p) ==
  /\ Goto(p, "write", AfterPromote(p))
  /\ \/ /\ canon' = new[p]
        /\ promoted' = promoted \cup {new[p]}
     \/ /\ canon # Torn
        /\ canon' = Torn
        /\ UNCHANGED promoted
  /\ UNCHANGED <<archive, latest, logVars, modeVars, jobVars, built, failed,
                 clashed>>

(* What a promotion that stops in the middle leaves on disk. *)
Abandon(p) ==
  \/ /\ pc[p] = "archive"
     /\ latest' = Torn
     /\ clashed' = (clashed \/ Clash(p))
     /\ UNCHANGED <<canon, archive>>
  \/ UNCHANGED <<fileVars, clashed>>

(* _promote catches every exception: its callers go on as if it had        *)
(* swapped.                                                                *)
FailPromote(p) ==
  /\ Faults
  /\ \E l \in {"archive", "open", "write"} : Goto(p, l, AfterPromote(p))
  /\ Abandon(p)
  /\ failed' = TRUE
  /\ UNCHANGED <<logVars, modeVars, jobVars, built, promoted>>

-----------------------------------------------------------------------------
(* stage_promotion_from_population                                         *)

(* The call, up to its decision: reject wins over confirm, and without     *)
(* confirm the candidate is only staged.                                   *)
Accepts(c) == c.confirm /\ ~c.reject

Request(cycle, outcome, confirm, reject) ==
  [cycle |-> cycle, outcome |-> outcome,
   confirm |-> confirm, reject |-> reject]

(* No advocate is promotable. *)
Refusal(p, cycle, pop) ==
  /\ \A i \in DOMAIN pop : pop[i].outcome \notin Promotable
  /\ Goto(p, "off", "ledger")
  /\ call' = [call EXCEPT ![p] = [NoCall EXCEPT !.cycle = cycle]]
  /\ UNCHANGED <<new, built>>

(* The candidate's harness is new here or was handed in before: the same   *)
(* result may be staged first and confirmed or rejected later.             *)
Selection(p, cycle, pop, confirm, reject) ==
  \E i \in DOMAIN pop, h \in Harnesses :
    /\ IsCandidate(pop, i)
    /\ h \in 1..(built + 1)
    /\ built' = IF h > built THEN h ELSE built
    /\ new' = [new EXCEPT ![p] = h]
    /\ call' = [call EXCEPT ![p] = Request(cycle, pop[i].outcome,
                                           confirm, reject)]
    /\ Goto(p, "off", IF Accepts(call'[p]) THEN "archive" ELSE "ledger")

Staged(p, cycle, pop, confirm, reject) ==
  /\ MarkInvalidated(cycle)
  /\ stale' = [stale EXCEPT ![p] = WasInvalidated(cycle)]
  /\ \/ Refusal(p, cycle, pop)
     \/ Selection(p, cycle, pop, confirm, reject)

Stage(p) ==
  /\ p \in Operators /\ pc[p] = "off"
  /\ Cardinality(ledger) < MaxLines
  /\ \E cycle \in Cycles, pop \in Populations,
        confirm \in BOOLEAN, reject \in BOOLEAN :
       Staged(p, cycle, pop, confirm, reject)
  /\ UNCHANGED <<fileVars, ledger, modeVars, init, final, promoted, failed,
                 clashed>>

(* The record reads confirm before reject. *)
MutantDecision(c) ==
  IF c.outcome \notin Promotable THEN "staged"
  ELSE IF c.confirm THEN "accepted"
  ELSE IF c.reject THEN "rejected" ELSE "staged"

Decision(c) ==
  IF c.outcome \notin Promotable THEN "staged"
  ELSE IF c.reject THEN "rejected"
  ELSE IF c.confirm THEN "accepted" ELSE "staged"

(* _record_promotion_decision: one line of the ledger and one event.       *)
(* Failing to append is logged and swallowed.  An accepted decision is     *)
(* followed by its bench_completed event, which nothing here reads.        *)
Record(p) ==
  /\ Goto(p, "ledger", "off")
  /\ \/ ledger' = ledger \cup
          {[cycle |-> call[p].cycle,
            harness |-> IF call[p].outcome \in Promotable THEN new[p]
                        ELSE None,
            decision |-> Decision(call[p])]}
     \/ Faults /\ UNCHANGED ledger
  /\ Forget(p)
  /\ UNCHANGED <<fileVars, invalidated, modeVars, histVars>>

-----------------------------------------------------------------------------
(* A process is killed; its files stay as they are. *)
Crash(p) ==
  /\ Crashes
  /\ pc[p] # "off"
  /\ pc' = [pc EXCEPT ![p] = "off"]
  /\ stop' = [stop EXCEPT ![p] = FALSE]
  /\ loops' = [loops EXCEPT ![p] = FALSE]
  /\ IF pc[p] \in {"archive", "open", "write"}
     THEN Abandon(p)
     ELSE UNCHANGED <<fileVars, clashed>>
  /\ Forget(p)
  /\ UNCHANGED <<logVars, built, promoted, failed>>

Work(p) ==
  \/ ExitDaemon(p) \/ Backoff(p) \/ Wake(p)
  \/ StartSession(p) \/ Measure(p) \/ Improve(p) \/ FailSession(p)
  \/ AppendStats(p)
  \/ Archive(p) \/ Open(p) \/ Write(p) \/ FailPromote(p)
  \/ Record(p)

Next ==
  \/ Tick
  \/ \E p \in Procs :
       Work(p) \/ StartDaemon(p) \/ Signal(p) \/ Stage(p) \/ Crash(p)

Spec == Init /\ [][Next]_vars

(* A running process keeps running: evaluations and improver calls are     *)
(* bounded by their timeouts, sleeps by their deadline.  Nobody has to     *)
(* start, stop or kill one, and a cron job need not be started again.      *)
Fairness == \A p \in Daemons : WF_vars(Work(p))

FairSpec == Spec /\ Fairness

-----------------------------------------------------------------------------
(* Properties                                                              *)

TypeOK ==
  /\ canon \in Harnesses \cup {Torn}
  /\ archive \subseteq Harnesses \cup {Torn}
  /\ latest \in Harnesses \cup {Torn, None}
  /\ ledger \subseteq [cycle : Cycles \cup {None},
                       harness : Harnesses \cup {None},
                       decision : {"staged", "rejected", "accepted"}]
  /\ invalidated \subseteq Cycles
  /\ pc \in [Procs -> Labels]
  /\ loops \in [Procs -> BOOLEAN]
  /\ stop \in [Procs -> BOOLEAN]
  /\ new \in [Procs -> Harnesses]
  /\ init \in [Procs -> Score0]
  /\ final \in [Procs -> Score0]
  /\ call \in [Procs -> Calls]
  /\ stale \in [Procs -> BOOLEAN]
  /\ built \in Harnesses
  /\ promoted \subseteq Harnesses
  /\ failed \in BOOLEAN
  /\ clashed \in BOOLEAN

(* continuous.py: whatever crashes, failing writes, restarts and other     *)
(* promoters do to a swap, a harness that was once canonical is still      *)
(* harness.json or in the archive, unless two promotions overlapped or     *)
(* fell into the same second.                                              *)
NothingLost ==
  ~clashed => promoted \subseteq {canon, latest} \cup archive

(* continuous.py: the ledger tells what happened.  A decision recorded as  *)
(* accepted names a harness that was completely written to harness.json,   *)
(* unless a promotion failed or two of them clashed; a decision that       *)
(* swapped nothing is recorded as something else.                          *)
LedgerIsTrue ==
  ~failed /\ ~clashed =>
    \A e \in ledger : e.decision = "accepted" => e.harness \in promoted

(* continuous.py: a harness becomes canonical only by a session whose      *)
(* final score beat its baseline or by a call that was confirmed, not      *)
(* rejected, and selected an advocate whose prediction came true at least  *)
(* in part.                                                                *)
Earned(p) ==
  IF p \in Daemons THEN final[p] > init[p]
  ELSE /\ call[p].outcome \in {"confirmed", "partial"}
       /\ call[p].confirm /\ ~call[p].reject

EarnedSwap ==
  canon' \notin {canon, Torn} =>
    \E p \in Procs : pc[p] = "write" /\ new[p] = canon' /\ Earned(p)

EarnedOnly == [][EarnedSwap]_vars

(* invalidation.py: a call for a cycle that was decided before finds the   *)
(* earlier decision and marks it stale.                                    *)
Decided == {e.cycle : e \in ledger}

SecondDecisionInvalidates ==
  [][\A p \in Operators :
       (pc[p] = "off" /\ pc'[p] # "off" /\ call'[p].cycle \in Decided)
         => stale'[p]]_vars
=============================================================================
