--------------------------- MODULE GreenhouseCycle ---------------------------
(***************************************************************************)
(* greenhouse/cycle.py with greenhouse/ledger.py, greenhouse/export.py and *)
(* the validated manifest of greenhouse/goals.py.                          *)
(*                                                                         *)
(* Every process in Procs is one `python -m greenhouse cycle` (or dry-run) *)
(* at a time: the systemd unit and manual invocations.  They meet at an    *)
(* flock, an append-only request ledger and a directory of drops.          *)
(*                                                                         *)
(* A unit of LLM spend is a ticket.  A ledger line of n requests is a set  *)
(* of n tickets of one age, so a window's sum is a cardinality.  Time is   *)
(* relative: every ticket and every running cycle carries its age, Tick    *)
(* adds one to all of them, and a ticket no window can reach any more is   *)
(* free again.  This is the only bound on time.                            *)
(***************************************************************************)
EXTENDS Integers, FiniteSets

CONSTANTS
  Procs,        (* cycle processes *)
  NoProc,       (* owner of a free lock *)
  Tickets,      (* units of spend; bounds what a window can hold *)
  Goals,        (* goal ids: numbers, ordered as the code orders the names *)
  NoGoal,       (* the goal of a process that has chosen none *)
  Priority,     (* goal -> priority, at least 1 *)
  Want,         (* goal -> candidates wanted *)
  Exportable,   (* goals whose domain has an exporter and a dry-run fixture *)
  Registered,   (* goals whose domain kernels/cli.py imports a kernel for *)
  WindowMax,    (* budget.window_max_requests *)
  PerCycle,     (* budget.per_cycle_max_requests *)
  Window,       (* budget.window_seconds, in ticks *)
  MinCycle,     (* MIN_CYCLE_REQUESTS *)
  Fixture,      (* llm_requests of the dry-run fixture, at most MinCycle *)
  MaxCycle,     (* TimeoutStartSec: ticks a cycle may live *)
  Modes,        (* which of "real" and "dry" are invoked *)
  Kills         (* whether a cycle can be killed or crash *)

(* _parse_budget accepts exactly such budgets. *)
ValidBudget ==
  /\ WindowMax \in Nat \ {0}
  /\ PerCycle \in 1..WindowMax
  /\ Window \in Nat \ {0}
  /\ MinCycle \in Nat
  /\ Fixture \in 0..MinCycle
  /\ MaxCycle \in Nat

(* _parse_goal accepts exactly such goals. *)
ValidGoals ==
  /\ Goals \subseteq Nat
  /\ NoGoal \notin Goals
  /\ Priority \in [Goals -> Nat \ {0}]
  /\ Want \in [Goals -> Nat]
  /\ Exportable \subseteq Goals
  /\ Registered \subseteq Goals

ASSUME BudgetAssumption == ValidBudget

ASSUME GoalsAssumption == ValidGoals

ASSUME ModelAssumption ==
  /\ NoProc \notin Procs
  /\ IsFiniteSet(Tickets)
  /\ Modes \subseteq {"real", "dry"}
  /\ Kills \in BOOLEAN

VARIABLES
  holder,   (* owner of the flock on cycle.lock, or NoProc *)
  pc,       (* where each process is *)
  mode,     (* "real" or "dry" *)
  nowAge,   (* age of the `now` run_cycle reads before it takes the lock *)
  goal,     (* the goal chosen *)
  maxReq,   (* max_requests given to the kernel *)
  spent,    (* llm_requests of the run in progress *)
  tries,    (* programs left to export *)
  ledger,   (* tickets in ledger.jsonl that some window can still reach *)
  age,      (* ticket -> age of its ledger timestamp *)
  realAge,  (* ticket -> time since the request was made (history) *)
  lost,     (* requests made and never recorded (history) *)
  drops,    (* goal -> files in its drop directory *)
  ready,    (* goal -> candidate.ready.v1 events, up to Want + 1 (history) *)
  beats,    (* completed.v1 events of the current or last cycle (history) *)
  exit      (* how the last cycle of the process ended (history) *)

local   == <<mode, nowAge, goal, maxReq, tries>>
tickets == <<ledger, age, realAge, lost>>
output  == <<drops, ready>>
outcome == <<beats, exit>>
vars == <<holder, pc, local, spent, tickets, output, outcome>>

MinOf(a, b) == IF a < b THEN a ELSE b

LockedPC == {"locked", "running", "ran", "exporting", "announcing"}

-----------------------------------------------------------------------------
(* The ledger.  An entry counts when its ts > now - Window: when its age   *)
(* is below the age of the reader's `now` plus Window.                     *)

(* Mutant: the reader's window ends at the clock, not at its `now`. *)
EntriesSinceClock(a) == {t \in ledger : age[t] < Window}

EntriesSince(a) == {t \in ledger : age[t] < a + Window}

WindowUsed(a) == Cardinality(EntriesSince(a))

Remaining(a) ==
  IF WindowUsed(a) < WindowMax THEN WindowMax - WindowUsed(a) ELSE 0

(* Mutant: the cycle's cap is not clamped to what the window leaves. *)
CycleCap(a) == PerCycle

(* max_requests of a run: the cycle's cap within what the window leaves. *)
Allowance(a) == MinOf(PerCycle, Remaining(a))

FreeTickets == Tickets \ (ledger \cup lost \cup UNION {spent[p] : p \in Procs})

(* select_goal: the least (dropped / priority, -priority, id).             *)
(* Mutant: a goal that has what it wants is still eligible. *)
EligibleOnceMore == {g \in Goals : drops[g] <= Want[g]}

Eligible == {g \in Goals : drops[g] < Want[g]}

Precedes(g, h) ==
  LET share_g == drops[g] * Priority[h]
      share_h == drops[h] * Priority[g]
  IN  \/ share_g < share_h
      \/ share_g = share_h /\ Priority[g] > Priority[h]
      \/ share_g = share_h /\ Priority[g] = Priority[h] /\ g <= h

Selected(g) == g \in Eligible /\ \A h \in Eligible : Precedes(g, h)

(* Mutant: slots are the goal's full want, whatever is already there. *)
AllSlots(g) == Want[g]

(* slots = max(0, want - already_dropped); no goal has more than it wants. *)
Slots(g) == Want[g] - drops[g]

-----------------------------------------------------------------------------
(* Leaving a cycle: the lock is released by `finally`, or by the kernel    *)
(* when the process dies.                                                  *)

Reset(p, how) ==
  /\ pc' = [pc EXCEPT ![p] = "idle"]
  /\ mode' = [mode EXCEPT ![p] = "real"]
  /\ nowAge' = [nowAge EXCEPT ![p] = 0]
  /\ goal' = [goal EXCEPT ![p] = NoGoal]
  /\ maxReq' = [maxReq EXCEPT ![p] = 0]
  /\ tries' = [tries EXCEPT ![p] = 0]
  /\ spent' = [spent EXCEPT ![p] = {}]
  /\ exit' = [exit EXCEPT ![p] = how]

Leave(p, how) ==
  /\ Reset(p, how)
  /\ holder' = IF holder = p THEN NoProc ELSE holder

(* _finish publishes completed.v1 and returns. *)
Finish(p) ==
  /\ Leave(p, "finished")
  /\ beats' = [beats EXCEPT ![p] = @ + 1]
  /\ UNCHANGED <<tickets, output>>

Goto(p, from, to) ==
  /\ pc[p] = from
  /\ pc' = [pc EXCEPT ![p] = to]

(* run_cycle fixes `now` before it tries the lock. *)
Start(p, m) ==
  /\ Goto(p, "idle", "started")
  /\ mode' = [mode EXCEPT ![p] = m]
  /\ beats' = [beats EXCEPT ![p] = 0]
  /\ exit' = [exit EXCEPT ![p] = "none"]
  /\ UNCHANGED <<holder, nowAge, goal, maxReq, tries, spent, tickets, output>>

(* Mutant: contention returns without the heartbeat. *)
LockHeldSilently(p) ==
  /\ pc[p] = "started"
  /\ holder # NoProc
  /\ Leave(p, "finished")
  /\ UNCHANGED <<tickets, output, beats>>

(* LOCK_NB on a held lock: reported as a skipped cycle, with no retry. *)
LockHeld(p) ==
  /\ pc[p] = "started"
  /\ holder # NoProc
  /\ Finish(p)

Acquire(p) ==
  /\ Goto(p, "started", "locked")
  /\ holder = NoProc
  /\ holder' = p
  /\ UNCHANGED <<local, spent, tickets, output, outcome>>

(* The four early returns of _run_cycle_locked. *)
BadManifest(p) ==
  /\ pc[p] = "locked"
  /\ Finish(p)

NoEligibleGoal(p) ==
  /\ pc[p] = "locked"
  /\ Eligible = {}
  /\ Finish(p)

BudgetExhausted(p) ==
  /\ pc[p] = "locked"
  /\ Eligible # {}
  /\ Remaining(nowAge[p]) < MinCycle
  /\ Finish(p)

NoFixture(p) ==
  /\ pc[p] = "locked"
  /\ mode[p] = "dry"
  /\ Remaining(nowAge[p]) >= MinCycle
  /\ \E g \in Goals \ Exportable : Selected(g)
  /\ Finish(p)

(* A run begins with what the window leaves, clamped to the cycle cap.     *)
BeginRun(p) ==
  /\ mode[p] = "real"
  /\ Remaining(nowAge[p]) >= MinCycle
  /\ \E g \in Goals : Selected(g) /\ goal' = [goal EXCEPT ![p] = g]
  /\ maxReq' = [maxReq EXCEPT ![p] = Allowance(nowAge[p])]
  /\ Goto(p, "locked", "running")
  /\ UNCHANGED <<holder, mode, nowAge, tries, spent, tickets, output, outcome>>

(* A dry run takes its program list and its llm_requests from a fixture.   *)
DryRun(p) ==
  /\ mode[p] = "dry"
  /\ Remaining(nowAge[p]) >= MinCycle
  /\ \E g \in Exportable : Selected(g) /\ goal' = [goal EXCEPT ![p] = g]
  /\ maxReq' = [maxReq EXCEPT ![p] = Allowance(nowAge[p])]
  /\ \E T \in SUBSET FreeTickets :
       /\ Cardinality(T) = Fixture
       /\ spent' = [spent EXCEPT ![p] = T]
       /\ age' = [t \in Tickets |-> IF t \in T THEN nowAge[p] ELSE age[t]]
       /\ realAge' = [t \in Tickets |-> IF t \in T THEN 0 ELSE realAge[t]]
  /\ Goto(p, "locked", "ran")
  /\ UNCHANGED <<holder, mode, nowAge, tries, ledger, lost, output, outcome>>

(* The kernel makes one more request.  Its own horizon test keeps it       *)
(* within max_requests (module IslandKernel).                              *)
Request(p, t) ==
  /\ pc[p] = "running"
  /\ goal[p] \in Registered
  /\ t \in FreeTickets
  /\ Cardinality(spent[p]) < maxReq[p]
  /\ spent' = [spent EXCEPT ![p] = @ \cup {t}]
  /\ age' = [age EXCEPT ![t] = nowAge[p]]
  /\ realAge' = [realAge EXCEPT ![t] = 0]
  /\ UNCHANGED <<holder, pc, local, ledger, lost, output, outcome>>

KernelEnds(p) ==
  /\ Goto(p, "running", "ran")
  /\ goal[p] \in Registered
  /\ UNCHANGED <<holder, local, spent, tickets, output, outcome>>

(* UnsupportedDomain out of _run_kernel_for_real is not caught.            *)
KernelRaises(p) ==
  /\ pc[p] = "running"
  /\ goal[p] \notin Registered
  /\ Leave(p, "raised")
  /\ UNCHANGED <<tickets, output, beats>>

(* ledger.record, then the n best programs that fit the goal's free slots. *)
RecordSpend(p, n) ==
  /\ Goto(p, "ran", "exporting")
  /\ n <= Slots(goal[p])
  /\ ledger' = ledger \cup spent[p]
  /\ spent' = [spent EXCEPT ![p] = {}]
  /\ tries' = [tries EXCEPT ![p] = n]
  /\ UNCHANGED <<holder, mode, nowAge, goal, maxReq, age, realAge, lost, output,
                 outcome>>

(* export_candidate writes a validated drop.  A dry run of the same second *)
(* has the same run id and overwrites the file of an earlier one.          *)
ExportDrop(p, overwrite) ==
  /\ Goto(p, "exporting", "announcing")
  /\ tries[p] > 0
  /\ goal[p] \in Exportable
  /\ overwrite => mode[p] = "dry" /\ drops[goal[p]] > 0
  /\ tries' = [tries EXCEPT ![p] = @ - 1]
  /\ drops' = IF overwrite THEN drops ELSE [drops EXCEPT ![goal[p]] = @ + 1]
  /\ UNCHANGED <<holder, mode, nowAge, goal, maxReq, spent, tickets, ready,
                 outcome>>

(* Unsupported domain, or a candidate the validator refuses.               *)
ExportFails(p) ==
  /\ pc[p] = "exporting"
  /\ tries[p] > 0
  /\ tries' = [tries EXCEPT ![p] = @ - 1]
  /\ UNCHANGED <<holder, pc, mode, nowAge, goal, maxReq, spent, tickets, output,
                 outcome>>

(* Mutant: the event is lost. *)
AnnounceNothing(p) ==
  /\ Goto(p, "announcing", "exporting")
  /\ UNCHANGED <<holder, local, spent, tickets, output, outcome>>

Announce(p) ==
  /\ Goto(p, "announcing", "exporting")
  /\ ready' = [ready EXCEPT ![goal[p]] = MinOf(@ + 1, Want[goal[p]] + 1)]
  /\ UNCHANGED <<holder, local, spent, tickets, drops, outcome>>

Complete(p) ==
  /\ pc[p] = "exporting"
  /\ tries[p] = 0
  /\ Finish(p)

-----------------------------------------------------------------------------
(* TimeoutStartSec, SIGKILL or an exception of the kernel: the flock goes  *)
(* with the process, what the run spent was never written down.            *)
Kill(p) ==
  /\ Kills
  /\ pc[p] # "idle"
  /\ Leave(p, "killed")
  /\ lost' = IF mode[p] = "real" THEN lost \cup spent[p] ELSE lost
  /\ UNCHANGED <<ledger, age, realAge, output, beats>>

(* Time passes.  No cycle outlives MaxCycle, so no reader's window reaches *)
(* a ticket as old as Window + MaxCycle.                                   *)
Reachable(t) == age[t] + 1 < Window + MaxCycle

Tick ==
  /\ \A p \in Procs : pc[p] # "idle" => nowAge[p] < MaxCycle
  /\ nowAge' = [p \in Procs |-> IF pc[p] = "idle" THEN 0 ELSE nowAge[p] + 1]
  /\ ledger' = {t \in ledger : Reachable(t)}
  /\ lost' = {t \in lost : Reachable(t)}
  /\ LET live == ledger' \cup lost' \cup UNION {spent[p] : p \in Procs}
     IN  /\ age' = [t \in Tickets |-> IF t \in live THEN age[t] + 1 ELSE 0]
         /\ realAge' =
              [t \in Tickets |-> IF t \in live THEN realAge[t] + 1 ELSE 0]
  /\ UNCHANGED <<holder, pc, mode, goal, maxReq, tries, spent, output, outcome>>

Init ==
  /\ holder = NoProc
  /\ pc = [p \in Procs |-> "idle"]
  /\ mode = [p \in Procs |-> "real"]
  /\ nowAge = [p \in Procs |-> 0]
  /\ goal = [p \in Procs |-> NoGoal]
  /\ maxReq = [p \in Procs |-> 0]
  /\ spent = [p \in Procs |-> {}]
  /\ tries = [p \in Procs |-> 0]
  /\ ledger = {}
  /\ age = [t \in Tickets |-> 0]
  /\ realAge = [t \in Tickets |-> 0]
  /\ lost = {}
  /\ drops = [g \in Goals |-> 0]
  /\ ready = [g \in Goals |-> 0]
  /\ beats = [p \in Procs |-> 1]
  /\ exit = [p \in Procs |-> "finished"]

SlotCounts == UNION {0..Want[g] : g \in Goals}

Step(p) ==
  \/ \E m \in Modes : Start(p, m)
  \/ LockHeld(p)
  \/ Acquire(p)
  \/ BadManifest(p)
  \/ NoEligibleGoal(p)
  \/ BudgetExhausted(p)
  \/ NoFixture(p)
  \/ BeginRun(p)
  \/ DryRun(p)
  \/ \E t \in Tickets : Request(p, t)
  \/ KernelEnds(p)
  \/ KernelRaises(p)
  \/ \E n \in SlotCounts : RecordSpend(p, n)
  \/ \E overwrite \in BOOLEAN : ExportDrop(p, overwrite)
  \/ ExportFails(p)
  \/ Announce(p)
  \/ Complete(p)

Next == Tick \/ \E p \in Procs : Step(p) \/ Kill(p)

Spec == Init /\ [][Next]_vars

(* Liveness: time passes, a cycle that can move does, the timer fires, the *)
(* manifest is not broken for ever, and a goal that is tried again and     *)
(* again has programs to export and passes validation again and again.     *)
FairSpec ==
  /\ Spec
  /\ SF_vars(Tick)
  /\ \A p \in Procs :
       /\ WF_vars(Step(p))
       /\ SF_vars(BeginRun(p))
       /\ SF_vars(\E n \in SlotCounts \ {0} : RecordSpend(p, n))
       /\ \A g \in Goals : SF_vars(goal[p] = g /\ ExportDrop(p, FALSE))

-----------------------------------------------------------------------------
(* Every variable has its type. *)
TypeOK ==
  /\ holder \in Procs \cup {NoProc}
  /\ pc \in [Procs -> {"idle", "started"} \cup LockedPC]
  /\ mode \in [Procs -> {"real", "dry"}]
  /\ nowAge \in [Procs -> Nat]
  /\ goal \in [Procs -> Goals \cup {NoGoal}]
  /\ maxReq \in [Procs -> Nat]
  /\ spent \in [Procs -> SUBSET Tickets]
  /\ tries \in [Procs -> Nat]
  /\ ledger \subseteq Tickets
  /\ age \in [Tickets -> Nat]
  /\ realAge \in [Tickets -> Nat]
  /\ lost \subseteq Tickets
  /\ drops \in [Goals -> Nat]
  /\ ready \in [Goals -> Nat]
  /\ beats \in [Procs -> Nat]
  /\ exit \in [Procs -> {"none", "finished", "raised", "killed"}]

Accounted == ledger \cup UNION {spent[p] : p \in Procs}

(* The budget: no sliding window of the ledger, with the run in progress   *)
(* charged to it, holds more than window_max_requests, whatever `now` the  *)
(* cycles read, in whatever order they got the lock and whoever crashed.   *)
WindowBounded ==
  \A a \in 0..(Window + MaxCycle) :
    Cardinality({t \in Accounted : a <= age[t] /\ age[t] < a + Window})
      <= WindowMax

(* What the budget means for requests really made: a real window shorter   *)
(* by the longest cycle never holds more than window_max_requests of the   *)
(* requests that reach the ledger.  The ledger stamps the start of a       *)
(* cycle, not the request (cycle.py 193, 259), hence the shorter window.   *)
RealSpendBounded ==
  \A a \in 0..(Window + MaxCycle) :
    Cardinality({t \in Accounted : a <= realAge[t]
                                   /\ realAge[t] < a + Window - MaxCycle})
      <= WindowMax

(* One process at a time is past the lock, it owns it, and only such a     *)
(* process has unrecorded spend: a crashed owner leaves neither behind.    *)
SingleInstance ==
  /\ \A p \in Procs : pc[p] \in LockedPC <=> holder = p
  /\ \A p \in Procs : spent[p] # {} => pc[p] \in {"running", "ran"}

(* No goal ever has more drops on disk than it wants, counting the ones a  *)
(* cycle in progress may still write; two cycles never fill the same slot. *)
WantRespected ==
  \A g \in Goals :
    \A p \in Procs : drops[g] + (IF goal[p] = g THEN tries[p] ELSE 0) <= Want[g]

(* A ready event names a drop that is on disk, and only a crash between    *)
(* the two leaves a drop nobody was told of.                               *)
DropsAnnounced ==
  \A g \in Goals :
    /\ ready[g] <= drops[g]
    /\ (holder = NoProc /\ ~Kills) => ready[g] = drops[g]

(* cycle.py 8-10: one completed.v1 per cycle "no matter how the cycle      *)
(* ends".  A cycle that is over, unless it was killed, has published one.  *)
OneHeartbeat ==
  \A p \in Procs : pc[p] = "idle" /\ exit[p] # "killed" => beats[p] = 1

(* What a cycle did is told, once.                                         *)
OutcomesTold == OneHeartbeat /\ DropsAnnounced

(* select_goal 76: "every eligible goal still eventually gets a turn".     *)
EveryGoalGetsATurn ==
  \A g \in Goals :
    (drops[g] < Want[g]) ~> (\E p \in Procs : goal[p] = g)
=============================================================================
