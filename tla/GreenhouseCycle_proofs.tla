----------------------- MODULE GreenhouseCycle_proofs -----------------------
(***************************************************************************)
(* What holds of GreenhouseCycle for every value of its constants: types,  *)
(* the single instance behind the lock, and the sliding-window budget.     *)
(***************************************************************************)
EXTENDS GreenhouseCycle, FiniteSetTheorems, TLAPS

USE BudgetAssumption, GoalsAssumption, ModelAssumption
    DEF ValidBudget, ValidGoals

LEMMA TicketCardinality ==
  ASSUME NEW S \in SUBSET Tickets
  PROVE  IsFiniteSet(S) /\ Cardinality(S) \in Nat
BY FS_Subset, FS_CardinalityType

LEMMA SubsetCardinality ==
  ASSUME NEW T \in SUBSET Tickets, NEW S \in SUBSET T
  PROVE  Cardinality(S) <= Cardinality(T)
BY TicketCardinality, FS_Subset

LEMMA UnionCardinality ==
  ASSUME NEW S \in SUBSET Tickets, NEW T \in SUBSET Tickets
  PROVE  Cardinality(S \cup T) <= Cardinality(S) + Cardinality(T)
<1>1. IsFiniteSet(S) /\ IsFiniteSet(T) /\ S \cap T \in SUBSET Tickets
  BY TicketCardinality
<1>2. /\ Cardinality(S) \in Nat
      /\ Cardinality(T) \in Nat
      /\ Cardinality(S \cap T) \in Nat
  BY <1>1, TicketCardinality
<1>3. Cardinality(S \cup T)
        = Cardinality(S) + Cardinality(T) - Cardinality(S \cap T)
  BY <1>1, FS_Union, Zenon
<1> QED
  BY <1>2, <1>3

LEMMA AddCardinality ==
  ASSUME NEW S \in SUBSET Tickets, NEW t \in Tickets
  PROVE  Cardinality(S \cup {t}) <= Cardinality(S) + 1
<1>1. Cardinality({t}) = 1 /\ {t} \in SUBSET Tickets
  BY FS_Singleton
<1> QED
  BY <1>1, UnionCardinality

(* remaining() is a number of requests that fits in the window. *)
LEMMA RemainingFits ==
  ASSUME TypeOK, NEW a \in Nat
  PROVE  /\ EntriesSince(a) \in SUBSET Tickets
         /\ Remaining(a) \in Nat
         /\ WindowUsed(a) + Remaining(a) <= WindowMax \/ Remaining(a) = 0
         /\ Allowance(a) \in Nat
         /\ Allowance(a) <= Remaining(a)
<1>1. EntriesSince(a) \in SUBSET Tickets
  BY DEF TypeOK, EntriesSince
<1>2. WindowUsed(a) \in Nat
  BY <1>1, TicketCardinality DEF WindowUsed
<1>3. /\ Remaining(a) \in Nat
      /\ WindowUsed(a) + Remaining(a) <= WindowMax \/ Remaining(a) = 0
  BY <1>2 DEF Remaining
<1> QED
  BY <1>1, <1>3 DEF Allowance, MinOf

-----------------------------------------------------------------------------
LEMMA ResetType ==
  ASSUME TypeOK, NEW p \in Procs, NEW how \in {"finished", "raised", "killed"},
         Reset(p, how)
  PROVE  /\ pc' \in [Procs -> {"idle", "started"} \cup LockedPC]
         /\ mode' \in [Procs -> {"real", "dry"}]
         /\ nowAge' \in [Procs -> Nat]
         /\ goal' \in [Procs -> Goals \cup {NoGoal}]
         /\ maxReq' \in [Procs -> Nat]
         /\ tries' \in [Procs -> Nat]
         /\ spent' \in [Procs -> SUBSET Tickets]
         /\ exit' \in [Procs -> {"none", "finished", "raised", "killed"}]
BY DEF TypeOK, Reset, LockedPC

LEMMA FinishType ==
  ASSUME TypeOK, NEW p \in Procs, Finish(p)
  PROVE  TypeOK'
<1>1. Reset(p, "finished")
  BY DEF Finish, Leave
<1>2. holder' \in Procs \cup {NoProc}
  BY DEF Finish, Leave, TypeOK
<1>3. /\ beats' \in [Procs -> Nat]
      /\ ledger' = ledger /\ age' = age /\ realAge' = realAge /\ lost' = lost
      /\ drops' = drops /\ ready' = ready
  BY DEF Finish, TypeOK, tickets, output
<1> QED
  BY <1>1, <1>2, <1>3, ResetType DEF TypeOK

LEMMA StepType ==
  ASSUME TypeOK, NEW p \in Procs, Step(p)
  PROVE  TypeOK'
<1>1. ASSUME NEW m \in Modes, Start(p, m) PROVE TypeOK'
  BY <1>1 DEF TypeOK, Start, Goto, LockedPC, tickets, output
<1>2. ASSUME Finish(p) PROVE TypeOK'
  BY <1>2, FinishType
<1>3. CASE LockHeld(p) \/ BadManifest(p) \/ NoEligibleGoal(p)
           \/ BudgetExhausted(p) \/ NoFixture(p) \/ Complete(p)
  BY <1>2, <1>3 DEF LockHeld, BadManifest, NoEligibleGoal, BudgetExhausted,
                    NoFixture, Complete
<1>4. CASE Acquire(p)
  BY <1>4 DEF TypeOK, Acquire, Goto, LockedPC, local, tickets, output, outcome
<1>5. CASE BeginRun(p)
  <2>1. Allowance(nowAge[p]) \in Nat
    BY RemainingFits DEF TypeOK
  <2> QED
    BY <1>5, <2>1 DEF TypeOK, BeginRun, Goto, LockedPC, tickets, output, outcome
<1>6. CASE DryRun(p)
  <2>1. Allowance(nowAge[p]) \in Nat
    BY RemainingFits DEF TypeOK
  <2>2. PICK T \in SUBSET FreeTickets :
          /\ spent' = [spent EXCEPT ![p] = T]
          /\ age' = [t \in Tickets |-> IF t \in T THEN nowAge[p] ELSE age[t]]
          /\ realAge' = [t \in Tickets |-> IF t \in T THEN 0 ELSE realAge[t]]
    BY <1>6 DEF DryRun
  <2>3. T \in SUBSET Tickets
    BY DEF FreeTickets
  <2>4. /\ spent' \in [Procs -> SUBSET Tickets]
        /\ age' \in [Tickets -> Nat]
        /\ realAge' \in [Tickets -> Nat]
    BY <2>2, <2>3 DEF TypeOK
  <2> QED
    BY <1>6, <2>1, <2>4 DEF TypeOK, DryRun, Goto, LockedPC, output, outcome
<1>7. ASSUME NEW t \in Tickets, Request(p, t) PROVE TypeOK'
  BY <1>7 DEF TypeOK, Request, local, output, outcome
<1>8. CASE KernelEnds(p)
  BY <1>8 DEF TypeOK, KernelEnds, Goto, LockedPC, local, tickets, output, outcome
<1>9. CASE KernelRaises(p)
  <2>1. Reset(p, "raised") /\ holder' \in Procs \cup {NoProc}
    BY <1>9 DEF KernelRaises, Leave, TypeOK
  <2> QED
    BY <1>9, <2>1, ResetType DEF TypeOK, KernelRaises, tickets, output
<1>10. ASSUME NEW n \in SlotCounts, RecordSpend(p, n) PROVE TypeOK'
  <2>1. n \in Nat
    BY DEF SlotCounts
  <2>2. ledger' \subseteq Tickets
    BY <1>10 DEF RecordSpend, TypeOK
  <2>3. /\ spent' \in [Procs -> SUBSET Tickets]
        /\ tries' \in [Procs -> Nat]
        /\ pc' \in [Procs -> {"idle", "started"} \cup LockedPC]
    BY <1>10, <2>1 DEF RecordSpend, TypeOK, Goto, LockedPC
  <2> QED
    BY <1>10, <2>2, <2>3 DEF TypeOK, RecordSpend, output, outcome
<1>11. ASSUME NEW overwrite \in BOOLEAN, ExportDrop(p, overwrite) PROVE TypeOK'
  <2>1. drops' \in [Goals -> Nat]
    <3>1. \/ drops' = drops
          \/ drops' = [drops EXCEPT ![goal[p]] = drops[goal[p]] + 1]
      BY <1>11, Zenon DEF ExportDrop
    <3>2. goal[p] \in Goals
      BY <1>11 DEF ExportDrop
    <3> QED
      BY <3>1, <3>2 DEF TypeOK
  <2>2. /\ tries' \in [Procs -> Nat]
        /\ pc' \in [Procs -> {"idle", "started"} \cup LockedPC]
    BY <1>11 DEF TypeOK, ExportDrop, Goto, LockedPC
  <2> QED
    BY <1>11, <2>1, <2>2 DEF TypeOK, ExportDrop, tickets, outcome
<1>12. CASE ExportFails(p)
  BY <1>12 DEF TypeOK, ExportFails, tickets, output, outcome
<1>13. CASE Announce(p)
  <2>1. \A g \in Goals : MinOf(ready[g] + 1, Want[g] + 1) \in Nat
    BY DEF MinOf, TypeOK
  <2>2. ready' \in [Goals -> Nat]
    BY <1>13, <2>1 DEF Announce, TypeOK
  <2> QED
    BY <1>13, <2>2 DEF TypeOK, Announce, Goto, LockedPC, local, tickets, outcome
<1> QED
  BY <1>1, <1>3, <1>4, <1>5, <1>6, <1>7, <1>8, <1>9, <1>10, <1>11, <1>12, <1>13
  DEF Step

LEMMA NextType ==
  ASSUME TypeOK, [Next]_vars
  PROVE  TypeOK'
<1>1. CASE Tick
  <2>1. nowAge' \in [Procs -> Nat]
    BY <1>1 DEF Tick, TypeOK
  <2>2. age' \in [Tickets -> Nat] /\ realAge' \in [Tickets -> Nat]
    BY <1>1 DEF Tick, TypeOK
  <2> QED
    BY <1>1, <2>1, <2>2 DEF TypeOK, Tick, output, outcome
<1>2. ASSUME NEW p \in Procs, Kill(p) PROVE TypeOK'
  <2>1. Reset(p, "killed") /\ holder' \in Procs \cup {NoProc}
    BY <1>2 DEF Kill, Leave, TypeOK
  <2>2. lost' \subseteq Tickets
    BY <1>2 DEF Kill, TypeOK
  <2> QED
    BY <1>2, <2>1, <2>2, ResetType DEF TypeOK, Kill, output
<1>3. CASE UNCHANGED vars
  BY <1>3 DEF TypeOK, vars, local, tickets, output, outcome
<1> QED
  BY <1>1, <1>2, <1>3, StepType DEF Next

(* Every variable of the cycle keeps its type, whatever the manifest, the  *)
(* number of processes and the supply of requests.                         *)
THEOREM TypeCorrect == Spec => []TypeOK
<1>1. Init => TypeOK
  BY DEF Init, TypeOK, LockedPC
<1> QED
  BY <1>1, NextType, PTL DEF Spec

-----------------------------------------------------------------------------
(* Only the owner of the lock is past the lock, and a process outside it   *)
(* has no goal, no allowance and no spend.                                 *)
LockInv ==
  /\ \A p \in Procs : pc[p] \in LockedPC <=> holder = p
  /\ \A p \in Procs : spent[p] # {} => pc[p] \in {"running", "ran"}
  /\ \A p \in Procs : pc[p] \notin LockedPC => maxReq[p] = 0

LEMMA LeaveLock ==
  ASSUME TypeOK, LockInv, NEW p \in Procs, NEW how, Leave(p, how)
  PROVE  LockInv'
BY DEF TypeOK, LockInv, Leave, Reset, LockedPC

LEMMA NextLock ==
  ASSUME TypeOK, LockInv, [Next]_vars
  PROVE  LockInv'
<1>1. ASSUME NEW p \in Procs, NEW how, Leave(p, how) PROVE LockInv'
  BY <1>1, LeaveLock
<1>2. ASSUME NEW p \in Procs, Step(p) PROVE LockInv'
  <2>1. ASSUME NEW m \in Modes, Start(p, m) PROVE LockInv'
    BY <2>1 DEF TypeOK, LockInv, Start, Goto, LockedPC
  <2>2. CASE LockHeld(p) \/ BadManifest(p) \/ NoEligibleGoal(p)
             \/ BudgetExhausted(p) \/ NoFixture(p) \/ Complete(p)
             \/ KernelRaises(p)
    BY <1>1, <2>2 DEF LockHeld, BadManifest, NoEligibleGoal, BudgetExhausted,
                      NoFixture, Complete, KernelRaises, Finish
  <2>3. CASE Acquire(p)
    BY <2>3 DEF TypeOK, LockInv, Acquire, Goto, LockedPC, local
  <2>4. CASE BeginRun(p)
    BY <2>4 DEF TypeOK, LockInv, BeginRun, Goto, LockedPC
  <2>5. CASE DryRun(p)
    BY <2>5 DEF TypeOK, LockInv, DryRun, Goto, LockedPC
  <2>6. ASSUME NEW t \in Tickets, Request(p, t) PROVE LockInv'
    BY <2>6 DEF TypeOK, LockInv, Request, LockedPC, local
  <2>7. CASE KernelEnds(p)
    BY <2>7 DEF TypeOK, LockInv, KernelEnds, Goto, LockedPC, local
  <2>8. ASSUME NEW n \in SlotCounts, RecordSpend(p, n) PROVE LockInv'
    BY <2>8 DEF TypeOK, LockInv, RecordSpend, Goto, LockedPC
  <2>9. ASSUME NEW overwrite \in BOOLEAN, ExportDrop(p, overwrite)
        PROVE LockInv'
    BY <2>9 DEF TypeOK, LockInv, ExportDrop, Goto, LockedPC
  <2>10. CASE ExportFails(p)
    BY <2>10 DEF TypeOK, LockInv, ExportFails
  <2>11. CASE Announce(p)
    BY <2>11 DEF TypeOK, LockInv, Announce, Goto, LockedPC, local
  <2> QED
    BY <1>2, <2>1, <2>2, <2>3, <2>4, <2>5, <2>6, <2>7, <2>8, <2>9, <2>10, <2>11
    DEF Step
<1>3. ASSUME NEW p \in Procs, Kill(p) PROVE LockInv'
  BY <1>1, <1>3 DEF Kill
<1>4. CASE Tick
  BY <1>4 DEF TypeOK, LockInv, Tick
<1>5. CASE UNCHANGED vars
  BY <1>5 DEF LockInv, vars, local
<1> QED
  BY <1>2, <1>3, <1>4, <1>5 DEF Next

LEMMA LockInvariant == Spec => []LockInv
<1>1. Init => LockInv
  BY DEF Init, LockInv, LockedPC
<1> QED
  BY <1>1, NextLock, TypeCorrect, PTL DEF Spec

(* Whatever is killed and whenever: one process at a time holds the lock,  *)
(* and only a run in progress has spend the ledger does not know.          *)
THEOREM MutualExclusion == Spec => []SingleInstance
<1>1. LockInv => SingleInstance
  BY DEF LockInv, SingleInstance
<1> QED
  BY <1>1, LockInvariant, PTL

-----------------------------------------------------------------------------
(* The budget.  A window can only overflow when a ticket is charged, and a *)
(* ticket is charged at the age of its cycle's `now`: every window that    *)
(* contains that age lies inside the one the cycle read its allowance      *)
(* from.  So the invariant keeps, for a run in progress, that what it read *)
(* and what it may still spend fit together, as long as it is the only one *)
(* to write.                                                               *)

InWindow(a) == {t \in Accounted : a <= age[t] /\ age[t] < a + Window}

AllowanceInv ==
  \A p \in Procs : pc[p] = "running" =>
    /\ Cardinality(spent[p]) <= maxReq[p]
    /\ maxReq[p] > 0 =>
         Cardinality(EntriesSince(nowAge[p])) + maxReq[p] <= WindowMax

StampInv == \A p \in Procs : \A t \in spent[p] : age[t] = nowAge[p]

BudgetInv == \A a \in Nat : Cardinality(InWindow(a)) <= WindowMax

LEMMA AccountedTickets ==
  ASSUME NEW t
  PROVE  t \in Accounted <=> t \in ledger \/ \E p \in Procs : t \in spent[p]
BY DEF Accounted

LEMMA AccountedTickets2 ==
  ASSUME NEW t
  PROVE  t \in Accounted' <=> t \in ledger' \/ \E p \in Procs : t \in spent'[p]
BY DEF Accounted

LEMMA AccountedType ==
  ASSUME TypeOK
  PROVE  Accounted \in SUBSET Tickets
BY DEF TypeOK, Accounted

(* A step after which every window holds no more than one of the windows   *)
(* before keeps the budget.                                                *)
LEMMA WindowShrinks ==
  ASSUME TypeOK, BudgetInv, NEW a \in Nat, NEW b \in Nat,
         NEW S \in SUBSET InWindow(b)
  PROVE  Cardinality(S) <= WindowMax
<1>1. InWindow(b) \in SUBSET Tickets
  BY AccountedType DEF InWindow
<1>2. /\ Cardinality(S) <= Cardinality(InWindow(b))
      /\ Cardinality(S) \in Nat
      /\ Cardinality(InWindow(b)) \in Nat
  BY <1>1, SubsetCardinality, TicketCardinality
<1> QED
  BY <1>2 DEF BudgetInv

(* A step that moves tickets between a run and the ledger, or forgets      *)
(* some, but charges none.                                                 *)
LEMMA NothingCharged ==
  ASSUME TypeOK, BudgetInv, Accounted' \subseteq Accounted, age' = age
  PROVE  BudgetInv'
<1>1. ASSUME NEW a \in Nat PROVE Cardinality(InWindow(a)') <= WindowMax
  <2>1. InWindow(a)' \in SUBSET InWindow(a)
    BY DEF InWindow
  <2> QED
    BY <2>1, WindowShrinks
<1> QED
  BY <1>1 DEF BudgetInv

(* A step in which p, the only process with spend in flight, charges       *)
(* tickets at the age of its `now` within what it read from the ledger.    *)
LEMMA ChargeFits ==
  ASSUME TypeOK, TypeOK', BudgetInv, NEW p \in Procs, NEW T \in SUBSET Tickets,
         ledger' = ledger, nowAge' = nowAge,
         spent' = [spent EXCEPT ![p] = spent[p] \cup T],
         \A q \in Procs : q # p => spent[q] = {},
         T \cap ledger = {},
         \A t \in Tickets : t \notin T => age'[t] = age[t],
         \A t \in spent'[p] : age'[t] = nowAge[p],
         Cardinality(EntriesSince(nowAge[p])) + Cardinality(spent'[p])
           <= WindowMax
  PROVE  BudgetInv'
<1> SUFFICES ASSUME NEW a \in Nat
             PROVE  Cardinality(InWindow(a)') <= WindowMax
  BY DEF BudgetInv
<1> DEFINE n == nowAge[p]
           E == EntriesSince(n)
<1>1. n \in Nat /\ E \in SUBSET Tickets /\ spent'[p] \in SUBSET Tickets
  BY RemainingFits DEF TypeOK
<1>2. spent'[p] = spent[p] \cup T /\ \A q \in Procs : q # p => spent'[q] = {}
  BY DEF TypeOK
<1>3. CASE a <= n /\ n < a + Window
  <2>1. InWindow(a)' \in SUBSET (E \cup spent'[p])
    <3> SUFFICES ASSUME NEW t \in InWindow(a)', t \notin spent'[p]
                 PROVE  t \in E
      OBVIOUS
    <3>1. t \in ledger
      BY <1>2, AccountedTickets2 DEF InWindow
    <3>2. age'[t] = age[t]
      BY <1>2, <3>1 DEF TypeOK
    <3>3. age[t] < a + Window
      BY <3>2 DEF InWindow
    <3>4. age[t] < n + Window
      BY <1>1, <1>3, <3>1, <3>3 DEF TypeOK
    <3> QED
      BY <3>1, <3>4 DEF EntriesSince
  <2>2. Cardinality(InWindow(a)') <= Cardinality(E \cup spent'[p])
    BY <1>1, <2>1, SubsetCardinality
  <2>3. Cardinality(E \cup spent'[p]) <= Cardinality(E) + Cardinality(spent'[p])
    BY <1>1, UnionCardinality
  <2>4. /\ Cardinality(InWindow(a)') \in Nat
        /\ Cardinality(E \cup spent'[p]) \in Nat
        /\ Cardinality(E) \in Nat
        /\ Cardinality(spent'[p]) \in Nat
    <3>1. E \cup spent'[p] \in SUBSET Tickets
      BY <1>1
    <3>2. InWindow(a)' \in SUBSET Tickets
      BY <2>1, <3>1
    <3> QED
      BY <1>1, <3>1, <3>2, TicketCardinality
  <2> QED
    BY <2>2, <2>3, <2>4
<1>4. CASE ~(a <= n /\ n < a + Window)
  <2>1. InWindow(a)' \in SUBSET InWindow(a)
    <3> SUFFICES ASSUME NEW t \in InWindow(a)'
                 PROVE  t \in InWindow(a)
      OBVIOUS
    <3>1. t \notin spent'[p]
      BY <1>4 DEF InWindow
    <3>2. t \in ledger /\ t \notin T
      BY <1>2, <3>1, AccountedTickets2 DEF InWindow
    <3>3. age'[t] = age[t]
      BY <3>2 DEF TypeOK
    <3> QED
      BY <3>2, <3>3, AccountedTickets DEF InWindow
  <2> QED
    BY <2>1, WindowShrinks
<1> QED
  BY <1>3, <1>4

-----------------------------------------------------------------------------
IInv == TypeOK /\ LockInv /\ AllowanceInv /\ StampInv /\ BudgetInv

(* A step that leaves the ledger and the clock alone and starts no run.    *)
LEMMA QuietStep ==
  ASSUME IInv, TypeOK', ledger' = ledger, age' = age, nowAge' = nowAge,
         spent' = spent, maxReq' = maxReq,
         \A p \in Procs : pc'[p] = "running" => pc[p] = "running"
  PROVE  AllowanceInv' /\ StampInv' /\ BudgetInv'
<1>1. AllowanceInv'
  <2>1. ASSUME NEW p \in Procs
        PROVE  EntriesSince(nowAge[p])' = EntriesSince(nowAge[p])
    BY DEF EntriesSince
  <2> QED
    BY <2>1 DEF IInv, AllowanceInv
<1>2. StampInv'
  BY DEF IInv, StampInv
<1>3. BudgetInv'
  <2>1. Accounted' = Accounted
    BY DEF Accounted
  <2> QED
    BY <2>1, NothingCharged DEF IInv
<1> QED
  BY <1>1, <1>2, <1>3

LEMMA LeaveStep ==
  ASSUME IInv, TypeOK', NEW p \in Procs, NEW how, Leave(p, how),
         ledger' = ledger, age' = age
  PROVE  AllowanceInv' /\ StampInv' /\ BudgetInv'
<1>1. /\ pc'[p] = "idle" /\ spent'[p] = {}
      /\ \A q \in Procs : q # p => /\ pc'[q] = pc[q]
                                   /\ spent'[q] = spent[q]
                                   /\ nowAge'[q] = nowAge[q]
                                   /\ maxReq'[q] = maxReq[q]
  BY DEF Leave, Reset, IInv, TypeOK
<1>2. AllowanceInv'
  <2>1. ASSUME NEW q \in Procs, q # p
        PROVE  EntriesSince(nowAge[q])' = EntriesSince(nowAge[q])
    BY <1>1, <2>1 DEF EntriesSince
  <2> QED
    BY <1>1, <2>1 DEF IInv, AllowanceInv
<1>3. StampInv'
  BY <1>1 DEF IInv, StampInv
<1>4. BudgetInv'
  <2>1. Accounted' \subseteq Accounted
    BY <1>1, AccountedTickets, AccountedTickets2
  <2> QED
    BY <2>1, NothingCharged DEF IInv
<1> QED
  BY <1>2, <1>3, <1>4

LEMMA BeginRunStep ==
  ASSUME IInv, TypeOK', NEW p \in Procs, BeginRun(p)
  PROVE  AllowanceInv' /\ StampInv' /\ BudgetInv'
<1>1. /\ ledger' = ledger /\ age' = age /\ nowAge' = nowAge /\ spent' = spent
      /\ maxReq'[p] = Allowance(nowAge[p])
      /\ pc[p] = "locked"
      /\ \A q \in Procs : q # p => pc'[q] = pc[q] /\ maxReq'[q] = maxReq[q]
  BY DEF BeginRun, Goto, IInv, TypeOK, tickets
<1>2. spent[p] = {}
  BY <1>1 DEF IInv, LockInv
<1>3. AllowanceInv'
  <2>1. ASSUME NEW q \in Procs
        PROVE  EntriesSince(nowAge[q])' = EntriesSince(nowAge[q])
    BY <1>1 DEF EntriesSince
  <2>2. Cardinality(spent'[p]) <= maxReq'[p]
    <3>1. Cardinality(spent'[p]) = 0
      BY <1>1, <1>2, FS_EmptySet
    <3> QED
      BY <3>1 DEF TypeOK
  <2>3. maxReq'[p] > 0 =>
          Cardinality(EntriesSince(nowAge[p])) + maxReq'[p] <= WindowMax
    <3>1. nowAge[p] \in Nat
      BY DEF IInv, TypeOK
    <3>2. /\ Remaining(nowAge[p]) \in Nat
          /\ \/ WindowUsed(nowAge[p]) + Remaining(nowAge[p]) <= WindowMax
             \/ Remaining(nowAge[p]) = 0
          /\ maxReq'[p] \in Nat
          /\ maxReq'[p] <= Remaining(nowAge[p])
      BY <1>1, <3>1, RemainingFits DEF IInv
    <3>3. WindowUsed(nowAge[p]) \in Nat
      BY <3>1, RemainingFits, TicketCardinality DEF IInv, WindowUsed
    <3> QED
      BY <3>2, <3>3 DEF WindowUsed
  <2>4. ASSUME NEW q \in Procs, pc'[q] = "running"
        PROVE  /\ Cardinality(spent'[q]) <= maxReq'[q]
               /\ maxReq'[q] > 0 =>
                    Cardinality(EntriesSince(nowAge[q])') + maxReq'[q]
                      <= WindowMax
    <3>1. CASE q = p
      BY <2>1, <2>2, <2>3, <3>1
    <3>2. CASE q # p
      BY <1>1, <2>1, <2>4, <3>2 DEF IInv, AllowanceInv
    <3> QED
      BY <3>1, <3>2
  <2> QED
    BY <2>4 DEF AllowanceInv
<1>4. StampInv'
  BY <1>1 DEF IInv, StampInv
<1>5. BudgetInv'
  <2>1. Accounted' = Accounted
    BY <1>1 DEF Accounted
  <2> QED
    BY <1>1, <2>1, NothingCharged DEF IInv
<1> QED
  BY <1>3, <1>4, <1>5

LEMMA RequestStep ==
  ASSUME IInv, TypeOK', NEW p \in Procs, NEW t \in Tickets, Request(p, t)
  PROVE  AllowanceInv' /\ StampInv' /\ BudgetInv'
<1>1. /\ ledger' = ledger /\ nowAge' = nowAge /\ maxReq' = maxReq /\ pc' = pc
      /\ spent' = [spent EXCEPT ![p] = spent[p] \cup {t}]
      /\ age' = [age EXCEPT ![t] = nowAge[p]]
      /\ pc[p] = "running"
      /\ t \notin ledger
      /\ Cardinality(spent[p]) < maxReq[p]
  BY DEF Request, FreeTickets, local
<1>2. \A q \in Procs : q # p => spent[q] = {} /\ pc[q] # "running"
  BY <1>1 DEF IInv, LockInv, LockedPC
<1>3. EntriesSince(nowAge[p])' = EntriesSince(nowAge[p])
  BY <1>1 DEF EntriesSince, IInv, TypeOK
<1>4. spent'[p] = spent[p] \cup {t}
  BY <1>1 DEF IInv, TypeOK
<1>5. Cardinality(spent'[p]) <= maxReq[p]
  <2>1. spent[p] \in SUBSET Tickets /\ spent'[p] \in SUBSET Tickets
    BY DEF IInv, TypeOK
  <2>2. /\ Cardinality(spent[p]) \in Nat
        /\ Cardinality(spent'[p]) \in Nat
        /\ maxReq[p] \in Nat
    BY <2>1, TicketCardinality DEF IInv, TypeOK
  <2>3. Cardinality(spent'[p]) <= Cardinality(spent[p]) + 1
    BY <1>4, <2>1, AddCardinality
  <2> QED
    BY <1>1, <2>2, <2>3
<1>6. Cardinality(EntriesSince(nowAge[p])) + maxReq[p] <= WindowMax
  <2>1. Cardinality(spent[p]) \in Nat
    BY TicketCardinality DEF IInv, TypeOK
  <2> QED
    BY <1>1, <2>1 DEF IInv, AllowanceInv, TypeOK
<1>7. AllowanceInv'
  BY <1>1, <1>2, <1>3, <1>5, <1>6 DEF AllowanceInv
<1>8. \A u \in spent'[p] : age'[u] = nowAge[p]
  BY <1>1, <1>4 DEF IInv, StampInv, TypeOK
<1>9. StampInv'
  BY <1>1, <1>2, <1>8 DEF StampInv, IInv, TypeOK
<1>10. BudgetInv'
  <2>1. Cardinality(EntriesSince(nowAge[p])) + Cardinality(spent'[p])
          <= WindowMax
    <3>1. /\ Cardinality(EntriesSince(nowAge[p])) \in Nat
          /\ Cardinality(spent'[p]) \in Nat
          /\ maxReq[p] \in Nat
      BY RemainingFits, TicketCardinality DEF IInv, TypeOK
    <3> QED
      BY <1>5, <1>6, <3>1
  <2>2. \A u \in Tickets : u \notin {t} => age'[u] = age[u]
    BY <1>1 DEF IInv, TypeOK
  <2>3. {t} \cap ledger = {} /\ {t} \in SUBSET Tickets
    BY <1>1
  <2>4. /\ TypeOK /\ BudgetInv
        /\ ledger' = ledger /\ nowAge' = nowAge
        /\ spent' = [spent EXCEPT ![p] = spent[p] \cup {t}]
        /\ \A q \in Procs : q # p => spent[q] = {}
    BY <1>1, <1>2 DEF IInv
  <2> QED
    BY <1>8, <2>1, <2>2, <2>3, <2>4, ChargeFits
<1> QED
  BY <1>7, <1>9, <1>10

LEMMA DryRunStep ==
  ASSUME IInv, TypeOK', NEW p \in Procs, DryRun(p)
  PROVE  AllowanceInv' /\ StampInv' /\ BudgetInv'
<1> DEFINE n == nowAge[p]
<1>1. PICK T \in SUBSET FreeTickets :
        /\ Cardinality(T) = Fixture
        /\ spent' = [spent EXCEPT ![p] = T]
        /\ age' = [t \in Tickets |-> IF t \in T THEN n ELSE age[t]]
  BY DEF DryRun
<1>2. /\ ledger' = ledger /\ nowAge' = nowAge
      /\ pc[p] = "locked" /\ pc'[p] = "ran"
      /\ Remaining(n) >= MinCycle
      /\ \A q \in Procs : q # p => pc'[q] = pc[q] /\ maxReq'[q] = maxReq[q]
  BY DEF DryRun, Goto, IInv, TypeOK
<1>3. T \in SUBSET Tickets /\ T \cap ledger = {}
  BY DEF FreeTickets
<1>4. /\ spent[p] = {}
      /\ \A q \in Procs : q # p => spent[q] = {} /\ pc[q] # "running"
  BY <1>2 DEF IInv, LockInv, LockedPC
<1>5. spent'[p] = T /\ \A q \in Procs : q # p => spent'[q] = {}
  BY <1>1, <1>4 DEF IInv, TypeOK
<1>6. AllowanceInv'
  BY <1>2, <1>4 DEF AllowanceInv
<1>7. \A u \in spent'[p] : age'[u] = n
  BY <1>1, <1>3, <1>5
<1>8. StampInv'
  BY <1>2, <1>5, <1>7 DEF StampInv
<1>9. CASE Fixture = 0
  <2>1. T = {}
    BY <1>1, <1>3, <1>9, TicketCardinality, FS_EmptySet
  <2>2. age' = age
    BY <1>1, <2>1 DEF IInv, TypeOK
  <2>3. Accounted' \subseteq Accounted
    BY <1>2, <1>5, <2>1, AccountedTickets, AccountedTickets2
  <2> QED
    BY <1>6, <1>8, <2>2, <2>3, NothingCharged DEF IInv
<1>10. CASE Fixture # 0
  <2>1. Cardinality(EntriesSince(n)) + Cardinality(spent'[p]) <= WindowMax
    <3>1. /\ n \in Nat /\ TypeOK
          /\ EntriesSince(n) \in SUBSET Tickets
      BY RemainingFits DEF IInv, TypeOK
    <3>2. /\ Remaining(n) \in Nat
          /\ WindowUsed(n) + Remaining(n) <= WindowMax \/ Remaining(n) = 0
      BY <3>1, RemainingFits
    <3>3. WindowUsed(n) \in Nat
      BY <3>1, TicketCardinality DEF WindowUsed
    <3>4. WindowUsed(n) + Fixture <= WindowMax
      BY <1>2, <1>10, <3>2, <3>3
    <3> QED
      BY <1>1, <1>5, <3>4 DEF WindowUsed
  <2>2. /\ TypeOK /\ BudgetInv
        /\ spent' = [spent EXCEPT ![p] = spent[p] \cup T]
        /\ \A t \in Tickets : t \notin T => age'[t] = age[t]
    BY <1>1, <1>4 DEF IInv
  <2>3. BudgetInv'
    BY <1>2, <1>3, <1>4, <1>7, <2>1, <2>2, ChargeFits
  <2> QED
    BY <1>6, <1>8, <2>3
<1> QED
  BY <1>9, <1>10

LEMMA RecordSpendStep ==
  ASSUME IInv, TypeOK', NEW p \in Procs, NEW n \in SlotCounts, RecordSpend(p, n)
  PROVE  AllowanceInv' /\ StampInv' /\ BudgetInv'
<1>1. /\ ledger' = ledger \cup spent[p] /\ age' = age /\ nowAge' = nowAge
      /\ pc[p] = "ran" /\ pc'[p] = "exporting"
      /\ spent'[p] = {}
      /\ \A q \in Procs : q # p => pc'[q] = pc[q] /\ spent'[q] = spent[q]
  BY DEF RecordSpend, Goto, IInv, TypeOK
<1>2. \A q \in Procs : q # p => pc[q] # "running"
  BY <1>1 DEF IInv, LockInv, LockedPC
<1>3. AllowanceInv'
  BY <1>1, <1>2 DEF AllowanceInv
<1>4. StampInv'
  BY <1>1 DEF IInv, StampInv
<1>5. Accounted' \subseteq Accounted
  BY <1>1, AccountedTickets, AccountedTickets2
<1> QED
  BY <1>1, <1>3, <1>4, <1>5, NothingCharged DEF IInv

LEMMA TickStep ==
  ASSUME IInv, TypeOK', Tick
  PROVE  AllowanceInv' /\ StampInv' /\ BudgetInv'
<1>1. /\ pc' = pc /\ spent' = spent /\ maxReq' = maxReq
      /\ ledger' \subseteq ledger
      /\ \A q \in Procs : pc[q] # "idle" => nowAge'[q] = nowAge[q] + 1
  BY DEF Tick, IInv, TypeOK
<1>2. \A t \in Accounted' : t \in Tickets /\ age'[t] = age[t] + 1
  BY AccountedTickets2 DEF Tick, IInv, TypeOK, Accounted
<1>3. \A t \in Accounted' : t \in Accounted
  BY <1>1, AccountedTickets, AccountedTickets2
<1>4. \A q \in Procs : \A t \in spent[q] : t \in Accounted'
  BY <1>1, AccountedTickets2
<1>5. \A q \in Procs : spent[q] # {} => nowAge'[q] = nowAge[q] + 1
  BY <1>1 DEF IInv, LockInv
<1>6. StampInv'
  BY <1>1, <1>2, <1>4, <1>5 DEF IInv, StampInv
<1>7. AllowanceInv'
  <2> SUFFICES ASSUME NEW q \in Procs, pc[q] = "running", maxReq[q] > 0
               PROVE  Cardinality(EntriesSince(nowAge[q])') + maxReq[q]
                        <= WindowMax
    BY <1>1 DEF AllowanceInv, IInv
  <2>1. nowAge'[q] = nowAge[q] + 1
    BY <1>1
  <2>2. EntriesSince(nowAge[q])' \in SUBSET EntriesSince(nowAge[q])
    <3> SUFFICES ASSUME NEW t \in ledger', age'[t] < nowAge'[q] + Window
                 PROVE  t \in ledger /\ age[t] < nowAge[q] + Window
      BY DEF EntriesSince
    <3>1. t \in Accounted' /\ t \in ledger
      BY <1>1, AccountedTickets2
    <3>2. age'[t] = age[t] + 1 /\ t \in Tickets
      BY <1>2, <3>1
    <3> QED
      BY <2>1, <3>1, <3>2 DEF IInv, TypeOK
  <2>3. EntriesSince(nowAge[q]) \in SUBSET Tickets
    BY DEF EntriesSince, IInv, TypeOK
  <2>4. /\ Cardinality(EntriesSince(nowAge[q])') \in Nat
        /\ Cardinality(EntriesSince(nowAge[q])) \in Nat
        /\ Cardinality(EntriesSince(nowAge[q])')
             <= Cardinality(EntriesSince(nowAge[q]))
    BY <2>2, <2>3, SubsetCardinality, TicketCardinality
  <2> QED
    BY <2>4 DEF IInv, AllowanceInv, TypeOK
<1>8. BudgetInv'
  <2> SUFFICES ASSUME NEW a \in Nat
               PROVE  Cardinality(InWindow(a)') <= WindowMax
    BY DEF BudgetInv
  <2> DEFINE b == IF a = 0 THEN 0 ELSE a - 1
  <2>1. b \in Nat
    OBVIOUS
  <2>2. InWindow(a)' \in SUBSET InWindow(b)
    <3> SUFFICES ASSUME NEW t \in Accounted',
                        a <= age'[t], age'[t] < a + Window
                 PROVE  t \in Accounted /\ b <= age[t] /\ age[t] < b + Window
      BY DEF InWindow
    <3>1. t \in Accounted /\ age'[t] = age[t] + 1 /\ age[t] \in Nat
      BY <1>2, <1>3 DEF IInv, TypeOK
    <3> QED
      BY <3>1
  <2> QED
    BY <2>1, <2>2, WindowShrinks DEF IInv
<1> QED
  BY <1>6, <1>7, <1>8

LEMMA NextBudget ==
  ASSUME IInv, [Next]_vars
  PROVE  IInv'
<1>1. TypeOK' /\ LockInv'
  BY NextType, NextLock DEF IInv
<1>2. ASSUME NEW p \in Procs, Finish(p)
      PROVE  AllowanceInv' /\ StampInv' /\ BudgetInv'
  <2>1. Leave(p, "finished") /\ ledger' = ledger /\ age' = age
    BY <1>2 DEF Finish, tickets
  <2> QED
    BY <1>1, <2>1, LeaveStep
<1>3. ASSUME NEW p \in Procs, Step(p)
      PROVE  AllowanceInv' /\ StampInv' /\ BudgetInv'
  <2>1. ASSUME NEW m \in Modes, Start(p, m)
        PROVE  AllowanceInv' /\ StampInv' /\ BudgetInv'
    BY <1>1, <2>1, QuietStep DEF Start, Goto, IInv, TypeOK, tickets
  <2>2. CASE LockHeld(p) \/ BadManifest(p) \/ NoEligibleGoal(p)
             \/ BudgetExhausted(p) \/ NoFixture(p) \/ Complete(p)
    BY <1>2, <2>2 DEF LockHeld, BadManifest, NoEligibleGoal, BudgetExhausted,
                      NoFixture, Complete
  <2>3. CASE KernelRaises(p)
    <3>1. Leave(p, "raised") /\ ledger' = ledger /\ age' = age
      BY <2>3 DEF KernelRaises, tickets
    <3> QED
      BY <1>1, <3>1, LeaveStep
  <2>4. CASE Acquire(p)
    BY <1>1, <2>4, QuietStep DEF Acquire, Goto, IInv, TypeOK, local, tickets
  <2>5. CASE BeginRun(p)
    BY <1>1, <2>5, BeginRunStep
  <2>6. CASE DryRun(p)
    BY <1>1, <2>6, DryRunStep
  <2>7. ASSUME NEW t \in Tickets, Request(p, t)
        PROVE  AllowanceInv' /\ StampInv' /\ BudgetInv'
    BY <1>1, <2>7, RequestStep
  <2>8. CASE KernelEnds(p)
    BY <1>1, <2>8, QuietStep DEF KernelEnds, Goto, IInv, TypeOK, local, tickets
  <2>9. ASSUME NEW n \in SlotCounts, RecordSpend(p, n)
        PROVE  AllowanceInv' /\ StampInv' /\ BudgetInv'
    BY <1>1, <2>9, RecordSpendStep
  <2>10. ASSUME NEW overwrite \in BOOLEAN, ExportDrop(p, overwrite)
         PROVE  AllowanceInv' /\ StampInv' /\ BudgetInv'
    BY <1>1, <2>10, QuietStep DEF ExportDrop, Goto, IInv, TypeOK, tickets
  <2>11. CASE ExportFails(p)
    BY <1>1, <2>11, QuietStep DEF ExportFails, tickets
  <2>12. CASE Announce(p)
    BY <1>1, <2>12, QuietStep DEF Announce, Goto, IInv, TypeOK, local, tickets
  <2> QED
    BY <1>3, <2>1, <2>2, <2>3, <2>4, <2>5, <2>6, <2>7, <2>8, <2>9, <2>10, <2>11,
       <2>12 DEF Step
<1>4. ASSUME NEW p \in Procs, Kill(p)
      PROVE  AllowanceInv' /\ StampInv' /\ BudgetInv'
  <2>1. Leave(p, "killed") /\ ledger' = ledger /\ age' = age
    BY <1>4 DEF Kill
  <2> QED
    BY <1>1, <2>1, LeaveStep
<1>5. CASE UNCHANGED vars
  <2>1. /\ ledger' = ledger /\ age' = age /\ nowAge' = nowAge
        /\ spent' = spent /\ maxReq' = maxReq /\ pc' = pc
    BY <1>5 DEF vars, local, tickets
  <2> QED
    BY <1>1, <2>1, QuietStep DEF IInv
<1> QED
  BY <1>1, <1>3, <1>4, <1>5, TickStep DEF Next, IInv

LEMMA BudgetInvariant == Spec => []IInv
<1>1. Init => IInv
  <2> SUFFICES ASSUME Init PROVE IInv
    OBVIOUS
  <2>1. TypeOK /\ LockInv
    BY DEF Init, TypeOK, LockInv, LockedPC
  <2>2. \A a \in Nat : InWindow(a) = {}
    BY AccountedTickets DEF Init, InWindow
  <2>3. BudgetInv
    BY <2>2, FS_EmptySet DEF BudgetInv
  <2> QED
    BY <2>1, <2>3 DEF Init, IInv, AllowanceInv, StampInv
<1> QED
  BY <1>1, NextBudget, PTL DEF Spec

(* The ledger's budget holds for every number of contending processes,     *)
(* every manifest and every pattern of kills: no window of window_seconds  *)
(* of ledger time, with the run in progress, exceeds window_max_requests.  *)
THEOREM BudgetHolds == Spec => []WindowBounded
<1>1. IInv => WindowBounded
  <2> SUFFICES ASSUME IInv, NEW a \in 0..(Window + MaxCycle)
               PROVE  Cardinality(InWindow(a)) <= WindowMax
    BY DEF WindowBounded, InWindow
  <2> QED
    BY DEF IInv, BudgetInv
<1> QED
  BY <1>1, BudgetInvariant, PTL

-----------------------------------------------------------------------------
(* From ledger time to the time requests are made: they differ by at most  *)
(* the life of a cycle.                                                    *)
RealInv ==
  /\ \A p \in Procs : nowAge[p] <= MaxCycle
  /\ \A t \in Accounted : realAge[t] <= age[t] /\ age[t] <= realAge[t] + MaxCycle

LEMMA QuietReal ==
  ASSUME RealInv, Accounted' \subseteq Accounted, age' = age,
         realAge' = realAge, \A p \in Procs : nowAge'[p] <= MaxCycle
  PROVE  RealInv'
BY DEF RealInv

LEMMA LeaveReal ==
  ASSUME TypeOK, RealInv, NEW p \in Procs, NEW how, Leave(p, how),
         ledger' = ledger, age' = age, realAge' = realAge
  PROVE  RealInv'
<1>1. \A q \in Procs : nowAge'[q] <= MaxCycle
  BY DEF Leave, Reset, TypeOK, RealInv
<1>2. \A q \in Procs : spent'[q] \subseteq spent[q]
  BY DEF Leave, Reset, TypeOK
<1>3. Accounted' \subseteq Accounted
  BY <1>2, AccountedTickets, AccountedTickets2
<1> QED
  BY <1>1, <1>3, QuietReal

LEMMA NextReal ==
  ASSUME TypeOK, RealInv, [Next]_vars
  PROVE  RealInv'
<1>1. ASSUME ledger' = ledger, age' = age, realAge' = realAge,
             nowAge' = nowAge, spent' = spent
      PROVE  RealInv'
  <2>1. Accounted' = Accounted
    BY <1>1 DEF Accounted
  <2> QED
    BY <1>1, <2>1, QuietReal DEF RealInv
<1>2. ASSUME NEW p \in Procs, NEW how, Leave(p, how),
             ledger' = ledger, age' = age, realAge' = realAge
      PROVE  RealInv'
  BY <1>2, LeaveReal
<1>3. ASSUME NEW p \in Procs, Step(p) PROVE RealInv'
  <2>1. CASE \/ \E m \in Modes : Start(p, m)
             \/ Acquire(p) \/ BeginRun(p) \/ KernelEnds(p)
             \/ \E overwrite \in BOOLEAN : ExportDrop(p, overwrite)
             \/ ExportFails(p) \/ Announce(p)
    BY <1>1, <2>1 DEF Start, Acquire, BeginRun, KernelEnds, ExportDrop,
                      ExportFails, Announce, local, tickets
  <2>2. CASE LockHeld(p) \/ BadManifest(p) \/ NoEligibleGoal(p)
             \/ BudgetExhausted(p) \/ NoFixture(p) \/ Complete(p)
             \/ KernelRaises(p)
    BY <1>2, <2>2 DEF LockHeld, BadManifest, NoEligibleGoal, BudgetExhausted,
                      NoFixture, Complete, KernelRaises, Finish, tickets
  <2>3. CASE DryRun(p)
    <3>1. PICK T \in SUBSET FreeTickets :
            /\ spent' = [spent EXCEPT ![p] = T]
            /\ age' = [t \in Tickets |-> IF t \in T THEN nowAge[p] ELSE age[t]]
            /\ realAge' = [t \in Tickets |-> IF t \in T THEN 0 ELSE realAge[t]]
      BY <2>3 DEF DryRun
    <3>2. ledger' = ledger /\ nowAge' = nowAge
      BY <2>3 DEF DryRun
    <3>3. \A t \in Accounted' : t \in T \/ t \in Accounted
      BY <3>1, <3>2, AccountedTickets, AccountedTickets2 DEF TypeOK
    <3>4. \A t \in Accounted' : t \in Tickets
      BY <3>3, AccountedType DEF FreeTickets
    <3>5. ASSUME NEW t \in Accounted'
          PROVE  realAge'[t] <= age'[t] /\ age'[t] <= realAge'[t] + MaxCycle
      <4>1. CASE t \in T
        BY <3>1, <3>4, <4>1 DEF RealInv, TypeOK
      <4>2. CASE t \notin T
        BY <3>1, <3>3, <3>4, <4>2 DEF RealInv, TypeOK
      <4> QED
        BY <4>1, <4>2
    <3> QED
      BY <3>2, <3>5 DEF RealInv
  <2>4. ASSUME NEW t \in Tickets, Request(p, t) PROVE RealInv'
    <3>1. /\ ledger' = ledger /\ nowAge' = nowAge
          /\ spent' = [spent EXCEPT ![p] = spent[p] \cup {t}]
          /\ age' = [age EXCEPT ![t] = nowAge[p]]
          /\ realAge' = [realAge EXCEPT ![t] = 0]
      BY <2>4 DEF Request, local
    <3>2. \A u \in Accounted' : u = t \/ u \in Accounted
      BY <3>1, AccountedTickets, AccountedTickets2 DEF TypeOK
    <3>3. \A u \in Accounted' : u \in Tickets
      BY <3>2, AccountedType
    <3> QED
      BY <3>1, <3>2, <3>3 DEF RealInv, TypeOK
  <2>5. ASSUME NEW n \in SlotCounts, RecordSpend(p, n) PROVE RealInv'
    <3>1. /\ ledger' = ledger \cup spent[p] /\ age' = age
          /\ realAge' = realAge /\ nowAge' = nowAge
          /\ \A q \in Procs : spent'[q] \subseteq spent[q]
      BY <2>5 DEF RecordSpend, TypeOK
    <3>2. Accounted' \subseteq Accounted
      BY <3>1, AccountedTickets, AccountedTickets2
    <3> QED
      BY <3>1, <3>2, QuietReal DEF RealInv
  <2> QED
    BY <1>3, <2>1, <2>2, <2>3, <2>4, <2>5 DEF Step
<1>4. ASSUME NEW p \in Procs, Kill(p) PROVE RealInv'
  BY <1>2, <1>4 DEF Kill
<1>5. CASE Tick
  <2>1. \A q \in Procs : nowAge'[q] <= MaxCycle
    BY <1>5 DEF Tick, TypeOK
  <2>2. \A t \in Accounted' : t \in Accounted /\ t \in Tickets
    BY <1>5, AccountedTickets, AccountedTickets2, AccountedType DEF Tick
  <2>3. \A t \in Accounted' : /\ age'[t] = age[t] + 1
                              /\ realAge'[t] = realAge[t] + 1
    BY <1>5, <2>2 DEF Tick, TypeOK, Accounted
  <2> QED
    BY <2>1, <2>2, <2>3 DEF RealInv, TypeOK
<1>6. CASE UNCHANGED vars
  BY <1>1, <1>6 DEF vars, local, tickets
<1> QED
  BY <1>3, <1>4, <1>5, <1>6 DEF Next

LEMMA RealInvariant == Spec => []RealInv
<1>1. Init => RealInv
  BY AccountedTickets DEF Init, RealInv
<1> QED
  BY <1>1, NextReal, TypeCorrect, PTL DEF Spec

(* The budget in real time: of the requests that reach the ledger, no      *)
(* window shorter than window_seconds by the longest life of a cycle holds *)
(* more than window_max_requests.                                          *)
THEOREM RealBudgetHolds == Spec => []RealSpendBounded
<1>1. IInv /\ RealInv => RealSpendBounded
  <2> SUFFICES ASSUME IInv, RealInv, NEW a \in 0..(Window + MaxCycle)
               PROVE  Cardinality({t \in Accounted :
                         a <= realAge[t] /\ realAge[t] < a + Window - MaxCycle})
                        <= WindowMax
    BY DEF RealSpendBounded
  <2> DEFINE S == {t \in Accounted :
                     a <= realAge[t] /\ realAge[t] < a + Window - MaxCycle}
  <2>1. S \in SUBSET InWindow(a)
    <3> SUFFICES ASSUME NEW t \in Accounted, a <= realAge[t],
                        realAge[t] < a + Window - MaxCycle
                 PROVE  a <= age[t] /\ age[t] < a + Window
      BY DEF InWindow
    <3>1. /\ t \in Tickets /\ age[t] \in Nat /\ realAge[t] \in Nat
          /\ realAge[t] <= age[t] /\ age[t] <= realAge[t] + MaxCycle
      BY AccountedType DEF IInv, RealInv, TypeOK
    <3> QED
      BY <3>1
  <2> QED
    BY <2>1, WindowShrinks DEF IInv
<1> QED
  BY <1>1, BudgetInvariant, RealInvariant, PTL
-----------------------------------------------------------------------------
(* What a cycle may still export.  A process that has a goal has room for  *)
(* what is left to try; the others have nothing to try.                    *)

HasGoal == {"running", "ran", "exporting", "announcing"}

WantInv ==
  /\ \A g \in Goals : drops[g] <= Want[g]
  /\ \A p \in Procs :
       /\ pc[p] \in HasGoal =>
            goal[p] \in Goals /\ drops[goal[p]] + tries[p] <= Want[goal[p]]
       /\ tries[p] > 0 => pc[p] \in {"exporting", "announcing"}

LEMMA LeaveWant ==
  ASSUME TypeOK, WantInv, NEW p \in Procs, NEW how, Leave(p, how), drops' = drops
  PROVE  WantInv'
BY DEF TypeOK, WantInv, Leave, Reset, HasGoal

LEMMA StepWant ==
  ASSUME TypeOK, LockInv, WantInv, NEW p \in Procs, Step(p)
  PROVE  WantInv'
<1> USE DEF TypeOK, WantInv, HasGoal
<1>1. ASSUME NEW m \in Modes, Start(p, m) PROVE WantInv'
  BY <1>1 DEF Start, Goto, output
<1>2. CASE LockHeld(p) \/ BadManifest(p) \/ NoEligibleGoal(p)
           \/ BudgetExhausted(p) \/ NoFixture(p) \/ Complete(p)
           \/ KernelRaises(p)
  BY <1>2, LeaveWant DEF LockHeld, BadManifest, NoEligibleGoal, BudgetExhausted,
     NoFixture, Complete, KernelRaises, Finish, output
<1>3. CASE Acquire(p)
  BY <1>3 DEF Acquire, Goto, local, output
<1>4. CASE BeginRun(p) \/ DryRun(p)
  <2>1. PICK g \in Goals : goal' = [goal EXCEPT ![p] = g]
    BY <1>4 DEF BeginRun, DryRun
  <2>2. /\ tries' = tries /\ drops' = drops
        /\ pc[p] = "locked"
        /\ pc' = [pc EXCEPT ![p] = "running"] \/ pc' = [pc EXCEPT ![p] = "ran"]
    BY <1>4 DEF BeginRun, DryRun, Goto, output
  <2>3. tries[p] = 0
    BY <2>2
  <2> QED
    BY <2>1, <2>2, <2>3
<1>5. CASE (\E t \in Tickets : Request(p, t)) \/ KernelEnds(p)
  BY <1>5 DEF Request, KernelEnds, Goto, local, output
<1>6. ASSUME NEW n \in SlotCounts, RecordSpend(p, n) PROVE WantInv'
  <2>1. n \in Nat /\ n <= Want[goal[p]] - drops[goal[p]]
    BY <1>6 DEF RecordSpend, SlotCounts, Slots
  <2>2. /\ pc[p] = "ran" /\ pc' = [pc EXCEPT ![p] = "exporting"]
        /\ tries' = [tries EXCEPT ![p] = n]
        /\ goal' = goal /\ drops' = drops
    BY <1>6 DEF RecordSpend, Goto, output
  <2>3. goal[p] \in Goals /\ drops[goal[p]] \in Nat /\ Want[goal[p]] \in Nat
    BY <2>2
  <2>4. drops[goal[p]] + n <= Want[goal[p]]
    BY <2>1, <2>3
  <2> QED
    BY <2>1, <2>2, <2>3, <2>4
<1>7. ASSUME NEW overwrite \in BOOLEAN, ExportDrop(p, overwrite) PROVE WantInv'
  <2>1. /\ pc[p] = "exporting" /\ tries[p] > 0 /\ goal[p] \in Goals
        /\ pc' = [pc EXCEPT ![p] = "announcing"]
        /\ tries' = [tries EXCEPT ![p] = tries[p] - 1]
        /\ goal' = goal
    BY <1>7 DEF ExportDrop, Goto
  <2>2. \/ drops' = drops
        \/ drops' = [drops EXCEPT ![goal[p]] = drops[goal[p]] + 1]
    BY <1>7, Zenon DEF ExportDrop
  <2>3. \A q \in Procs \ {p} : pc'[q] \notin HasGoal /\ tries'[q] = 0
    BY <2>1 DEF LockInv, LockedPC
  <2>4. /\ drops[goal[p]] + tries[p] <= Want[goal[p]]
        /\ drops'[goal[p]] + tries'[p] <= Want[goal[p]]
        /\ tries'[p] \in Nat
    <3>1. /\ drops[goal[p]] \in Nat /\ tries[p] \in Nat /\ Want[goal[p]] \in Nat
          /\ drops[goal[p]] + tries[p] <= Want[goal[p]]
      BY <2>1
    <3>2. tries'[p] = tries[p] - 1
      BY <2>1
    <3>3. drops'[goal[p]] = drops[goal[p]] \/ drops'[goal[p]] = drops[goal[p]] + 1
      BY <2>1, <2>2
    <3> QED
      BY <2>1, <3>1, <3>2, <3>3
  <2>5. \A g \in Goals : drops'[g] <= Want[g]
    BY <2>1, <2>2, <2>4
  <2>6. pc'[p] = "announcing" /\ goal'[p] = goal[p]
    BY <2>1
  <2> QED
    BY <2>1, <2>3, <2>4, <2>5, <2>6, Zenon
<1>8. CASE ExportFails(p)
  <2>1. /\ pc[p] = "exporting" /\ tries[p] > 0 /\ pc' = pc /\ goal' = goal
        /\ tries' = [tries EXCEPT ![p] = tries[p] - 1] /\ drops' = drops
    BY <1>8 DEF ExportFails, output
  <2>2. tries'[p] = tries[p] - 1 /\ \A q \in Procs \ {p} : tries'[q] = tries[q]
    BY <2>1
  <2>3. /\ drops[goal[p]] \in Nat /\ tries[p] \in Nat /\ Want[goal[p]] \in Nat
        /\ drops[goal[p]] + tries[p] <= Want[goal[p]] /\ goal[p] \in Goals
    BY <2>1
  <2>4. drops[goal[p]] + tries'[p] <= Want[goal[p]]
    BY <2>2, <2>3
  <2> QED
    BY <2>1, <2>2, <2>3, <2>4
<1>9. CASE Announce(p)
  BY <1>9 DEF Announce, Goto, local
<1> QED
  BY <1>1, <1>2, <1>3, <1>4, <1>5, <1>6, <1>7, <1>8, <1>9 DEF Step

LEMMA WantInvariant == Spec => []WantInv
<1>1. Init => WantInv
  BY DEF Init, WantInv, HasGoal
<1>2. TypeOK /\ LockInv /\ WantInv /\ [Next]_vars => WantInv'
  <2> SUFFICES ASSUME TypeOK, LockInv, WantInv, [Next]_vars PROVE WantInv'
    OBVIOUS
  <2>1. ASSUME NEW p \in Procs, Kill(p) PROVE WantInv'
    BY <2>1, LeaveWant DEF Kill, output
  <2>2. CASE Tick
    BY <2>2 DEF Tick, WantInv, HasGoal, output
  <2>3. CASE UNCHANGED vars
    BY <2>3 DEF vars, WantInv, HasGoal, local, output
  <2> QED
    BY <2>1, <2>2, <2>3, StepWant DEF Next
<1> QED
  BY <1>1, <1>2, TypeCorrect, LockInvariant, PTL DEF Spec

(* No goal gets more drops than it wants, with those a cycle in progress   *)
(* may still write, whichever process chose it and whatever was killed.    *)
THEOREM NoGoalOverfilled == Spec => []WantRespected
<1>1. TypeOK /\ WantInv => WantRespected
  BY DEF TypeOK, WantInv, WantRespected, HasGoal
<1> QED
  BY <1>1, TypeCorrect, WantInvariant, PTL

-----------------------------------------------------------------------------
(* What a cycle tells.  A process that is out of its cycle has published   *)
(* one heartbeat, and a drop is announced by the process that wrote it     *)
(* before it does anything else.                                           *)

HeartbeatInv ==
  \A p \in Procs :
    /\ pc[p] # "idle" => beats[p] = 0
    /\ pc[p] = "idle" => exit[p] # "raised"
    /\ pc[p] = "idle" /\ exit[p] # "killed" => beats[p] = 1

Announcing(g) == \E p \in Procs : pc[p] = "announcing" /\ goal[p] = g

AnnounceInv ==
  /\ \A p \in Procs : mode[p] = "real"
  /\ \A g \in Goals :
       /\ ready[g] <= drops[g]
       /\ Announcing(g) => ready[g] < drops[g]
       /\ ~Kills => drops[g] = ready[g] + (IF Announcing(g) THEN 1 ELSE 0)

LEMMA StepHeartbeat ==
  ASSUME Registered = Goals, TypeOK, WantInv, HeartbeatInv,
         NEW p \in Procs, Step(p)
  PROVE  HeartbeatInv'
<1> USE DEF TypeOK, HeartbeatInv
<1>1. ASSUME NEW m \in Modes, Start(p, m) PROVE HeartbeatInv'
  BY <1>1 DEF Start, Goto
<1>2. CASE LockHeld(p) \/ BadManifest(p) \/ NoEligibleGoal(p)
           \/ BudgetExhausted(p) \/ NoFixture(p) \/ Complete(p)
  <2>1. Finish(p) /\ pc[p] # "idle"
    BY <1>2 DEF LockHeld, BadManifest, NoEligibleGoal, BudgetExhausted,
                NoFixture, Complete
  <2> QED
    BY <2>1 DEF Finish, Leave, Reset
<1>3. CASE KernelRaises(p)
  BY <1>3 DEF KernelRaises, WantInv, HasGoal
<1>4. CASE \/ Acquire(p) \/ BeginRun(p) \/ DryRun(p) \/ KernelEnds(p)
           \/ \E n \in SlotCounts : RecordSpend(p, n)
           \/ \E overwrite \in BOOLEAN : ExportDrop(p, overwrite)
           \/ Announce(p)
  BY <1>4 DEF Acquire, BeginRun, DryRun, KernelEnds, RecordSpend, ExportDrop,
              Announce, Goto, outcome
<1>5. CASE (\E t \in Tickets : Request(p, t)) \/ ExportFails(p)
  BY <1>5 DEF Request, ExportFails, outcome
<1> QED
  BY <1>1, <1>2, <1>3, <1>4, <1>5 DEF Step

LEMMA QuietAnnounce ==
  ASSUME TypeOK, AnnounceInv, NEW p \in Procs,
         \A q \in Procs : mode'[q] = "real",
         drops' = drops, ready' = ready,
         \A q \in Procs \ {p} : pc'[q] = pc[q] /\ goal'[q] = goal[q],
         pc'[p] # "announcing",
         pc[p] # "announcing" \/ Kills
  PROVE  AnnounceInv'
<1>1. \A g \in Goals : Announcing(g)' => Announcing(g)
  BY DEF Announcing
<1>2. ~Kills => \A g \in Goals : Announcing(g)' = Announcing(g)
  BY DEF Announcing
<1> QED
  BY <1>1, <1>2, Zenon DEF AnnounceInv

LEMMA StepAnnounce ==
  ASSUME Modes \subseteq {"real"}, TypeOK, LockInv, WantInv, AnnounceInv,
         NEW p \in Procs, Step(p)
  PROVE  AnnounceInv'
<1>1. \A q \in Procs : mode'[q] = "real"
  <2>1. CASE \E m \in Modes : Start(p, m)
    BY <2>1 DEF Start, TypeOK, AnnounceInv
  <2>2. CASE LockHeld(p) \/ BadManifest(p) \/ NoEligibleGoal(p)
             \/ BudgetExhausted(p) \/ NoFixture(p) \/ Complete(p)
             \/ KernelRaises(p)
    BY <2>2 DEF LockHeld, BadManifest, NoEligibleGoal, BudgetExhausted,
       NoFixture, Complete, KernelRaises, Finish, Leave, Reset, TypeOK, AnnounceInv
  <2>3. mode' = mode \/ (\E m \in Modes : Start(p, m))
        \/ LockHeld(p) \/ BadManifest(p) \/ NoEligibleGoal(p)
        \/ BudgetExhausted(p) \/ NoFixture(p) \/ Complete(p) \/ KernelRaises(p)
    BY DEF Step, Acquire, BeginRun, DryRun, Request, KernelEnds, RecordSpend,
           ExportDrop, ExportFails, Announce, local
  <2> QED
    BY <2>1, <2>2, <2>3 DEF AnnounceInv
<1>2. CASE /\ pc[p] # "announcing" /\ pc'[p] # "announcing"
           /\ drops' = drops /\ ready' = ready
           /\ \A q \in Procs \ {p} : pc'[q] = pc[q] /\ goal'[q] = goal[q]
  BY <1>1, <1>2, QuietAnnounce
<1>3. ASSUME NEW overwrite \in BOOLEAN, ExportDrop(p, overwrite)
      PROVE  AnnounceInv'
  <2>1. /\ goal[p] \in Goals /\ goal' = goal /\ ready' = ready
        /\ pc[p] = "exporting" /\ pc' = [pc EXCEPT ![p] = "announcing"]
        /\ overwrite = FALSE
    BY <1>3 DEF ExportDrop, Goto, AnnounceInv
  <2>2. drops' = [drops EXCEPT ![goal[p]] = drops[goal[p]] + 1]
    BY <1>3, <2>1 DEF ExportDrop
  <2>3. \A q \in Procs \ {p} : pc[q] # "announcing" /\ pc'[q] # "announcing"
    BY <2>1 DEF LockInv, LockedPC, TypeOK
  <2>4. \A g \in Goals : ~Announcing(g) /\ (Announcing(g)' <=> g = goal[p])
    BY <2>1, <2>3 DEF Announcing, TypeOK
  <2> QED
    BY <1>1, <2>1, <2>2, <2>4 DEF AnnounceInv, TypeOK
<1>4. CASE Announce(p)
  <2>1. /\ goal' = goal /\ drops' = drops
        /\ pc[p] = "announcing" /\ pc' = [pc EXCEPT ![p] = "exporting"]
        /\ ready' = [ready EXCEPT ![goal[p]] = MinOf(@ + 1, Want[goal[p]] + 1)]
    BY <1>4 DEF Announce, Goto, local
  <2>2. goal[p] \in Goals /\ ready[goal[p]] < drops[goal[p]]
        /\ drops[goal[p]] <= Want[goal[p]]
    BY <2>1 DEF WantInv, HasGoal, AnnounceInv, Announcing
  <2>3. ready'[goal[p]] = ready[goal[p]] + 1
        /\ \A g \in Goals \ {goal[p]} : ready'[g] = ready[g]
    <3>1. MinOf(ready[goal[p]] + 1, Want[goal[p]] + 1) = ready[goal[p]] + 1
      <4>1. /\ ready[goal[p]] \in Nat /\ drops[goal[p]] \in Nat
            /\ Want[goal[p]] \in Nat
        BY <2>2 DEF TypeOK
      <4> QED
        BY <2>2, <4>1 DEF MinOf
    <3> QED
      BY <2>1, <2>2, <3>1 DEF TypeOK
  <2>4. \A q \in Procs \ {p} : pc[q] # "announcing" /\ pc'[q] # "announcing"
    BY <2>1 DEF LockInv, LockedPC, TypeOK
  <2>5. \A g \in Goals : ~Announcing(g)' /\ (Announcing(g) <=> g = goal[p])
    BY <2>1, <2>4 DEF Announcing, TypeOK
  <2> QED
    BY <1>1, <2>1, <2>2, <2>3, <2>5 DEF AnnounceInv, TypeOK
<1>5. CASE \E m \in Modes : Start(p, m)
  BY <1>2, <1>5 DEF Start, Goto, output, TypeOK
<1>6. CASE LockHeld(p) \/ BadManifest(p) \/ NoEligibleGoal(p)
           \/ BudgetExhausted(p) \/ NoFixture(p) \/ Complete(p)
           \/ KernelRaises(p)
  BY <1>2, <1>6 DEF LockHeld, BadManifest, NoEligibleGoal, BudgetExhausted,
     NoFixture, Complete, KernelRaises, Finish, Leave, Reset, output, TypeOK
<1>7. CASE \/ Acquire(p) \/ BeginRun(p) \/ DryRun(p) \/ KernelEnds(p)
           \/ \E n \in SlotCounts : RecordSpend(p, n)
           \/ (\E t \in Tickets : Request(p, t)) \/ ExportFails(p)
  BY <1>2, <1>7 DEF Acquire, BeginRun, DryRun, KernelEnds, RecordSpend,
     Request, ExportFails, Goto, local, output, TypeOK
<1> QED
  BY <1>3, <1>4, <1>5, <1>6, <1>7 DEF Step

LEMMA HeartbeatInvariant ==
  ASSUME Registered = Goals
  PROVE  Spec => []HeartbeatInv
<1>1. Init => HeartbeatInv
  BY DEF Init, HeartbeatInv
<1>2. TypeOK /\ WantInv /\ HeartbeatInv /\ [Next]_vars => HeartbeatInv'
  <2> SUFFICES ASSUME TypeOK, WantInv, HeartbeatInv, [Next]_vars
               PROVE  HeartbeatInv'
    OBVIOUS
  <2>1. ASSUME NEW p \in Procs, Kill(p) PROVE HeartbeatInv'
    BY <2>1 DEF Kill, Leave, Reset, TypeOK, HeartbeatInv
  <2>2. CASE Tick
    BY <2>2 DEF Tick, HeartbeatInv, outcome
  <2>3. CASE UNCHANGED vars
    BY <2>3 DEF vars, HeartbeatInv, outcome
  <2> QED
    BY <2>1, <2>2, <2>3, StepHeartbeat DEF Next
<1> QED
  BY <1>1, <1>2, TypeCorrect, WantInvariant, PTL DEF Spec

LEMMA AnnounceInvariant ==
  ASSUME Modes \subseteq {"real"}
  PROVE  Spec => []AnnounceInv
<1>1. Init => AnnounceInv
  BY DEF Init, AnnounceInv, Announcing
<1>2. /\ TypeOK /\ LockInv /\ WantInv /\ AnnounceInv
      /\ [Next]_vars
      => AnnounceInv'
  <2> SUFFICES ASSUME TypeOK, LockInv, WantInv, AnnounceInv, [Next]_vars
               PROVE  AnnounceInv'
    OBVIOUS
  <2>1. ASSUME NEW p \in Procs, Kill(p) PROVE AnnounceInv'
    BY <2>1, QuietAnnounce DEF Kill, Leave, Reset, output, TypeOK, AnnounceInv
  <2>2. CASE Tick
    BY <2>2 DEF Tick, AnnounceInv, Announcing, output
  <2>3. CASE UNCHANGED vars
    BY <2>3 DEF vars, AnnounceInv, Announcing, local, output
  <2> QED
    BY <2>1, <2>2, <2>3, StepAnnounce DEF Next
<1> QED
  BY <1>1, <1>2, TypeCorrect, LockInvariant, WantInvariant, PTL DEF Spec

(* Where every domain has a kernel and no dry run overwrites a drop, what  *)
(* a cycle did is told: one completed.v1 for every cycle that was not      *)
(* killed, no ready event without its drop, and none missing but after a   *)
(* kill.                                                                   *)
THEOREM CyclesReport ==
  ASSUME Registered = Goals, Modes \subseteq {"real"}
  PROVE  Spec => []OutcomesTold
<1>1. TypeOK /\ LockInv /\ HeartbeatInv /\ AnnounceInv => OutcomesTold
  <2> SUFFICES ASSUME TypeOK, LockInv, HeartbeatInv, AnnounceInv
               PROVE  OutcomesTold
    OBVIOUS
  <2>1. OneHeartbeat
    BY DEF OneHeartbeat, HeartbeatInv
  <2>2. holder = NoProc => \A g \in Goals : ~Announcing(g)
    BY DEF LockInv, LockedPC, Announcing
  <2>3. DropsAnnounced
    BY <2>2 DEF DropsAnnounced, AnnounceInv, TypeOK
  <2> QED
    BY <2>1, <2>3 DEF OutcomesTold
<1> QED
  BY <1>1, TypeCorrect, LockInvariant, HeartbeatInvariant, AnnounceInvariant, PTL
=============================================================================
