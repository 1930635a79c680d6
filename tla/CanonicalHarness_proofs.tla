---------------------- MODULE CanonicalHarness_proofs ----------------------
(***************************************************************************)
(* Proofs about CanonicalHarness for any number of daemons and operators,  *)
(* crashes and failing writes: no canonical harness is lost without a      *)
(* clash, every swap was earned, and the ledger tells of the swaps.        *)
(***************************************************************************)
EXTENDS CanonicalHarness, TLAPS

USE HarnessAssumption, MarkAssumption DEF ValidHarnesses, ValidMarks

-----------------------------------------------------------------------------
(* Typing *)

LEMMA NumbersAreUnmarked ==
  ASSUME NEW h \in Harnesses
  PROVE  h \in Nat /\ h # Torn /\ h # None
BY DEF Harnesses

LEMMA ZeroTypes == Default \in Harnesses /\ 0 \in Score0 /\ NoCall \in Calls
<1>1. "none" \in Outcomes
  BY DEF Outcomes
<1>2. NoCall \in Calls
  BY <1>1 DEF NoCall, Calls
<1> QED BY <1>2 DEF Default, Harnesses, Score0

LEMMA LoadType ==
  ASSUME canon \in Harnesses \cup {Torn}
  PROVE  Load \in Harnesses
BY ZeroTypes DEF Load

LEMMA FreshType ==
  ASSUME built \in Harnesses, built < MaxHarness
  PROVE  built + 1 \in Harnesses
BY DEF Harnesses

LEMMA CandidateType ==
  ASSUME NEW pop \in Populations, NEW i \in DOMAIN pop
  PROVE  pop[i].outcome \in Outcomes
<1>1. pop \in [DOMAIN pop -> Advocates]
  BY PopulationAssumption DEF ValidPopulations
<1>2. pop[i] \in Advocates
  BY <1>1
<1> QED BY <1>2 DEF Advocates

LEMMA ForgetType ==
  ASSUME TypeOK, NEW p \in Procs, Forget(p)
  PROVE  /\ new' \in [Procs -> Harnesses]
         /\ init' \in [Procs -> Score0]
         /\ final' \in [Procs -> Score0]
         /\ call' \in [Procs -> Calls]
         /\ stale' \in [Procs -> BOOLEAN]
BY ZeroTypes DEF TypeOK, Forget

LEMMA GotoType ==
  ASSUME TypeOK, NEW p \in Procs, NEW to \in Labels, NEW from,
         Goto(p, from, to)
  PROVE  pc' \in [Procs -> Labels]
BY DEF TypeOK, Goto

LEMMA LabelTypes ==
  /\ {"off", "idle", "sleep", "measure", "improve", "archive", "open",
      "write", "stats", "ledger"} \subseteq Labels
  /\ \A p \in Procs : AfterPromote(p) \in Labels
BY DEF Labels, Idle, AfterPromote

LEMMA AbandonType ==
  ASSUME TypeOK, NEW p \in Procs, Abandon(p)
  PROVE  /\ canon' \in Harnesses \cup {Torn}
         /\ archive' \subseteq Harnesses \cup {Torn}
         /\ latest' \in Harnesses \cup {Torn, None}
         /\ clashed' \in BOOLEAN
<1>1. Clash(p) \in BOOLEAN
  BY DEF Clash
<1> QED BY <1>1 DEF TypeOK, Abandon, fileVars

LEMMA TypeInit == Init => TypeOK
<1> SUFFICES ASSUME Init PROVE TypeOK
  OBVIOUS
<1>1. pc \in [Procs -> Labels]
  BY LabelTypes DEF Init
<1>2. /\ canon \in Harnesses \cup {Torn}
      /\ archive \subseteq Harnesses \cup {Torn}
      /\ latest \in Harnesses \cup {Torn, None}
  BY ZeroTypes DEF Init
<1>3. /\ new \in [Procs -> Harnesses]
      /\ init \in [Procs -> Score0]
      /\ final \in [Procs -> Score0]
      /\ call \in [Procs -> Calls]
  BY ZeroTypes DEF Init
<1>4. built \in Harnesses /\ promoted \subseteq Harnesses
  BY ZeroTypes DEF Init, Default
<1> QED BY <1>1, <1>2, <1>3, <1>4 DEF Init, TypeOK

LEMMA TypeStep == TypeOK /\ [Next]_vars => TypeOK'
<1> SUFFICES ASSUME TypeOK, [Next]_vars PROVE TypeOK'
  OBVIOUS
<1> USE LabelTypes
<1>1. CASE Tick
  BY <1>1 DEF Tick, TypeOK, logVars, procVars, modeVars, jobVars, histVars
<1>2. ASSUME NEW p \in Procs, ExitDaemon(p) PROVE TypeOK'
  BY <1>2, GotoType DEF ExitDaemon, TypeOK, fileVars, logVars, jobVars,
     histVars
<1>3. ASSUME NEW p \in Procs, Backoff(p) PROVE TypeOK'
  BY <1>3, GotoType DEF Backoff, TypeOK, fileVars, logVars, modeVars,
     jobVars, histVars
<1>4. ASSUME NEW p \in Procs, Wake(p) PROVE TypeOK'
  BY <1>4, GotoType DEF Wake, TypeOK, fileVars, logVars, modeVars, jobVars,
     histVars
<1>5. ASSUME NEW p \in Procs, StartSession(p) PROVE TypeOK'
  <2>1. pc' \in [Procs -> Labels]
    BY <1>5, GotoType DEF StartSession
  <2>2. Load \in Harnesses
    BY LoadType DEF TypeOK
  <2> QED BY <1>5, <2>1, <2>2 DEF StartSession, TypeOK, fileVars, logVars,
             modeVars, histVars
<1>6. ASSUME NEW p \in Procs, Measure(p) PROVE TypeOK'
  BY <1>6, GotoType DEF Measure, TypeOK, fileVars, logVars, modeVars, histVars
<1>7. ASSUME NEW p \in Procs, Improve(p) PROVE TypeOK'
  <2>1. pc' \in [Procs -> Labels] /\ final' \in [Procs -> Score0]
    BY <1>7, GotoType DEF Improve, TypeOK
  <2>2. new' \in [Procs -> Harnesses] /\ built' \in Harnesses
    BY <1>7, FreshType DEF Improve, TypeOK
  <2> QED BY <1>7, <2>1, <2>2 DEF Improve, TypeOK, fileVars, logVars, modeVars
<1>8. ASSUME NEW p \in Procs, FailSession(p) PROVE TypeOK'
  BY <1>8, GotoType DEF FailSession, TypeOK, fileVars, logVars, modeVars,
     jobVars, histVars
<1>9. ASSUME NEW p \in Procs, AppendStats(p) PROVE TypeOK'
  <2>1. pc' \in [Procs -> Labels]
    BY <1>9, GotoType DEF AppendStats
  <2> QED BY <1>9, <2>1, ForgetType DEF AppendStats, TypeOK, fileVars,
             logVars, modeVars, histVars
<1>10. ASSUME NEW p \in Procs, Archive(p) PROVE TypeOK'
  <2>1. pc' \in [Procs -> Labels]
    BY <1>10, GotoType DEF Archive
  <2>2. clashed' \in BOOLEAN
    BY <1>10 DEF Archive, Clash
  <2> QED BY <1>10, <2>1, <2>2 DEF Archive, TypeOK, logVars, modeVars, jobVars
<1>11. ASSUME NEW p \in Procs, Open(p) PROVE TypeOK'
  BY <1>11, GotoType DEF Open, TypeOK, logVars, modeVars, jobVars, histVars
<1>12. ASSUME NEW p \in Procs, Write(p) PROVE TypeOK'
  <2>1. pc' \in [Procs -> Labels]
    BY <1>12, GotoType DEF Write
  <2> QED BY <1>12, <2>1 DEF Write, TypeOK, logVars, modeVars, jobVars
<1>13. ASSUME NEW p \in Procs, FailPromote(p) PROVE TypeOK'
  <2>1. pc' \in [Procs -> Labels]
    BY <1>13, GotoType DEF FailPromote
  <2> QED BY <1>13, <2>1, AbandonType DEF FailPromote, TypeOK, logVars,
             modeVars, jobVars
<1>14. ASSUME NEW p \in Procs, Record(p) PROVE TypeOK'
  <2>1. pc' \in [Procs -> Labels]
    BY <1>14, GotoType DEF Record
  <2> DEFINE h == IF call[p].outcome \in Promotable THEN new[p] ELSE None
             e == [cycle |-> call[p].cycle, harness |-> h,
                   decision |-> Decision(call[p])]
             Lines == [cycle : Cycles \cup {None},
                       harness : Harnesses \cup {None},
                       decision : {"staged", "rejected", "accepted"}]
  <2>2. Decision(call[p]) \in {"staged", "rejected", "accepted"}
    BY DEF Decision
  <2>3. call[p].cycle \in Cycles \cup {None}
    BY DEF TypeOK, Calls
  <2>4. h \in Harnesses \cup {None}
    BY DEF TypeOK
  <2> HIDE DEF h
  <2>5. e \in Lines
    BY <2>2, <2>3, <2>4
  <2>6. ledger' = ledger \cup {e} \/ ledger' = ledger
    BY <1>14 DEF Record, h
  <2>7. ledger \subseteq Lines
    BY DEF TypeOK
  <2> HIDE DEF e
  <2>8. ledger' \subseteq Lines
    BY <2>5, <2>6, <2>7
  <2> QED BY <1>14, <2>1, <2>8, ForgetType DEF Record, TypeOK, fileVars,
             modeVars, histVars
<1>15. ASSUME NEW p \in Procs, StartDaemon(p) PROVE TypeOK'
  BY <1>15, GotoType DEF StartDaemon, TypeOK, fileVars, logVars, jobVars,
     histVars
<1>16. ASSUME NEW p \in Procs, Signal(p) PROVE TypeOK'
  BY <1>16 DEF Signal, TypeOK, fileVars, logVars, jobVars, histVars
<1>17. ASSUME NEW p \in Procs, Stage(p) PROVE TypeOK'
  <2> PICK cycle \in Cycles, pop \in Populations,
           confirm \in BOOLEAN, reject \in BOOLEAN :
        Staged(p, cycle, pop, confirm, reject)
    BY <1>17 DEF Stage
  <2>1. invalidated' \subseteq Cycles /\ stale' \in [Procs -> BOOLEAN]
    BY DEF Staged, MarkInvalidated, WasInvalidated, TypeOK
  <2>2. /\ pc' \in [Procs -> Labels]
        /\ new' \in [Procs -> Harnesses]
        /\ built' \in Harnesses
        /\ call' \in [Procs -> Calls]
    <3>1. CASE Refusal(p, cycle, pop)
      <4>1. [NoCall EXCEPT !.cycle = cycle] \in Calls
        BY ZeroTypes DEF Calls
      <4> QED BY <3>1, <4>1, GotoType DEF Refusal, TypeOK
    <3>2. CASE Selection(p, cycle, pop, confirm, reject)
      <4> PICK i \in DOMAIN pop, h \in Harnesses :
            /\ IsCandidate(pop, i)
            /\ built' = IF h > built THEN h ELSE built
            /\ new' = [new EXCEPT ![p] = h]
            /\ call' = [call EXCEPT ![p] = Request(cycle, pop[i].outcome,
                                                  confirm, reject)]
            /\ Goto(p, "off", IF Accepts(call'[p]) THEN "archive"
                              ELSE "ledger")
        BY <3>2 DEF Selection
      <4>1. pop[i].outcome \in Outcomes
        BY CandidateType
      <4>2. Request(cycle, pop[i].outcome, confirm, reject) \in Calls
        BY <4>1 DEF Request, Calls
      <4>3. pc' \in [Procs -> Labels]
        BY GotoType
      <4> QED BY <4>2, <4>3, FreshType DEF TypeOK
    <3> QED BY <3>1, <3>2 DEF Staged
  <2> QED BY <1>17, <2>1, <2>2 DEF Stage, TypeOK, fileVars, modeVars
<1>18. ASSUME NEW p \in Procs, Crash(p) PROVE TypeOK'
  <2>1. pc' \in [Procs -> Labels] /\ stop' \in [Procs -> BOOLEAN]
        /\ loops' \in [Procs -> BOOLEAN]
    BY <1>18 DEF Crash, TypeOK
  <2>2. /\ canon' \in Harnesses \cup {Torn}
        /\ archive' \subseteq Harnesses \cup {Torn}
        /\ latest' \in Harnesses \cup {Torn, None}
        /\ clashed' \in BOOLEAN
    BY <1>18, AbandonType DEF Crash, TypeOK, fileVars
  <2> QED BY <1>18, <2>1, <2>2, ForgetType DEF Crash, TypeOK, logVars
<1>19. CASE UNCHANGED vars
  BY <1>19 DEF vars, TypeOK, fileVars, logVars, procVars, modeVars, jobVars,
     histVars
<1> QED BY <1>1, <1>2, <1>3, <1>4, <1>5, <1>6, <1>7, <1>8, <1>9, <1>10,
           <1>11, <1>12, <1>13, <1>14, <1>15, <1>16, <1>17, <1>18, <1>19
        DEF Next, Work

(* Every variable keeps its type: what a session loads is a harness even   *)
(* when the file is torn.                                                  *)
THEOREM TypeCorrect == Spec => []TypeOK
<1>1. Init => TypeOK
  BY TypeInit
<1>2. TypeOK /\ [Next]_vars => TypeOK'
  BY TypeStep
<1> QED BY <1>1, <1>2, PTL DEF Spec

-----------------------------------------------------------------------------
(* Inductive invariants                                                    *)

Promoting == {"archive", "open", "write"}

EarnedInv ==
  \A p \in Procs : /\ pc[p] \in {"measure", "improve"} => p \in Daemons
                   /\ pc[p] \in Promoting => Earned(p)

(* Without a clash one process at a time is past its archive step, and     *)
(* what it is about to overwrite is in the archive.                        *)
Archived == {latest} \cup archive

SwapInv ==
  ~clashed =>
    /\ \A p, q \in Procs :
         (pc[p] \in {"open", "write"} /\ pc[q] \in {"open", "write"}) => p = q
    /\ \A p \in Procs : pc[p] = "open" => canon \in Archived \cup {Torn}
    /\ \A p \in Procs : pc[p] = "write" => canon = Torn
    /\ promoted \subseteq {canon} \cup Archived

(* An accepted call that is about to be recorded has swapped. *)
LedgerInv ==
  ~failed /\ ~clashed =>
    /\ \A p \in Procs :
         pc[p] = "ledger" /\ Decision(call[p]) = "accepted"
           => new[p] \in promoted
    /\ \A e \in ledger : e.decision = "accepted" => e.harness \in promoted

-----------------------------------------------------------------------------
(* Every swap was earned *)

(* A step of p leaves the other processes' sessions and calls alone. *)
Local(p) ==
  \A q \in Procs \ {p} : /\ pc'[q] = pc[q] /\ new'[q] = new[q]
                         /\ init'[q] = init[q] /\ final'[q] = final[q]
                         /\ call'[q] = call[q]

LEMMA StepsAreLocal ==
  ASSUME TypeOK, NEW p \in Procs,
         \/ Work(p) \/ StartDaemon(p) \/ Signal(p) \/ Stage(p) \/ Crash(p)
  PROVE  Local(p)
<1>1. ASSUME Forget(p) PROVE \A q \in Procs \ {p} :
        /\ new'[q] = new[q] /\ init'[q] = init[q] /\ final'[q] = final[q]
        /\ call'[q] = call[q]
  BY <1>1 DEF Forget, TypeOK
<1> USE DEF TypeOK, Local, Goto, jobVars
<1>2. ASSUME StartDaemon(p) \/ Signal(p) \/ ExitDaemon(p) \/ Backoff(p)
             \/ Wake(p) \/ FailSession(p)
      PROVE  Local(p)
  BY <1>2 DEF StartDaemon, Signal, ExitDaemon, Backoff, Wake, FailSession
<1>3. ASSUME StartSession(p) \/ Measure(p) \/ Improve(p) PROVE Local(p)
  BY <1>3 DEF StartSession, Measure, Improve
<1>4. ASSUME Archive(p) \/ Open(p) \/ Write(p) \/ FailPromote(p)
      PROVE  Local(p)
  BY <1>4 DEF Archive, Open, Write, FailPromote
<1>5. ASSUME AppendStats(p) \/ Record(p) \/ Crash(p) PROVE Local(p)
  BY <1>1, <1>5 DEF AppendStats, Record, Crash
<1>6. ASSUME Stage(p) PROVE Local(p)
  <2>1. init' = init /\ final' = final
    BY <1>6 DEF Stage
  <2>2. \A q \in Procs \ {p} :
          pc'[q] = pc[q] /\ new'[q] = new[q] /\ call'[q] = call[q]
    BY <1>6 DEF Stage, Staged, Refusal, Selection
  <2> QED BY <2>1, <2>2
<1> QED BY <1>2, <1>3, <1>4, <1>5, <1>6 DEF Work

(* What EarnedInv says of one process. *)
Rightful(p) ==
  /\ pc[p] \in {"measure", "improve"} => p \in Daemons
  /\ pc[p] \in Promoting => Earned(p)

LEMMA EarnedLocal ==
  ASSUME EarnedInv, NEW p \in Procs, Local(p), Rightful(p)'
  PROVE  EarnedInv'
<1> SUFFICES ASSUME NEW q \in Procs PROVE Rightful(q)'
  BY DEF EarnedInv, Rightful
<1>1. CASE q = p
  BY <1>1
<1>2. CASE q # p
  <2>1. Rightful(q)
    BY DEF EarnedInv, Rightful
  <2> QED BY <1>2, <2>1 DEF Local, Rightful, Earned
<1> QED BY <1>1, <1>2

LEMMA EarnedStep == TypeOK /\ EarnedInv /\ [Next]_vars => EarnedInv'
<1> SUFFICES ASSUME TypeOK, EarnedInv, [Next]_vars PROVE EarnedInv'
  OBVIOUS
<1>1. CASE Tick
  BY <1>1 DEF Tick, EarnedInv, Earned, Promoting, procVars, jobVars
<1>2. CASE UNCHANGED vars
  BY <1>2 DEF vars, EarnedInv, Earned, Promoting, procVars, jobVars
<1>3. ASSUME NEW p \in Procs,
             \/ Work(p) \/ StartDaemon(p) \/ Signal(p) \/ Stage(p) \/ Crash(p)
      PROVE  EarnedInv'
  <2>1. Local(p)
    BY <1>3, StepsAreLocal
  <2>2. Rightful(p)
    BY DEF EarnedInv, Rightful
  <2>3. SUFFICES Rightful(p)'
    BY <2>1, EarnedLocal
  <2> USE DEF TypeOK, Goto, Rightful, Promoting
  <2>4. CASE StartDaemon(p) \/ ExitDaemon(p) \/ Backoff(p) \/ Wake(p)
             \/ FailSession(p) \/ AppendStats(p) \/ Record(p) \/ Crash(p)
    <3>1. pc'[p] \in {"off", "idle", "sleep", "stats"}
      BY <2>4 DEF StartDaemon, ExitDaemon, Backoff, Wake, FailSession,
         AppendStats, Record, Crash
    <3> QED BY <3>1
  <2>5. CASE Signal(p)
    BY <2>2, <2>5 DEF Signal, Earned, jobVars
  <2>6. CASE StartSession(p) \/ Measure(p)
    BY <2>2, <2>6 DEF StartSession, Measure
  <2>7. CASE Improve(p)
    <3>1. p \in Daemons
      BY <2>2, <2>7 DEF Improve
    <3>2. PICK s \in Score0 : /\ pc' = [pc EXCEPT ![p] =
                                  IF Better(p, s) THEN "archive" ELSE "stats"]
                              /\ final' = [final EXCEPT ![p] = s]
      BY <2>7 DEF Improve
    <3>3. init' = init
      BY <2>7 DEF Improve
    <3> QED BY <3>1, <3>2, <3>3 DEF Better, Earned
  <2>8. CASE Archive(p) \/ Open(p)
    BY <2>2, <2>8 DEF Archive, Open, Earned, jobVars
  <2>9. CASE Write(p) \/ FailPromote(p)
    <3>1. pc'[p] \in {"ledger", "stats"}
      BY <2>9 DEF Write, FailPromote, AfterPromote
    <3> QED BY <3>1
  <2>10. CASE Stage(p)
    <3>1. p \notin Daemons
      BY <2>10, ProcessAssumption DEF Stage, ValidProcesses
    <3> PICK cycle \in Cycles, pop \in Populations,
             confirm \in BOOLEAN, reject \in BOOLEAN :
          Staged(p, cycle, pop, confirm, reject)
      BY <2>10 DEF Stage
    <3>2. CASE Refusal(p, cycle, pop)
      BY <3>2 DEF Refusal
    <3>3. CASE Selection(p, cycle, pop, confirm, reject)
      <4> PICK i \in DOMAIN pop :
            /\ IsCandidate(pop, i)
            /\ call' = [call EXCEPT ![p] = Request(cycle, pop[i].outcome,
                                                  confirm, reject)]
            /\ pc' = [pc EXCEPT ![p] = IF Accepts(call'[p]) THEN "archive"
                                       ELSE "ledger"]
        BY <3>3 DEF Selection
      <4>1. pop[i].outcome \in {"confirmed", "partial"}
        BY DEF IsCandidate, Promotable
      <4>2. call'[p] = Request(cycle, pop[i].outcome, confirm, reject)
        OBVIOUS
      <4>3. /\ call'[p].outcome = pop[i].outcome
            /\ call'[p].confirm = confirm /\ call'[p].reject = reject
        BY <4>2 DEF Request
      <4> QED BY <3>1, <4>1, <4>3 DEF Accepts, Earned
    <3> QED BY <3>2, <3>3 DEF Staged
  <2> QED BY <1>3, <2>4, <2>5, <2>6, <2>7, <2>8, <2>9, <2>10 DEF Work
<1> QED BY <1>1, <1>2, <1>3 DEF Next

LEMMA EarnedInit == Init => EarnedInv
BY DEF Init, EarnedInv, Promoting

(* harness.json changes to another harness only at the end of a promotion  *)
(* that was earned.                                                        *)
THEOREM SwapsAreEarned == Spec => EarnedOnly
<1>1. Init => TypeOK /\ EarnedInv
  BY TypeInit, EarnedInit
<1>2. TypeOK /\ EarnedInv /\ [Next]_vars => (TypeOK /\ EarnedInv)'
  BY TypeStep, EarnedStep
<1>3. TypeOK /\ EarnedInv /\ [Next]_vars => [EarnedSwap]_vars
  <2> SUFFICES ASSUME EarnedInv, Next, canon' \notin {canon, Torn}
               PROVE  \E p \in Procs : /\ pc[p] = "write" /\ new[p] = canon'
                                       /\ Earned(p)
    BY DEF EarnedSwap
  <2>1. PICK p \in Procs : Write(p)
    BY DEF Next, Work, Tick, ExitDaemon, Backoff, Wake, StartSession, Measure,
       Improve, FailSession, AppendStats, Archive, Open, FailPromote, Abandon,
       Record, StartDaemon, Signal, Stage, Crash, fileVars
  <2>2. pc[p] = "write" /\ new[p] = canon'
    BY <2>1 DEF Write, Goto
  <2> QED BY <2>2 DEF EarnedInv, Promoting
<1> QED BY <1>1, <1>2, <1>3, PTL DEF Spec, EarnedOnly

-----------------------------------------------------------------------------
(* Nothing is lost *)

(* A step that touches no file and brings no process past its archive step. *)
Quiet ==
  /\ UNCHANGED <<canon, archive, latest, promoted, clashed>>
  /\ \A q \in Procs : pc'[q] \in {"open", "write"} => pc'[q] = pc[q]

LEMMA QuietStep == SwapInv /\ Quiet => SwapInv'
BY DEF SwapInv, Quiet, Archived

(* A promotion that stops leaves what was canonical where it was. *)
LEMMA AbandonStep ==
  ASSUME TypeOK, SwapInv, NEW p \in Procs, Abandon(p), promoted' = promoted,
         \A q \in Procs : pc'[q] \in {"open", "write"} =>
                            q # p /\ pc'[q] = pc[q]
  PROVE  SwapInv'
<1>1. CASE UNCHANGED <<fileVars, clashed>>
  BY <1>1, QuietStep DEF Quiet, fileVars
<1>2. CASE /\ latest' = Torn /\ clashed' = (clashed \/ Clash(p))
           /\ UNCHANGED <<canon, archive>>
  <2> SUFFICES ASSUME ~clashed' PROVE SwapInv'
    BY DEF SwapInv
  <2>1. ~clashed /\ latest = None
    BY <1>2 DEF Clash
  <2>2. \A q \in Procs : pc'[q] \notin {"open", "write"}
    BY <1>2 DEF Clash
  <2>3. promoted \subseteq {canon} \cup archive
    BY <2>1, NumbersAreUnmarked DEF SwapInv, Archived, TypeOK
  <2> QED BY <1>2, <2>2, <2>3 DEF SwapInv, Archived
<1> QED BY <1>1, <1>2 DEF Abandon

LEMMA SwapStep == TypeOK /\ SwapInv /\ [Next]_vars => SwapInv'
<1> SUFFICES ASSUME TypeOK, SwapInv, [Next]_vars PROVE SwapInv'
  OBVIOUS
<1>1. CASE Tick
  BY <1>1 DEF Tick, SwapInv, Archived, procVars, histVars
<1>2. CASE UNCHANGED vars
  BY <1>2, QuietStep DEF vars, Quiet, fileVars, histVars, procVars
<1>3. ASSUME NEW p \in Procs,
             \/ Work(p) \/ StartDaemon(p) \/ Signal(p) \/ Stage(p) \/ Crash(p)
      PROVE  SwapInv'
  <2>1. \A q \in Procs \ {p} : pc'[q] = pc[q]
    BY <1>3, StepsAreLocal DEF Local
  <2>2. CASE \/ StartDaemon(p) \/ Signal(p) \/ ExitDaemon(p) \/ Backoff(p)
             \/ Wake(p) \/ FailSession(p) \/ StartSession(p) \/ Measure(p)
             \/ Improve(p) \/ AppendStats(p) \/ Record(p)
    <3>1. UNCHANGED <<canon, archive, latest, promoted, clashed>>
      BY <2>2 DEF StartDaemon, Signal, ExitDaemon, Backoff, Wake, FailSession,
         StartSession, Measure, Improve, AppendStats, Record, fileVars,
         histVars
    <3>2. pc'[p] \in {"open", "write"} => pc'[p] = pc[p]
      BY <2>2 DEF StartDaemon, Signal, ExitDaemon, Backoff, Wake, FailSession,
         StartSession, Measure, Improve, AppendStats, Record, Goto, TypeOK
    <3> QED BY <2>1, <3>1, <3>2, QuietStep DEF Quiet
  <2>3. CASE Stage(p)
    <3>1. UNCHANGED <<canon, archive, latest, promoted, clashed>>
      BY <2>3 DEF Stage, fileVars
    <3>2. pc'[p] \in {"archive", "ledger"}
      BY <2>3 DEF Stage, Staged, Refusal, Selection, Goto, TypeOK
    <3> QED BY <2>1, <3>1, <3>2, QuietStep DEF Quiet
  <2>4. CASE Archive(p)
    <3> SUFFICES ASSUME ~clashed' PROVE SwapInv'
      BY DEF SwapInv
    <3>1. /\ ~clashed /\ latest = None
          /\ \A q \in Procs \ {p} : pc[q] \notin {"open", "write"}
      BY <2>4 DEF Archive, Clash
    <3>2. promoted \subseteq {canon} \cup archive
      BY <3>1, NumbersAreUnmarked DEF SwapInv, Archived, TypeOK
    <3>3. /\ canon' = canon /\ latest' = canon /\ archive' = archive
          /\ promoted' = promoted /\ pc'[p] = "open"
      BY <2>4 DEF Archive, Goto, TypeOK
    <3> QED BY <2>1, <3>1, <3>2, <3>3 DEF SwapInv, Archived
  <2>5. CASE Open(p)
    <3> SUFFICES ASSUME ~clashed' PROVE SwapInv'
      BY DEF SwapInv
    <3>1. /\ canon' = Torn /\ latest' = latest /\ archive' = archive
          /\ promoted' = promoted /\ clashed' = clashed
          /\ pc[p] = "open" /\ pc'[p] = "write"
      BY <2>5 DEF Open, Goto, TypeOK, histVars
    <3>2. \A q \in Procs \ {p} : pc'[q] \notin {"open", "write"}
      BY <2>1, <3>1 DEF SwapInv
    <3>3. promoted \subseteq Archived
      BY <3>1, NumbersAreUnmarked DEF SwapInv, TypeOK
    <3> QED BY <3>1, <3>2, <3>3 DEF SwapInv, Archived
  <2>6. CASE Write(p)
    <3> SUFFICES ASSUME ~clashed' PROVE SwapInv'
      BY DEF SwapInv
    <3>1. /\ latest' = latest /\ archive' = archive /\ clashed' = clashed
          /\ pc[p] = "write" /\ pc'[p] \in {"ledger", "stats"}
      BY <2>6 DEF Write, Goto, TypeOK, AfterPromote
    <3>2. canon = Torn
      BY <3>1 DEF SwapInv
    <3>3. canon' = new[p] /\ promoted' = promoted \cup {new[p]}
      BY <2>6, <3>2 DEF Write
    <3>4. \A q \in Procs : pc'[q] \notin {"open", "write"}
      BY <2>1, <3>1 DEF SwapInv
    <3>5. promoted \subseteq Archived
      BY <3>1, <3>2, NumbersAreUnmarked DEF SwapInv, TypeOK
    <3> QED BY <3>1, <3>3, <3>4, <3>5 DEF SwapInv, Archived
  <2>7. CASE FailPromote(p)
    <3>1. Abandon(p) /\ promoted' = promoted
          /\ pc'[p] \in {"ledger", "stats"}
      BY <2>7 DEF FailPromote, Goto, TypeOK, AfterPromote
    <3> QED BY <2>1, <3>1, AbandonStep
  <2>8. CASE Crash(p)
    <3>1. promoted' = promoted /\ pc'[p] = "off"
      BY <2>8 DEF Crash, TypeOK
    <3>2. Abandon(p)
      BY <2>8 DEF Crash, Abandon
    <3> QED BY <2>1, <3>1, <3>2, AbandonStep
  <2> QED BY <1>3, <2>2, <2>3, <2>4, <2>5, <2>6, <2>7, <2>8 DEF Work
<1> QED BY <1>1, <1>2, <1>3 DEF Next

LEMMA SwapInit == Init => SwapInv
BY DEF Init, SwapInv, Archived

(* Crashes, failing writes and other promoters never lose a harness that   *)
(* was canonical: only a clash can.                                        *)
THEOREM NothingEverLost == Spec => []NothingLost
<1>1. Init => TypeOK /\ SwapInv
  BY TypeInit, SwapInit
<1>2. TypeOK /\ SwapInv /\ [Next]_vars => (TypeOK /\ SwapInv)'
  BY TypeStep, SwapStep
<1>3. TypeOK /\ SwapInv => NothingLost
  BY DEF SwapInv, NothingLost, Archived
<1> QED BY <1>1, <1>2, <1>3, PTL DEF Spec

-----------------------------------------------------------------------------
(* The ledger tells of the swaps *)

(* A step of p that records nothing and brings no accepted call to its     *)
(* record keeps the invariant.                                             *)
LEMMA LedgerLocal ==
  ASSUME LedgerInv, NEW p \in Procs, Local(p), ledger' = ledger,
         promoted \subseteq promoted',
         failed \/ clashed => failed' \/ clashed',
         (pc'[p] = "ledger" /\ Decision(call'[p]) = "accepted"
            /\ ~failed' /\ ~clashed') => new'[p] \in promoted'
  PROVE  LedgerInv'
<1> SUFFICES ASSUME ~failed', ~clashed' PROVE LedgerInv'
  BY DEF LedgerInv
<1>1. ASSUME NEW q \in Procs,
             pc'[q] = "ledger", Decision(call'[q]) = "accepted"
      PROVE  new'[q] \in promoted'
  <2>1. CASE q = p
    BY <1>1, <2>1
  <2>2. CASE q # p
    BY <1>1, <2>2 DEF Local, LedgerInv
  <2> QED BY <2>1, <2>2
<1> QED BY <1>1 DEF LedgerInv, Decision

(* A call that goes to its record at once was not accepted. *)
LEMMA RefusedCall ==
  ASSUME NEW c, ~Accepts(c), c.confirm \in BOOLEAN, c.reject \in BOOLEAN
  PROVE  Decision(c) # "accepted"
BY DEF Accepts, Decision

LEMMA LedgerStep ==
  TypeOK /\ SwapInv /\ LedgerInv /\ [Next]_vars => LedgerInv'
<1> SUFFICES ASSUME TypeOK, SwapInv, LedgerInv, [Next]_vars PROVE LedgerInv'
  OBVIOUS
<1>1. CASE Tick
  BY <1>1 DEF Tick, LedgerInv, Decision, logVars, procVars, jobVars, histVars
<1>2. CASE UNCHANGED vars
  BY <1>2 DEF vars, LedgerInv, Decision, logVars, procVars, jobVars, histVars
<1>3. ASSUME NEW p \in Procs,
             \/ Work(p) \/ StartDaemon(p) \/ Signal(p) \/ Stage(p) \/ Crash(p)
      PROVE  LedgerInv'
  <2>1. Local(p)
    BY <1>3, StepsAreLocal
  <2>2. CASE StartDaemon(p) \/ ExitDaemon(p) \/ Backoff(p) \/ Wake(p)
             \/ FailSession(p) \/ StartSession(p) \/ Measure(p) \/ Improve(p)
             \/ AppendStats(p) \/ Open(p)
    <3>1. /\ pc'[p] # "ledger"
          /\ UNCHANGED <<ledger, promoted, failed, clashed>>
      BY <2>2 DEF StartDaemon, ExitDaemon, Backoff, Wake, FailSession,
         StartSession, Measure, Improve, AppendStats, Open, Goto, TypeOK,
         logVars, histVars
    <3> QED BY <2>1, <3>1, LedgerLocal
  <2>3. CASE Signal(p)
    <3>1. UNCHANGED <<pc, new, call, ledger, promoted, failed, clashed>>
      BY <2>3 DEF Signal, logVars, jobVars, histVars
    <3> QED BY <3>1 DEF LedgerInv, Decision
  <2>4. CASE Archive(p) \/ Crash(p)
    <3>1. /\ pc'[p] # "ledger"
          /\ UNCHANGED <<ledger, promoted, failed>>
          /\ clashed => clashed'
      BY <2>4 DEF Archive, Crash, Abandon, Goto, TypeOK, logVars
    <3> QED BY <2>1, <3>1, LedgerLocal
  <2>5. CASE Write(p)
    <3>1. /\ UNCHANGED <<ledger, new, failed, clashed>>
          /\ pc[p] = "write"
          /\ promoted \subseteq promoted'
      BY <2>5 DEF Write, Goto, logVars, jobVars
    <3>2. ~clashed => canon = Torn
      BY <3>1 DEF SwapInv
    <3>3. ~clashed => new[p] \in promoted'
      BY <2>5, <3>2 DEF Write
    <3> QED BY <2>1, <3>1, <3>3, LedgerLocal
  <2>6. CASE FailPromote(p)
    <3>1. failed'
      BY <2>6 DEF FailPromote
    <3> QED BY <3>1 DEF LedgerInv
  <2>7. CASE Stage(p)
    <3> PICK cycle \in Cycles, pop \in Populations,
             confirm \in BOOLEAN, reject \in BOOLEAN :
          Staged(p, cycle, pop, confirm, reject)
      BY <2>7 DEF Stage
    <3>1. UNCHANGED <<ledger, promoted, failed, clashed>>
      BY <2>7 DEF Stage
    <3>2. CASE Refusal(p, cycle, pop)
      <4>1. call'[p].outcome = "none"
        BY <3>2 DEF Refusal, NoCall, TypeOK
      <4>2. Decision(call'[p]) # "accepted"
        BY <4>1 DEF Decision, Promotable
      <4> QED BY <2>1, <3>1, <4>2, LedgerLocal
    <3>3. CASE Selection(p, cycle, pop, confirm, reject)
      <4> PICK i \in DOMAIN pop :
            /\ call' = [call EXCEPT ![p] = Request(cycle, pop[i].outcome,
                                                  confirm, reject)]
            /\ Goto(p, "off", IF Accepts(call'[p]) THEN "archive"
                              ELSE "ledger")
        BY <3>3 DEF Selection
      <4>1. call'[p] = Request(cycle, pop[i].outcome, confirm, reject)
        BY DEF TypeOK
      <4>2. call'[p].confirm \in BOOLEAN /\ call'[p].reject \in BOOLEAN
        BY <4>1 DEF Request
      <4>3. pc'[p] = "ledger" => ~Accepts(call'[p])
        BY DEF Goto, TypeOK
      <4>4. pc'[p] = "ledger" => Decision(call'[p]) # "accepted"
        BY <4>2, <4>3, RefusedCall
      <4> QED BY <2>1, <3>1, <4>4, LedgerLocal
    <3> QED BY <3>2, <3>3 DEF Staged
  <2>8. CASE Record(p)
    <3> DEFINE h == IF call[p].outcome \in Promotable THEN new[p] ELSE None
               e == [cycle |-> call[p].cycle, harness |-> h,
                     decision |-> Decision(call[p])]
    <3> SUFFICES ASSUME ~failed', ~clashed' PROVE LedgerInv'
      BY DEF LedgerInv
    <3>1. /\ UNCHANGED <<promoted, failed, clashed>>
          /\ pc[p] = "ledger" /\ pc'[p] = "off"
          /\ ledger' = ledger \cup {e} \/ ledger' = ledger
      BY <2>8 DEF Record, Goto, TypeOK, histVars
    <3>2. ASSUME Decision(call[p]) = "accepted" PROVE h \in promoted
      <4>1. call[p].outcome \in Promotable
        BY <3>2 DEF Decision
      <4> QED BY <3>1, <3>2, <4>1 DEF LedgerInv
    <3>3. e.harness = h /\ e.decision = Decision(call[p])
      OBVIOUS
    <3> HIDE DEF h, e
    <3>4. \A f \in ledger' : f.decision = "accepted" => f.harness \in promoted'
      BY <3>1, <3>2, <3>3 DEF LedgerInv
    <3>5. ASSUME NEW q \in Procs,
                 pc'[q] = "ledger", Decision(call'[q]) = "accepted"
          PROVE  new'[q] \in promoted'
      BY <2>1, <3>1, <3>5 DEF Local, LedgerInv
    <3> QED BY <3>4, <3>5 DEF LedgerInv, Decision
  <2> QED BY <1>3, <2>2, <2>3, <2>4, <2>5, <2>6, <2>7, <2>8 DEF Work
<1> QED BY <1>1, <1>2, <1>3 DEF Next

LEMMA LedgerInit == Init => LedgerInv
BY DEF Init, LedgerInv

(* Every accepted decision of the ledger was swapped in, unless promotions *)
(* failed or clashed.                                                      *)
THEOREM AcceptedIsSwapped == Spec => []LedgerIsTrue
<1>1. Init => TypeOK /\ SwapInv /\ LedgerInv
  BY TypeInit, SwapInit, LedgerInit
<1>2. TypeOK /\ SwapInv /\ LedgerInv /\ [Next]_vars
        => (TypeOK /\ SwapInv /\ LedgerInv)'
  BY TypeStep, SwapStep, LedgerStep
<1>3. LedgerInv => LedgerIsTrue
  BY DEF LedgerInv, LedgerIsTrue
<1> QED BY <1>1, <1>2, <1>3, PTL DEF Spec
=============================================================================
