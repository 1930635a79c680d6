-------------------------- MODULE SandboxExecution --------------------------
(***************************************************************************)
(* SandboxedExecutor (engines/sandbox.py): choice of the isolation tier,   *)
(* compilation, a try in the pool of microVMs, and the subprocess with its *)
(* pipes, its polling loop and its limits.                                 *)
(*                                                                         *)
(* Executors go through execute(); Users call the exported pool directly.  *)
(* All are threads of one Python process.                                  *)
(***************************************************************************)
EXTENDS FirecrackerPool

CONSTANTS
    Executors, Users,
    PipeSize,      \* what a pipe holds; a stdin or an output is 0 .. PipeSize + 1
    Requests,      \* the sandbox types that are asked for
    Programs,      \* the jobs that are submitted
    NoJob

Sizes == 0 .. PipeSize + 1

(***************************************************************************)
(* A job: has the language a compiler; how long is the stdin; and what the *)
(* program does.  It reads all of stdin before it writes or does not read  *)
(* at all, it writes `out', ends or runs on, and may leave a process of    *)
(* its own behind that keeps stdout open.                                  *)
(***************************************************************************)
Jobs == [compile : BOOLEAN, stdin : Sizes, out : Sizes, reads : BOOLEAN,
         ends : BOOLEAN, daemon : BOOLEAN]

ASSUME SandboxAssumption ==
    /\ Owners = Executors \cup Users /\ Executors \cap Users = {}
    /\ PipeSize \in Nat \ {0}
    /\ Requests \subseteq {"subprocess", "gvisor", "firecracker"}
    /\ Programs \subseteq Jobs

NewChild == [fed |-> 0, read |-> 0, eof |-> FALSE, wrote |-> 0, drained |-> 0,
             exited |-> FALSE, holder |-> FALSE]

VARIABLES
    pc, tier,
    job, child

runVars == <<pc, tier, job, child>>
vars == <<poolVars, runVars>>

PCs == {"New", "Warm", "Refused", "Idle", "Compile", "Acquire", "Holding",
        "Launch", "Feed", "Poll", "Collect", "Shutdown", "Closed"}

Goto(p, from, to) == pc[p] = from /\ pc' = [pc EXCEPT ![p] = to]

TypeOK ==
    /\ counter \in [Owners -> 0 .. MaxIds]
    /\ \A p \in Owners : available[p] \in Seq(Ids)
    /\ acquired \in [Owners -> SUBSET Ids]
    /\ alive \subseteq Owners \X Ids /\ orphans \subseteq Owners \X Ids
    /\ socket \in [Ids -> Owners \cup {NoOwner}]
    /\ overdue \in [Owners -> 0 .. MaxIds]
    /\ pc \in [Owners -> PCs]
    /\ tier \in [Owners -> {"subprocess", "gvisor", "firecracker"}]
    /\ job \in [Owners -> Jobs \cup {NoJob}]
    /\ \A e \in Executors :
          /\ child[e].read <= child[e].fed /\ child[e].drained <= child[e].wrote
          /\ child[e].fed - child[e].read <= PipeSize
          /\ child[e].wrote - child[e].drained <= PipeSize
-----------------------------------------------------------------------------
Init ==
    /\ PoolInit
    /\ pc = [p \in Owners |-> IF p \in Executors THEN "New" ELSE "Warm"]
    /\ tier = [p \in Owners |-> IF p \in Executors THEN "subprocess" ELSE "firecracker"]
    /\ job = [p \in Owners |-> NoJob]
    /\ child = [p \in Owners |-> [NewChild EXCEPT !.exited = TRUE]]

(***************************************************************************)
(* __init__ behind ensure_sandboxed_executor, or directly.  gVisor is used *)
(* if runsc is found and passes its three checks, Firecracker if /dev/kvm  *)
(* is there (`healthy'); else the tier becomes "subprocess" silently.  The *)
(* gate asks for gVisor and looks at the tier afterwards.                  *)
(***************************************************************************)
ChosenTier(request, healthy) == IF healthy THEN request ELSE "subprocess"

Admitted(actual, allowUnsandboxed) ==
    actual \in {"gvisor", "firecracker"} \/ allowUnsandboxed

Construct(e) ==
    \E request \in Requests, healthy, viaGate, allow \in BOOLEAN :
        LET actual == ChosenTier(request, healthy)
        IN /\ viaGate => request = "gvisor"
           /\ Goto(e, "New", IF viaGate /\ ~Admitted(actual, allow) THEN "Refused"
                             ELSE IF actual = "firecracker" THEN "Warm" ELSE "Idle")
           /\ tier' = [tier EXCEPT ![e] = actual]
           /\ UNCHANGED <<poolVars, job, child>>

(* The pool makes pool_size attempts and goes on with those that worked.   *)
WarmUp(p) ==
    /\ pc[p] = "Warm"
    /\ Prewarm(p)
    /\ pc' = [pc EXCEPT ![p] = IF counter[p] + 1 >= PoolSize THEN "Idle" ELSE "Warm"]
    /\ UNCHANGED <<tier, job, child>>

Execute(e, j) ==
    /\ e \in Executors
    /\ Goto(e, "Idle", IF j.compile THEN "Compile"
                       ELSE IF tier[e] = "firecracker" THEN "Acquire" ELSE "Launch")
    /\ job' = [job EXCEPT ![e] = j]
    /\ UNCHANGED <<poolVars, tier, child>>

(* A verdict or an exception; which, is the matter of CaseEvaluation.      *)
(* Nothing is asked of the program any more.                               *)
Answer(e, c) ==
    /\ job' = [job EXCEPT ![e] = NoJob]
    /\ child' = [child EXCEPT ![e] = [NewChild EXCEPT !.exited = c.exited]]
    /\ pc' = [pc EXCEPT ![e] = "Idle"]

(* The compiler runs on the host, whatever the tier.  A failure of any     *)
(* kind is CE, a timeout TLE; a compiler that is not installed raises.     *)
Compile(e) ==
    /\ pc[e] = "Compile"
    /\ \/ /\ pc' = [pc EXCEPT ![e] = IF tier[e] = "firecracker" THEN "Acquire" ELSE "Launch"]
          /\ UNCHANGED <<job, child>>
       \/ Answer(e, child[e])
    /\ UNCHANGED <<poolVars, tier>>

(***************************************************************************)
(* acquire(timeout = max_time).                                            *)
(***************************************************************************)
Acquire(p) ==
    /\ pc[p] = "Acquire"
    /\ \/ Pop(p) /\ Goto(p, "Acquire", "Holding")
       \/ \E outcome \in Outcomes :
             /\ OnDemand(p, outcome)
             /\ Goto(p, "Acquire", IF outcome = "running" THEN "Holding" ELSE "Acquire")
    /\ UNCHANGED <<tier, job, child>>

(* Mutant: acquire tries again although its time is over.                  *)
MutantDeadline(p) ==
    /\ pc[p] = "Acquire"
    /\ \E outcome \in Outcomes :
          /\ LastDitch(p, outcome)
          /\ pc' = [pc EXCEPT ![p] = IF outcome = "running" THEN "Holding" ELSE "Acquire"]
    /\ UNCHANGED <<tier, job, child>>

(* An executor whose acquire raises falls back; a user gets the exception. *)
Deadline(p) ==
    /\ pc[p] = "Acquire"
    /\ \E outcome \in Outcomes :
          /\ LastDitch(p, outcome)
          /\ pc' = [pc EXCEPT ![p] = IF outcome = "running" THEN "Holding"
                                     ELSE IF p \in Executors THEN "Launch" ELSE "Idle"]
    /\ UNCHANGED <<tier, job, child>>

(* fc_vm.run: FirecrackerVM has no such method.  The exception is caught   *)
(* around acquire, run and release together, so the VM stays acquired.     *)
RunInVM(e) ==
    /\ e \in Executors
    /\ Goto(e, "Holding", "Launch")
    /\ UNCHANGED <<poolVars, tier, job, child>>

(* A user of the pool: acquire, exec, release, and shutdown in the end.    *)
UserAcquires(u) ==
    /\ Goto(u, "Idle", "Acquire")
    /\ UNCHANGED <<poolVars, tier, job, child>>

UserReleases(u) ==
    /\ Goto(u, "Holding", "Idle")
    /\ \E id \in acquired[u] :
          Return(u, id) \/ \E outcome \in Outcomes : Replace(u, id, outcome)
    /\ UNCHANGED <<tier, job, child>>

UserShutsDown(u) ==
    /\ \/ pc[u] \in {"Idle", "Shutdown"} /\ \E obeyed \in BOOLEAN : DeleteOne(u, obeyed)
       \/ pc[u] = "Shutdown" /\ Owned(u) = {} /\ UNCHANGED poolVars
    /\ pc' = [pc EXCEPT ![u] = IF Owned(u) = {} THEN "Closed" ELSE "Shutdown"]
    /\ UNCHANGED <<tier, job, child>>
-----------------------------------------------------------------------------
(***************************************************************************)
(* _run_subprocess.  The whole stdin is written before anything else, then *)
(* the exit, the time and the memory of the child are polled; its output   *)
(* is read only after it has ended.                                        *)
(***************************************************************************)
Launch(e) ==
    /\ pc[e] = "Launch"
    /\ \/ Goto(e, "Launch", "Feed") /\ child' = [child EXCEPT ![e] = NewChild]
          /\ UNCHANGED job
       \/ Answer(e, child[e])
    /\ UNCHANGED <<poolVars, tier>>

(* Blocks while the pipe is full and the child lives.  A child that has    *)
(* ended breaks the pipe, which is ignored.                                *)
Feed(e) ==
    LET c == child[e]
    IN /\ pc[e] = "Feed"
       /\ IF c.exited \/ c.fed = job[e].stdin
          THEN pc' = [pc EXCEPT ![e] = "Poll"] /\ child' = [child EXCEPT ![e].eof = TRUE]
          ELSE /\ c.fed - c.read < PipeSize
               /\ child' = [child EXCEPT ![e].fed = @ + 1]
               /\ UNCHANGED pc
       /\ UNCHANGED <<poolVars, tier, job>>

PollExit(e) ==
    /\ child[e].exited
    /\ Goto(e, "Poll", "Collect")
    /\ UNCHANGED <<poolVars, tier, job, child>>

(* Only the process that was started is killed, not its descendants.       *)
Killed(e) == [child[e] EXCEPT !.exited = TRUE, !.holder = job[e].daemon]

(* Over its time or its memory.                                           *)
TimeOut(e) ==
    /\ pc[e] = "Poll" /\ ~child[e].exited
    /\ Answer(e, Killed(e))
    /\ UNCHANGED <<poolVars, tier>>

(* communicate: read until every holder of stdout has closed it.           *)
Collect(e) ==
    LET c == child[e]
    IN /\ pc[e] = "Collect"
       /\ IF c.drained < c.wrote
          THEN /\ child' = [child EXCEPT ![e].drained = @ + 1]
               /\ UNCHANGED <<pc, job>>
          ELSE ~c.holder /\ Answer(e, c)
       /\ UNCHANGED <<poolVars, tier>>

(***************************************************************************)
(* External: the program.                                                  *)
(***************************************************************************)
Running(e) == pc[e] \in {"Feed", "Poll"} /\ ~child[e].exited

HasRead(e) == job[e].reads => child[e].eof /\ child[e].read = child[e].fed

ChildStep(e) ==
    /\ Running(e)
    /\ \/ /\ job[e].reads /\ child[e].read < child[e].fed
          /\ child' = [child EXCEPT ![e].read = @ + 1]
       \/ /\ HasRead(e) /\ child[e].wrote < job[e].out
          /\ child[e].wrote - child[e].drained < PipeSize
          /\ child' = [child EXCEPT ![e].wrote = @ + 1]
       \/ /\ HasRead(e) /\ job[e].ends /\ child[e].wrote = job[e].out
          /\ child' = [child EXCEPT ![e] = Killed(e)]
    /\ UNCHANGED <<poolVars, pc, tier, job>>

(* What the program left behind ends too, at last.                         *)
HolderEnds(e) ==
    /\ child[e].holder
    /\ child' = [child EXCEPT ![e].holder = FALSE]
    /\ UNCHANGED <<poolVars, pc, tier, job>>
-----------------------------------------------------------------------------
Acting(p) ==
    \/ WarmUp(p) \/ Acquire(p) \/ Deadline(p)
    \/ p \in Executors /\
          \/ Construct(p) \/ Compile(p) \/ RunInVM(p) \/ Launch(p) \/ Feed(p)
          \/ PollExit(p) \/ TimeOut(p) \/ Collect(p)

Next ==
    \/ \E p \in Owners : Acting(p)
    \/ \E e \in Executors :
          ChildStep(e) \/ HolderEnds(e) \/ \E j \in Programs : Execute(e, j)
    \/ \E u \in Users : UserAcquires(u) \/ UserReleases(u) \/ UserShutsDown(u)
    \/ Crash /\ UNCHANGED runVars

Spec == Init /\ [][Next]_vars

(* The interpreter runs on, clocks advance (the deadline of acquire, the   *)
(* limit of the child), and the program makes progress until it is killed. *)
Fairness ==
    \A e \in Executors :
        /\ WF_vars(Acting(e) /\ pc[e] # "Acquire")
        /\ WF_vars(Deadline(e))
        /\ WF_vars(TimeOut(e))
        /\ WF_vars(ChildStep(e))

FairSpec == Spec /\ Fairness
-----------------------------------------------------------------------------
(* No VM is handed out twice: it is in the stack at most once and not out  *)
(* at the same time.                                                       *)
HandedOutOnce ==
    \A p \in Owners :
        /\ IsInjective(available[p])
        /\ ToSet(available[p]) \cap acquired[p] = {}

(* The pool grows past its size only by the VMs that were made after a     *)
(* deadline, however many VMs leak, sicken or fail to start.               *)
PoolAccounted ==
    \A p \in Owners :
        Len(available[p]) + Cardinality(acquired[p]) <= PoolSize + overdue[p]

PoolSound == HandedOutOnce /\ PoolAccounted

(* Every firecracker process belongs to a VM that its pool still knows,    *)
(* unless creating it failed after the process was started.                *)
ProcessesKnown ==
    \A v \in alive : v[2] \in Owned(v[1]) \/ v \in orphans

(* When execute() returns or raises, the program it started has ended.     *)
NoChildLeft ==
    \A e \in Executors : pc[e] = "Idle" => child[e].exited

(* Neither a VM nor a process is lost, whatever fails.                     *)
NothingLeaks == TypeOK /\ PoolSound /\ ProcessesKnown /\ NoChildLeft

(* The comment in _run_subprocess assumes a program that drains stdin      *)
(* before it writes; add that nothing it starts outlives it with stdout    *)
(* open.  Then execute() always ends, however much the program writes,     *)
(* whether it ends or not, and whatever the pool does.                     *)
Assumed(j) == (j.reads \/ j.stdin <= PipeSize) /\ ~j.daemon

Returns ==
    \A e \in Executors :
        (job[e] # NoJob /\ Assumed(job[e])) ~> (job[e] = NoJob)
=============================================================================
