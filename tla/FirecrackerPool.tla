--------------------------- MODULE FirecrackerPool ---------------------------
(***************************************************************************)
(* The pools of microVMs of one Python process (engines/firecracker_vm.py).*)
(*                                                                         *)
(* Every owner (a SandboxedExecutor, or code that uses the exported pool   *)
(* directly) has a pool of its own and calls it from one thread.  A VM is  *)
(* the number its pool gave it.  The paths of its sockets are made of the  *)
(* process id and that number, so that VMs of two pools with the same      *)
(* number share them: `socket' says whose firecracker process answers.     *)
(***************************************************************************)
EXTENDS Naturals, Sequences, FiniteSets, SequencesExt

CONSTANTS
    Owners,        \* the owners of a pool in this process
    PoolSize,      \* pool_size
    MaxIds,        \* bound: VMs that a pool ever creates
    NoOwner        \* no process is bound to a socket path

ASSUME PoolAssumption ==
    /\ PoolSize \in Nat \ {0}
    /\ MaxIds \in Nat
    /\ NoOwner \notin Owners

VARIABLES
    counter,       \* _vm_counter of every pool
    available,     \* _available: a stack of numbers
    acquired,      \* _acquired: a set of numbers
    alive,         \* firecracker processes that run: <<owner, number>>
    socket,        \* the owner whose process is bound to the paths of a number
    overdue,       \* history: VMs made after a deadline passed
    orphans        \* history: processes whose VM object was given up

poolVars == <<counter, available, acquired, alive, socket, overdue, orphans>>

Ids == 1 .. MaxIds

Owned(p) == ToSet(available[p]) \cup acquired[p]

(***************************************************************************)
(* _create_vm: configure() resolves the artifacts, removes stale sockets,  *)
(* starts the process and sends it the configuration; start() boots it.    *)
(* It raises before anything happened ("early"), after the sockets are     *)
(* gone ("exited": no process is left), or while a process runs that       *)
(* nobody deletes ("orphan").  A vsock that cannot be configured is no     *)
(* failure.                                                                *)
(***************************************************************************)
Outcomes == {"early", "exited", "orphan", "running"}

(* The bound of the model: the host has no room for further VMs.           *)
HostIsFull(p, outcome) ==
    /\ counter[p] = MaxIds /\ outcome = "early"
    /\ UNCHANGED <<counter, alive, socket, orphans>>

Created(p, outcome) ==
    LET id == counter[p] + 1
    IN \/ /\ counter[p] < MaxIds
          /\ counter' = [counter EXCEPT ![p] = id]
          /\ socket' = CASE outcome = "early" -> socket
                         [] outcome = "exited" -> [socket EXCEPT ![id] = NoOwner]
                         [] OTHER -> [socket EXCEPT ![id] = p]
          /\ alive' = IF outcome \in {"orphan", "running"} THEN alive \cup {<<p, id>>}
                      ELSE alive
          /\ orphans' = IF outcome = "orphan" THEN orphans \cup {<<p, id>>} ELSE orphans
       \/ HostIsFull(p, outcome)

NothingCreated == UNCHANGED <<counter, alive, socket, orphans>>

(***************************************************************************)
(* The API client of a VM talks to whatever process is bound to its path.  *)
(***************************************************************************)
Reached(id) ==
    IF socket[id] # NoOwner /\ <<socket[id], id>> \in alive THEN {<<socket[id], id>>}
    ELSE {}

HealthCheck(id) == Reached(id) # {}

(* delete: Ctrl-Alt-Del over the API, which ends the guest it reaches      *)
(* unless the guest ignores it; then the process is terminated and waited  *)
(* for, and both paths are removed.                                        *)
Deleted(p, id, obeyed) ==
    /\ alive' = (alive \ {<<p, id>>}) \ (IF obeyed THEN Reached(id) ELSE {})
    /\ socket' = [socket EXCEPT ![id] = NoOwner]
-----------------------------------------------------------------------------
PoolInit ==
    /\ counter = [p \in Owners |-> 0]
    /\ available = [p \in Owners |-> <<>>]
    /\ acquired = [p \in Owners |-> {}]
    /\ alive = {}
    /\ socket = [id \in Ids |-> NoOwner]
    /\ overdue = [p \in Owners |-> 0]
    /\ orphans = {}

(* FirecrackerPool.__init__ makes pool_size attempts, one at a time.       *)
Prewarm(p) ==
    \E outcome \in Outcomes :
        /\ Created(p, outcome)
        /\ available' = IF outcome = "running"
                        THEN [available EXCEPT ![p] = Append(@, counter[p] + 1)]
                        ELSE available
        /\ UNCHANGED <<acquired, overdue>>

(***************************************************************************)
(* acquire: one round of the waiting loop.  Take the last available VM,    *)
(* or make one if fewer than pool_size are out; a failed attempt is waited *)
(* out, as a full pool is.                                                 *)
(***************************************************************************)
Pop(p) ==
    /\ available[p] # <<>>
    /\ available' = [available EXCEPT ![p] = Front(@)]
    /\ acquired' = [acquired EXCEPT ![p] = @ \cup {Last(available[p])}]
    /\ UNCHANGED overdue
    /\ NothingCreated

(* Mutant: one VM too many.                                                *)
MutantOnDemand(p, outcome) ==
    /\ available[p] = <<>>
    /\ Cardinality(acquired[p]) <= PoolSize
    /\ Created(p, outcome)
    /\ acquired' = IF outcome = "running"
                   THEN [acquired EXCEPT ![p] = @ \cup {counter[p] + 1}] ELSE acquired
    /\ UNCHANGED <<available, overdue>>

OnDemand(p, outcome) ==
    /\ available[p] = <<>>
    /\ Cardinality(acquired[p]) < PoolSize
    /\ Created(p, outcome)
    /\ acquired' = IF outcome = "running"
                   THEN [acquired EXCEPT ![p] = @ \cup {counter[p] + 1}] ELSE acquired
    /\ UNCHANGED <<available, overdue>>

(* After the deadline: one more VM, past the size of the pool, whatever    *)
(* is available by now.  If that fails, acquire raises.                    *)
LastDitch(p, outcome) ==
    /\ Created(p, outcome)
    /\ acquired' = IF outcome = "running"
                   THEN [acquired EXCEPT ![p] = @ \cup {counter[p] + 1}] ELSE acquired
    /\ overdue' = [overdue EXCEPT ![p] = IF outcome = "running" THEN @ + 1 ELSE @]
    /\ UNCHANGED available

(***************************************************************************)
(* release: a VM that answers goes back; a sick one is deleted and a       *)
(* replacement is made, which may fail.  The state of a VM that was        *)
(* created is "running" until it is deleted.                               *)
(***************************************************************************)
Return(p, id) ==
    /\ HealthCheck(id)
    /\ acquired' = [acquired EXCEPT ![p] = @ \ {id}]
    /\ available' = [available EXCEPT ![p] = Append(@, id)]
    /\ UNCHANGED <<overdue, counter, alive, socket, orphans>>

Replace(p, id, outcome) ==
    LET new == counter[p] + 1
    IN /\ ~HealthCheck(id)
       /\ new \in Ids
       /\ counter' = [counter EXCEPT ![p] = new]
       /\ acquired' = [acquired EXCEPT ![p] = @ \ {id}]
       /\ available' = IF outcome = "running"
                       THEN [available EXCEPT ![p] = Append(@, new)] ELSE available
       /\ alive' = (alive \ {<<p, id>>})
                      \cup (IF outcome \in {"orphan", "running"} THEN {<<p, new>>} ELSE {})
       /\ socket' = [socket EXCEPT
             ![id] = NoOwner,
             ![new] = CASE outcome = "early" -> @
                        [] outcome = "exited" -> NoOwner
                        [] OTHER -> p]
       /\ orphans' = IF outcome = "orphan" THEN orphans \cup {<<p, new>>} ELSE orphans
       /\ UNCHANGED overdue

(* shutdown deletes every VM of the pool and forgets them: those that are  *)
(* available, in their order, and then those that are out.                 *)
DeleteOne(p, obeyed) ==
    /\ \/ /\ available[p] # <<>>
          /\ Deleted(p, Head(available[p]), obeyed)
          /\ available' = [available EXCEPT ![p] = Tail(@)]
          /\ UNCHANGED acquired
       \/ /\ available[p] = <<>>
          /\ \E id \in acquired[p] :
                /\ Deleted(p, id, obeyed)
                /\ acquired' = [acquired EXCEPT ![p] = @ \ {id}]
          /\ UNCHANGED available
    /\ UNCHANGED <<counter, overdue, orphans>>

(* External: a guest panics (panic=1), or its process is killed.           *)
Crash ==
    /\ \E v \in alive : alive' = alive \ {v}
    /\ UNCHANGED <<counter, available, acquired, socket, overdue, orphans>>
=============================================================================
