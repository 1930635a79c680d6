------------------------- MODULE MCSandboxExecution -------------------------
(* One executor and one user of the pool.  The jobs differ in what the     *)
(* pipes and the poll loop make of them.                                   *)
EXTENDS SandboxExecution

MCOwners == {"e", "u"}
MCExecutors == {"e"}
MCUsers == {"u"}
MCRequests == {"gvisor", "firecracker"}

Job(compile, stdin, out, reads, ends, daemon) ==
    [compile |-> compile, stdin |-> stdin, out |-> out, reads |-> reads,
     ends |-> ends, daemon |-> daemon]

MCPrograms ==
    {Job(TRUE, 2, 2, TRUE, TRUE, FALSE),       \* more than a pipe, both ways
     Job(FALSE, 0, 0, FALSE, FALSE, FALSE),    \* an endless loop
     Job(FALSE, 2, 0, FALSE, TRUE, FALSE),     \* does not read its stdin
     Job(FALSE, 1, 1, TRUE, TRUE, TRUE)}       \* leaves a process behind
=============================================================================
