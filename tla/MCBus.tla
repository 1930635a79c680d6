--------------------------------- MODULE MCBus ---------------------------------
(***************************************************************************)
(* Readers of the debug file, one in each behaviour: a subscriber that     *)
(* polls it, or the trigger daemon that tails it.  They share no state;    *)
(* the variables with the same name belong to the machine that runs.       *)
(***************************************************************************)
EXTENDS Naturals, Sequences, FiniteSets

CONSTANTS
    None,
    Events, Big, Foreign, Scalars,
    Script, MaxRuns, CycleEvents, MaxCrashes

VARIABLES
    machine, file, pc, at,
    path, lastSize, currentSize, late, dispatched,
    sent, pipe, emitted, logged, counted, runsHandled, paused, config, merged,
    reports, acks, crashes
-----------------------------------------------------------------------------
(* Two requests, commands in between, and a line of another program that   *)
(* only names a channel.                                                   *)
Line(kind, id, valid, cases, bead, action, param) ==
    [kind |-> kind, names |-> TRUE, id |-> id, valid |-> valid, cases |-> cases,
     bead |-> bead, action |-> action, param |-> param]

TheScript ==
    << Line("command", 1, FALSE, FALSE, FALSE, "set_budget", 5),
       Line("command", 2, FALSE, FALSE, FALSE, "set_generations", 7),
       Line("request", 3, TRUE, TRUE, TRUE, "other", None),
       Line("command", 4, FALSE, FALSE, FALSE, "pause", None),
       Line("event", 5, FALSE, FALSE, FALSE, "other", None),
       Line("request", 6, TRUE, FALSE, FALSE, "other", None) >>

EventTail == INSTANCE EventTail
Trigger == INSTANCE TriggerDaemon

ASSUME BusAssumption == EventTail!ValidEvents /\ Trigger!ValidTrigger
-----------------------------------------------------------------------------
tailOnly == <<path, lastSize, currentSize, late, dispatched>>

triggerOnly ==
    <<sent, pipe, emitted, logged, counted, runsHandled, paused, config, merged,
      reports, acks, crashes>>

NoTail ==
    /\ path = None /\ lastSize = None /\ currentSize = None /\ late = None
    /\ dispatched = None

NoTrigger ==
    /\ sent = None /\ pipe = None /\ emitted = None /\ logged = None
    /\ counted = None /\ runsHandled = None /\ paused = None /\ config = None
    /\ merged = None /\ reports = None /\ acks = None /\ crashes = None

Init ==
    \/ /\ machine = "tail" /\ EventTail!Init /\ NoTrigger
    \/ /\ machine = "trigger" /\ Trigger!Init /\ NoTail

BesideTail == <<machine, triggerOnly>>

TailNext == machine = "tail" /\ EventTail!Next /\ UNCHANGED BesideTail

BesideTrigger == <<machine, tailOnly>>

TriggerNext == machine = "trigger" /\ Trigger!Next /\ UNCHANGED BesideTrigger

Next ==
    \/ TailNext \/ TriggerNext

vars == <<machine, file, pc, at, tailOnly, triggerOnly>>

Subscriber == EventTail!Stat \/ EventTail!ReadLine \/ EventTail!EndOfFile

(* The subscriber's loop and the handler of the daemon are threads that    *)
(* poll and handle one line after another without waiting for each other:  *)
(* each is scheduled.  Nobody has to publish, to send a line or to start   *)
(* the daemon.                                                             *)
Spec ==
    /\ Init /\ [][Next]_vars
    /\ WF_vars(machine = "tail" /\ Subscriber /\ UNCHANGED BesideTail)
    /\ WF_vars(machine = "trigger" /\ Trigger!Handling
               /\ UNCHANGED BesideTrigger)
-----------------------------------------------------------------------------
(* No event is dispatched more than twice, and a second time only when its *)
(* line was complete before the poll; what was written in one piece behind *)
(* a newline is never missed (bus/signal_bus.py, tail_debug).              *)
DispatchSound ==
    machine = "tail" =>
        EventTail!TypeOK /\ EventTail!AtMostTwice /\ EventTail!NoneMissed

(* Such a line is dispatched unless the subscriber's loop ends.            *)
Delivered ==
    \A e \in Events \ (Foreign \cup Scalars \cup Big) :
        (machine = "tail" /\ EventTail!InFront(e)) ~>
            /\ machine = "tail"
            /\ dispatched[e] > 0 \/ pc \in {"Dead", "Stopped"}

TriggerInvariant ==
    machine = "trigger" =>
        Trigger!TypeOK /\ Trigger!AnsweredOnce /\ Trigger!OwnEventsCounted

(* A request is answered with at most one report, whatever crashes and     *)
(* restarts, and the report counts all the events of its cycle, or none    *)
(* where they could not be read (daemons/trigger_daemon.py); no other      *)
(* command loses what set_budget or set_generations set, if the file can   *)
(* be read (_update_runtime_config).                                       *)
TriggerSound == [][TriggerInvariant' /\ Trigger!BudgetKept]_vars

(* A line that waits is answered, unless the daemon dies or has made its   *)
(* runs.                                                                   *)
EveryLineAnswered ==
    \A k \in 1 .. Len(Script) :
        (machine = "trigger" /\ Trigger!Waiting(k)) ~>
            /\ machine = "trigger"
            /\ \/ pc \in {"Down", "Exited"}
               \/ k \in DOMAIN file /\ Trigger!IsAnswered(k)
================================================================================
