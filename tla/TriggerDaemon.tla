---------------------------- MODULE TriggerDaemon ----------------------------
(***************************************************************************)
(* The trigger daemon (daemons/trigger_daemon.py): it follows the debug    *)
(* file of the bus, runs one cycle for every request, reports it, and      *)
(* keeps the runtime configuration that commands change.                   *)
(*                                                                         *)
(* Other programs append lines to the same file at any time, and so does   *)
(* the daemon: its own events go there when the pipe does not take them.   *)
(***************************************************************************)
EXTENDS Naturals, Sequences, FiniteSets, SequencesExt

CONSTANTS
    Script,       \* the lines that other programs append, in this order
    MaxRuns,      \* --max-runs
    CycleEvents,  \* the events of a cycle: 1 .. CycleEvents
    MaxCrashes,   \* bound: how often the daemon dies
    None          \* an unset field of the configuration

(***************************************************************************)
(* A line: `names' says whether it contains the name of one of the two     *)
(* channels, which is all that the filter in front of the parser sees.     *)
(***************************************************************************)
Lines == [kind : {"request", "command", "event", "garbage"}, names : BOOLEAN,
          id : Nat, valid : BOOLEAN, cases : BOOLEAN, bead : BOOLEAN,
          action : {"pause", "resume", "set_budget", "set_generations", "other"},
          param : Nat \cup {None}]

(* What the constants may be; the MC module assumes it.                     *)
ValidTrigger ==
    /\ MaxRuns \in Nat \ {0} /\ CycleEvents \in Nat /\ MaxCrashes \in Nat
    /\ Script \in Seq(Lines)
    /\ \A i, j \in DOMAIN Script : Script[i].id = Script[j].id => i = j

VARIABLES
    file,         \* the debug file
    sent,         \* how many lines of the script are in it
    pc, at,       \* the daemon, and the line it has read
    pipe,         \* the pipe is not disabled yet
    emitted,      \* events of the running cycle that were published, and those in the file
    logged,
    counted,      \* the events that the report of the running cycle counts
    runsHandled,  \* runs_handled
    paused,       \* _PAUSED
    config,       \* the runtime configuration file: None or a record
    merged,       \* what _update_runtime_config is about to write, and whether it
                  \* could read the file
    reports,      \* the published reports
    acks,         \* the acknowledged commands
    crashes

daemonVars == <<pc, at, pipe, emitted, logged, counted, runsHandled, paused, merged>>
configVars == <<config, acks>>
vars == <<file, sent, daemonVars, configVars, reports, crashes>>

PCs == {"Down", "Listen", "Run", "Distill", "Report", "Bench", "Merge", "Replace",
        "Ack", "Refuse", "Exited"}

(* The two fields of set_budget, which are treated alike, are one here.    *)
ConfigRecord(p, budget, generations) ==
    [paused |-> p, budget |-> budget, generations |-> generations]

Current == file[at]

TypeOK ==
    /\ sent \in 0 .. Len(Script) /\ at \in 0 .. Len(file)
    /\ pc \in PCs
    /\ pipe \in BOOLEAN /\ paused \in BOOLEAN
    /\ logged <= emitted /\ emitted <= CycleEvents
    /\ runsHandled \in 0 .. MaxRuns
    /\ counted \in [own : Nat, other : Nat]
    /\ config = None
       \/ config \in [paused : BOOLEAN, budget : Nat \cup {None},
                      generations : Nat \cup {None}]
    /\ crashes \in 0 .. MaxCrashes

NoCount == [own |-> 0, other |-> 0]

Init ==
    /\ file = <<>> /\ sent = 0
    /\ pc = "Down" /\ at = 0
    /\ pipe = TRUE /\ emitted = 0 /\ logged = 0 /\ counted = NoCount
    /\ runsHandled = 0 /\ paused = FALSE
    /\ config = None /\ merged = None
    /\ reports = <<>> /\ acks = <<>>
    /\ crashes = 0
-----------------------------------------------------------------------------
(* External: another program publishes.                                    *)
Arrive ==
    /\ sent < Len(Script)
    /\ sent' = sent + 1
    /\ file' = Append(file, Script[sent + 1])
    /\ UNCHANGED <<daemonVars, configVars, reports, crashes>>

(***************************************************************************)
(* AutobenchObservability._publish.  The pipe is tried until it fails      *)
(* once; then every event of this process goes to the file.                *)
(***************************************************************************)
Publish(line) ==
    \/ pipe /\ UNCHANGED <<file, pipe>>
    \/ pipe' = FALSE /\ file' = Append(file, line)

OwnEvent(id) == [kind |-> "event", names |-> FALSE, id |-> id, valid |-> FALSE,
                 cases |-> FALSE, bead |-> FALSE, action |-> "other", param |-> None]

(* tail -F -n 0: what is in the file already is not read.                  *)
Start ==
    /\ pc = "Down"
    /\ pc' = "Listen"
    /\ at' = Len(file)
    /\ pipe' \in BOOLEAN
    /\ runsHandled' = 0 /\ paused' = FALSE
    /\ emitted' = 0 /\ logged' = 0 /\ counted' = NoCount /\ merged' = None
    /\ UNCHANGED <<file, sent, configVars, reports, crashes>>

(* Mutant: a request that is not valid is dropped like a line that is none. *)
MutantDispatch(line) ==
    IF ~line.names \/ line.kind = "garbage" THEN "Listen"
    ELSE IF line.kind = "command"
         THEN IF line.action = "other" THEN "Refuse" ELSE "Merge"
    ELSE IF line.valid THEN "Run" ELSE "Listen"

(***************************************************************************)
(* _consume_line behind the filter: a line that does not parse is dropped, *)
(* a command is handled, and all else is taken for a request.              *)
(***************************************************************************)
Dispatch(line) ==
    IF ~line.names \/ line.kind = "garbage" THEN "Listen"
    ELSE IF line.kind = "command"
         THEN IF line.action = "other" THEN "Refuse" ELSE "Merge"
    ELSE IF line.valid THEN "Run" ELSE "Refuse"

Consume ==
    /\ pc = "Listen" /\ at < Len(file)
    /\ at' = at + 1
    /\ pc' = Dispatch(file[at + 1])
    /\ emitted' = 0 /\ logged' = 0 /\ counted' = NoCount
    /\ UNCHANGED <<file, sent, pipe, runsHandled, paused, merged, configVars,
                   reports, crashes>>

(* The loop of listen, after a line that was handled.                      *)
AfterLine(handled) == IF handled >= MaxRuns THEN "Exited" ELSE "Listen"

(***************************************************************************)
(* _run_cycle_with_population_runner.  A domain without cases is a no-op;  *)
(* an exception of the run is swallowed, and the events are read all the   *)
(* same.                                                                   *)
(***************************************************************************)
CycleStep ==
    /\ pc = "Run" /\ Current.cases /\ emitted < CycleEvents
    /\ Publish(OwnEvent(Current.id))
    /\ emitted' = emitted + 1
    /\ logged' = IF file' = file THEN logged ELSE logged + 1
    /\ UNCHANGED <<sent, pc, at, counted, runsHandled, paused, merged,
                   configVars, reports, crashes>>

(* _read_debug_events: every line that parses, of whatever cycle, or none  *)
(* at all if the file cannot be read to its end.                           *)
ReadEvents ==
    /\ pc = "Run"
    /\ pc' = "Distill"
    /\ \/ counted' = NoCount
       \/ /\ Current.cases
          /\ counted' = [own |-> Cardinality({k \in DOMAIN file :
                                    file[k].kind = "event" /\ file[k].id = Current.id}),
                         other |-> Cardinality({k \in DOMAIN file :
                                    file[k].kind = "event" /\ file[k].id # Current.id})]
    /\ UNCHANGED <<file, sent, at, pipe, emitted, logged, runsHandled, paused,
                   merged, configVars, reports, crashes>>

ReportOf(ok) == [request |-> Current.id, line |-> at, ok |-> ok,
                 own |-> counted.own, other |-> counted.other]

(* The report; an error while it is published is swallowed.                *)
Distill ==
    /\ pc = "Distill"
    /\ pc' = "Report"
    /\ reports' = Append(reports, ReportOf(TRUE))
    /\ Publish(OwnEvent(0))
    /\ UNCHANGED <<sent, at, emitted, logged, counted, runsHandled, paused,
                   merged, configVars, crashes>>

(* The bead of the request, if it has one, gets its handshake.             *)
Report ==
    /\ pc = "Report"
    /\ IF Current.bead THEN Publish(OwnEvent(0)) ELSE UNCHANGED <<file, pipe>>
    /\ runsHandled' = runsHandled + 1
    /\ pc' = AfterLine(runsHandled + 1)
    /\ UNCHANGED <<sent, at, emitted, logged, counted, paused, merged,
                   configVars, reports, crashes>>

(***************************************************************************)
(* _emit_failure_report: for a request that is not valid, for any other    *)
(* line that names a channel, and for a cycle that raises.  It does not    *)
(* count as a run.  An unknown command is acknowledged as an error.        *)
(***************************************************************************)
Refuse ==
    /\ \/ pc = "Refuse"
       \/ pc = "Run" /\ emitted = 0
    /\ reports' = IF Current.kind = "command" THEN reports ELSE Append(reports, ReportOf(FALSE))
    /\ pc' = AfterLine(runsHandled)
    /\ Publish(OwnEvent(0))
    /\ UNCHANGED <<sent, at, emitted, logged, counted, runsHandled, paused,
                   merged, configVars, crashes>>
-----------------------------------------------------------------------------
(* A field is the command's if it sets it, or else what it was.            *)
Given(action, old) ==
    IF Current.action = action /\ Current.param # None THEN Current.param ELSE old

(* Mutant: the file is written from the fields of the command alone.       *)
MutantMerge ==
    /\ pc = "Merge"
    /\ paused' = IF Current.action = "pause" THEN TRUE
                 ELSE IF Current.action = "resume" THEN FALSE ELSE paused
    /\ merged' = [read |-> TRUE,
                  record |-> ConfigRecord(paused', Given("set_budget", None),
                                          Given("set_generations", None))]
    /\ pc' = "Replace"
    /\ UNCHANGED <<file, sent, at, pipe, emitted, logged, counted, runsHandled,
                   configVars, reports, crashes>>

(***************************************************************************)
(* handle_command and _update_runtime_config: the fields of the file that  *)
(* the command does not set are kept, `paused' is always the process's.    *)
(* If the file is there and cannot be read, that is ignored, and the other *)
(* fields are unset.  The new record is written beside the file and moved  *)
(* over it.                                                                *)
(***************************************************************************)
Merge ==
    /\ pc = "Merge"
    /\ paused' = IF Current.action = "pause" THEN TRUE
                 ELSE IF Current.action = "resume" THEN FALSE ELSE paused
    /\ \E read \in BOOLEAN :
        LET old == IF config = None \/ ~read THEN ConfigRecord(paused', None, None) ELSE config
        IN  merged' = [read |-> read,
                       record |-> ConfigRecord(paused', Given("set_budget", old.budget),
                                               Given("set_generations", old.generations))]
    /\ pc' = "Replace"
    /\ UNCHANGED <<file, sent, at, pipe, emitted, logged, counted, runsHandled,
                   configVars, reports, crashes>>

(* A write that fails is swallowed: the command is acknowledged anyway.    *)
Replace ==
    /\ pc = "Replace"
    /\ config' \in {config, merged.record}
    /\ pc' = "Ack"
    /\ merged' = None
    /\ UNCHANGED <<file, sent, at, pipe, emitted, logged, counted, runsHandled,
                   paused, acks, reports, crashes>>

Ack ==
    /\ pc = "Ack"
    /\ acks' = Append(acks, Current.id)
    /\ pc' = AfterLine(runsHandled)
    /\ Publish(OwnEvent(0))
    /\ UNCHANGED <<sent, at, emitted, logged, counted, runsHandled, paused,
                   merged, config, reports, crashes>>

(* The process dies, or the pipe of the tail breaks.                       *)
Crash ==
    /\ pc \notin {"Down", "Exited"} /\ crashes < MaxCrashes
    /\ crashes' = crashes + 1
    /\ pc' = "Down"
    /\ UNCHANGED <<file, sent, at, pipe, emitted, logged, counted, runsHandled,
                   paused, merged, configVars, reports>>
-----------------------------------------------------------------------------
Handling ==
    \/ Consume \/ CycleStep \/ ReadEvents \/ Distill \/ Report \/ Refuse
    \/ Merge \/ Replace \/ Ack

Next == Arrive \/ Start \/ Handling \/ Crash

Spec == Init /\ [][Next]_vars
-----------------------------------------------------------------------------
(* A line is answered with at most one report, whatever crashes, restarts  *)
(* and lines of the daemon's own come in between.                          *)
AnsweredOnce ==
    \A i, j \in DOMAIN reports : reports[i].line = reports[j].line => i = j

(* A report of a cycle that ran counts every event that the cycle wrote to *)
(* the file, the last ones included, or none if the file could not be      *)
(* read.  It may count others', too.                                       *)
OwnEventsCounted ==
    pc \in {"Distill", "Report"} /\ Current.cases => counted.own >= logged \/ counted = NoCount

(* A budget that an operator set is changed only by another set_budget,    *)
(* and a number of generations by another set_generations: pause, resume,  *)
(* a crash in the middle of the update and a restart keep them, unless the *)
(* file was there and could not be read, which loses them.                 *)
BudgetKept ==
    config # None /\ config' # config /\ merged.read =>
        /\ config'.budget = config.budget \/ Current.action = "set_budget"
        /\ config'.generations = config.generations \/ Current.action = "set_generations"

(* A line that names a channel and is no garbage gets its answer, a report *)
(* or an acknowledgement, unless the daemon dies or has made its runs.     *)
IsAnswered(k) == \/ \E i \in DOMAIN reports : reports[i].line = k
                 \/ \E i \in DOMAIN acks : acks[i] = file[k].id
                 \/ file[k].kind = "command" /\ file[k].action = "other" /\ at >= k /\ pc # "Refuse"

Waiting(k) == /\ k \in DOMAIN file /\ at < k /\ pc \notin {"Down", "Exited"}
              /\ file[k].names /\ file[k].kind # "garbage"
=============================================================================
