---------------------------- MODULE ArtifactPublish ----------------------------
(***************************************************************************)
(* How evolved programs leave the search (kernels/base.py and              *)
(* artifact_store.py for the best one, playground_push.py for those of a   *)
(* result file, publish_evolved_kernels.py for three kernels): an index, a *)
(* log, a bus and the vault of the shader studio, one after the other,     *)
(* each of which may fail or answer too late.                              *)
(***************************************************************************)
EXTENDS Integers, Sequences, FiniteSets, SequencesExt

CONSTANTS
    Programs,      \* program -> its kernel, whether cpp_to_glsl gives it a GLSL form,
                   \* whether the GLSL validator accepts that form, and whether the
                   \* substitutions of publish_evolved_kernels.py leave no C in it
    Evolved,       \* what the result files of publish_evolved_kernels.py may hold, in
                   \* its order
    TopN,          \* top_n of push_best_from_results
    Validator,     \* whether glslangValidator is installed
    NervousBin,    \* whether the nervous command was found
    MaxTasks,      \* a bound of the model
    None

VARIABLES
    task,          \* "none", "artifact", "results" or "evolved"
    next,          \* what the task does next
    todo,          \* the programs that the task has yet to publish, best first
    list,          \* those that it began with
    entry,         \* the id of the artifact's entry
    index,         \* artifacts/index.jsonl: id -> program, where shader_glsl is from
    logged,        \* the ids of the events in the debug log
    sent,          \* those that the nervous command was given
    vault,         \* the shaders in the vault: program, task that posted it
    pushed,        \* the ids that the task got back, as programs
    answers,       \* program of the task -> what became of it (history)
    status,        \* how the task ended
    tasks          \* how many tasks there were

publishVars ==
    <<task, next, todo, list, entry, index, logged, sent, vault, pushed, answers, status,
      tasks>>
-----------------------------------------------------------------------------
Names == DOMAIN Programs

(* cpp_to_glsl: no static arrays and no large ones.                        *)
Compatible(p) == Programs[p].compatible

(* A bug: the shader is posted as translated, without the validator.       *)
MutantValid(p) == Compatible(p)

(* fix_and_validate: without the validator whatever can be translated is   *)
(* as good as valid.                                                       *)
Valid(p) == Compatible(p) /\ (Validator => Programs[p].valid)

(* The shader_glsl of an entry: an SDF that was rendered has its own code,  *)
(* translated and not validated; with the picture of an oasis comes the    *)
(* file that its renderer wrote, whatever the code is.  Without a picture, *)
(* without that file, and when an exception is skipped, there is none.     *)
ShadersOf(p) ==
    {"none"} \cup {s \in {"translated"} : Programs[p].kernel = "sdf" /\ Compatible(p)}
             \cup {s \in {"sidecar"} : Programs[p].kernel = "oasis"}

(* _assert_clean_glsl raises for the C that it knows: literals and calls   *)
(* with an f, extern "C".  It knows nothing of arrays.                     *)
Clean(p) == Programs[p].clean

(* A POST: stored and answered, stored although the answer was lost, or    *)
(* not stored.                                                             *)
Outcomes == {"answered", "lost", "refused"}

(* A list of different programs, the best first.                           *)
Lists ==
    {l \in UNION {[1 .. n -> Names] : n \in 0 .. Cardinality(Names)} : IsInjective(l)}

Posted(p, outcome) ==
    IF outcome = "refused" THEN vault
    ELSE Append(vault, [program |-> p, task |-> tasks])

Finish(how) == task' = "none" /\ next' = None /\ status' = how
-----------------------------------------------------------------------------
Init ==
    /\ task = "none" /\ next = None /\ todo = <<>> /\ list = <<>> /\ entry = None
    /\ index = <<>> /\ logged = {} /\ sent = {} /\ vault = <<>>
    /\ pushed = <<>> /\ answers = <<>> /\ status = None /\ tasks = 0

Begins(what, programs, first) ==
    /\ task = "none" /\ tasks < MaxTasks
    /\ task' = what /\ next' = first /\ tasks' = tasks + 1
    /\ list' = programs /\ todo' = programs
    /\ pushed' = <<>> /\ answers' = <<>> /\ status' = None /\ entry' = None
    /\ UNCHANGED <<index, logged, sent, vault>>

(* _save_best_artifact of the best program.                                *)
BeginArtifact == \E p \in Names : Begins("artifact", <<p>>, "index")

(* The entry of the index, with the shader if there is one.                *)
WriteIndex ==
    /\ task = "artifact" /\ next = "index"
    /\ \E s \in ShadersOf(list[1]) :
        index' = Append(index, [program |-> list[1], shader |-> s])
    /\ entry' = Len(index) + 1
    /\ next' = "log"
    /\ UNCHANGED <<task, todo, list, logged, sent, vault, pushed, answers,
                   status, tasks>>

(* _publish_artifact_event: the log, if it can be written, and then the    *)
(* same envelope with the same id for the nervous command, whose failure   *)
(* is ignored as well.                                                     *)
LogArtifact ==
    /\ task = "artifact" /\ next = "log" /\ next' = "send"
    /\ logged' \in {logged, logged \cup {entry}}
    /\ UNCHANGED <<task, todo, list, entry, index, sent, vault, pushed, answers,
                   status, tasks>>

SendArtifact ==
    /\ task = "artifact" /\ next = "send" /\ next' = "push"
    /\ sent' = sent \/ (NervousBin /\ sent' = sent \cup {entry})
    /\ UNCHANGED <<task, todo, list, entry, index, logged, vault, pushed,
                   answers, status, tasks>>

(* push_to_playground: an SDF that is valid, whatever the answer.          *)
PushArtifact ==
    /\ task = "artifact" /\ next = "push"
    /\ \E o \in Outcomes :
        LET p == list[1]
            posts == Programs[p].kernel = "sdf" /\ Valid(p)
        IN  vault' = IF posts THEN Posted(p, o) ELSE vault
    /\ Finish("done")
    /\ UNCHANGED <<todo, list, entry, index, logged, sent, pushed, answers,
                   tasks>>

(* An exception anywhere ends the artifact, and nobody is told.            *)
ArtifactFails ==
    /\ task = "artifact" /\ Finish("swallowed")
    /\ UNCHANGED <<todo, list, entry, index, logged, sent, vault, pushed,
                   answers, tasks>>
-----------------------------------------------------------------------------
(* push_best_from_results: down the list until TopN were answered; what    *)
(* was posted but not answered counts as incompatible.                     *)
BeginResults ==
    task = "none" /\ \E programs \in Lists : Begins("results", programs, "next")

PushNext ==
    /\ task = "results" /\ todo # <<>>
    /\ todo' = Tail(todo)
    /\ LET p == Head(todo)
       IN  \/ /\ ~Valid(p)
              /\ answers' = Append(answers, "invalid")
              /\ UNCHANGED <<task, next, vault, pushed, status>>
           \/ /\ Valid(p)
              /\ \E o \in Outcomes :
                    /\ vault' = Posted(p, o)
                    /\ answers' = Append(answers, o)
                    /\ IF o = "answered"
                       THEN /\ pushed' = Append(pushed, p)
                            /\ IF Len(pushed) + 1 >= TopN
                               THEN Finish("done") ELSE UNCHANGED <<task, next, status>>
                       ELSE UNCHANGED <<task, next, pushed, status>>
    /\ UNCHANGED <<list, entry, index, logged, sent, tasks>>

EndResults ==
    /\ task = "results" /\ todo = <<>> /\ Finish("done")
    /\ UNCHANGED <<todo, list, entry, index, logged, sent, vault, pushed,
                   answers, tasks>>
-----------------------------------------------------------------------------
(* publish_evolved_kernels: all of them in their order.  A file that is    *)
(* missing or a program that is not clean ends it with an exception, and   *)
(* what was posted before stays.                                           *)
BeginEvolved ==
    task = "none" /\ \E programs \in Evolved : Begins("evolved", programs, "next")

PostNext ==
    /\ task = "evolved" /\ todo # <<>> /\ Clean(Head(todo))
    /\ todo' = Tail(todo)
    /\ \E o \in Outcomes :
        /\ vault' = Posted(Head(todo), o)
        /\ answers' = Append(answers, o)
        /\ pushed' = IF o = "answered" THEN Append(pushed, Head(todo)) ELSE pushed
    /\ UNCHANGED <<task, next, list, entry, index, logged, sent, status, tasks>>

EvolvedRaises ==
    /\ task = "evolved" /\ todo # <<>> /\ Finish("raised")
    /\ UNCHANGED <<todo, list, entry, index, logged, sent, vault, pushed,
                   answers, tasks>>

EndEvolved ==
    /\ task = "evolved" /\ todo = <<>>
    /\ Finish(IF pushed = list THEN "exit 0" ELSE "exit 1")
    /\ UNCHANGED <<todo, list, entry, index, logged, sent, vault, pushed,
                   answers, tasks>>

Next ==
    \/ BeginArtifact \/ WriteIndex \/ LogArtifact \/ SendArtifact \/ PushArtifact
    \/ ArtifactFails \/ BeginResults \/ PushNext \/ EndResults
    \/ BeginEvolved \/ PostNext \/ EvolvedRaises \/ EndEvolved

(* What the constants may be; the MC module assumes it.                     *)
ValidPublish ==
    /\ IsFiniteSet(Names) /\ \A p \in Names : Programs[p].valid => Compatible(p)
    /\ \A p \in Names : Programs[p].clean \in BOOLEAN
    /\ Evolved \subseteq Lists /\ TopN \in Nat /\ MaxTasks \in Nat
    /\ {Validator, NervousBin} \subseteq BOOLEAN
    /\ None \notin {"done", "raised", "swallowed", "exit 0", "exit 1"}

Spec == Init /\ [][Next]_publishVars
-----------------------------------------------------------------------------
InVault == {vault[k].program : k \in {n \in DOMAIN vault : vault[n].task = tasks}}

(* Whoever hears of an artifact finds it in the index: the log and the bus *)
(* have no id that the index has not.                                      *)
IndexComesFirst == (logged \cup sent) \subseteq DOMAIN index

(* What the shader of an entry was made from can be a fragment shader, or  *)
(* the renderer of the oasis wrote it; and what an artifact or a result    *)
(* file put into the vault can be one, and is not broken where the         *)
(* validator is installed.  The shaders of the index are not validated,    *)
(* and publish_evolved_kernels does not look for what a shader cannot be.  *)
OnlyShaders ==
    /\ \A k \in DOMAIN index :
        LET p == index[k].program
        IN  CASE index[k].shader = "translated" -> Programs[p].compatible
              [] index[k].shader = "sidecar" -> Programs[p].kernel = "oasis"
              [] OTHER -> TRUE
    /\ (task \in {"artifact", "results"} \/ status \in {"done", "swallowed"}) =>
        \A p \in InVault : Programs[p].compatible /\ (Validator => Programs[p].valid)

(* The places of the list that were answered so.                           *)
Answered(how) == {k \in 1 .. Len(answers) : answers[k] = how}

(* Programs stand in the order of the list.                                *)
InOrder(programs) ==
    \A m, n \in DOMAIN programs : m < n =>
        \E i, j \in DOMAIN list : i < j /\ list[i] = programs[m] /\ list[j] = programs[n]

(* A result file is pushed from the best program down: those that are told *)
(* of are those that were answered, in the order of the file, all in the   *)
(* vault and at most TopN (but one if TopN is none), none that is better   *)
(* was left out unless it was invalid, refused or answered too late, and   *)
(* only answers that were lost can make the vault have more.               *)
BestArePushed ==
    (task = "results" \/ status = "done") =>
        /\ ToSet(pushed) = {list[k] : k \in Answered("answered")}
        /\ InOrder(pushed)
        /\ ToSet(pushed) \subseteq InVault /\ Len(pushed) <= (IF TopN = 0 THEN 1 ELSE TopN)
        /\ answers # <<>> =>
            InVault \ ToSet(pushed) = {list[k] : k \in Answered("lost")}

(* The exit status 0 of publish_evolved_kernels says that all the kernels  *)
(* are in the vault now; any other, and an exception, may still have put   *)
(* some of them there, but none with C left in it.                         *)
ExitIsTrue ==
    /\ status = "exit 0" => InVault = ToSet(list)
    /\ (task = "evolved" \/ status \in {"exit 0", "exit 1", "raised"}) =>
        \A p \in InVault : Programs[p].clean

PublishSound == IndexComesFirst /\ OnlyShaders /\ BestArePushed /\ ExitIsTrue
=============================================================================
