---------------------------- MODULE RenameVerifier ----------------------------
(***************************************************************************)
(* RenameVerifier.verify (audit/refactor_verifier.py): is a change of a    *)
(* tree the rename of one symbol and nothing else?  The scope and the      *)
(* drift are looked at with external tools where they are installed, and   *)
(* else with a walk of the Python syntax trees; then the tests are run.    *)
(*                                                                         *)
(* A name is a symbol, or is made of one, which it has between underscores *)
(* (test_<name>, <name>_helper).  Of the two symbols that are renamed      *)
(* neither is made of the other, and a name is made of one of them only.   *)
(***************************************************************************)
EXTENDS Integers, FiniteSets

CONSTANTS
    Contents,      \* what a Python file may hold at its positions
    Texts,         \* what the one file that is no Python may hold
    Old, New,      \* old_name and new_name
    Broken,        \* a Python file that does not parse
    Missing,       \* no file
    None

(* Where an identifier may stand: in a name, a definition, an attribute or *)
(* a parameter; in an import, global or nonlocal statement; as the keyword *)
(* of an argument.                                                         *)
Positions == {"bound", "imported", "keyword"}

Whole(name) == [of |-> name, whole |-> TRUE]
MadeOf(name) == [of |-> name, whole |-> FALSE]

VARIABLES
    check,         \* what verify() does next
    was, now,      \* the Python file in before_repo and in target_repo
    wasText, nowText,
    compare,       \* whether there is a before_repo
    scopeTool,     \* the tool that counted, and whether it worked
    residual,      \* residual_old_count
    drift,         \* drift_files
    passed,        \* test_pass
    verdict,
    blamed         \* ast_changes_outside_rename

renameVars ==
    <<check, was, now, wasText, nowText, compare, scopeTool, residual, drift, passed,
      verdict, blamed>>

Parses(file) == file \notin {Broken, Missing}

(* substitute: the pattern finds new_name between underscores as well.     *)
Reverted(n) ==
    IF n = Whole(New) THEN Whole(Old) ELSE IF n = MadeOf(New) THEN MadeOf(Old) ELSE n

(* What _dump_normalized reads in a position of the new tree; its          *)
(* transformer does not visit the keywords.                                *)
Normal(file) ==
    IF Parses(file)
    THEN [p \in Positions |->
            IF p # "keyword" THEN Reverted(file[p]) ELSE file[p]]
    ELSE file

(* _substitute_identifier, which rewrites every name token, and no other   *)
(* that is made of it.                                                     *)
Substituted(file) ==
    IF Parses(file)
    THEN [p \in Positions |-> IF file[p] = Whole(New) THEN Whole(Old) ELSE file[p]]
    ELSE file

(* What _python_identifier_index finds of a name: a file that does not     *)
(* parse is skipped, and only some positions are looked at.                *)
IndexCount(file, name) ==
    IF Parses(file) /\ file["bound"] = Whole(name) THEN 1 ELSE 0

(* External: ast-grep finds an identifier wherever it stands.              *)
GrepCount(file, name) ==
    IF Parses(file) THEN Cardinality({p \in Positions : file[p] = Whole(name)}) ELSE 0
-----------------------------------------------------------------------------
(* The two trees are whatever the author of the change made of them.       *)
Init ==
    /\ was \in Contents \cup {Broken, Missing}
    /\ now \in Contents \cup {Broken, Missing}
    /\ wasText \in Texts /\ nowText \in Texts
    /\ compare \in BOOLEAN
    /\ check = "scope" /\ scopeTool = None /\ residual = 0 /\ drift = {}
    /\ passed = None /\ verdict = None /\ blamed = {}

(* check_scope: with ast-grep, which may fail and then found nothing, or   *)
(* by the index.                                                           *)
Scope ==
    /\ check = "scope" /\ check' = "drift"
    /\ \/ scopeTool' = "ast-grep" /\ residual' = GrepCount(now, Old)
       \/ scopeTool' = "ast-grep failed" /\ residual' = 0
       \/ scopeTool' = "index" /\ residual' = IndexCount(now, Old)
    /\ UNCHANGED <<was, now, wasText, nowText, compare, drift, passed, verdict,
                   blamed>>

(* difft compares every file with its copy in which the rename is undone;  *)
(* without an answer they differ.  A file that cannot be tokenised ends    *)
(* verify() with an AttributeError, for tokenize has no TokenizeError.     *)
Difft ==
    /\ check = "drift" /\ compare
    /\ \/ now = Broken /\ check' = "raised" /\ UNCHANGED drift
       \/ /\ check' = "tests"
          /\ \E failing \in SUBSET ({"text"} \cup {f \in {"py"} : now # Missing}) :
                drift' =
                    failing \cup {f \in {"py"} : Substituted(now) # was}
                    \cup {f \in {"text"} :
                            (IF nowText = New THEN Old ELSE nowText) # wasText}
    /\ UNCHANGED <<was, now, wasText, nowText, compare, scopeTool, residual,
                   passed, verdict, blamed>>

(* A bug: both trees are normalised, so a name that was there is merged.   *)
MutantAstDrift ==
    /\ check = "drift" /\ compare /\ check' = "tests"
    /\ drift' = {f \in {"py"} : Normal(now) # Normal(was)}
    /\ UNCHANGED <<was, now, wasText, nowText, compare, scopeTool, residual,
                   passed, verdict, blamed>>

(* _fallback_ast_drift, which sees nothing but the Python file.            *)
AstDrift ==
    /\ check = "drift" /\ compare /\ check' = "tests"
    /\ drift' = {f \in {"py"} : Normal(now) # was}
    /\ UNCHANGED <<was, now, wasText, nowText, compare, scopeTool, residual,
                   passed, verdict, blamed>>

NoDrift ==
    /\ check = "drift" /\ ~compare /\ check' = "tests"
    /\ UNCHANGED <<was, now, wasText, nowText, compare, scopeTool, residual,
                   drift, passed, verdict, blamed>>

(* run_tests, if there is a command; a timeout or a runner that is missing *)
(* is a failure.                                                           *)
Tests ==
    /\ check = "tests" /\ check' = "verdict"
    /\ passed' \in {None, TRUE, FALSE}
    /\ UNCHANGED <<was, now, wasText, nowText, compare, scopeTool, residual,
                   drift, verdict, blamed>>

(* The tests come first, then the drift, then what is left of old_name.    *)
Decide ==
    /\ check = "verdict" /\ check' = "done"
    /\ verdict' =
        IF passed = FALSE THEN "RT"
        ELSE IF drift # {} \/ residual > 0 THEN "RD" ELSE "RV"
    /\ blamed' =
        IF passed # FALSE /\ drift = {} /\ residual > 0 THEN {"py"} ELSE drift
    /\ UNCHANGED <<was, now, wasText, nowText, compare, scopeTool, residual,
                   drift, passed>>

Done == check \in {"done", "raised"} /\ UNCHANGED renameVars

Next == Scope \/ Difft \/ AstDrift \/ NoDrift \/ Tests \/ Decide \/ Done

ValidRename ==
    Old # New /\ \A file \in Contents : file = [p \in Positions |-> file[p]]
-----------------------------------------------------------------------------
(* What a rename may make of a name: new_name of old_name, and nothing else*)
(* of any other, but a name made of old_name may follow it or stay.        *)
RenamesOf(n) ==
    IF n = Whole(Old) THEN {Whole(New)}
    ELSE IF n = MadeOf(Old) THEN {n, MadeOf(New)} ELSE {n}

(* A verified change, of two trees, is the rename: every definition and    *)
(* use of old_name has new_name, every other name is what it was or was    *)
(* made of old_name and is made of new_name the same way, and new_name was *)
(* not in use, so that no two symbols became one.  Imports may lag behind  *)
(* unless ast-grep counts them, and a failed ast-grep counts as no         *)
(* residue.  A drift names the files to blame.                             *)
Renamed(p) == now[p] \in RenamesOf(was[p])

RenameSound ==
    check = "done" =>
        /\ verdict = "RT" <=> passed = FALSE
        /\ verdict = "RD" <=> (passed # FALSE /\ blamed # {})
        /\ (verdict = "RV" /\ compare /\ Parses(now)) =>
            /\ was["bound"] # Whole(New) /\ was["imported"] # Whole(New)
            /\ scopeTool # "ast-grep failed" => Renamed("bound")
            /\ scopeTool = "ast-grep" => Renamed("imported")
=============================================================================
