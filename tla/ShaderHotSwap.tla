---------------------------- MODULE ShaderHotSwap ----------------------------
(***************************************************************************)
(* The fitness of a terrain function on the GPU (kernels/bridge.py and     *)
(* kernels/eval.py): the function is spliced into the one shader file that *)
(* the engine watches, and the newest timing in the bus log is its score.  *)
(* Kernels that search at the same time share the file and the log, and    *)
(* nothing tells a timing's function.                                      *)
(***************************************************************************)
EXTENDS Integers, FiniteSets

CONSTANTS
    Kernels,       \* the processes that evaluate
    Codes,         \* candidates, told apart by their text
    Blank,         \* a candidate that is nothing but white space
    Stub,          \* the function in the file that the engine ships
    Shapes,        \* the shapes of the timing events that the engine writes
    MaxScores, MaxCrashes,   \* bounds of the model
    None

VARIABLES
    shader,        \* the file: None, or what it holds between the markers and
                   \* whether the rest is as it was shipped
    running,       \* the function that the engine last compiled
    newest,        \* the newest tse.wt_timing.v1 event, or None
    step,          \* kernel -> what inject() does next
    code,          \* kernel -> the candidate
    text,          \* kernel -> the file as _splice read it
    alone,         \* kernel -> no other splice since its own began (history)
    heard,         \* kernel -> its function was timed since its splice (history)
    damaged,       \* writes overlapped, or a writer died (history)
    score,         \* the last evaluation (history)
    made,          \* how many there were
    crashes        \* (history)

swapVars ==
    <<shader, running, newest, step, code, text, alone, heard, damaged, score, made,
      crashes>>
-----------------------------------------------------------------------------
Whole(f) == [fn |-> f, whole |-> TRUE]

(* The file between the open and the write of another kernel's write_text: *)
(* it has no marker.                                                       *)
Truncated == [fn |-> None, whole |-> FALSE]

HasMarkers(file) == file.fn # None

(* A bug: what was between the markers stays behind the new function, and  *)
(* the shader has two of them.                                             *)
MutantSpliced(file, f) == [fn |-> f, whole |-> file.whole /\ file.fn = Stub]

(* _splice: the marker, the new function, and the file from the end marker *)
(* on, damaged or not.                                                     *)
Spliced(file, f) == [file EXCEPT !.fn = f]

(* _read_wt_timing: the entry of the work type among those of the event,   *)
(* or the event itself if it is of it, or else the cycles at its root,     *)
(* whatever they are of.                                                   *)
Timed(event) ==
    IF event = None THEN None
    ELSE CASE event.shape \in {"entries", "flat"} -> event.fn
           [] event.shape = "root" -> "frame"
           [] OTHER -> None

(* The end of inject(), whose errors are all a fitness of None.            *)
Ends(k, what) ==
    /\ step' = [step EXCEPT ![k] = "idle"]
    /\ score' = [code |-> code[k], by |-> what, alone |-> alone[k], heard |-> heard[k]]
    /\ made' = made + 1
    /\ code' = [code EXCEPT ![k] = None]
    /\ text' = [text EXCEPT ![k] = None]
    /\ alone' = [alone EXCEPT ![k] = TRUE]
    /\ heard' = [heard EXCEPT ![k] = FALSE]
-----------------------------------------------------------------------------
Init ==
    /\ shader \in {None, Whole(Stub)}
    /\ running = Stub /\ newest = None
    /\ step = [k \in Kernels |-> "idle"]
    /\ code = [k \in Kernels |-> None] /\ text = [k \in Kernels |-> None]
    /\ alone = [k \in Kernels |-> TRUE] /\ heard = [k \in Kernels |-> FALSE]
    /\ damaged = FALSE /\ score = None /\ made = 0 /\ crashes = 0

(* evaluate: without a shader file the candidate is compiled and sampled   *)
(* on the CPU, which needs no file that is shared.                         *)
EvaluateOnCpu(k) ==
    /\ step[k] = "idle" /\ made < MaxScores /\ shader = None
    /\ \E c \in Codes :
        score' = [code |-> c, by |-> IF c = Blank THEN None ELSE "cpu", alone |-> TRUE,
                  heard |-> FALSE]
    /\ made' = made + 1
    /\ UNCHANGED <<shader, running, newest, step, code, text, alone, heard,
                   damaged, crashes>>

EvaluateOnGpu(k) ==
    /\ step[k] = "idle" /\ made < MaxScores /\ shader # None
    /\ \E c \in Codes : code' = [code EXCEPT ![k] = c]
    /\ step' = [step EXCEPT ![k] = "read"]
    /\ alone' = [alone EXCEPT ![k] = \A q \in Kernels \ {k} : step[q] # "write"]
    /\ heard' = [heard EXCEPT ![k] = FALSE]
    /\ UNCHANGED <<shader, running, newest, text, damaged, score, made,
                   crashes>>

(* inject up to the read of the file: a blank candidate is refused, and so *)
(* is a file without its markers.                                          *)
Read(k) ==
    /\ step[k] = "read"
    /\ IF code[k] = Blank \/ ~HasMarkers(shader)
       THEN Ends(k, None)
       ELSE /\ text' = [text EXCEPT ![k] = shader]
            /\ step' = [step EXCEPT ![k] = "open"]
            /\ UNCHANGED <<code, alone, heard, score, made>>
    /\ UNCHANGED <<shader, running, newest, damaged, crashes>>

(* What another kernel's splice is to those that are under way.            *)
Disturbs(k) == alone' = [q \in Kernels |-> alone[q] /\ (q = k \/ step[q] = "idle")]

(* write_text opens the file, which truncates it.                          *)
Open(k) ==
    /\ step[k] = "open"
    /\ shader' = Truncated
    /\ step' = [step EXCEPT ![k] = "write"]
    /\ Disturbs(k)
    /\ UNCHANGED <<running, newest, code, text, heard, damaged, score, made,
                   crashes>>

(* It writes from the beginning of the file: if another one wrote since it *)
(* was opened and its text was longer, the end of that text stays.         *)
Write(k) ==
    /\ step[k] = "write"
    /\ LET new == Spliced(text[k], code[k])
       IN  IF HasMarkers(shader)
           THEN shader' \in {new, [new EXCEPT !.whole = FALSE]} /\ damaged' = TRUE
           ELSE shader' = new /\ UNCHANGED damaged
    /\ step' = [step EXCEPT ![k] = "wait"]
    /\ Disturbs(k)
    /\ heard' = [heard EXCEPT ![k] = FALSE]
    /\ UNCHANGED <<running, newest, code, text, score, made, crashes>>

(* After the 55 ms of _wait_reload, whatever happened in them.             *)
Timing(k) ==
    /\ step[k] = "wait"
    /\ Ends(k, Timed(newest))
    /\ UNCHANGED <<shader, running, newest, damaged, crashes>>

(* The kernel's process dies; a file that it had truncated stays so, and a *)
(* new process takes its place.                                            *)
Crash(k) ==
    /\ step[k] # "idle" /\ crashes < MaxCrashes
    /\ step' = [step EXCEPT ![k] = "idle"]
    /\ code' = [code EXCEPT ![k] = None] /\ text' = [text EXCEPT ![k] = None]
    /\ alone' = [alone EXCEPT ![k] = TRUE] /\ heard' = [heard EXCEPT ![k] = FALSE]
    /\ damaged' = (damaged \/ step[k] = "write")
    /\ crashes' = crashes + 1
    /\ UNCHANGED <<shader, running, newest, score, made>>

(* External: the engine compiles a file that is as it should be.           *)
Reload ==
    /\ shader # None /\ shader.whole /\ running # shader.fn
    /\ running' = shader.fn
    /\ UNCHANGED <<shader, newest, step, code, text, alone, heard, damaged,
                   score, made, crashes>>

(* External: it times the function that it runs.                           *)
Report ==
    /\ \E s \in Shapes : newest' = [fn |-> running, shape |-> s]
    /\ heard' =
        [k \in Kernels |-> heard[k] \/ (step[k] = "wait" /\ running = code[k])]
    /\ UNCHANGED <<shader, running, step, code, text, alone, damaged, score,
                   made, crashes>>

(* External: a checkout of the engine brings the file, or brings it back.  *)
Checkout ==
    /\ shader # Whole(Stub) /\ \A k \in Kernels : step[k] = "idle"
    /\ shader' = Whole(Stub) /\ damaged' = FALSE
    /\ UNCHANGED <<running, newest, step, code, text, alone, heard, score, made,
                   crashes>>

Next ==
    \/ \E k \in Kernels :
        \/ EvaluateOnCpu(k) \/ EvaluateOnGpu(k) \/ Read(k) \/ Open(k) \/ Write(k)
        \/ Timing(k) \/ Crash(k)
    \/ Reload \/ Report \/ Checkout

ValidSwap ==
    /\ Stub \notin Codes /\ Blank \in Codes /\ None \notin Codes \cup {Stub}
    /\ IsFiniteSet(Kernels)
    /\ MaxScores \in Nat /\ MaxCrashes \in Nat

Spec == Init /\ [][Next]_swapVars
-----------------------------------------------------------------------------
(* A kernel that has the file to itself is scored by its own function, if  *)
(* the engine timed it while the kernel waited (or by the whole frame, if  *)
(* the event does not tell work types apart).  Otherwise it may be scored  *)
(* by any function, silently.                                              *)
OwnTiming ==
    (score # None /\ score.alone /\ score.heard) => score.by \in {score.code, "frame", None}

(* When nobody writes, the shader is the shipped file with one function    *)
(* in it, unless writes overlapped or a writer died before; then it may    *)
(* stay without markers, and every candidate fails until a checkout.       *)
ShaderWhole ==
    \/ shader = None \/ damaged \/ shader.whole
    \/ \E k \in Kernels : step[k] = "write"

HotSwapSound == OwnTiming /\ ShaderWhole
=============================================================================
