------------------------------ MODULE EventTail ------------------------------
(***************************************************************************)
(* The debug file of the bus (bus/signal_bus.py): publishers that append   *)
(* an event to it when neither the zellij pipe nor Redis takes it, and a   *)
(* subscriber that polls its size and reads what was added.                *)
(*                                                                         *)
(* The file is a sequence of pieces.  An event of more than a buffer is    *)
(* written in two, and only the last piece of an event ends in a newline.  *)
(***************************************************************************)
EXTENDS Naturals, Sequences, FiniteSets, SequencesExt

CONSTANTS
    Events,      \* the events that are published
    Big,         \* those that are longer than the buffer of a file
    Foreign,     \* those of another channel
    Scalars      \* lines of another program: JSON, but not an object

(* What the constants may be; the MC module assumes it.                     *)
ValidEvents ==
    /\ Big \cup Foreign \cup Scalars \subseteq Events
    /\ Foreign \cap Scalars = {}

VARIABLES
    file,        \* the pieces in the debug file
    path,        \* how far each event is: "new", "pipe", "redis", "torn", "file"
    pc,          \* the subscriber: "Sleep", "Read", "Dead", "Stopped"
    lastSize,    \* last_size and current_size of the subscriber's loop
    currentSize,
    at,          \* how far the open file is read
    late,        \* the events that were not complete when the size was taken
    dispatched   \* how often the callback had each event

vars == <<file, path, pc, lastSize, currentSize, at, late, dispatched>>

Piece(e, first, last) == [event |-> e, first |-> first, last |-> last]

TypeOK ==
    /\ \A k \in DOMAIN file : file[k] \in [event : Events, first : BOOLEAN, last : BOOLEAN]
    /\ path \in [Events -> {"new", "pipe", "redis", "torn", "file"}]
    /\ pc \in {"Sleep", "Read", "Dead", "Stopped"}
    /\ lastSize <= currentSize /\ currentSize <= Len(file)
    /\ at \in 0 .. Len(file)
    /\ late \subseteq Events
    /\ dispatched \in [Events -> Nat]

(* What was there before the subscriber started is of no interest to it.   *)
Init ==
    /\ file = <<>>
    /\ path = [e \in Events |-> "new"]
    /\ pc = "Sleep"
    /\ lastSize = 0 /\ currentSize = 0 /\ at = 0
    /\ late = {}
    /\ dispatched = [e \in Events |-> 0]
-----------------------------------------------------------------------------
(* publish: the pipe, then Redis, then the file.  A program that writes    *)
(* the file itself has only the last way.                                  *)
Publish(e) ==
    /\ path[e] = "new"
    /\ \/ /\ e \notin Scalars
          /\ \E way \in {"pipe", "redis"} : path' = [path EXCEPT ![e] = way]
          /\ UNCHANGED file
       \/ /\ path' = [path EXCEPT ![e] = IF e \in Big THEN "torn" ELSE "file"]
          /\ file' = Append(file, Piece(e, TRUE, e \notin Big))
    /\ UNCHANGED <<pc, lastSize, currentSize, at, late, dispatched>>

FlushRest(e) ==
    /\ path[e] = "torn"
    /\ path' = [path EXCEPT ![e] = "file"]
    /\ file' = Append(file, Piece(e, FALSE, TRUE))
    /\ UNCHANGED <<pc, lastSize, currentSize, at, late, dispatched>>
-----------------------------------------------------------------------------
(* The end of the line that begins after position p: its newline, or else  *)
(* the end of the file.                                                    *)
LineEnd(p) ==
    LET newlines == {k \in p + 1 .. Len(file) : file[k].last}
    IN IF newlines = {} THEN Len(file) ELSE CHOOSE k \in newlines : \A n \in newlines : k <= n

(* A line parses if it is one event from its beginning to its end.         *)
Parses(line) ==
    /\ line[1].first /\ Last(line).last
    /\ \A k \in DOMAIN line : line[k].event = line[1].event

(* Mutant: a poll that begins before the size it stopped at.               *)
MutantStat ==
    /\ pc = "Sleep"
    /\ currentSize' = Len(file)
    /\ IF Len(file) > lastSize
       THEN pc' = "Read" /\ at' = 0
       ELSE UNCHANGED <<pc, at>>
    /\ late' = {e \in Events : path[e] # "file"}
    /\ UNCHANGED <<file, path, lastSize, dispatched>>

Stat ==
    /\ pc = "Sleep"
    /\ currentSize' = Len(file)
    /\ IF Len(file) > lastSize
       THEN pc' = "Read" /\ at' = lastSize
       ELSE UNCHANGED <<pc, at>>
    /\ late' = {e \in Events : path[e] # "file"}
    /\ UNCHANGED <<file, path, lastSize, dispatched>>

(* _process_line: what does not parse and what is of another channel is    *)
(* dropped; a line that is no object raises, and that ends the loop.       *)
ReadLine ==
    /\ pc = "Read" /\ at < Len(file)
    /\ LET line == SubSeq(file, at + 1, LineEnd(at))
           e == line[1].event
       IN /\ at' = LineEnd(at)
          /\ pc' = IF Parses(line) /\ e \in Scalars THEN "Dead" ELSE "Read"
          /\ dispatched' = IF Parses(line) /\ e \notin Foreign \cup Scalars
                           THEN [dispatched EXCEPT ![e] = @ + 1] ELSE dispatched
    /\ UNCHANGED <<file, path, lastSize, currentSize, late>>

(* Mutant: the next poll begins where the file ends by then.               *)
MutantEndOfFile ==
    /\ pc = "Read" /\ at <= Len(file)
    /\ lastSize' = Len(file) /\ currentSize' = Len(file)
    /\ pc' = "Sleep"
    /\ UNCHANGED <<file, path, at, late, dispatched>>

EndOfFile ==
    /\ pc = "Read" /\ at = Len(file)
    /\ lastSize' = currentSize
    /\ pc' = "Sleep"
    /\ UNCHANGED <<file, path, currentSize, at, late, dispatched>>

(* stop() takes effect when the round is over.                             *)
Stop ==
    /\ pc = "Sleep"
    /\ pc' = "Stopped"
    /\ UNCHANGED <<file, path, lastSize, currentSize, at, late, dispatched>>
-----------------------------------------------------------------------------
Next ==
    \/ \E e \in Events : Publish(e) \/ FlushRest(e)
    \/ Stat \/ ReadLine \/ EndOfFile \/ Stop

Spec == Init /\ [][Next]_vars
-----------------------------------------------------------------------------
(* No event is dispatched more than twice, and a second time only by a     *)
(* poll that found its line complete when it took the size.                *)
AtMostTwice ==
    \A e \in Events :
        dispatched[e] > 1 => dispatched[e] = 2 /\ (pc = "Read" => e \notin late)

(* Every event of the channel that was written in one piece behind a       *)
(* newline and lies before last_size was dispatched: events are missed     *)
(* only if writers tear or interleave their lines.                         *)
NoneMissed ==
    \A k \in 1 .. lastSize :
        LET e == file[k].event
        IN e \notin Foreign \cup Scalars \cup Big /\ (k = 1 \/ file[k - 1].last)
              => dispatched[e] > 0

(* An event that is in the file in one piece, with no torn line in front   *)
(* of it, is dispatched unless the loop ends.                              *)
InFront(e) == \E k \in DOMAIN file :
                 file[k].event = e /\ file[k].last /\ (k = 1 \/ file[k - 1].last)
==============================================================================
