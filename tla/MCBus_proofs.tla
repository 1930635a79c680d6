----------------------------- MODULE MCBus_proofs -----------------------------
(***************************************************************************)
(* The readers of the debug file: what the subscriber dispatches, and what *)
(* the trigger daemon answers, for any events, any lines and any bounds.   *)
(***************************************************************************)
EXTENDS MCBus, SequencesExt, WellFoundedInduction, SequenceTheorems, FiniteSetTheorems, TLAPS

(* Sets of numbers and sequences.                                          *)
LEMMA Smallest ==
    ASSUME NEW S \in SUBSET Nat, S # {}
    PROVE  \E m \in S : \A n \in S : m <= n
<1>1. PICK m \in S : \A n \in S : <<n, m>> \notin OpToRel(<, Nat)
    BY NatLessThanWellFounded, WFMin
<1>2. ASSUME NEW n \in S PROVE m <= n
    <2>1. <<n, m>> \in Nat \X Nat /\ <<n, m>>[1] = n /\ <<n, m>>[2] = m
        OBVIOUS
    <2>2. <<n, m>> \notin {ss \in Nat \X Nat : ss[1] < ss[2]}
        BY <1>1 DEF OpToRel
    <2>3. ~(n < m)
        BY <2>1, <2>2
    <2> QED BY <2>3
<1> QED BY <1>2

LEMMA Appended ==
    ASSUME NEW S, NEW s \in Seq(S), NEW x \in S
    PROVE  LET t == Append(s, x)
           IN /\ t \in Seq(S) /\ Len(s) \in Nat /\ Len(t) = Len(s) + 1
              /\ DOMAIN s = 1 .. Len(s) /\ DOMAIN t = 1 .. Len(s) + 1
              /\ \A k \in 1 .. Len(s) : t[k] = s[k]
              /\ t[Len(s) + 1] = x /\ t # s
BY AppendProperties, LenProperties
-----------------------------------------------------------------------------
(* The subscriber.                                                         *)
Pieces == [event : Events, first : BOOLEAN, last : BOOLEAN]

TailType ==
    /\ file \in Seq(Pieces)
    /\ path \in [Events -> {"new", "pipe", "redis", "torn", "file"}]
    /\ pc \in {"Sleep", "Read", "Dead", "Stopped"}
    /\ lastSize \in Nat /\ currentSize \in Nat
    /\ lastSize <= currentSize /\ currentSize <= Len(file)
    /\ at \in 0 .. Len(file) /\ late \subseteq Events
    /\ dispatched \in [Events -> Nat]

(* An event has one newline, and it has it when it is written.  One that    *)
(* is not longer than a buffer is one piece.                               *)
FileWellFormed ==
    /\ \A k \in DOMAIN file :
          /\ file[k].event \notin Big => file[k].first /\ file[k].last
          /\ file[k].last => path[file[k].event] = "file"
    /\ \A e \in Events : path[e] = "torn" => e \in Big
    /\ \A j, k \in DOMAIN file :
          file[j].last /\ file[k].last /\ file[j].event = file[k].event => j = k

(* While the subscriber reads, an event that was late has been dispatched   *)
(* at most once, and only by this poll; any other event ends before         *)
(* currentSize, and may still be dispatched if it was once.                 *)
Reading ==
    /\ lastSize <= at
    /\ \A e \in Events : e \notin late => path[e] = "file"
    /\ \A k \in DOMAIN file :
          LET e == file[k].event
          IN file[k].last =>
                /\ e \notin late => k <= currentSize
                /\ k > at => dispatched[e] <= IF e \in late THEN 0 ELSE 1
    /\ \A e \in late : dispatched[e] <= 1

(* Between two polls, what lies behind the size where the next one begins   *)
(* was dispatched at most once.                                            *)
Sleeping ==
    /\ lastSize = currentSize
    /\ \A k \in DOMAIN file :
          file[k].last /\ k > lastSize => dispatched[file[k].event] <= 1

DispatchedBefore(p) ==
    \A k \in 1 .. p :
        LET e == file[k].event
        IN e \notin Foreign \cup Scalars \cup Big /\ (k = 1 \/ file[k - 1].last)
              => dispatched[e] > 0

TailInv ==
    /\ TailType /\ FileWellFormed
    /\ \A e \in Events : dispatched[e] <= IF path[e] = "file" THEN 2 ELSE 0
    /\ pc = "Read" => Reading
    /\ pc = "Sleep" => Sleeping
    /\ DispatchedBefore(IF pc = "Read" THEN at ELSE lastSize)

(* A line ends at the first newline behind its beginning.                   *)
LEMMA NextLine ==
    ASSUME TailType, at < Len(file)
    PROVE  /\ EventTail!LineEnd(at) \in at + 1 .. Len(file)
           /\ \A n \in at + 1 .. EventTail!LineEnd(at) - 1 : ~file[n].last
<1> DEFINE N == {k \in at + 1 .. Len(file) : file[k].last}
           m == CHOOSE k \in N : \A n \in N : k <= n
<1>1. at \in Nat /\ Len(file) \in Nat
    BY LenProperties DEF TailType
<1>2. EventTail!LineEnd(at) = IF N = {} THEN Len(file) ELSE m
    BY DEF EventTail!LineEnd
<1>3. CASE N = {}
    BY <1>1, <1>2, <1>3
<1>4. CASE N # {}
    <2>1. N \in SUBSET Nat
        BY <1>1
    <2>2. \E k \in N : \A n \in N : k <= n
        <3> HIDE DEF N
        <3> QED BY <1>4, <2>1, Smallest
    <2>3. m \in N /\ \A n \in N : m <= n
        <3> HIDE DEF N
        <3> QED BY <2>2
    <2>4. m \in at + 1 .. Len(file)
        BY <2>3
    <2>5. ASSUME NEW n \in at + 1 .. m - 1, file[n].last PROVE FALSE
        <3>1. n \in at + 1 .. Len(file) /\ ~(m <= n)
            BY <1>1, <2>4
        <3>2. n \in N
            BY <2>5, <3>1
        <3> QED BY <2>3, <3>1, <3>2
    <2> HIDE DEF m, N
    <2> QED BY <1>2, <1>4, <2>4, <2>5
<1> QED BY <1>3, <1>4

(* The line is that part of the file.                                       *)
LEMMA LineRead ==
    ASSUME TailType, at < Len(file), NEW l \in at + 1 .. Len(file)
    PROVE  LET line == SubSeq(file, at + 1, l)
           IN /\ line[1] = file[at + 1]
              /\ EventTail!Parses(line) =>
                    /\ file[l].last /\ file[l].event = file[at + 1].event
              /\ l = at + 1 /\ file[l].first /\ file[l].last => EventTail!Parses(line)
<1> DEFINE line == SubSeq(file, at + 1, l)
<1>1. /\ at \in Nat /\ Len(file) \in Nat /\ l \in Nat /\ l - at \in Nat \ {0}
      /\ \A k \in 1 .. Len(file) : file[k] \in Pieces
    BY LenProperties, ElementOfSeq DEF TailType
<1>2. \A k \in at + 1 .. l : file[k] \in Pieces
    BY <1>1
<1>3. /\ line \in Seq(Pieces) /\ Len(line) = l - at
      /\ \A i \in 1 .. l - at : line[i] = file[at + i]
    <2>1. at + 1 \in Int /\ l \in Int /\ at + 1 <= l /\ l - (at + 1) + 1 = l - at
        BY <1>1
    <2>2. /\ line \in Seq(Pieces) /\ Len(line) = l - (at + 1) + 1
          /\ \A i \in 1 .. l - (at + 1) + 1 : line[i] = file[(at + 1) + i - 1]
        <3> HIDE DEF Pieces
        <3> QED BY <1>2, <2>1, SubSeqProperties
    <2>3. \A i \in 1 .. l - at : (at + 1) + i - 1 = at + i
        BY <1>1
    <2> QED BY <2>1, <2>2, <2>3
<1>4. DOMAIN line = 1 .. l - at
    BY <1>3, LenProperties
<1>5. 1 \in 1 .. l - at /\ l - at \in 1 .. l - at /\ at + (l - at) = l
    BY <1>1
<1>6. line[1] = file[at + 1] /\ line[l - at] = file[l]
    <2>1. line[1] = file[at + 1]
        BY <1>3, <1>5
    <2>2. line[l - at] = file[at + (l - at)]
        BY <1>3, <1>5
    <2> QED BY <1>5, <2>1, <2>2
<1> HIDE DEF line
<1>7. EventTail!Parses(line) => file[l].last /\ file[l].event = file[at + 1].event
    BY <1>3, <1>4, <1>5, <1>6 DEF EventTail!Parses, EventTail!Last
<1>8. ASSUME l = at + 1, file[l].first, file[l].last PROVE EventTail!Parses(line)
    <2>1. l - at = 1
        BY <1>1, <1>8
    <2>2. \A k \in DOMAIN line : k = 1
        BY <1>4, <2>1
    <2> QED BY <1>3, <1>6, <1>8, <2>1, <2>2 DEF EventTail!Parses, EventTail!Last
<1> QED BY <1>6, <1>7, <1>8 DEF line

LEMMA TailFacts ==
    ASSUME TailInv
    PROVE  /\ at \in Nat /\ lastSize \in Nat /\ currentSize \in Nat /\ Len(file) \in Nat
           /\ lastSize <= currentSize /\ currentSize <= Len(file) /\ at <= Len(file)
           /\ DOMAIN file = 1 .. Len(file)
           /\ \A k \in 1 .. Len(file) :
                 /\ file[k].event \in Events /\ file[k].first \in BOOLEAN
                 /\ file[k].last \in BOOLEAN
           /\ \A e \in Events : dispatched[e] \in Nat
<1>1. TailType
    BY DEF TailInv
<1>2. DOMAIN file = 1 .. Len(file) /\ Len(file) \in Nat
    BY <1>1, LenProperties DEF TailType
<1>3. \A k \in 1 .. Len(file) : file[k] \in Pieces
    BY <1>1, ElementOfSeq DEF TailType
<1> QED BY <1>1, <1>2, <1>3 DEF TailType, Pieces

(* A piece of an event that is not complete yet is appended.                *)
LEMMA TailWritten ==
    ASSUME TailInv, NEW e \in Events, path[e] \in {"new", "torn"},
           NEW x \in Pieces, x.event = e, e \notin Big => x.first /\ x.last,
           file' = Append(file, x),
           path' = [path EXCEPT ![e] = IF x.last THEN "file" ELSE "torn"],
           UNCHANGED <<pc, lastSize, currentSize, at, late, dispatched>>
    PROVE  TailInv'
<1> USE TailFacts
<1>1. TailType /\ FileWellFormed
    BY DEF TailInv
<1>2. dispatched[e] = 0
    BY DEF TailInv
<1>3. /\ file' \in Seq(Pieces) /\ Len(file') = Len(file) + 1
      /\ DOMAIN file' = 1 .. Len(file) + 1
      /\ \A k \in 1 .. Len(file) : file'[k] = file[k]
      /\ file'[Len(file) + 1] = x
    <2>1. file \in Seq(Pieces)
        BY <1>1 DEF TailType
    <2> HIDE DEF Pieces
    <2> QED BY <2>1, Appended
<1>4. /\ path' \in [Events -> {"new", "pipe", "redis", "torn", "file"}]
      /\ x.last => path'[e] = "file"
      /\ path'[e] = "torn" => ~x.last
      /\ \A d \in Events : d # e => path'[d] = path[d]
    BY <1>1 DEF TailType
<1>5. TailType'
    BY <1>1, <1>3, <1>4 DEF TailType
<1>6. \A k \in DOMAIN file : file[k].last => file[k].event # e
    BY <1>1 DEF FileWellFormed
<1>7. FileWellFormed'
    <2>1. ASSUME NEW k \in DOMAIN file'
          PROVE  /\ file'[k].event \notin Big => file'[k].first /\ file'[k].last
                 /\ file'[k].last => path'[file'[k].event] = "file"
        <3>1. CASE k \in DOMAIN file
            BY <1>1, <1>3, <1>4, <1>6, <3>1 DEF FileWellFormed
        <3>2. CASE k = Len(file) + 1
            BY <1>3, <1>4, <3>2
        <3> QED BY <1>3, <2>1, <3>1, <3>2
    <2>2. ASSUME NEW j \in DOMAIN file', NEW k \in DOMAIN file', file'[j].last,
                 file'[k].last, file'[j].event = file'[k].event
          PROVE  j = k
        <3>1. \A n \in DOMAIN file' : n \in DOMAIN file \/ n = Len(file) + 1
            BY <1>3
        <3>2. CASE j \in DOMAIN file /\ k \in DOMAIN file
            BY <1>1, <1>3, <2>2, <3>2 DEF FileWellFormed
        <3> QED BY <1>3, <1>6, <2>2, <3>1, <3>2
    <2>3. \A d \in Events : path'[d] = "torn" => d \in Big
        BY <1>1, <1>4 DEF FileWellFormed
    <2> QED BY <2>1, <2>2, <2>3 DEF FileWellFormed
<1>8. \A d \in Events : dispatched'[d] <= IF path'[d] = "file" THEN 2 ELSE 0
    BY <1>2, <1>4 DEF TailInv
<1>9. ASSUME pc = "Read" PROVE Reading'
    <2>1. Reading
        BY <1>9 DEF TailInv
    <2>2. e \in late
        BY <2>1 DEF Reading
    <2>3. ASSUME NEW k \in DOMAIN file', file'[k].last
          PROVE  /\ file'[k].event \notin late => k <= currentSize
                 /\ k > at => dispatched[file'[k].event]
                                 <= IF file'[k].event \in late THEN 0 ELSE 1
        <3>1. CASE k \in DOMAIN file
            BY <1>3, <2>1, <2>3, <3>1 DEF Reading
        <3>2. CASE k = Len(file) + 1
            BY <1>2, <1>3, <2>2, <3>2
        <3> QED BY <1>3, <2>3, <3>1, <3>2
    <2>4. \A d \in Events : d \notin late => path'[d] = "file"
        BY <1>4, <2>1, <2>2 DEF Reading
    <2> QED BY <2>1, <2>3, <2>4 DEF Reading
<1>10. ASSUME pc = "Sleep" PROVE Sleeping'
    <2>1. Sleeping
        BY <1>10 DEF TailInv
    <2>2. ASSUME NEW k \in DOMAIN file', file'[k].last, k > lastSize
          PROVE  dispatched[file'[k].event] <= 1
        <3>1. CASE k \in DOMAIN file
            BY <1>3, <2>1, <2>2, <3>1 DEF Sleeping
        <3>2. CASE k = Len(file) + 1
            BY <1>2, <1>3, <3>2
        <3> QED BY <1>3, <2>2, <3>1, <3>2
    <2> QED BY <2>1, <2>2 DEF Sleeping
<1>11. ASSUME NEW p \in 0 .. Len(file), DispatchedBefore(p) PROVE DispatchedBefore(p)'
    <2>1. \A k \in 1 .. p : k \in 1 .. Len(file) /\ (k = 1 \/ k - 1 \in 1 .. Len(file))
        BY <1>11
    <2>2. \A k \in 1 .. p : /\ file'[k] = file[k]
                            /\ k = 1 \/ file'[k - 1] = file[k - 1]
        BY <1>3, <2>1
    <2> QED BY <1>11, <2>2 DEF DispatchedBefore
<1>12. DispatchedBefore(IF pc = "Read" THEN at ELSE lastSize)'
    <2>1. /\ at \in 0 .. Len(file) /\ lastSize \in 0 .. Len(file)
          /\ DispatchedBefore(IF pc = "Read" THEN at ELSE lastSize)
        BY DEF TailInv
    <2>2. CASE pc = "Read"
        BY <1>11, <2>1, <2>2 DEF DispatchedBefore
    <2>3. CASE pc # "Read"
        BY <1>11, <2>1, <2>3 DEF DispatchedBefore
    <2> QED BY <2>2, <2>3
<1> QED BY <1>5, <1>7, <1>8, <1>9, <1>10, <1>12 DEF TailInv

(* An event that another transport takes is not in the file.                *)
LEMMA TailTaken ==
    ASSUME TailInv, NEW e \in Events, path[e] = "new", NEW way \in {"pipe", "redis"},
           path' = [path EXCEPT ![e] = way],
           UNCHANGED <<file, pc, lastSize, currentSize, at, late, dispatched>>
    PROVE  TailInv'
<1> USE TailFacts
<1>1. TailType /\ FileWellFormed
    BY DEF TailInv
<1>2. /\ path' \in [Events -> {"new", "pipe", "redis", "torn", "file"}]
      /\ \A d \in Events : d # e => path'[d] = path[d]
    BY <1>1 DEF TailType
<1>3. TailType'
    BY <1>1, <1>2 DEF TailType
<1>4. FileWellFormed'
    BY <1>1, <1>2 DEF FileWellFormed
<1>5. \A d \in Events : dispatched'[d] <= IF path'[d] = "file" THEN 2 ELSE 0
    <2>1. dispatched[e] = 0
        BY DEF TailInv
    <2> QED BY <1>2, <2>1 DEF TailInv
<1>6. ASSUME pc = "Read" PROVE Reading'
    <2>1. Reading
        BY <1>6 DEF TailInv
    <2>2. e \in late
        BY <2>1 DEF Reading
    <2>3. \A d \in Events : d \notin late => path'[d] = "file"
        BY <1>2, <2>1, <2>2 DEF Reading
    <2> QED BY <2>1, <2>3 DEF Reading
<1>7. pc = "Sleep" => Sleeping'
    BY DEF TailInv, Sleeping
<1>8. DispatchedBefore(IF pc = "Read" THEN at ELSE lastSize)'
    BY DEF TailInv, DispatchedBefore
<1> QED BY <1>3, <1>4, <1>5, <1>6, <1>7, <1>8 DEF TailInv

(* A poll takes the size; one that finds nothing new sleeps on.             *)
LEMMA TailStat == ASSUME TailInv, EventTail!Stat PROVE TailInv'
<1> USE TailFacts DEF EventTail!Stat
<1>1. TailType /\ FileWellFormed /\ Sleeping /\ DispatchedBefore(lastSize)
    BY DEF TailInv
<1>2. TailType' /\ FileWellFormed'
    BY <1>1 DEF TailType, FileWellFormed
<1>3. \A e \in Events : dispatched'[e] <= IF path'[e] = "file" THEN 2 ELSE 0
    BY DEF TailInv
<1>4. CASE Len(file) > lastSize
    <2>1. pc' = "Read" /\ at' = lastSize
        BY <1>4
    <2>2. \A e \in late' : dispatched[e] <= 1
        BY DEF TailInv
    <2>3. \A k \in DOMAIN file : file[k].last => file[k].event \notin late'
        BY <1>1 DEF FileWellFormed
    <2>4. \A e \in Events : e \notin late' => path[e] = "file"
        OBVIOUS
    <2>5. \A k \in DOMAIN file : file[k].last /\ k > lastSize => dispatched[file[k].event] <= 1
        BY <1>1 DEF Sleeping
    <2>6. \A k \in DOMAIN file : k <= currentSize'
        OBVIOUS
    <2>7. Reading'
        BY <2>1, <2>2, <2>3, <2>4, <2>5, <2>6 DEF Reading
    <2>8. DispatchedBefore(IF pc = "Read" THEN at ELSE lastSize)'
        BY <1>1, <2>1 DEF DispatchedBefore
    <2> QED BY <1>2, <1>3, <2>1, <2>7, <2>8 DEF TailInv
<1>5. CASE ~(Len(file) > lastSize)
    <2>1. pc' = "Sleep" /\ currentSize' = lastSize'
        BY <1>5
    <2>2. Sleeping'
        BY <1>1, <2>1 DEF Sleeping
    <2>3. DispatchedBefore(IF pc = "Read" THEN at ELSE lastSize)'
        BY <1>1, <2>1 DEF DispatchedBefore
    <2> QED BY <1>2, <1>3, <2>1, <2>2, <2>3 DEF TailInv
<1> QED BY <1>4, <1>5

(* A line is read: one event at most has one more dispatch.                 *)
LEMMA TailReadLine == ASSUME TailInv, EventTail!ReadLine PROVE TailInv'
<1> DEFINE l == EventTail!LineEnd(at)
           line == SubSeq(file, at + 1, l)
           e == file[at + 1].event
<1>1. /\ TailType /\ FileWellFormed /\ Reading /\ DispatchedBefore(at)
      /\ pc = "Read" /\ at < Len(file)
    BY DEF TailInv, EventTail!ReadLine
<1>2. /\ l \in at + 1 .. Len(file)
      /\ \A n \in at + 1 .. l - 1 : ~file[n].last
    BY <1>1, NextLine
<1>3. /\ line[1] = file[at + 1]
      /\ EventTail!Parses(line) => file[l].last /\ file[l].event = e
      /\ l = at + 1 /\ file[l].first /\ file[l].last => EventTail!Parses(line)
    <2> HIDE DEF l
    <2> QED BY <1>1, <1>2, LineRead
<1>4. /\ at' = l
      /\ pc' = IF EventTail!Parses(line) /\ e \in Scalars THEN "Dead" ELSE "Read"
      /\ dispatched' = IF EventTail!Parses(line) /\ e \notin Foreign \cup Scalars
                       THEN [dispatched EXCEPT ![e] = @ + 1] ELSE dispatched
      /\ UNCHANGED <<file, path, lastSize, currentSize, late>>
    <2>1. line[1].event = e
        BY <1>3
    <2> HIDE DEF e
    <2> QED BY <2>1 DEF EventTail!ReadLine
<1> DEFINE counts == EventTail!Parses(line) /\ e \notin Foreign \cup Scalars
<1> HIDE DEF l, line
<1>5. /\ l \in Nat /\ l > at /\ l <= Len(file) /\ l \in DOMAIN file
      /\ at + 1 \in DOMAIN file /\ e \in Events
    BY <1>1, <1>2, TailFacts
<1>6. counts => /\ path[e] = "file"
                /\ dispatched[e] <= IF e \in late THEN 0 ELSE 1
    BY <1>1, <1>3, <1>5 DEF FileWellFormed, Reading
<1>7. /\ dispatched' \in [Events -> Nat]
      /\ \A d \in Events : d # e => dispatched'[d] = dispatched[d]
      /\ dispatched'[e] = IF counts THEN dispatched[e] + 1 ELSE dispatched[e]
    <2>1. dispatched \in [Events -> Nat]
        BY <1>1 DEF TailType
    <2>2. dispatched[e] \in Nat
        BY <1>5, <2>1
    <2> HIDE DEF e
    <2>3. CASE counts
        <3>1. dispatched' = [dispatched EXCEPT ![e] = dispatched[e] + 1]
            BY <1>4, <2>3
        <3> QED BY <1>5, <2>1, <2>2, <2>3, <3>1
    <2>4. CASE ~counts
        <3>1. dispatched' = dispatched
            BY <1>4, <2>4
        <3> QED BY <2>1, <2>4, <3>1
    <2> QED BY <2>3, <2>4
<1>8. pc' \in {"Read", "Dead"}
    BY <1>4
<1>9. TailType' /\ FileWellFormed'
    <2>1. at' \in 0 .. Len(file)
        BY <1>4, <1>5
    <2>2. TailType'
        BY <1>1, <1>4, <1>7, <1>8, <2>1 DEF TailType
    <2>3. FileWellFormed'
        BY <1>1, <1>4 DEF FileWellFormed
    <2> QED BY <2>2, <2>3
<1>10. \A d \in Events : dispatched'[d] <= IF path'[d] = "file" THEN 2 ELSE 0
    <2> HIDE DEF e, counts
    <2> QED BY <1>4, <1>5, <1>6, <1>7, TailFacts DEF TailInv
<1>11. Reading'
    <2>1. lastSize <= at'
        BY <1>1, <1>4, <1>5, TailFacts DEF Reading
    <2>2. \A d \in late : d \in Events /\ dispatched'[d] <= 1
        <3>1. \A d \in late : d \in Events /\ dispatched[d] <= 1
            BY <1>1 DEF Reading, TailType
        <3> HIDE DEF e, counts
        <3> QED BY <1>6, <1>7, <3>1, TailFacts
    <2>3. ASSUME NEW k \in DOMAIN file, file[k].last, k > l
          PROVE  dispatched'[file[k].event] <= IF file[k].event \in late THEN 0 ELSE 1
        <3>1. file[k].event \in Events /\ k > at /\ k # l
            BY <1>5, <2>3, TailFacts
        <3>2. dispatched[file[k].event] <= IF file[k].event \in late THEN 0 ELSE 1
            BY <1>1, <2>3, <3>1 DEF Reading
        <3>3. counts => file[k].event # e
            BY <1>1, <1>3, <1>5, <2>3, <3>1 DEF FileWellFormed
        <3>4. dispatched'[file[k].event] = dispatched[file[k].event]
            <4> HIDE DEF e, counts
            <4> QED BY <1>7, <3>1, <3>3
        <3> QED BY <3>2, <3>4
    <2>4. \A k \in DOMAIN file : file[k].last =>
             (file[k].event \notin late => k <= currentSize)
        BY <1>1 DEF Reading
    <2>5. \A d \in Events : d \notin late => path[d] = "file"
        BY <1>1 DEF Reading
    <2> QED BY <1>4, <2>1, <2>2, <2>3, <2>4, <2>5 DEF Reading
<1>12. DispatchedBefore(at)'
    <2> SUFFICES ASSUME NEW k \in 1 .. l,
                        file[k].event \notin Foreign \cup Scalars \cup Big,
                        k = 1 \/ file[k - 1].last
                 PROVE  dispatched'[file[k].event] > 0
        BY <1>4 DEF DispatchedBefore
    <2>1. k \in DOMAIN file /\ file[k].event \in Events
        BY <1>5, TailFacts
    <2>2. CASE k <= at
        <3>1. dispatched[file[k].event] > 0
            <4>1. k \in 1 .. at
                BY <2>2, TailFacts
            <4> QED BY <1>1, <4>1 DEF DispatchedBefore
        <3> HIDE DEF e, counts
        <3> QED BY <1>7, <2>1, <3>1, TailFacts, SMTT(30)
    <2>3. CASE k > at
        <3>1. k = at + 1
            <4>1. k # at + 1 => k # 1 /\ k - 1 \in at + 1 .. l - 1
                BY <1>5, <2>3, TailFacts
            <4> QED BY <1>2, <4>1
        <3>2. file[k].first /\ file[k].last
            BY <1>1, <2>1 DEF FileWellFormed
        <3>3. l = at + 1
            <4>1. l # at + 1 => at + 1 \in at + 1 .. l - 1
                BY <1>5, TailFacts
            <4> QED BY <1>2, <3>1, <3>2, <4>1
        <3>4. counts
            BY <1>3, <3>1, <3>2, <3>3
        <3>5. dispatched'[e] = dispatched[e] + 1
            BY <1>7, <3>4
        <3> QED BY <1>5, <3>1, <3>5, TailFacts
    <2> QED BY <2>2, <2>3, TailFacts, <1>5
<1>13. DispatchedBefore(IF pc = "Read" THEN at ELSE lastSize)'
    <2>1. CASE pc' = "Read"
        BY <1>4, <1>12, <2>1 DEF DispatchedBefore
    <2>2. CASE pc' = "Dead"
        <3>1. 1 .. lastSize \subseteq 1 .. l
            BY <1>1, <1>5, TailFacts DEF Reading
        <3> QED BY <1>4, <1>12, <2>2, <3>1 DEF DispatchedBefore
    <2> QED BY <1>8, <2>1, <2>2
<1> QED BY <1>8, <1>9, <1>10, <1>11, <1>13 DEF TailInv

(* A poll is over, and the next one begins where this one took the size.    *)
LEMMA TailEndOfFile == ASSUME TailInv, EventTail!EndOfFile PROVE TailInv'
<1> USE TailFacts DEF EventTail!EndOfFile
<1>1. TailType /\ FileWellFormed /\ Reading /\ DispatchedBefore(at)
    BY DEF TailInv
<1>2. TailType' /\ FileWellFormed'
    BY <1>1 DEF TailType, FileWellFormed
<1>3. Sleeping'
    <2>1. ASSUME NEW k \in DOMAIN file, file[k].last, k > currentSize
          PROVE  dispatched[file[k].event] <= 1
        BY <1>1, <2>1 DEF Reading
    <2> QED BY <2>1 DEF Sleeping
<1>4. DispatchedBefore(IF pc = "Read" THEN at ELSE lastSize)'
    <2>1. 1 .. currentSize \subseteq 1 .. at
        OBVIOUS
    <2> QED BY <1>1, <2>1 DEF DispatchedBefore
<1>5. \A e \in Events : dispatched'[e] <= IF path'[e] = "file" THEN 2 ELSE 0
    BY DEF TailInv
<1> QED BY <1>2, <1>3, <1>4, <1>5 DEF TailInv

LEMMA TailStep == ASSUME TailInv, EventTail!Next PROVE TailInv'
<1>1. ASSUME NEW e \in Events, EventTail!Publish(e) PROVE TailInv'
    <2>1. path[e] = "new" /\ UNCHANGED <<pc, lastSize, currentSize, at, late, dispatched>>
        BY <1>1 DEF EventTail!Publish
    <2>2. ASSUME NEW way \in {"pipe", "redis"}, path' = [path EXCEPT ![e] = way],
                 UNCHANGED file
          PROVE  TailInv'
        BY <2>1, <2>2, TailTaken
    <2>3. ASSUME path' = [path EXCEPT ![e] = IF e \in Big THEN "torn" ELSE "file"],
                 file' = Append(file, EventTail!Piece(e, TRUE, e \notin Big))
          PROVE  TailInv'
        <3> DEFINE x == EventTail!Piece(e, TRUE, e \notin Big)
        <3>1. /\ x \in Pieces /\ x.event = e /\ x.first
              /\ e \in Big => ~x.last
              /\ e \notin Big => x.last
            BY DEF EventTail!Piece, Pieces
        <3> HIDE DEF x
        <3>2. path' = [path EXCEPT ![e] = IF x.last THEN "file" ELSE "torn"]
            BY <2>3, <3>1
        <3>3. file' = Append(file, x)
            BY <2>3 DEF x
        <3> QED BY <2>1, <3>1, <3>2, <3>3, TailWritten
    <2> QED BY <1>1, <2>2, <2>3 DEF EventTail!Publish
<1>2. ASSUME NEW e \in Events, EventTail!FlushRest(e) PROVE TailInv'
    <2> DEFINE x == EventTail!Piece(e, FALSE, TRUE)
    <2>1. x \in Pieces /\ x.event = e /\ x.last /\ ~x.first
        BY DEF EventTail!Piece, Pieces
    <2>2. e \in Big
        BY <1>2 DEF EventTail!FlushRest, TailInv, FileWellFormed
    <2> QED BY <1>2, <2>1, <2>2, TailWritten DEF EventTail!FlushRest
<1>3. ASSUME EventTail!Stop PROVE TailInv'
    BY <1>3, TailFacts DEF EventTail!Stop, TailInv, TailType, FileWellFormed,
       DispatchedBefore
<1> QED BY <1>1, <1>2, <1>3, TailStat, TailReadLine, TailEndOfFile DEF EventTail!Next
-----------------------------------------------------------------------------
(* The daemon.                                                             *)
ConfigRecords ==
    [paused : BOOLEAN, budget : Nat \cup {None}, generations : Nat \cup {None}]

TriggerType ==
    /\ file \in Seq(Trigger!Lines)
    /\ sent \in 0 .. Len(Script) /\ at \in 0 .. Len(file)
    /\ pc \in Trigger!PCs
    /\ pipe \in BOOLEAN /\ paused \in BOOLEAN
    /\ logged \in Nat /\ emitted \in Nat /\ logged <= emitted /\ emitted <= CycleEvents
    /\ runsHandled \in 0 .. MaxRuns
    /\ counted \in [own : Nat, other : Nat]
    /\ config = None \/ config \in ConfigRecords
    /\ reports \in Seq([request : Nat, line : Nat, ok : BOOLEAN, own : Nat, other : Nat])
    /\ crashes \in 0 .. MaxCrashes

(* A line is handled only while runs are left.                              *)
LineInHand ==
    /\ pc \in {"Run", "Distill", "Report", "Merge", "Replace", "Ack", "Refuse"} => at > 0
    /\ pc \notin {"Down", "Exited"} => runsHandled < MaxRuns

(* The lines that have their report are behind the line that is handled,    *)
(* or this line, when its report is made.                                   *)
ReportsBehind ==
    /\ \A i \in DOMAIN reports : reports[i].line <= at
    /\ pc \in {"Run", "Distill", "Refuse"} => \A i \in DOMAIN reports : reports[i].line < at
    /\ Trigger!AnsweredOnce

(* The events of a cycle in the file, while it runs and when it is read.    *)
OwnEvents(f, id) == {k \in DOMAIN f : f[k].kind = "event" /\ f[k].id = id}

Counting ==
    /\ pc = "Run" => logged <= Cardinality(OwnEvents(file, file[at].id))
    /\ pc \in {"Distill", "Report"} /\ file[at].cases =>
          counted.own >= logged \/ counted = Trigger!NoCount

(* What is about to be written keeps the limits that were read.             *)
Merging ==
    pc = "Replace" =>
        /\ merged.record \in ConfigRecords
        /\ config # None /\ merged.read =>
             /\ merged.record.budget = config.budget \/ file[at].action = "set_budget"
             /\ \/ merged.record.generations = config.generations
                \/ file[at].action = "set_generations"

TriggerInv == TriggerType /\ LineInHand /\ ReportsBehind /\ Counting /\ Merging

LEMMA OneMoreLine ==
    ASSUME NEW f \in Seq(Trigger!Lines), NEW x \in Trigger!Lines, NEW id
    PROVE  /\ IsFiniteSet(OwnEvents(f, id)) /\ Cardinality(OwnEvents(f, id)) \in Nat
           /\ Cardinality(OwnEvents(Append(f, x), id))
                 = Cardinality(OwnEvents(f, id))
                      + (IF x.kind = "event" /\ x.id = id THEN 1 ELSE 0)
<1> DEFINE g == Append(f, x)
<1>1. /\ Len(f) \in Nat /\ DOMAIN f = 1 .. Len(f) /\ DOMAIN g = 1 .. Len(f) + 1
      /\ \A k \in 1 .. Len(f) : g[k] = f[k]
      /\ g[Len(f) + 1] = x
    <2> HIDE DEF g
    <2> QED BY Appended DEF g
<1> HIDE DEF g
<1>2. IsFiniteSet(1 .. Len(f))
    BY <1>1, FS_Interval
<1>3. IsFiniteSet(OwnEvents(f, id)) /\ Cardinality(OwnEvents(f, id)) \in Nat
    <2>1. OwnEvents(f, id) \subseteq 1 .. Len(f)
        BY <1>1 DEF OwnEvents
    <2> QED BY <1>2, <2>1, FS_Subset, FS_CardinalityType
<1>4. CASE x.kind = "event" /\ x.id = id
    <2>1. OwnEvents(g, id) = OwnEvents(f, id) \cup {Len(f) + 1}
        BY <1>1, <1>4 DEF OwnEvents
    <2>2. Len(f) + 1 \notin OwnEvents(f, id)
        BY <1>1 DEF OwnEvents
    <2>3. Cardinality(OwnEvents(f, id) \cup {Len(f) + 1}) = Cardinality(OwnEvents(f, id)) + 1
        BY <1>3, <2>2, FS_AddElement
    <2> QED BY <1>3, <1>4, <2>1, <2>3 DEF g
<1>5. CASE ~(x.kind = "event" /\ x.id = id)
    <2>1. OwnEvents(g, id) = OwnEvents(f, id)
        BY <1>1, <1>5 DEF OwnEvents
    <2> QED BY <1>3, <1>5, <2>1 DEF g
<1> QED BY <1>4, <1>5

(* The file only grows, whoever writes it.                                  *)
Grows == file' = file \/ \E x \in Trigger!Lines : file' = Append(file, x)

LEMMA GrownFile ==
    ASSUME TriggerType, Grows
    PROVE  /\ file' \in Seq(Trigger!Lines) /\ Len(file) \in Nat /\ Len(file') \in Nat
           /\ Len(file) <= Len(file') /\ DOMAIN file = 1 .. Len(file)
           /\ at \in 0 .. Len(file')
           /\ \A k \in 1 .. Len(file) : file[k] \in Trigger!Lines /\ file'[k] = file[k]
           /\ \A id : /\ Cardinality(OwnEvents(file, id)) \in Nat
                      /\ Cardinality(OwnEvents(file', id)) \in Nat
                      /\ Cardinality(OwnEvents(file, id)) <= Cardinality(OwnEvents(file', id))
<1>1. /\ file \in Seq(Trigger!Lines) /\ Len(file) \in Nat /\ DOMAIN file = 1 .. Len(file)
      /\ \A k \in 1 .. Len(file) : file[k] \in Trigger!Lines
      /\ at \in 0 .. Len(file)
    BY LenProperties, ElementOfSeq DEF TriggerType
<1>2. Trigger!OwnEvent(0) \in Trigger!Lines
    BY DEF Trigger!OwnEvent, Trigger!Lines
<1>3. \A id : Cardinality(OwnEvents(file, id)) \in Nat
    BY <1>1, <1>2, OneMoreLine
<1>4. CASE file' = file
    BY <1>1, <1>3, <1>4
<1>5. ASSUME NEW x \in Trigger!Lines, file' = Append(file, x)
      PROVE  /\ file' \in Seq(Trigger!Lines) /\ Len(file') = Len(file) + 1
             /\ \A k \in 1 .. Len(file) : file'[k] = file[k]
             /\ \A id : /\ Cardinality(OwnEvents(file', id)) \in Nat
                        /\ Cardinality(OwnEvents(file, id)) <= Cardinality(OwnEvents(file', id))
    <2>1. /\ file' \in Seq(Trigger!Lines) /\ Len(file') = Len(file) + 1
          /\ \A k \in 1 .. Len(file) : file'[k] = file[k]
        BY <1>1, <1>5, Appended
    <2>2. ASSUME NEW id
          PROVE  Cardinality(OwnEvents(file', id))
                    = Cardinality(OwnEvents(file, id))
                         + (IF x.kind = "event" /\ x.id = id THEN 1 ELSE 0)
        BY <1>1, <1>5, OneMoreLine
    <2> QED BY <1>3, <2>1, <2>2
<1> QED BY <1>1, <1>3, <1>4, <1>5 DEF Grows

LEMMA Published ==
    ASSUME TriggerType, NEW id \in Nat, Trigger!Publish(Trigger!OwnEvent(id))
    PROVE  pipe' \in BOOLEAN /\ Grows
<1>1. Trigger!OwnEvent(id) \in Trigger!Lines
    BY DEF Trigger!OwnEvent, Trigger!Lines
<1>2. pipe \in BOOLEAN
    BY DEF TriggerType
<1> QED BY <1>1, <1>2 DEF Trigger!Publish, Grows

(* What a report says of the line in hand.                                  *)
LEMMA ReportType ==
    ASSUME TriggerType, at > 0, NEW ok \in BOOLEAN
    PROVE  /\ Trigger!ReportOf(ok) \in [request : Nat, line : Nat, ok : BOOLEAN,
                                        own : Nat, other : Nat]
           /\ Trigger!ReportOf(ok).line = at
           /\ file[at].id \in Nat
<1>1. at \in DOMAIN file /\ at \in Nat
    BY LenProperties DEF TriggerType
<1>2. file[at] \in Trigger!Lines
    BY <1>1, LenProperties, ElementOfSeq DEF TriggerType
<1>3. file[at].id \in Nat
    BY <1>2 DEF Trigger!Lines
<1>4. counted.own \in Nat /\ counted.other \in Nat
    BY DEF TriggerType
<1> QED BY <1>1, <1>3, <1>4 DEF Trigger!ReportOf, Trigger!Current

(* One more report, of a line that has none.                                *)
LEMMA OneMoreReport ==
    ASSUME TriggerInv, pc \in {"Run", "Distill", "Refuse"}, NEW ok \in BOOLEAN,
           reports' = Append(reports, Trigger!ReportOf(ok)), at' = at
    PROVE  /\ reports' \in Seq([request : Nat, line : Nat, ok : BOOLEAN,
                                own : Nat, other : Nat])
           /\ \A i \in DOMAIN reports' : reports'[i].line <= at'
           /\ Trigger!AnsweredOnce'
<1> DEFINE R == [request : Nat, line : Nat, ok : BOOLEAN, own : Nat, other : Nat]
           x == Trigger!ReportOf(ok)
<1>1. TriggerType /\ at > 0 /\ at \in Nat
    BY DEF TriggerInv, LineInHand, TriggerType
<1>2. x \in R /\ x.line = at
    BY <1>1, ReportType
<1>3. reports \in Seq(R)
    BY <1>1 DEF TriggerType
<1>4. \A i \in DOMAIN reports : reports[i].line < at
    BY DEF TriggerInv, ReportsBehind
<1> HIDE DEF R, x
<1>5. /\ reports' \in Seq(R) /\ Len(reports) \in Nat
      /\ DOMAIN reports = 1 .. Len(reports) /\ DOMAIN reports' = 1 .. Len(reports) + 1
      /\ \A i \in 1 .. Len(reports) : reports'[i] = reports[i]
      /\ reports'[Len(reports) + 1] = x
    BY <1>2, <1>3, Appended DEF x
<1>6. \A i \in DOMAIN reports' : i \in DOMAIN reports \/ i = Len(reports) + 1
    BY <1>5
<1>7. \A i \in DOMAIN reports : reports'[i].line < at /\ reports[i].line \in Nat
    <2>1. \A i \in DOMAIN reports : reports[i] \in R
        BY <1>3, <1>5, ElementOfSeq
    <2> QED BY <1>4, <1>5, <2>1 DEF R
<1>8. reports'[Len(reports) + 1].line = at
    BY <1>2, <1>5
<1>9. \A i \in DOMAIN reports' : reports'[i].line <= at'
    BY <1>1, <1>5, <1>6, <1>7, <1>8
<1>10. Trigger!AnsweredOnce'
    <2> SUFFICES ASSUME NEW i \in DOMAIN reports', NEW j \in DOMAIN reports',
                        reports'[i].line = reports'[j].line
                 PROVE  i = j
        BY DEF Trigger!AnsweredOnce
    <2>1. CASE i \in DOMAIN reports /\ j \in DOMAIN reports
        BY <1>5, <2>1 DEF TriggerInv, ReportsBehind, Trigger!AnsweredOnce
    <2>2. CASE i = Len(reports) + 1 /\ j \in DOMAIN reports
        BY <1>1, <1>7, <1>8, <2>2
    <2>3. CASE i \in DOMAIN reports /\ j = Len(reports) + 1
        BY <1>1, <1>7, <1>8, <2>3
    <2> QED BY <1>6, <2>1, <2>2, <2>3
<1> QED BY <1>5, <1>9, <1>10 DEF R

LEMMA TriggerBounds ==
    /\ MaxRuns \in Nat \ {0} /\ CycleEvents \in Nat /\ MaxCrashes \in Nat
    /\ Script \in Seq(Trigger!Lines)
BY BusAssumption DEF Trigger!ValidTrigger

LEMMA LineFacts ==
    ASSUME TriggerType, at > 0
    PROVE  /\ at \in Nat /\ at \in 1 .. Len(file) /\ file[at] \in Trigger!Lines
           /\ file[at].id \in Nat /\ file[at].param \in Nat \cup {None}
<1>1. at \in Nat /\ at \in 1 .. Len(file) /\ Len(file) \in Nat
    BY LenProperties DEF TriggerType
<1>2. file[at] \in Trigger!Lines
    BY <1>1, ElementOfSeq DEF TriggerType
<1> QED BY <1>1, <1>2 DEF Trigger!Lines

(* A step that leaves the line in hand and the reports alone, and goes on   *)
(* to the next part of the handler or leaves it.                           *)
LEMMA HandlerStep ==
    ASSUME TriggerInv, Grows, at' = at, UNCHANGED reports,
           \/ pc' \in {"Report", "Merge", "Replace", "Ack", "Listen", "Exited", "Down"}
           \/ pc' = pc
           \/ pc \in {"Run", "Distill", "Refuse"} /\ pc' \in {"Run", "Distill", "Refuse"}
    PROVE  ReportsBehind' /\ (at > 0 => file'[at] = file[at])
<1>1. ReportsBehind' 
    BY DEF TriggerInv, ReportsBehind, Trigger!AnsweredOnce
<1>2. at > 0 => at \in 1 .. Len(file)
    BY LineFacts DEF TriggerInv
<1>3. at > 0 => file'[at] = file[at]
    BY <1>2, GrownFile DEF TriggerInv
<1> QED BY <1>1, <1>3

LEMMA ArriveStep == ASSUME TriggerInv, Trigger!Arrive PROVE TriggerInv'
<1> USE DEF Trigger!Arrive, Trigger!daemonVars, Trigger!configVars
<1>1. TriggerType
    BY DEF TriggerInv
<1>2. Grows
    <2>1. sent + 1 \in 1 .. Len(Script)
        BY <1>1, TriggerBounds, LenProperties DEF TriggerType
    <2>2. Script[sent + 1] \in Trigger!Lines
        BY <2>1, TriggerBounds, ElementOfSeq
    <2> QED BY <2>2 DEF Grows
<1>3. ReportsBehind' /\ (at > 0 => file'[at] = file[at])
    <2>1. at' = at /\ UNCHANGED reports /\ pc' = pc
        OBVIOUS
    <2> QED BY <1>2, <2>1, HandlerStep
<1>4. sent' \in 0 .. Len(Script)
    BY <1>1, TriggerBounds, LenProperties DEF TriggerType
<1>5. TriggerType'
    BY <1>1, <1>2, <1>4, GrownFile DEF TriggerType
<1>6. LineInHand'
    BY DEF TriggerInv, LineInHand
<1>7. Counting'
    <2>1. pc \in {"Run", "Distill", "Report"} => at > 0
        BY DEF TriggerInv, LineInHand
    <2>2. logged \in Nat
        BY <1>1 DEF TriggerType
    <2>3. ASSUME pc = "Run"
          PROVE  logged' <= Cardinality(OwnEvents(file', file'[at].id))
        <3>1. logged <= Cardinality(OwnEvents(file, file[at].id))
            BY <2>3 DEF TriggerInv, Counting
        <3>2. file'[at].id = file[at].id
            BY <1>3, <2>1, <2>3
        <3>3. /\ Cardinality(OwnEvents(file, file[at].id)) \in Nat
              /\ Cardinality(OwnEvents(file', file[at].id)) \in Nat
              /\ Cardinality(OwnEvents(file, file[at].id))
                    <= Cardinality(OwnEvents(file', file[at].id))
            BY <1>1, <1>2, GrownFile
        <3>4. logged' = logged
            OBVIOUS
        <3> QED BY <2>2, <3>1, <3>2, <3>3, <3>4
    <2> QED BY <1>3, <2>1, <2>3 DEF TriggerInv, Counting
<1>8. Merging'
    <2>1. pc = "Replace" => at > 0
        BY DEF TriggerInv, LineInHand
    <2> QED BY <1>3, <2>1 DEF TriggerInv, Merging
<1> QED BY <1>3, <1>5, <1>6, <1>7, <1>8 DEF TriggerInv

LEMMA StartStep == ASSUME TriggerInv, Trigger!Start PROVE TriggerInv'
<1> USE DEF Trigger!Start, Trigger!configVars
<1>1. TriggerType
    BY DEF TriggerInv
<1>2. at \in 0 .. Len(file) /\ Len(file) \in Nat
    BY <1>1, LenProperties DEF TriggerType
<1>3. TriggerType'
    <2>1. at' \in 0 .. Len(file') /\ counted' \in [own : Nat, other : Nat]
        BY <1>2 DEF Trigger!NoCount
    <2>2. /\ runsHandled' \in 0 .. MaxRuns
          /\ logged' \in Nat /\ emitted' \in Nat
          /\ logged' <= emitted' /\ emitted' <= CycleEvents
        BY TriggerBounds
    <2>3. pc' \in Trigger!PCs /\ pipe' \in BOOLEAN /\ paused' \in BOOLEAN
        BY DEF Trigger!PCs
    <2> QED BY <1>1, <2>1, <2>2, <2>3 DEF TriggerType
<1>4. LineInHand'
    BY TriggerBounds DEF LineInHand
<1>5. ReportsBehind'
    <2>1. \A i \in DOMAIN reports : reports[i].line \in Nat /\ reports[i].line <= at
        <3>1. \A i \in DOMAIN reports : reports[i] \in [request : Nat, line : Nat,
                                            ok : BOOLEAN, own : Nat, other : Nat]
            BY <1>1, LenProperties, ElementOfSeq DEF TriggerType
        <3> QED BY <3>1 DEF TriggerInv, ReportsBehind
    <2>2. \A i \in DOMAIN reports : reports[i].line <= at'
        BY <1>2, <2>1
    <2> QED BY <2>2 DEF TriggerInv, ReportsBehind, Trigger!AnsweredOnce
<1>6. Counting' /\ Merging'
    BY DEF Counting, Merging
<1> QED BY <1>3, <1>4, <1>5, <1>6 DEF TriggerInv

LEMMA ConsumeStep == ASSUME TriggerInv, Trigger!Consume PROVE TriggerInv'
<1> USE DEF Trigger!Consume, Trigger!configVars
<1>1. TriggerType /\ pc = "Listen" /\ runsHandled < MaxRuns
    BY DEF TriggerInv, LineInHand
<1>2. at \in Nat /\ Len(file) \in Nat /\ at + 1 \in 0 .. Len(file)
    BY <1>1, LenProperties DEF TriggerType
<1>3. pc' \in {"Listen", "Refuse", "Merge", "Run"}
    BY DEF Trigger!Dispatch
<1>4. TriggerType'
    <2>1. counted' \in [own : Nat, other : Nat] /\ pc' \in Trigger!PCs
        BY <1>3 DEF Trigger!NoCount, Trigger!PCs
    <2> QED BY <1>1, <1>2, <2>1, TriggerBounds DEF TriggerType
<1>5. LineInHand'
    BY <1>1, <1>2 DEF LineInHand
<1>6. ReportsBehind'
    <2>1. \A i \in DOMAIN reports : reports[i].line \in Nat /\ reports[i].line <= at
        <3>1. \A i \in DOMAIN reports : reports[i] \in [request : Nat, line : Nat,
                                            ok : BOOLEAN, own : Nat, other : Nat]
            BY <1>1, LenProperties, ElementOfSeq DEF TriggerType
        <3> QED BY <3>1 DEF TriggerInv, ReportsBehind
    <2>2. \A i \in DOMAIN reports : reports[i].line < at' /\ reports[i].line <= at'
        BY <1>2, <2>1
    <2> QED BY <2>2 DEF TriggerInv, ReportsBehind, Trigger!AnsweredOnce
<1>7. Counting'
    <2>1. ASSUME NEW id PROVE Cardinality(OwnEvents(file, id)) \in Nat
        <3>1. Trigger!OwnEvent(0) \in Trigger!Lines /\ file \in Seq(Trigger!Lines)
            BY <1>1 DEF Trigger!OwnEvent, Trigger!Lines, TriggerType
        <3> QED BY <3>1, OneMoreLine
    <2>2. logged' <= Cardinality(OwnEvents(file', file'[at'].id))
        <3>1. Cardinality(OwnEvents(file, file[at + 1].id)) \in Nat
            BY <2>1
        <3>2. file' = file /\ at' = at + 1 /\ logged' = 0
            OBVIOUS
        <3> QED BY <3>1, <3>2
    <2> QED BY <1>3, <2>2 DEF Counting
<1>8. Merging'
    BY <1>3 DEF Merging
<1> QED BY <1>4, <1>5, <1>6, <1>7, <1>8 DEF TriggerInv

LEMMA CycleStepStep == ASSUME TriggerInv, Trigger!CycleStep PROVE TriggerInv'
<1> USE DEF Trigger!CycleStep, Trigger!configVars
<1> DEFINE id == file[at].id
<1>1. TriggerType /\ pc = "Run" /\ at > 0 /\ runsHandled < MaxRuns
    BY DEF TriggerInv, LineInHand
<1>2. id \in Nat /\ at \in Nat
    BY <1>1, LineFacts
<1>3. pipe' \in BOOLEAN /\ Grows
    BY <1>1, <1>2, Published DEF Trigger!Current
<1>4. ReportsBehind' /\ file'[at] = file[at]
    BY <1>1, <1>3, HandlerStep
<1>5. /\ logged \in Nat /\ emitted \in Nat /\ CycleEvents \in Nat
      /\ logged <= emitted /\ emitted < CycleEvents /\ emitted' = emitted + 1
      /\ logged' \in {logged, logged + 1}
    BY <1>1, TriggerBounds DEF TriggerType
<1>6. TriggerType'
    <2>1. logged' \in Nat /\ emitted' \in Nat /\ logged' <= emitted' /\ emitted' <= CycleEvents
        BY <1>5
    <2> QED BY <1>1, <1>3, <2>1, GrownFile DEF TriggerType
<1>7. LineInHand'
    BY <1>1 DEF LineInHand
<1>8. Counting'
    <2>1. logged <= Cardinality(OwnEvents(file, id))
        BY <1>1 DEF TriggerInv, Counting
    <2>2. CASE file' = file
        BY <1>1, <2>1, <2>2 DEF Counting
    <2>3. CASE file' # file
        <3> DEFINE x == Trigger!OwnEvent(id)
        <3>1. file' = Append(file, x)
            BY <2>3 DEF Trigger!Publish, Trigger!Current
        <3>2. x \in Trigger!Lines /\ x.kind = "event" /\ x.id = id
            BY <1>2 DEF Trigger!OwnEvent, Trigger!Lines
        <3>3. file \in Seq(Trigger!Lines)
            BY <1>1 DEF TriggerType
        <3> HIDE DEF x, id
        <3>4. /\ Cardinality(OwnEvents(file, id)) \in Nat
              /\ Cardinality(OwnEvents(file', id))
                    = Cardinality(OwnEvents(file, id))
                         + (IF x.kind = "event" /\ x.id = id THEN 1 ELSE 0)
            BY <3>1, <3>2, <3>3, OneMoreLine
        <3>5. Cardinality(OwnEvents(file', id)) = Cardinality(OwnEvents(file, id)) + 1
            BY <3>2, <3>4
        <3>6. logged + 1 <= Cardinality(OwnEvents(file', id))
            BY <1>5, <2>1, <3>4, <3>5
        <3>7. logged' = logged + 1 /\ pc' = "Run" /\ at' = at /\ file'[at'].id = id
            BY <1>1, <1>4, <2>3 DEF id
        <3> QED BY <3>6, <3>7 DEF Counting
    <2> QED BY <2>2, <2>3
<1>9. Merging'
    BY <1>1 DEF Merging
<1> QED BY <1>4, <1>6, <1>7, <1>8, <1>9 DEF TriggerInv

LEMMA ReadEventsStep == ASSUME TriggerInv, Trigger!ReadEvents PROVE TriggerInv'
<1> USE DEF Trigger!ReadEvents, Trigger!configVars
<1>1. TriggerType /\ pc = "Run" /\ at > 0 /\ runsHandled < MaxRuns
    BY DEF TriggerInv, LineInHand
<1>2. Grows
    BY DEF Grows
<1>3. ReportsBehind'
    BY <1>1, <1>2, HandlerStep
<1> DEFINE others == {k \in DOMAIN file : file[k].kind = "event" /\ file[k].id # file[at].id}
<1>4. Cardinality(OwnEvents(file, file[at].id)) \in Nat
    BY <1>1, <1>2, GrownFile
<1>5. Cardinality(others) \in Nat
    <2>1. DOMAIN file = 1 .. Len(file) /\ Len(file) \in Nat
        BY <1>1, LenProperties DEF TriggerType
    <2>2. IsFiniteSet(1 .. Len(file))
        BY <2>1, FS_Interval
    <2>3. others \subseteq 1 .. Len(file)
        BY <2>1
    <2> HIDE DEF others
    <2> QED BY <2>2, <2>3, FS_Subset, FS_CardinalityType
<1>6. counted' \in {Trigger!NoCount, [own |-> Cardinality(OwnEvents(file, file[at].id)),
                                      other |-> Cardinality(others)]}
    <2>1. {k \in DOMAIN file : file[k].kind = "event" /\ file[k].id = file[at].id}
             = OwnEvents(file, file[at].id)
        BY DEF OwnEvents
    <2> HIDE DEF others
    <2>2. others = {k \in DOMAIN file : file[k].kind = "event" /\ file[k].id # file[at].id}
        BY DEF others
    <2>3. \/ counted' = Trigger!NoCount
          \/ counted' = [own |-> Trigger!Cardinality({k \in DOMAIN file :
                                    file[k].kind = "event" /\ file[k].id = file[at].id}),
                         other |-> Trigger!Cardinality({k \in DOMAIN file :
                                    file[k].kind = "event" /\ file[k].id # file[at].id})]
        BY Zenon DEF Trigger!Current
    <2>4. ASSUME NEW S PROVE Trigger!Cardinality(S) = Cardinality(S)
        BY DEF Trigger!Cardinality, Cardinality
    <2> QED BY ONLY <2>1, <2>2, <2>3, <2>4
<1> HIDE DEF others
<1>7. TriggerType'
    <2>1. counted' \in [own : Nat, other : Nat]
        BY <1>4, <1>5, <1>6 DEF Trigger!NoCount
    <2> QED BY <1>1, <2>1 DEF TriggerType, Trigger!PCs
<1>8. Counting'
    <2>1. logged <= Cardinality(OwnEvents(file, file[at].id)) /\ logged \in Nat
        BY <1>1 DEF TriggerInv, Counting, TriggerType
    <2>2. \/ counted' = Trigger!NoCount
          \/ counted'.own = Cardinality(OwnEvents(file, file[at].id))
        BY <1>6
    <2>3. counted'.own >= logged \/ counted' = Trigger!NoCount
        BY <1>4, <2>1, <2>2
    <2> QED BY <2>3 DEF Counting
<1>9. LineInHand' /\ Merging'
    BY <1>1 DEF LineInHand, Merging
<1> QED BY <1>3, <1>7, <1>8, <1>9 DEF TriggerInv

LEMMA AfterLineFacts ==
    ASSUME NEW handled \in 0 .. MaxRuns
    PROVE  /\ Trigger!AfterLine(handled) \in {"Exited", "Listen"}
           /\ Trigger!AfterLine(handled) = "Listen" => handled < MaxRuns
BY TriggerBounds DEF Trigger!AfterLine

LEMMA DistillStep == ASSUME TriggerInv, Trigger!Distill PROVE TriggerInv'
<1> USE DEF Trigger!Distill, Trigger!configVars
<1>1. TriggerType /\ pc = "Distill" /\ at > 0 /\ runsHandled < MaxRuns
    BY DEF TriggerInv, LineInHand
<1>2. pipe' \in BOOLEAN /\ Grows
    BY <1>1, Published
<1>3. file'[at] = file[at]
    <2>1. at \in 1 .. Len(file)
        BY <1>1, LineFacts
    <2> QED BY <1>1, <1>2, <2>1, GrownFile
<1>4. /\ reports' \in Seq([request : Nat, line : Nat, ok : BOOLEAN, own : Nat, other : Nat])
      /\ \A i \in DOMAIN reports' : reports'[i].line <= at'
      /\ Trigger!AnsweredOnce'
    BY <1>1, OneMoreReport
<1>5. TriggerType'
    BY <1>1, <1>2, <1>4, GrownFile DEF TriggerType, Trigger!PCs
<1>6. ReportsBehind'
    BY <1>4 DEF ReportsBehind
<1>7. LineInHand' /\ Merging'
    BY <1>1 DEF LineInHand, Merging
<1>8. Counting'
    BY <1>1, <1>3 DEF TriggerInv, Counting
<1> QED BY <1>5, <1>6, <1>7, <1>8 DEF TriggerInv

LEMMA ReportStep == ASSUME TriggerInv, Trigger!Report PROVE TriggerInv'
<1> USE DEF Trigger!Report, Trigger!configVars
<1>1. TriggerType /\ pc = "Report" /\ at > 0 /\ runsHandled < MaxRuns
    BY DEF TriggerInv, LineInHand
<1>2. pipe' \in BOOLEAN /\ Grows
    <2>1. CASE Trigger!Publish(Trigger!OwnEvent(0))
        BY <1>1, <2>1, Published
    <2>2. CASE UNCHANGED <<file, pipe>>
        BY <1>1, <2>2 DEF Grows, TriggerType
    <2> QED BY <2>1, <2>2
<1>3. runsHandled' \in 0 .. MaxRuns /\ runsHandled' = runsHandled + 1
    BY <1>1, TriggerBounds DEF TriggerType
<1>4. /\ pc' \in {"Exited", "Listen"}
      /\ pc' = "Listen" => runsHandled' < MaxRuns
    BY <1>3, AfterLineFacts
<1>5. ReportsBehind'
    BY <1>2, <1>4, HandlerStep
<1>6. TriggerType'
    BY <1>1, <1>2, <1>3, <1>4, GrownFile DEF TriggerType, Trigger!PCs
<1>7. LineInHand' /\ Merging' /\ Counting'
    BY <1>4 DEF LineInHand, Merging, Counting
<1> QED BY <1>5, <1>6, <1>7 DEF TriggerInv

LEMMA RefuseStep == ASSUME TriggerInv, Trigger!Refuse PROVE TriggerInv'
<1> USE DEF Trigger!Refuse, Trigger!configVars
<1>1. TriggerType /\ pc \in {"Run", "Refuse"} /\ at > 0 /\ runsHandled < MaxRuns
    BY DEF TriggerInv, LineInHand
<1>2. pipe' \in BOOLEAN /\ Grows
    BY <1>1, Published
<1>3. runsHandled' = runsHandled /\ runsHandled \in 0 .. MaxRuns
    BY <1>1 DEF TriggerType
<1>4. /\ pc' \in {"Exited", "Listen"}
      /\ pc' = "Listen" => runsHandled' < MaxRuns
    BY <1>3, AfterLineFacts
<1>5. /\ reports' \in Seq([request : Nat, line : Nat, ok : BOOLEAN, own : Nat, other : Nat])
      /\ \A i \in DOMAIN reports' : reports'[i].line <= at'
      /\ Trigger!AnsweredOnce'
    <2>1. CASE reports' = reports
        BY <1>1, <2>1 DEF TriggerInv, TriggerType, ReportsBehind, Trigger!AnsweredOnce
    <2>2. CASE reports' = Append(reports, Trigger!ReportOf(FALSE))
        BY <1>1, <2>2, OneMoreReport
    <2> QED BY <2>1, <2>2
<1>6. TriggerType'
    BY <1>1, <1>2, <1>3, <1>4, <1>5, GrownFile DEF TriggerType, Trigger!PCs
<1>7. ReportsBehind'
    BY <1>4, <1>5 DEF ReportsBehind
<1>8. LineInHand' /\ Merging' /\ Counting'
    BY <1>4 DEF LineInHand, Merging, Counting
<1> QED BY <1>6, <1>7, <1>8 DEF TriggerInv

LEMMA MergeStep == ASSUME TriggerInv, Trigger!Merge PROVE TriggerInv'
<1> USE DEF Trigger!Merge, Trigger!configVars
<1>1. TriggerType /\ pc = "Merge" /\ at > 0 /\ runsHandled < MaxRuns
    BY DEF TriggerInv, LineInHand
<1>2. Grows
    BY DEF Grows
<1>3. ReportsBehind'
    BY <1>1, <1>2, HandlerStep
<1>4. paused' \in BOOLEAN
    BY <1>1 DEF TriggerType
<1>5. Merging'
    <2>1. PICK read \in BOOLEAN :
             merged' = [read |-> read,
                        record |-> LET old == IF config = None \/ ~read
                                              THEN Trigger!ConfigRecord(paused', None, None)
                                              ELSE config
                                   IN  Trigger!ConfigRecord(paused',
                                          Trigger!Given("set_budget", old.budget),
                                          Trigger!Given("set_generations", old.generations))]
        OBVIOUS
    <2> DEFINE old == IF config = None \/ ~read THEN Trigger!ConfigRecord(paused', None, None)
                      ELSE config
               b == Trigger!Given("set_budget", old.budget)
               g == Trigger!Given("set_generations", old.generations)
    <2>2. old \in ConfigRecords
        <3>1. Trigger!ConfigRecord(paused', None, None) \in ConfigRecords
            BY <1>4 DEF Trigger!ConfigRecord, ConfigRecords
        <3> QED BY <1>1, <3>1 DEF TriggerType
    <2>3. old.budget \in Nat \cup {None} /\ old.generations \in Nat \cup {None}
        BY <2>2 DEF ConfigRecords
    <2>4. config # None /\ read => old = config
        OBVIOUS
    <2>5. file[at].param \in Nat \cup {None}
        BY <1>1, LineFacts
    <2> HIDE DEF old
    <2>6. /\ b \in Nat \cup {None} /\ g \in Nat \cup {None}
          /\ b = old.budget \/ file[at].action = "set_budget"
          /\ g = old.generations \/ file[at].action = "set_generations"
        BY <2>3, <2>5 DEF Trigger!Given, Trigger!Current
    <2>7. merged' = [read |-> read, record |-> Trigger!ConfigRecord(paused', b, g)]
        BY <2>1 DEF old
    <2> HIDE DEF b, g
    <2>8. /\ merged'.read = read /\ merged'.record \in ConfigRecords
          /\ merged'.record.budget = b /\ merged'.record.generations = g
        BY ONLY <1>4, <2>6, <2>7 DEF Trigger!ConfigRecord, ConfigRecords
    <2>9. config' = config /\ file' = file /\ at' = at
        OBVIOUS
    <2> QED BY <2>4, <2>6, <2>8, <2>9 DEF Merging
<1>6. TriggerType'
    BY <1>1, <1>4 DEF TriggerType, Trigger!PCs
<1>7. LineInHand' /\ Counting'
    BY <1>1 DEF LineInHand, Counting
<1> QED BY <1>3, <1>5, <1>6, <1>7 DEF TriggerInv

LEMMA ReplaceStep ==
    ASSUME TriggerInv, Trigger!Replace
    PROVE  TriggerInv' /\ Trigger!BudgetKept
<1> USE DEF Trigger!Replace
<1>1. TriggerType /\ pc = "Replace" /\ at > 0 /\ runsHandled < MaxRuns /\ Merging
    BY DEF TriggerInv, LineInHand
<1>2. Grows
    BY DEF Grows
<1>3. ReportsBehind'
    BY <1>1, <1>2, HandlerStep
<1>4. TriggerType'
    BY <1>1 DEF TriggerType, Trigger!PCs, Merging
<1>5. LineInHand' /\ Counting' /\ Merging'
    BY <1>1 DEF LineInHand, Counting, Merging
<1>6. Trigger!BudgetKept
    BY <1>1 DEF Merging, Trigger!BudgetKept, Trigger!Current
<1> QED BY <1>3, <1>4, <1>5, <1>6 DEF TriggerInv

LEMMA AckStep == ASSUME TriggerInv, Trigger!Ack PROVE TriggerInv'
<1> USE DEF Trigger!Ack
<1>1. TriggerType /\ pc = "Ack" /\ at > 0 /\ runsHandled < MaxRuns
    BY DEF TriggerInv, LineInHand
<1>2. pipe' \in BOOLEAN /\ Grows
    BY <1>1, Published
<1>3. runsHandled' = runsHandled /\ runsHandled \in 0 .. MaxRuns
    BY <1>1 DEF TriggerType
<1>4. /\ pc' \in {"Exited", "Listen"}
      /\ pc' = "Listen" => runsHandled' < MaxRuns
    BY <1>3, AfterLineFacts
<1>5. ReportsBehind'
    BY <1>2, <1>4, HandlerStep
<1>6. TriggerType'
    BY <1>1, <1>2, <1>3, <1>4, GrownFile DEF TriggerType, Trigger!PCs
<1>7. LineInHand' /\ Merging' /\ Counting'
    BY <1>4 DEF LineInHand, Merging, Counting
<1> QED BY <1>5, <1>6, <1>7 DEF TriggerInv

LEMMA CrashStep == ASSUME TriggerInv, Trigger!Crash PROVE TriggerInv'
<1> USE DEF Trigger!Crash, Trigger!configVars
<1>1. TriggerType
    BY DEF TriggerInv
<1>2. Grows
    BY DEF Grows
<1>3. ReportsBehind'
    BY <1>2, HandlerStep
<1>4. crashes' \in 0 .. MaxCrashes
    BY <1>1, TriggerBounds DEF TriggerType
<1>5. TriggerType'
    BY <1>1, <1>4 DEF TriggerType, Trigger!PCs
<1>6. LineInHand' /\ Counting' /\ Merging'
    BY DEF LineInHand, Counting, Merging
<1> QED BY <1>3, <1>5, <1>6 DEF TriggerInv

LEMMA TriggerStep ==
    ASSUME TriggerInv, Trigger!Next
    PROVE  TriggerInv' /\ Trigger!BudgetKept
<1>1. TriggerInv'
    BY ArriveStep, StartStep, ConsumeStep, CycleStepStep, ReadEventsStep, DistillStep,
       ReportStep, RefuseStep, MergeStep, ReplaceStep, AckStep, CrashStep
    DEF Trigger!Next, Trigger!Handling
<1>2. CASE Trigger!Replace
    BY <1>2, ReplaceStep
<1>3. CASE ~Trigger!Replace
    <2>1. config' = config
        BY <1>3 DEF Trigger!Next, Trigger!Handling, Trigger!Arrive, Trigger!Start,
           Trigger!Consume, Trigger!CycleStep, Trigger!ReadEvents, Trigger!Distill,
           Trigger!Report, Trigger!Refuse, Trigger!Merge, Trigger!Ack, Trigger!Crash,
           Trigger!configVars
    <2> QED BY <1>1, <2>1 DEF Trigger!BudgetKept
<1> QED BY <1>2, <1>3
-----------------------------------------------------------------------------
(* One machine runs, and it keeps its invariant.                            *)
IInv ==
    /\ machine \in {"tail", "trigger"}
    /\ machine = "tail" => TailInv /\ config = None
    /\ machine = "trigger" => TriggerInv

LEMMA InitInv == Init => IInv
<1>1. ASSUME EventTail!Init PROVE TailInv
    <2>1. /\ file \in Seq(Pieces) /\ Len(file) = 0 /\ DOMAIN file = {}
          /\ dispatched \in [Events -> Nat]
          /\ \A e \in Events : dispatched[e] = 0 /\ path[e] = "new"
        BY <1>1, EmptySeq DEF EventTail!Init
    <2>2. TailType
        BY <1>1, <2>1 DEF EventTail!Init, TailType
    <2>3. FileWellFormed /\ Sleeping /\ DispatchedBefore(0)
        BY <1>1, <2>1 DEF EventTail!Init, FileWellFormed, Sleeping, DispatchedBefore
    <2> QED BY <1>1, <2>1, <2>2, <2>3 DEF EventTail!Init, TailInv
<1>2. ASSUME Trigger!Init PROVE TriggerInv
    <2>1. /\ file = <<>> /\ reports = <<>> /\ Len(file) = 0 /\ DOMAIN reports = {}
          /\ pc = "Down" /\ at = 0 /\ file \in Seq(Trigger!Lines)
          /\ reports \in Seq([request : Nat, line : Nat, ok : BOOLEAN,
                              own : Nat, other : Nat])
        BY <1>2, EmptySeq DEF Trigger!Init
    <2>2. sent \in 0 .. Len(Script)
        BY <1>2, TriggerBounds, LenProperties DEF Trigger!Init
    <2>3. TriggerType
        <3>1. counted \in [own : Nat, other : Nat]
            BY <1>2 DEF Trigger!Init, Trigger!NoCount
        <3>2. /\ at \in 0 .. Len(file) /\ runsHandled \in 0 .. MaxRuns
              /\ crashes \in 0 .. MaxCrashes /\ logged \in Nat /\ emitted \in Nat
              /\ logged <= emitted /\ emitted <= CycleEvents
            BY <1>2, <2>1, TriggerBounds DEF Trigger!Init
        <3>3. pc \in Trigger!PCs /\ pipe \in BOOLEAN /\ paused \in BOOLEAN /\ config = None
            BY <1>2 DEF Trigger!Init, Trigger!PCs
        <3> QED BY <2>1, <2>2, <3>1, <3>2, <3>3 DEF TriggerType
    <2>4. LineInHand /\ ReportsBehind /\ Counting /\ Merging
        BY <2>1 DEF LineInHand, ReportsBehind, Counting, Merging, Trigger!AnsweredOnce
    <2> QED BY <2>3, <2>4 DEF TriggerInv
<1> QED BY <1>1, <1>2 DEF Init, IInv, NoTrigger

LEMMA StepInv == IInv /\ [Next]_vars => IInv' /\ Trigger!BudgetKept
<1> SUFFICES ASSUME IInv, [Next]_vars PROVE IInv' /\ Trigger!BudgetKept
    OBVIOUS
<1>1. CASE TailNext
    <2>1. machine' = "tail" /\ config' = config /\ TailInv'
        BY <1>1, TailStep DEF IInv, TailNext, BesideTail, triggerOnly
    <2> QED BY <1>1, <2>1 DEF IInv, TailNext, Trigger!BudgetKept
<1>2. CASE TriggerNext
    <2>1. machine' = "trigger" /\ TriggerInv' /\ Trigger!BudgetKept
        BY <1>2, TriggerStep DEF IInv, TriggerNext, BesideTrigger
    <2> QED BY <2>1 DEF IInv
<1>3. CASE UNCHANGED vars
    <2>1. /\ UNCHANGED <<machine, file, pc, at>>
          /\ UNCHANGED <<path, lastSize, currentSize, late, dispatched>>
          /\ UNCHANGED <<sent, pipe, emitted, logged, counted, runsHandled, paused,
                         config, merged, reports, acks, crashes>>
        BY <1>3 DEF vars, tailOnly, triggerOnly
    <2>2. TailInv => TailInv'
        BY <2>1 DEF TailInv, TailType, FileWellFormed, Reading, Sleeping, DispatchedBefore
    <2>3. TriggerInv => TriggerInv'
        BY <2>1 DEF TriggerInv, TriggerType, LineInHand, ReportsBehind, Counting,
           Merging, Trigger!AnsweredOnce
    <2> QED BY <2>1, <2>2, <2>3 DEF IInv, Trigger!BudgetKept
<1> QED BY <1>1, <1>2, <1>3 DEF Next

LEMMA TailSound == TailInv => EventTail!TypeOK /\ EventTail!AtMostTwice /\ EventTail!NoneMissed
<1> SUFFICES ASSUME TailInv
             PROVE  EventTail!TypeOK /\ EventTail!AtMostTwice /\ EventTail!NoneMissed
    OBVIOUS
<1>1. EventTail!TypeOK
    <2>1. TailType /\ \A k \in DOMAIN file : file[k] \in Pieces
        BY LenProperties, ElementOfSeq DEF TailInv, TailType
    <2> QED BY <2>1 DEF EventTail!TypeOK, TailType, Pieces
<1>2. EventTail!AtMostTwice
    <2>1. \A e \in Events : dispatched[e] \in Nat /\ dispatched[e] <= 2
        BY TailFacts DEF TailInv
    <2>2. pc = "Read" => \A e \in late : dispatched[e] <= 1
        BY DEF TailInv, Reading
    <2> QED BY <2>1, <2>2 DEF EventTail!AtMostTwice
<1>3. EventTail!NoneMissed
    <2>1. DispatchedBefore(lastSize)
        <3>1. CASE pc = "Read"
            <4>1. 1 .. lastSize \subseteq 1 .. at
                BY <3>1, TailFacts DEF TailInv, Reading
            <4> QED BY <3>1, <4>1 DEF TailInv, DispatchedBefore
        <3>2. CASE pc # "Read"
            BY <3>2 DEF TailInv
        <3> QED BY <3>1, <3>2
    <2> QED BY <2>1 DEF EventTail!NoneMissed, DispatchedBefore
<1> QED BY <1>1, <1>2, <1>3

LEMMA TriggerInvSound ==
    TriggerInv => Trigger!TypeOK /\ Trigger!AnsweredOnce /\ Trigger!OwnEventsCounted
BY DEF TriggerInv, TriggerType, ConfigRecords, ReportsBehind, Counting, Trigger!TypeOK,
   Trigger!OwnEventsCounted, Trigger!Current

(* However publishers tear and interleave their lines, no event reaches the *)
(* callback three times, and none that is whole and stands behind a newline *)
(* is skipped when the size moves on (bus/signal_bus.py, tail_debug).       *)
THEOREM NothingMissedNothingThrice == Spec => []DispatchSound
<1>1. IInv => DispatchSound
    BY TailSound DEF IInv, DispatchSound
<1> QED BY InitInv, StepInv, <1>1, PTL DEF Spec

(* For any script, any number of runs, of events of a cycle and of crashes  *)
(* a line has at most one report, the report of a cycle counts all of its   *)
(* events or, if the file cannot be read, none, and a command keeps the     *)
(* limits that it does not set, if it can read them                         *)
(* (daemons/trigger_daemon.py).                                             *)
THEOREM RequestsAnsweredOnce == Spec => TriggerSound
<1>1. IInv /\ IInv' /\ Trigger!BudgetKept => TriggerInvariant' /\ Trigger!BudgetKept
    <2>1. IInv => TriggerInvariant
        BY TriggerInvSound DEF IInv, TriggerInvariant
    <2>2. IInv' => TriggerInvariant'
        BY <2>1, PTL
    <2> QED BY <2>2
<1> QED BY InitInv, StepInv, <1>1, PTL DEF Spec, TriggerSound
=============================================================================
