--------------------------- MODULE MCEvolution_proofs --------------------------
(***************************************************************************)
(* What surrounds the improvement loop, for any bounds, inputs and         *)
(* failures.  The machines share no state, so that each has an invariant   *)
(* of its own.                                                             *)
(***************************************************************************)
EXTENDS MCEvolution, WellFoundedInduction, SequenceTheorems, FiniteSetTheorems, TLAPS

(* Sets of numbers and sequences.                                          *)
LEMMA LeastOfThem ==
    ASSUME NEW S \in SUBSET Nat, S # {}
    PROVE  \E m \in S : \A n \in S : m <= n
<1>1. PICK m \in S : \A n \in S : <<n, m>> \notin OpToRel(<, Nat)
    BY NatLessThanWellFounded, WFMin
<1>2. ASSUME NEW n \in S PROVE m <= n
    <2>1. <<n, m>> \in Nat \X Nat /\ <<n, m>>[1] = n /\ <<n, m>>[2] = m
        OBVIOUS
    <2>2. <<n, m>> \notin {ss \in Nat \X Nat : ss[1] < ss[2]}
        BY <1>1 DEF OpToRel
    <2>3. ~(n < m)
        BY <2>1, <2>2
    <2> QED BY <2>3
<1> QED BY <1>2

LEMMA Appended ==
    ASSUME NEW S, NEW s \in Seq(S), NEW x \in S
    PROVE  LET t == Append(s, x)
           IN /\ t \in Seq(S) /\ Len(s) \in Nat /\ Len(t) = Len(s) + 1
              /\ DOMAIN s = 1 .. Len(s) /\ DOMAIN t = 1 .. Len(s) + 1
              /\ \A k \in 1 .. Len(s) : t[k] = s[k]
              /\ t[Len(s) + 1] = x /\ t # s
BY AppendProperties, LenProperties

(* No step changes the machine that runs.                                  *)
LEMMA OneMachine == Next => machine' = machine
BY DEF Next, SessionNext, PopulationNext, RoundNext, ReportNext, SnapshotNext,
   TspNext, MemoryNext, ScoreNext, DomainNext, SweepNext, BesideSession,
   BesidePopulation, BesideRound, BesideReport, BesideSnapshot, BesideTsp,
   BesideMemory, BesideScore, BesideDomain, BesideSweep
-----------------------------------------------------------------------------
(* The events of a kernel.                                                 *)

(* Division and its remainder.                                             *)
LEMMA Divided ==
    ASSUME NEW d \in Nat \ {0}, NEW m \in Nat
    PROVE  /\ m \div d \in Nat /\ m % d \in 0 .. d - 1
           /\ m = d * (m \div d) + (m % d)
<1>1. m \div d \in Nat
    OBVIOUS
<1>2. m % d \in 0 .. d - 1
    OBVIOUS
<1>3. d \in Int /\ d > 0 /\ m \in Int
    OBVIOUS
<1>4. \A i, j \in Int : j > 0 => i = j * (i \div j) + (i % j)
    OBVIOUS
<1> QED BY <1>1, <1>2, <1>3, <1>4

LEMMA Quotient ==
    ASSUME NEW d \in Nat \ {0}, NEW q \in Nat, NEW r \in 0 .. d - 1
    PROVE  (d * q + r) \div d = q /\ (d * q + r) % d = r
OBVIOUS

LEMMA OneFurther ==
    ASSUME NEW d \in Nat \ {0}, NEW m \in Nat
    PROVE  (m + 1) \div d = (m \div d) + (IF (m + 1) % d = 0 THEN 1 ELSE 0)
<1> DEFINE q == m \div d
           r == m % d
<1>1. q \in Nat /\ r \in 0 .. d - 1 /\ m = d * q + r
    BY Divided
<1> HIDE DEF q, r
<1>2. CASE r = d - 1
    <2>1. m + 1 = d * (q + 1) + 0
        BY <1>1, <1>2
    <2>2. q + 1 \in Nat /\ 0 \in 0 .. d - 1
        BY <1>1
    <2>3. (d * (q + 1) + 0) \div d = q + 1 /\ (d * (q + 1) + 0) % d = 0
        BY <2>2, Quotient
    <2> QED BY <2>1, <2>3 DEF q
<1>3. CASE r # d - 1
    <2>1. m + 1 = d * q + (r + 1) /\ r + 1 \in 0 .. d - 1 /\ r + 1 # 0
        BY <1>1, <1>3
    <2>2. (m + 1) \div d = q /\ (m + 1) % d = r + 1
        BY <1>1, <2>1, Quotient
    <2> QED BY <1>1, <2>1, <2>2 DEF q
<1> QED BY <1>2, <1>3

(* Of n numbers after m, those that d divides.                             *)
Multiples(m, n, d) == {k \in 1 .. n : (m + k) % d = 0}

LEMMA MultiplesAdd ==
    ASSUME NEW d \in Nat \ {0}, NEW m \in Nat, NEW n \in Nat
    PROVE  /\ IsFiniteSet(Multiples(m, n, d))
           /\ (m \div d) + Cardinality(Multiples(m, n, d)) = (m + n) \div d
<1> DEFINE Good(k) == /\ IsFiniteSet(Multiples(m, k, d))
                      /\ (m \div d) + Cardinality(Multiples(m, k, d)) = (m + k) \div d
           Bad == {k \in Nat : ~Good(k)}
<1>1. Good(0)
    <2>1. Multiples(m, 0, d) = {}
        BY DEF Multiples
    <2>2. m \div d \in Nat /\ m + 0 = m
        BY Divided
    <2> QED BY <2>1, <2>2, FS_EmptySet
<1>2. ASSUME NEW k \in Nat, Good(k) PROVE Good(k + 1)
    <2>1. (m + (k + 1)) \div d = ((m + k) \div d) + (IF (m + k + 1) % d = 0 THEN 1 ELSE 0)
        <3>1. m + k \in Nat /\ m + (k + 1) = (m + k) + 1
            OBVIOUS
        <3> QED BY <3>1, OneFurther
    <2>2. m \div d \in Nat /\ (m + k) \div d \in Nat
          /\ Cardinality(Multiples(m, k, d)) \in Nat
        <3>1. m + k \in Nat
            OBVIOUS
        <3>2. m \div d \in Nat /\ (m + k) \div d \in Nat
            BY <3>1, Divided
        <3>3. Cardinality(Multiples(m, k, d)) \in Nat
            BY <1>2, FS_CardinalityType
        <3> QED BY <3>2, <3>3
    <2>3. k + 1 \notin Multiples(m, k, d)
        BY DEF Multiples
    <2>4. CASE (m + k + 1) % d = 0
        <3>1. Multiples(m, k + 1, d) = Multiples(m, k, d) \cup {k + 1}
            <4>1. m + (k + 1) = m + k + 1 /\ 1 .. k + 1 = 1 .. k \cup {k + 1}
                OBVIOUS
            <4> QED BY <2>4, <4>1 DEF Multiples
        <3>2. /\ IsFiniteSet(Multiples(m, k + 1, d))
              /\ Cardinality(Multiples(m, k + 1, d))
                 = Cardinality(Multiples(m, k, d)) + 1
            BY <1>2, <2>3, <3>1, FS_AddElement
        <3>3. (m + (k + 1)) \div d = ((m + k) \div d) + 1
            BY <2>1, <2>4
        <3> QED BY <1>2, <2>2, <3>2, <3>3
    <2>5. CASE (m + k + 1) % d # 0
        <3>1. Multiples(m, k + 1, d) = Multiples(m, k, d)
            <4>1. m + (k + 1) = m + k + 1 /\ 1 .. k + 1 = 1 .. k \cup {k + 1}
                OBVIOUS
            <4> QED BY <2>5, <4>1 DEF Multiples
        <3> QED BY <1>2, <2>1, <2>2, <2>5, <3>1
    <2> QED BY <2>4, <2>5
<1>3. Bad = {}
    <2>1. SUFFICES ASSUME Bad # {} PROVE FALSE
        OBVIOUS
    <2>2. PICK k \in Bad : \A j \in Bad : k <= j
        <3>1. Bad \in SUBSET Nat
            OBVIOUS
        <3> HIDE DEF Bad
        <3> QED BY <2>1, <3>1, LeastOfThem
    <2>3. k \in Nat /\ k # 0
        BY <1>1
    <2>4. k - 1 \in Nat /\ (k - 1) + 1 = k /\ k - 1 \notin Bad
        BY <2>2, <2>3
    <2>5. Good(k - 1)
        BY <2>4
    <2>6. Good(k)
        BY <1>2, <2>4, <2>5
    <2> QED BY <2>6
<1> QED BY <1>3

LEMMA EventFacts ==
    /\ KernelGenerations \in Nat /\ KernelWave \in Nat /\ KernelIslands \in Nat
    /\ SampleN \in Nat \ {0} /\ MinInterval \in Nat
    /\ Snapshots!SampleEvery \in Nat \ {0}
    /\ \A S : Snapshots!Cardinality(S) = Cardinality(S)
<1>1. Snapshots!ValidEvents
    BY EvolutionAssumption
<1>2. \A S : Snapshots!Cardinality(S) = Cardinality(S)
    BY DEF Snapshots!Cardinality, Cardinality, Snapshots!IsFiniteSet, IsFiniteSet
<1> QED BY <1>1, <1>2 DEF Snapshots!ValidEvents, Snapshots!SampleEvery

(* A channel counts its events while the knobs may thin it, which is what  *)
(* lets the live bus be as far behind as it should be.                     *)
EventsInv ==
    /\ kernel \in {"base", "tsp"} /\ muted \in BOOLEAN /\ gens \in Nat
    /\ tally \in Nat /\ told \in Nat /\ since \in Nat
    /\ sampled \in [Snapshots!Channels -> Nat]
    /\ logged \in [Snapshots!Channels -> Nat]
    /\ live \in [Snapshots!Channels -> Nat]
    /\ Snapshots!EventsAccounted /\ Snapshots!LiveIsThinned
    /\ \A c \in Snapshots!Channels :
          sampled[c] = IF c \in Snapshots!Thinned /\ Snapshots!SampleEvery > 1
                          /\ ~Snapshots!Mute
                       THEN logged[c] ELSE 0

(* What _publish gives to the live bus: every SampleN-th of a channel that *)
(* is thinned, all of the others.                                          *)
LEMMA ForwardedIs ==
    ASSUME EventsInv, NEW c \in Snapshots!Channels, NEW n \in Nat
    PROVE  Snapshots!Forwarded(c, n) =
               IF Snapshots!Mute THEN 0
               ELSE IF c \in Snapshots!Thinned
                    THEN (logged[c] + n) \div Snapshots!SampleEvery
                         - (logged[c] \div Snapshots!SampleEvery)
                    ELSE n
<1> DEFINE d == Snapshots!SampleEvery
           F == {k \in 1 .. n : Snapshots!Forwards(c, sampled[c] + k - 1)}
<1>1. d \in Nat \ {0} /\ logged[c] \in Nat /\ sampled[c] \in Nat
    BY EventFacts DEF EventsInv
<1>2. Snapshots!Forwarded(c, n) = IF Snapshots!Mute THEN 0 ELSE Cardinality(F)
    BY EventFacts DEF Snapshots!Forwarded
<1>3. Cardinality(1 .. n) = n
    BY FS_Interval
<1>4. CASE Snapshots!Mute
    BY <1>2, <1>4
<1>5. CASE ~Snapshots!Mute /\ c \notin Snapshots!Thinned
    <2>1. F = 1 .. n
        BY <1>5 DEF Snapshots!Forwards
    <2> QED BY <1>2, <1>3, <1>5, <2>1
<1>6. CASE ~Snapshots!Mute /\ c \in Snapshots!Thinned /\ d = 1
    <2>1. F = 1 .. n
        BY <1>6 DEF Snapshots!Forwards
    <2>2. (logged[c] + n) \div d - (logged[c] \div d) = n
        BY <1>1, <1>6
    <2> QED BY <1>2, <1>3, <1>6, <2>1, <2>2
<1>7. CASE ~Snapshots!Mute /\ c \in Snapshots!Thinned /\ d # 1
    <2>1. d > 1 /\ sampled[c] = logged[c]
        BY <1>1, <1>7 DEF EventsInv
    <2>2. F = Multiples(logged[c], n, d)
        <3>1. \A s : Snapshots!Forwards(c, s) <=> (s + 1) % d = 0
            BY <1>1, <1>7, <2>1 DEF Snapshots!Forwards
        <3>2. \A k \in 1 .. n : sampled[c] + k - 1 + 1 = logged[c] + k
            BY <1>1, <2>1
        <3>3. \A k \in 1 .. n : Snapshots!Forwards(c, sampled[c] + k - 1)
                                <=> (logged[c] + k) % d = 0
            BY <3>1, <3>2
        <3> QED BY <3>3 DEF Multiples
    <2>3. (logged[c] \div d) + Cardinality(F) = (logged[c] + n) \div d
        BY <1>1, <2>2, MultiplesAdd
    <2>4. Cardinality(F) \in Nat /\ logged[c] \div d \in Nat
        BY <1>1, <1>3, <2>2, MultiplesAdd, Divided, FS_CardinalityType
    <2> QED BY <1>2, <1>7, <2>3, <2>4
<1> QED BY <1>4, <1>5, <1>6, <1>7

(* What _publish keeps, whatever it is given.                              *)
LEMMA Publishes ==
    ASSUME EventsInv, NEW e \in [Snapshots!Channels -> Nat], Snapshots!Publish(e),
           kernel' = kernel, muted' = muted
    PROVE  /\ sampled' \in [Snapshots!Channels -> Nat]
           /\ logged' \in [Snapshots!Channels -> Nat]
           /\ live' \in [Snapshots!Channels -> Nat]
           /\ Snapshots!Tallied(logged') = Snapshots!Tallied(logged) + Snapshots!Tallied(e)
           /\ Snapshots!Tallied(e) \in Nat /\ Snapshots!Tallied(logged) \in Nat
           /\ Snapshots!LiveIsThinned'
           /\ \A c \in Snapshots!Channels :
                 sampled'[c] = IF c \in Snapshots!Thinned /\ Snapshots!SampleEvery > 1
                                  /\ ~Snapshots!Mute
                               THEN logged'[c] ELSE 0
<1> DEFINE d == Snapshots!SampleEvery
<1>1. /\ d \in Nat \ {0}
      /\ \A c \in Snapshots!Channels :
            logged[c] \in Nat /\ sampled[c] \in Nat /\ live[c] \in Nat /\ e[c] \in Nat
    BY EventFacts DEF EventsInv
<1>2. /\ DOMAIN logged' = Snapshots!Channels
      /\ \A c \in Snapshots!Channels : logged'[c] = logged[c] + e[c]
    BY DEF Snapshots!Publish
<1>3. /\ DOMAIN sampled' = Snapshots!Channels
      /\ \A c \in Snapshots!Channels :
            sampled'[c] = IF c \in Snapshots!Thinned /\ d > 1 /\ ~Snapshots!Mute
                          THEN sampled[c] + e[c] ELSE sampled[c]
    BY DEF Snapshots!Publish
<1>4. /\ live' = [c \in Snapshots!Channels |-> live'[c]]
      /\ \A c \in Snapshots!Channels :
            live'[c] = live[c] + Snapshots!Forwarded(c, e[c])
    BY DEF Snapshots!Publish
<1>5. /\ logged' \in [Snapshots!Channels -> Nat]
      /\ \A c \in Snapshots!Channels : logged'[c] \in Nat
    <2>1. logged' = [c \in Snapshots!Channels |-> logged[c] + e[c]]
        BY DEF Snapshots!Publish
    <2> QED BY <1>1, <2>1
<1>6. /\ sampled' \in [Snapshots!Channels -> Nat]
      /\ \A c \in Snapshots!Channels :
            sampled'[c] = IF c \in Snapshots!Thinned /\ d > 1 /\ ~Snapshots!Mute
                          THEN logged'[c] ELSE 0
    <2>1. \A c \in Snapshots!Channels :
              sampled'[c] = IF c \in Snapshots!Thinned /\ d > 1 /\ ~Snapshots!Mute
                            THEN logged'[c] ELSE 0
        BY <1>1, <1>2, <1>3 DEF EventsInv
    <2>2. sampled' = [c \in Snapshots!Channels |-> sampled'[c]]
        BY DEF Snapshots!Publish
    <2>3. \A c \in Snapshots!Channels : sampled'[c] \in Nat
        BY <1>5, <2>1
    <2> QED BY <2>1, <2>2, <2>3
<1>7. \A c \in Snapshots!Channels :
          /\ live'[c] = IF Snapshots!Mute THEN 0
                        ELSE IF c \in Snapshots!Thinned THEN logged'[c] \div d
                        ELSE logged'[c]
          /\ live'[c] \in Nat
    <2> SUFFICES ASSUME NEW c \in Snapshots!Channels
                 PROVE  /\ live'[c] = IF Snapshots!Mute THEN 0
                                      ELSE IF c \in Snapshots!Thinned
                                           THEN logged'[c] \div d ELSE logged'[c]
                        /\ live'[c] \in Nat
        OBVIOUS
    <2>1. live'[c] = live[c] + Snapshots!Forwarded(c, e[c])
        BY <1>4
    <2>2. live[c] = IF Snapshots!Mute THEN 0
                    ELSE IF c \in Snapshots!Thinned THEN logged[c] \div d ELSE logged[c]
        BY DEF EventsInv, Snapshots!LiveIsThinned
    <2>3. logged'[c] = logged[c] + e[c] /\ logged'[c] \in Nat
        BY <1>2, <1>5
    <2>4. logged[c] \div d \in Nat /\ logged'[c] \div d \in Nat
        BY <1>1, <2>3, Divided
    <2>5. Snapshots!Forwarded(c, e[c]) =
              IF Snapshots!Mute THEN 0
              ELSE IF c \in Snapshots!Thinned
                   THEN (logged'[c] \div d) - (logged[c] \div d) ELSE e[c]
        BY <1>1, <2>3, ForwardedIs
    <2> HIDE DEF d
    <2>6. CASE Snapshots!Mute
        BY <2>1, <2>2, <2>5, <2>6
    <2>7. CASE ~Snapshots!Mute /\ c \in Snapshots!Thinned
        BY <2>1, <2>2, <2>4, <2>5, <2>7
    <2>8. CASE ~Snapshots!Mute /\ c \notin Snapshots!Thinned
        BY <1>1, <2>1, <2>2, <2>3, <2>5, <2>8
    <2> QED BY <2>6, <2>7, <2>8
<1>8. live' \in [Snapshots!Channels -> Nat]
    BY <1>4, <1>7
<1>9. /\ Snapshots!Mute' = Snapshots!Mute /\ Snapshots!SampleEvery' = d
    BY DEF Snapshots!Mute, Snapshots!SampleEvery
<1>10. Snapshots!LiveIsThinned'
    BY <1>7, <1>9 DEF Snapshots!LiveIsThinned
<1>11. /\ Snapshots!Tallied(logged') = Snapshots!Tallied(logged) + Snapshots!Tallied(e)
       /\ Snapshots!Tallied(e) \in Nat /\ Snapshots!Tallied(logged) \in Nat
    <2>1. \A c \in Snapshots!Raw : c \in Snapshots!Channels
        BY DEF Snapshots!Channels
    <2>2. \A c \in Snapshots!Raw :
             logged'[c] = logged[c] + e[c] /\ logged[c] \in Nat /\ e[c] \in Nat
        BY <1>1, <1>2, <2>1
    <2> QED BY <2>2 DEF Snapshots!Raw, Snapshots!Thinned, Snapshots!Tallied
<1> QED BY <1>5, <1>6, <1>8, <1>10, <1>11

LEMMA EventsInit == ASSUME Snapshots!Init PROVE EventsInv
<1>1. /\ kernel \in {"base", "tsp"} /\ muted \in BOOLEAN /\ gens = 0 /\ tally = 0
      /\ since = MinInterval /\ told = 0
      /\ sampled = Snapshots!Silence /\ logged = Snapshots!Silence
      /\ live = Snapshots!Silence
    BY DEF Snapshots!Init
<1>2. /\ Snapshots!Silence \in [Snapshots!Channels -> Nat]
      /\ \A c \in Snapshots!Channels : Snapshots!Silence[c] = 0
    BY DEF Snapshots!Silence
<1>3. Snapshots!Tallied(Snapshots!Silence) = 0
    BY <1>2 DEF Snapshots!Tallied, Snapshots!Channels, Snapshots!Raw, Snapshots!Thinned
<1>4. Snapshots!LiveIsThinned
    <2>1. 0 \div Snapshots!SampleEvery = 0
        <3>1. Snapshots!SampleEvery \in Nat \ {0}
            BY EventFacts
        <3> QED BY <3>1
    <2> QED BY <1>1, <1>2, <2>1 DEF Snapshots!LiveIsThinned
<1> QED BY <1>1, <1>2, <1>3, <1>4, EventFacts DEF EventsInv, Snapshots!EventsAccounted

(* Every handler publishes some events, and counts them for the snapshots. *)
LEMMA EventsKept ==
    ASSUME EventsInv, NEW e \in [Snapshots!Channels -> Nat], Snapshots!Publish(e),
           kernel' = kernel, muted' = muted, gens' \in Nat, since' \in Nat,
           tally' \in Nat, told' \in Nat,
           told' + tally' = told + tally + Snapshots!Tallied(e)
    PROVE  EventsInv'
<1>1. /\ sampled' \in [Snapshots!Channels -> Nat]
      /\ logged' \in [Snapshots!Channels -> Nat]
      /\ live' \in [Snapshots!Channels -> Nat]
      /\ Snapshots!Tallied(logged') = Snapshots!Tallied(logged) + Snapshots!Tallied(e)
      /\ Snapshots!LiveIsThinned'
      /\ \A c \in Snapshots!Channels :
            sampled'[c] = IF c \in Snapshots!Thinned /\ Snapshots!SampleEvery > 1
                             /\ ~Snapshots!Mute
                          THEN logged'[c] ELSE 0
    BY Publishes
<1>2. kernel \in {"base", "tsp"} /\ muted \in BOOLEAN
      /\ told + tally = Snapshots!Tallied(logged)
    BY DEF EventsInv, Snapshots!EventsAccounted
<1>3. Snapshots!Mute' = Snapshots!Mute /\ Snapshots!SampleEvery' = Snapshots!SampleEvery
    BY DEF Snapshots!Mute, Snapshots!SampleEvery
<1>4. Snapshots!EventsAccounted'
    BY <1>1, <1>2 DEF Snapshots!EventsAccounted
<1> QED BY <1>1, <1>2, <1>3, <1>4 DEF EventsInv

(* The numbers of the events of a channel.                                 *)
LEMMA TalliedIs ==
    ASSUME NEW e \in [Snapshots!Channels -> Nat]
    PROVE  Snapshots!Tallied(e) \in Nat
<1>1. \A c \in Snapshots!Channels : e[c] \in Nat
    OBVIOUS
<1> QED BY <1>1 DEF Snapshots!Tallied, Snapshots!Channels, Snapshots!Raw, Snapshots!Thinned

LEMMA EventsTell ==
    ASSUME EventsInv, NEW e \in [Snapshots!Channels -> Nat], Snapshots!Tell(e),
           kernel' = kernel, muted' = muted, gens' = gens
    PROVE  EventsInv'
<1>1. /\ Snapshots!Publish(e) /\ tally' = tally + Snapshots!Tallied(e)
      /\ since' = since /\ told' = told
    BY DEF Snapshots!Tell
<1>2. gens \in Nat /\ since \in Nat /\ tally \in Nat /\ told \in Nat
    BY DEF EventsInv
<1>3. Snapshots!Tallied(e) \in Nat
    BY TalliedIs
<1>4. /\ gens' \in Nat /\ since' \in Nat /\ tally' \in Nat /\ told' \in Nat
      /\ told' + tally' = told + tally + Snapshots!Tallied(e)
    BY <1>1, <1>2, <1>3
<1> QED BY <1>1, <1>4, EventsKept

(* A record of the events of a handler.                                    *)
LEMMA Silent ==
    /\ Snapshots!Silence \in [Snapshots!Channels -> Nat]
    /\ \A c \in Snapshots!Channels : Snapshots!Silence[c] = 0
    /\ {"candidate", "health", "started", "prior", "generation", "improved", "reset",
        "hint", "completed", "gauge", "snapshot"} = Snapshots!Channels
BY DEF Snapshots!Silence, Snapshots!Channels, Snapshots!Raw, Snapshots!Thinned

LEMMA EventsStart == ASSUME EventsInv, Snapshots!Start PROVE EventsInv'
<1>1. PICK earlier \in IF kernel = "base" THEN 0 .. 1 ELSE {0} :
         Snapshots!Tell([Snapshots!Silence EXCEPT !["started"] = 1, !["prior"] = earlier])
    BY DEF Snapshots!Start
<1>2. kernel' = kernel /\ muted' = muted /\ gens' = gens
    BY DEF Snapshots!Start
<1>3. [Snapshots!Silence EXCEPT !["started"] = 1, !["prior"] = earlier]
      \in [Snapshots!Channels -> Nat]
    BY Silent
<1> QED BY <1>1, <1>2, <1>3, EventsTell

LEMMA EventsCandidates == ASSUME EventsInv, Snapshots!Candidates PROVE EventsInv'
<1>1. PICK n \in 0 .. KernelWave, ticks \in 0 .. MinInterval :
         /\ Snapshots!Publish([Snapshots!Silence EXCEPT !["candidate"] = n])
         /\ tally' = tally + n
         /\ since' = IF since + ticks < MinInterval THEN since + ticks ELSE MinInterval
    BY DEF Snapshots!Candidates
<1>2. kernel' = kernel /\ muted' = muted /\ gens' = gens /\ told' = told
    BY DEF Snapshots!Candidates
<1> DEFINE e == [Snapshots!Silence EXCEPT !["candidate"] = n]
<1>3. e \in [Snapshots!Channels -> Nat] /\ n \in Nat /\ ticks \in Nat
    BY Silent, EventFacts
<1>4. Snapshots!Tallied(e) = n
    <2>1. /\ e["candidate"] = n /\ e["health"] = 0 /\ e["started"] = 0 /\ e["prior"] = 0
          /\ e["generation"] = 0 /\ e["improved"] = 0 /\ e["reset"] = 0 /\ e["hint"] = 0
          /\ e["completed"] = 0
        BY Silent
    <2> HIDE DEF e
    <2> QED BY <1>3, <2>1 DEF Snapshots!Tallied
<1>5. gens \in Nat /\ since \in Nat /\ tally \in Nat /\ told \in Nat
    BY DEF EventsInv
<1>6. since' \in Nat
    BY <1>1, <1>3, <1>5, EventFacts
<1>7. tally' \in Nat /\ told' + tally' = told + tally + n
    BY <1>1, <1>2, <1>3, <1>5
<1> HIDE DEF e
<1>8. Snapshots!Publish(e)
    BY <1>1 DEF e
<1> QED BY <1>2, <1>3, <1>4, <1>5, <1>6, <1>7, <1>8, EventsKept

(* Whether it is due or not, what the snapshot of a generation stands for  *)
(* and what is left to the next one are the events so far.                 *)
LEMMA EventsReport == ASSUME EventsInv, Snapshots!Report PROVE EventsInv'
<1> DEFINE First == [Snapshots!Silence EXCEPT !["generation"] = 1,
                                               !["health"] = KernelIslands]
           Rest(i) == [Snapshots!Silence EXCEPT !["improved"] = i]
           All(g, i) == [First EXCEPT
                !["snapshot"] = IF Snapshots!SnapshotDue THEN 1 ELSE 0,
                !["gauge"] = g, !["improved"] = i]
<1>1. PICK g \in IF gens % GaugeEvery = 0 THEN 0 .. 1 ELSE {0}, i \in 0 .. 1 :
         /\ Snapshots!Publish(All(g, i))
         /\ IF Snapshots!SnapshotDue
            THEN /\ told' = told + (tally + Snapshots!Tallied(First))
                 /\ tally' = Snapshots!Tallied(Rest(i)) /\ since' = 0
            ELSE /\ tally' = tally + Snapshots!Tallied(First)
                             + Snapshots!Tallied(Rest(i))
                 /\ told' = told /\ since' = since
    BY DEF Snapshots!Report
<1>2. kernel' = kernel /\ muted' = muted /\ gens' = gens + 1
    BY DEF Snapshots!Report
<1>3. KernelIslands \in Nat
    BY EventFacts
<1>4. /\ First \in [Snapshots!Channels -> Nat] /\ Rest(i) \in [Snapshots!Channels -> Nat]
    BY <1>3, Silent
<1>5. All(g, i) \in [Snapshots!Channels -> Nat]
    BY <1>4
<1>6. Snapshots!Tallied(First) = 1 + KernelIslands
    <2>1. /\ First["candidate"] = 0 /\ First["health"] = KernelIslands
          /\ First["started"] = 0 /\ First["prior"] = 0
          /\ First["generation"] = 1 /\ First["improved"] = 0 /\ First["reset"] = 0
          /\ First["hint"] = 0 /\ First["completed"] = 0
        BY Silent
    <2> HIDE DEF First
    <2> QED BY <1>3, <2>1 DEF Snapshots!Tallied
<1>7. Snapshots!Tallied(Rest(i)) = i
    <2> DEFINE e == Rest(i)
    <2>1. /\ e["candidate"] = 0 /\ e["health"] = 0 /\ e["started"] = 0 /\ e["prior"] = 0
          /\ e["generation"] = 0 /\ e["improved"] = i /\ e["reset"] = 0 /\ e["hint"] = 0
          /\ e["completed"] = 0
        BY Silent
    <2> HIDE DEF e
    <2>2. Snapshots!Tallied(e) = i
        BY <2>1 DEF Snapshots!Tallied
    <2> QED BY <2>2 DEF e
<1>8. Snapshots!Tallied(All(g, i)) = 1 + KernelIslands + i
    <2> DEFINE e == All(g, i)
    <2>1. /\ e["candidate"] = 0 /\ e["health"] = KernelIslands
          /\ e["started"] = 0 /\ e["prior"] = 0
          /\ e["generation"] = 1 /\ e["improved"] = i /\ e["reset"] = 0 /\ e["hint"] = 0
          /\ e["completed"] = 0
        BY Silent
    <2> HIDE DEF e
    <2>2. Snapshots!Tallied(e) = 1 + KernelIslands + i
        BY <1>3, <2>1 DEF Snapshots!Tallied
    <2> QED BY <2>2 DEF e
<1>9. gens \in Nat /\ since \in Nat /\ tally \in Nat /\ told \in Nat
    BY DEF EventsInv
<1> DEFINE events == All(g, i)
<1> HIDE DEF First, Rest, All
<1>10. /\ gens' \in Nat /\ since' \in Nat /\ tally' \in Nat /\ told' \in Nat
       /\ told' + tally' = told + tally + Snapshots!Tallied(All(g, i))
    BY <1>1, <1>2, <1>3, <1>6, <1>7, <1>8, <1>9
<1> QED BY <1>1, <1>2, <1>5, <1>10, EventsKept

LEMMA EventsJudge == ASSUME EventsInv, Snapshots!Judge PROVE EventsInv'
<1>1. PICK reset \in 0 .. 1 : \E hint \in 0 .. reset :
         Snapshots!Tell([Snapshots!Silence EXCEPT !["reset"] = reset, !["hint"] = hint])
    BY DEF Snapshots!Judge
<1>2. PICK hint \in 0 .. reset :
         Snapshots!Tell([Snapshots!Silence EXCEPT !["reset"] = reset, !["hint"] = hint])
    BY <1>1
<1>3. kernel' = kernel /\ muted' = muted /\ gens' = gens
    BY DEF Snapshots!Judge
<1>4. [Snapshots!Silence EXCEPT !["reset"] = reset, !["hint"] = hint]
      \in [Snapshots!Channels -> Nat]
    BY Silent
<1> QED BY <1>2, <1>3, <1>4, EventsTell

LEMMA EventsComplete == ASSUME EventsInv, Snapshots!Complete PROVE EventsInv'
<1>1. PICK earlier \in IF kernel = "base" THEN 0 .. 1 ELSE {0} :
         Snapshots!Tell([Snapshots!Silence EXCEPT !["completed"] = 1, !["prior"] = earlier])
    BY DEF Snapshots!Complete
<1>2. kernel' = kernel /\ muted' = muted /\ gens' = gens
    BY DEF Snapshots!Complete
<1>3. [Snapshots!Silence EXCEPT !["completed"] = 1, !["prior"] = earlier]
      \in [Snapshots!Channels -> Nat]
    BY Silent
<1> QED BY <1>1, <1>2, <1>3, EventsTell

LEMMA EventsSame ==
    ASSUME EventsInv, UNCHANGED <<kernel, muted, gens, tally, since, sampled, logged,
                                  live, told>>
    PROVE  EventsInv'
BY DEF EventsInv, Snapshots!EventsAccounted, Snapshots!LiveIsThinned, Snapshots!Mute,
       Snapshots!SampleEvery

LEMMA EventsStep == ASSUME EventsInv, Snapshots!Next PROVE EventsInv'
<1>1. CASE Snapshots!Done
    BY <1>1, EventsSame DEF Snapshots!Done, Snapshots!eventVars
<1> QED BY <1>1, EventsStart, EventsCandidates, EventsReport, EventsJudge,
           EventsComplete DEF Snapshots!Next

(* However rarely a kernel may tell of its events, its snapshots leave     *)
(* none out, and its knobs thin the live bus by their factor and not the   *)
(* log.                                                                    *)
THEOREM SnapshotsLoseNothing == Spec => []EventsSound
<1> DEFINE I == machine = "snapshot" => EventsInv
<1>1. Init => I
    BY EventsInit DEF Init
<1>2. I /\ [Next]_vars => I'
    <2> SUFFICES ASSUME I, [Next]_vars, machine' = "snapshot" PROVE EventsInv'
        OBVIOUS
    <2>1. CASE SnapshotNext
        BY <2>1, EventsStep DEF SnapshotNext
    <2>2. CASE UNCHANGED vars
        BY <2>2, EventsSame DEF vars, snapshotOnly
    <2>3. CASE Next /\ ~SnapshotNext
        <3>1. machine = "snapshot"
            BY <2>3, OneMachine
        <3> QED BY <2>3, <3>1 DEF Next, SessionNext, PopulationNext, RoundNext,
               ReportNext, TspNext, MemoryNext, ScoreNext, DomainNext, SweepNext
    <2> QED BY <2>1, <2>2, <2>3
<1>3. I => EventsSound
    BY DEF EventsInv, EventsSound, Snapshots!EventsSound
<1> QED BY <1>1, <1>2, <1>3, PTL DEF Spec
-----------------------------------------------------------------------------
(* A round of curveballs.                                                  *)
Judged == VerdictKinds \cup {"RE"}

Curves == {Round!Curveball(m, a) : m \in Round!Aims, a \in Round!Answers}

(* How often each value of a set has been seen.                            *)
Bags(S) == UNION {[T -> Nat] : T \in SUBSET S}

Figures == [cases : Nat, counts : Bags(Judged), traps : Bags(Round!Aims)]

(* What the round has aimed at, and which of its aims were met.            *)
AimsOf(c) == [k \in 1 .. Len(c) |-> c[k].mode]

SprungBy(v, c) == {k \in 1 .. Len(v) : Round!Sprung(v[k], c[k].mode)}

RoundInv ==
    /\ pc \in {"Idle", "Generate", "Evaluate"} /\ size \in Nat
    /\ Round!SolverReturned
    /\ target \in Seq(Round!Aims) /\ cases \in Seq(Curves) /\ verdicts \in Seq(Judged)
    /\ pc = "Generate" => Len(verdicts) = Len(cases)
    /\ pc = "Evaluate" => Len(verdicts) + 1 = Len(cases)
    /\ pc # "Idle" => /\ counts = Round!Tally(verdicts, 1 .. Len(verdicts))
                      /\ traps = Round!Tally(AimsOf(cases), SprungBy(verdicts, cases))
    /\ reports \in Seq(Figures) /\ Round!RoundAccounted

LEMMA RoundFacts ==
    /\ Sizes \subseteq Nat /\ Targets \subseteq Seq(Round!Aims)
    /\ \A S : Round!Cardinality(S) = Cardinality(S)
<1>1. Round!ValidRound
    BY EvolutionAssumption
<1>2. \A S : Round!Cardinality(S) = Cardinality(S)
    BY DEF Round!Cardinality, Cardinality, Round!IsFiniteSet, IsFiniteSet
<1> QED BY <1>1, <1>2 DEF Round!ValidRound

LEMMA CurvesAim ==
    /\ \A c \in Curves : c.mode \in Round!Aims
    /\ \A m \in Round!Aims, a \in Round!Answers :
          /\ Round!Curveball(m, a) \in Curves /\ Round!Curveball(m, a).mode = m
    /\ None \in Round!Aims
BY DEF Curves, Round!Curveball, Round!Aims

(* A tally is a bag, and it is the same for functions that agree.          *)
LEMMA TallyIsBag ==
    ASSUME NEW S, NEW f, NEW places, IsFiniteSet(places), \A k \in places : f[k] \in S
    PROVE  Round!Tally(f, places) \in Bags(S)
<1> DEFINE T == {f[k] : k \in places}
<1>1. T \in SUBSET S
    OBVIOUS
<1>2. \A x : Cardinality({k \in places : f[k] = x}) \in Nat
    <2> SUFFICES ASSUME NEW x PROVE Cardinality({k \in places : f[k] = x}) \in Nat
        OBVIOUS
    <2>1. {k \in places : f[k] = x} \in SUBSET places
        OBVIOUS
    <2> QED BY <2>1, FS_Subset, FS_CardinalityType
<1>3. Round!Tally(f, places) = [x \in T |-> Cardinality({k \in places : f[k] = x})]
    BY RoundFacts DEF Round!Tally
<1>4. Round!Tally(f, places) \in [T -> Nat]
    BY <1>2, <1>3
<1> QED BY <1>1, <1>4 DEF Bags

LEMMA SameTally ==
    ASSUME NEW f, NEW g, NEW places, \A k \in places : f[k] = g[k]
    PROVE  Round!Tally(f, places) = Round!Tally(g, places)
<1>1. {f[k] : k \in places} = {g[k] : k \in places}
    OBVIOUS
<1>2. \A x : {k \in places : f[k] = x} = {k \in places : g[k] = x}
    OBVIOUS
<1> QED BY <1>1, <1>2 DEF Round!Tally

(* One more, as verdict_counts and failure_categories count it.            *)
LEMMA CountedOnce ==
    ASSUME NEW f, NEW places, IsFiniteSet(places), NEW n, n \notin places
    PROVE  Round!Counted(Round!Tally(f, places), f[n]) = Round!Tally(f, places \cup {n})
<1> DEFINE x == f[n]
           All == places \cup {n}
           bag == Round!Tally(f, places)
           Of(y) == {k \in places : f[k] = y}
           OfAll(y) == {k \in All : f[k] = y}
<1>1. /\ DOMAIN bag = {f[k] : k \in places}
      /\ \A y \in DOMAIN bag : bag[y] = Cardinality(Of(y))
    BY RoundFacts DEF Round!Tally
<1>2. Round!Tally(f, All) = [y \in {f[k] : k \in All} |-> Cardinality(OfAll(y))]
    BY RoundFacts DEF Round!Tally
<1>3. DOMAIN bag \cup {x} = {f[k] : k \in All}
    BY <1>1
<1>4. \A y : IsFiniteSet(Of(y)) /\ Cardinality(Of(y)) \in Nat
    <2> SUFFICES ASSUME NEW y PROVE IsFiniteSet(Of(y)) /\ Cardinality(Of(y)) \in Nat
        OBVIOUS
    <2>1. Of(y) \in SUBSET places
        OBVIOUS
    <2> QED BY <2>1, FS_Subset, FS_CardinalityType
<1>5. Cardinality(OfAll(x)) = Cardinality(Of(x)) + 1
    <2>1. OfAll(x) = Of(x) \cup {n} /\ n \notin Of(x)
        OBVIOUS
    <2> HIDE DEF Of, OfAll, x
    <2> QED BY <1>4, <2>1, FS_AddElement
<1>6. \A y : y # x => OfAll(y) = Of(y)
    OBVIOUS
<1>7. x \notin DOMAIN bag => Cardinality(Of(x)) = 0
    <2>1. x \notin DOMAIN bag => Of(x) = {}
        BY <1>1
    <2> QED BY <2>1, FS_EmptySet
<1>8. ASSUME NEW y \in DOMAIN bag \cup {x}
      PROVE  (IF y \in DOMAIN bag THEN bag[y] ELSE 0) + (IF y = x THEN 1 ELSE 0)
             = Cardinality(OfAll(y))
    <2> HIDE DEF bag, x, Of, OfAll
    <2>1. CASE y = x
        BY <1>1, <1>4, <1>5, <1>7, <2>1
    <2>2. CASE y # x
        BY <1>1, <1>4, <1>6, <1>8, <2>2
    <2> QED BY <2>1, <2>2
<1>9. Round!Counted(bag, x) = [y \in DOMAIN bag \cup {x} |-> Cardinality(OfAll(y))]
    <2> HIDE DEF bag, x, OfAll
    <2> QED BY <1>8 DEF Round!Counted
<1> QED BY <1>2, <1>3, <1>9

LEMMA RoundInit == ASSUME Round!Init PROVE RoundInv
<1>1. /\ pc = "Idle" /\ size = 0 /\ target = <<>> /\ cases = <<>> /\ verdicts = <<>>
      /\ solver = "caller" /\ reports = <<>>
    BY DEF Round!Init
<1>2. Round!RoundAccounted
    BY <1>1 DEF Round!RoundAccounted
<1> QED BY <1>1, <1>2 DEF RoundInv, Round!SolverReturned

LEMMA AccountsStay ==
    ASSUME reports' = reports, Round!RoundAccounted PROVE Round!RoundAccounted'
<1> DEFINE Accounted(all) ==
        \A n \in DOMAIN all :
            LET a == all[n]
            IN  \E v \in [1 .. a.cases -> VerdictKinds \cup {"RE"}],
                   aim \in [1 .. a.cases -> Round!Aims] :
                    /\ a.counts = Round!Tally(v, 1 .. a.cases)
                    /\ a.traps = Round!Tally(aim, {k \in 1 .. a.cases : Round!Sprung(v[k], aim[k])})
<1>1. (Round!RoundAccounted <=> Accounted(reports))
      /\ (Round!RoundAccounted' <=> Accounted(reports'))
    BY ZenonT(20) DEF Round!RoundAccounted
<1> HIDE DEF Accounted
<1> QED BY <1>1

LEMMA RoundBegin == ASSUME RoundInv, Round!Begin PROVE RoundInv'
<1>1. /\ pc' = "Generate" /\ solver' = "worker" /\ size' \in Sizes /\ target' \in Targets
      /\ cases' = <<>> /\ verdicts' = <<>> /\ counts' = <<>> /\ traps' = <<>>
      /\ reports' = reports
    BY DEF Round!Begin
<1>2. /\ cases' \in Seq(Curves) /\ verdicts' \in Seq(Judged)
      /\ Len(verdicts') = 0 /\ Len(cases') = 0
    BY <1>1
<1>3. \A f : Round!Tally(f, {}) = <<>>
    <2> SUFFICES ASSUME NEW f PROVE Round!Tally(f, {}) = <<>>
        OBVIOUS
    <2>1. {f[k] : k \in {}} = {}
        OBVIOUS
    <2>2. <<>> = [x \in {} |-> Cardinality({k \in {} : f[k] = x})]
        OBVIOUS
    <2> QED BY <2>1, <2>2, RoundFacts DEF Round!Tally
<1>4. /\ 1 .. Len(verdicts') = {} /\ SprungBy(verdicts', cases') = {}
    BY <1>2 DEF SprungBy
<1>5. /\ counts' = Round!Tally(verdicts', 1 .. Len(verdicts'))
      /\ traps' = Round!Tally(AimsOf(cases'), SprungBy(verdicts', cases'))
    BY <1>1, <1>3, <1>4
<1>6. reports \in Seq(Figures) /\ Round!RoundAccounted
    BY DEF RoundInv
<1>7. Round!RoundAccounted'
    BY <1>1, <1>6, AccountsStay
<1>8. Round!SolverReturned'
    BY <1>1 DEF Round!SolverReturned
<1>9. size' \in Nat /\ target' \in Seq(Round!Aims)
    BY <1>1, RoundFacts
<1> QED BY <1>1, <1>2, <1>5, <1>6, <1>7, <1>8, <1>9 DEF RoundInv, AimsOf, SprungBy,
        Round!Tally, Round!Sprung, Round!Aims

(* What is unchanged between two verdicts.                                 *)
LEMMA RoundStops ==
    ASSUME RoundInv, pc' = "Idle", solver' = "caller",
           UNCHANGED <<size, target, cases, verdicts, counts, traps, reports>>
    PROVE  RoundInv'
<1>1. Round!RoundAccounted'
    BY AccountsStay DEF RoundInv
<1>2. Round!SolverReturned'
    BY DEF Round!SolverReturned
<1> QED BY <1>1, <1>2 DEF RoundInv

LEMMA RoundGenerate == ASSUME RoundInv, Round!Generate PROVE RoundInv'
<1>1. PICK answer \in Round!Answers :
         IF Round!Raises(answer) THEN Round!Abandon /\ cases' = cases
         ELSE /\ cases' = Append(cases, Round!Curveball(Round!Steered, answer))
              /\ pc' = "Evaluate" /\ solver' = solver
    BY DEF Round!Generate
<1>2. /\ pc = "Generate" /\ size' = size /\ target' = target /\ verdicts' = verdicts
      /\ counts' = counts /\ traps' = traps /\ reports' = reports
    BY DEF Round!Generate
<1>3. CASE Round!Raises(answer)
    BY <1>1, <1>2, <1>3, RoundStops DEF Round!Abandon
<1>4. CASE ~Round!Raises(answer)
    <2> DEFINE c == Round!Curveball(Round!Steered, answer)
               n == Len(cases)
    <2>1. /\ cases \in Seq(Curves) /\ verdicts \in Seq(Judged) /\ target \in Seq(Round!Aims)
          /\ Len(verdicts) = n /\ n \in Nat
        <3>1. cases \in Seq(Curves) /\ verdicts \in Seq(Judged) /\ target \in Seq(Round!Aims)
              /\ Len(verdicts) = n
            BY <1>2 DEF RoundInv
        <3> QED BY <3>1, LenProperties
    <2>2. Round!Steered \in Round!Aims
        <3>1. n < Len(target) => n + 1 \in 1 .. Len(target)
            BY <2>1, LenProperties
        <3>2. n < Len(target) => target[n + 1] \in Round!Aims
            BY <2>1, <3>1, ElementOfSeq
        <3> QED BY <3>2, CurvesAim DEF Round!Steered
    <2>3. c \in Curves
        BY <2>2, CurvesAim
    <2>4. cases' = Append(cases, c) /\ pc' = "Evaluate" /\ solver' = solver
        BY <1>1, <1>4
    <2> HIDE DEF c
    <2>5. /\ cases' \in Seq(Curves) /\ Len(cases') = n + 1
          /\ \A k \in 1 .. n : cases'[k] = cases[k]
        BY <2>1, <2>3, <2>4, Appended
    <2>6. SprungBy(verdicts, cases') = SprungBy(verdicts, cases)
        BY <2>1, <2>5 DEF SprungBy
    <2>7. SprungBy(verdicts, cases) \subseteq 1 .. n
        BY <2>1 DEF SprungBy
    <2>8. \A k \in SprungBy(verdicts, cases) : AimsOf(cases')[k] = AimsOf(cases)[k]
        <3>1. \A k \in 1 .. n : k \in 1 .. n + 1
            BY <2>1
        <3> QED BY <2>5, <2>7, <3>1 DEF AimsOf
    <2>9. traps = Round!Tally(AimsOf(cases), SprungBy(verdicts, cases))
          /\ counts = Round!Tally(verdicts, 1 .. Len(verdicts))
        BY <1>2 DEF RoundInv
    <2>10. traps = Round!Tally(AimsOf(cases'), SprungBy(verdicts, cases'))
        BY <2>6, <2>8, <2>9, SameTally
    <2>11. reports \in Seq(Figures) /\ Round!RoundAccounted /\ size \in Nat
           /\ Round!SolverReturned
        BY DEF RoundInv
    <2>12. Round!RoundAccounted'
        BY <1>2, <2>11, AccountsStay
    <2>13. Round!SolverReturned'
        BY <1>2, <2>4, <2>11 DEF Round!SolverReturned
    <2> HIDE DEF n
    <2>14. Len(verdicts) + 1 = Len(cases')
        BY <2>1, <2>5 DEF n
    <2>15. traps' = Round!Tally(AimsOf(cases)', SprungBy(verdicts, cases)')
        BY <1>2, <2>10 DEF AimsOf, SprungBy, Round!Sprung
    <2>16. counts' = Round!Tally(verdicts', 1 .. Len(verdicts'))
        BY <1>2, <2>9
    <2> QED BY <1>2, <2>1, <2>4, <2>5, <2>11, <2>12, <2>13, <2>14, <2>15, <2>16
            DEF RoundInv
<1> QED BY <1>3, <1>4

LEMMA RoundEvaluate == ASSUME RoundInv, Round!Evaluate PROVE RoundInv'
<1> DEFINE n == Len(verdicts)
           mode == cases[Len(cases)].mode
<1>1. PICK v \in Judged :
         /\ verdicts' = Append(verdicts, v)
         /\ counts' = Round!Counted(counts, v)
         /\ traps' = IF Round!Sprung(v, mode) THEN Round!Counted(traps, mode) ELSE traps
    BY DEF Round!Evaluate, Judged
<1>2. /\ pc = "Evaluate" /\ pc' = "Generate" /\ size' = size /\ target' = target
      /\ cases' = cases /\ solver' = solver /\ reports' = reports
    BY DEF Round!Evaluate
<1>3. /\ cases \in Seq(Curves) /\ verdicts \in Seq(Judged) /\ n + 1 = Len(cases)
      /\ target \in Seq(Round!Aims) /\ size \in Nat
      /\ counts = Round!Tally(verdicts, 1 .. n)
      /\ traps = Round!Tally(AimsOf(cases), SprungBy(verdicts, cases))
      /\ reports \in Seq(Figures) /\ Round!RoundAccounted /\ Round!SolverReturned
    BY <1>2 DEF RoundInv
<1>4. /\ verdicts' \in Seq(Judged) /\ Len(verdicts') = n + 1 /\ n \in Nat
      /\ \A k \in 1 .. n : verdicts'[k] = verdicts[k]
      /\ verdicts'[n + 1] = v
    BY <1>1, <1>3, Appended
<1> HIDE DEF n
<1>5. 1 .. n + 1 = 1 .. n \cup {n + 1} /\ n + 1 \notin 1 .. n
    BY <1>4
<1>6. counts' = Round!Tally(verdicts', 1 .. n + 1)
    <2>1. Round!Tally(verdicts, 1 .. n) = Round!Tally(verdicts', 1 .. n)
        BY <1>4, SameTally
    <2>2. IsFiniteSet(1 .. n)
        BY <1>4, FS_Interval
    <2>3. Round!Counted(Round!Tally(verdicts', 1 .. n), verdicts'[n + 1])
          = Round!Tally(verdicts', 1 .. n \cup {n + 1})
        BY <1>5, <2>2, CountedOnce, ZenonT(60)
    <2> QED BY <1>1, <1>3, <1>4, <1>5, <2>1, <2>3
<1> DEFINE S == SprungBy(verdicts, cases)
           aims == AimsOf(cases)
<1>7. traps' = Round!Tally(aims, SprungBy(verdicts', cases))
    <2>1. aims[n + 1] = mode
        <3>1. n + 1 \in 1 .. Len(cases)
            BY <1>3, <1>4
        <3> QED BY <1>3, <3>1 DEF AimsOf
    <2>2. SprungBy(verdicts', cases)
          = IF Round!Sprung(v, mode) THEN S \cup {n + 1} ELSE S
        <3>1. SprungBy(verdicts', cases)
              = {k \in 1 .. n + 1 : Round!Sprung(verdicts'[k], cases[k].mode)}
            BY <1>4 DEF SprungBy
        <3>2. S = {k \in 1 .. n : Round!Sprung(verdicts[k], cases[k].mode)}
            BY DEF SprungBy, n
        <3>3. cases[n + 1].mode = mode
            BY <1>3
        <3> HIDE DEF S, mode
        <3> QED BY <1>4, <1>5, <3>1, <3>2, <3>3
    <2>3. IsFiniteSet(S) /\ n + 1 \notin S
        <3>1. S \in SUBSET (1 .. n)
            BY DEF SprungBy, n
        <3>2. IsFiniteSet(1 .. n)
            BY <1>4, FS_Interval
        <3> HIDE DEF S
        <3>3. IsFiniteSet(S)
            BY <3>1, <3>2, FS_Subset
        <3> QED BY <1>5, <3>1, <3>3
    <2> HIDE DEF S, aims, mode
    <2>4. Round!Counted(Round!Tally(aims, S), aims[n + 1]) = Round!Tally(aims, S \cup {n + 1})
        BY <2>3, CountedOnce
    <2>5. traps = Round!Tally(aims, S)
        BY <1>3 DEF aims, S
    <2> QED BY <1>1, <2>1, <2>2, <2>4, <2>5 DEF mode
<1>8. Round!RoundAccounted'
    BY ZenonT(30), <1>2, <1>3 DEF Round!RoundAccounted
<1>9. Round!SolverReturned'
    BY <1>2, <1>3 DEF Round!SolverReturned
<1>10. traps' = Round!Tally(AimsOf(cases)', SprungBy(verdicts, cases)')
    BY <1>2, <1>7 DEF AimsOf, SprungBy, Round!Sprung
<1>11. counts' = Round!Tally(verdicts', 1 .. Len(verdicts'))
    BY <1>4, <1>6
<1> QED BY <1>2, <1>3, <1>4, <1>8, <1>9, <1>10, <1>11 DEF RoundInv

(* The report is made of the verdicts and of the aims of the round.        *)
LEMMA RoundFinish == ASSUME RoundInv, Round!Finish PROVE RoundInv'
<1> DEFINE n == Len(cases)
           r == [cases |-> n, counts |-> counts, traps |-> traps]
<1>1. /\ pc = "Generate" /\ pc' = "Idle" /\ solver' = "caller"
      /\ reports' = Append(reports, r)
      /\ size' = size /\ target' = target /\ cases' = cases /\ verdicts' = verdicts
      /\ counts' = counts /\ traps' = traps
    BY DEF Round!Finish
<1>2. /\ cases \in Seq(Curves) /\ verdicts \in Seq(Judged) /\ Len(verdicts) = n
      /\ counts = Round!Tally(verdicts, 1 .. n)
      /\ traps = Round!Tally(AimsOf(cases), SprungBy(verdicts, cases))
      /\ reports \in Seq(Figures) /\ Round!RoundAccounted
      /\ target \in Seq(Round!Aims) /\ size \in Nat
    BY <1>1 DEF RoundInv
<1>3. n \in Nat /\ (\A k \in 1 .. n : verdicts[k] \in Judged /\ cases[k] \in Curves)
    BY <1>2, LenProperties, ElementOfSeq
<1>4. /\ verdicts \in [1 .. n -> Judged] /\ AimsOf(cases) \in [1 .. n -> Round!Aims]
      /\ \A k \in 1 .. n : AimsOf(cases)[k] = cases[k].mode
    BY <1>2, <1>3, CurvesAim DEF AimsOf
<1>5. SprungBy(verdicts, cases)
      = {k \in 1 .. n : Round!Sprung(verdicts[k], AimsOf(cases)[k])}
    BY <1>2, <1>4 DEF SprungBy
<1>6. IsFiniteSet(1 .. n) /\ IsFiniteSet(SprungBy(verdicts, cases))
    <2>1. IsFiniteSet(1 .. n)
        BY <1>3, FS_Interval
    <2>2. SprungBy(verdicts, cases) \in SUBSET (1 .. n)
        BY <1>5
    <2> QED BY <2>1, <2>2, FS_Subset
<1>7. counts \in Bags(Judged)
    BY <1>2, <1>3, <1>6, TallyIsBag
<1>8. traps \in Bags(Round!Aims)
    <2>1. \A k \in SprungBy(verdicts, cases) : AimsOf(cases)[k] \in Round!Aims
        BY <1>4, <1>5
    <2> QED BY <1>2, <1>6, <2>1, TallyIsBag
<1>9. r \in Figures
    BY <1>3, <1>7, <1>8 DEF Figures
<1>10. \E v \in [1 .. n -> Judged], aim \in [1 .. n -> Round!Aims] :
           /\ counts = Round!Tally(v, 1 .. n)
           /\ traps = Round!Tally(aim, {k \in 1 .. n : Round!Sprung(v[k], aim[k])})
    BY <1>2, <1>4, <1>5
<1>11. /\ r.cases = n /\ r.counts = counts /\ r.traps = traps
    OBVIOUS
<1> HIDE DEF r, n
<1>12. /\ reports' \in Seq(Figures) /\ Len(reports) \in Nat
       /\ DOMAIN reports = 1 .. Len(reports) /\ DOMAIN reports' = 1 .. Len(reports) + 1
       /\ \A k \in 1 .. Len(reports) : reports'[k] = reports[k]
       /\ reports'[Len(reports) + 1] = r
    BY <1>1, <1>2, <1>9, Appended
<1>13. Round!RoundAccounted'
    <2> DEFINE Fits(q) == \E v \in [1 .. q.cases -> Judged],
                             aim \in [1 .. q.cases -> Round!Aims] :
              /\ q.counts = Round!Tally(v, 1 .. q.cases)
              /\ q.traps = Round!Tally(aim, {k \in 1 .. q.cases : Round!Sprung(v[k], aim[k])})
    <2>1. \A k \in DOMAIN reports : Fits(reports[k])
        BY <1>2 DEF Round!RoundAccounted, Judged
    <2>2. Fits(r)
        BY <1>10, <1>11
    <2> HIDE DEF Fits
    <2>3. \A k \in 1 .. Len(reports) + 1 : k \in 1 .. Len(reports) \/ k = Len(reports) + 1
        BY <1>12
    <2>4. \A k \in DOMAIN reports' : Fits(reports'[k])
        BY <1>12, <2>1, <2>2, <2>3
    <2> QED BY <2>4 DEF Fits, Round!RoundAccounted, Judged
<1>14. Round!SolverReturned'
    BY <1>1 DEF Round!SolverReturned
<1> QED BY <1>1, <1>2, <1>12, <1>13, <1>14 DEF RoundInv

LEMMA RoundStep == ASSUME RoundInv, Round!Next PROVE RoundInv'
<1>1. CASE Round!EvaluatorRaises
    BY <1>1, RoundStops DEF Round!EvaluatorRaises, Round!Abandon
<1> QED BY <1>1, RoundBegin, RoundGenerate, RoundEvaluate, RoundFinish DEF Round!Next

(* A round gives the evaluator back however it ends, and what it tells of  *)
(* its cases are the tallies of one verdict for each.                      *)
THEOREM RoundsAreAccounted == Spec => []RoundSound
<1> DEFINE I == machine = "round" => RoundInv
<1>1. Init => I
    BY RoundInit DEF Init
<1>2. I /\ [Next]_vars => I'
    <2> SUFFICES ASSUME I, [Next]_vars, machine' = "round" PROVE RoundInv'
        OBVIOUS
    <2>1. CASE RoundNext
        BY <2>1, RoundStep DEF RoundNext
    <2>2. CASE UNCHANGED vars
        <3>1. /\ RoundInv /\ pc' = pc /\ solver' = solver
              /\ UNCHANGED <<size, target, cases, verdicts, counts, traps, reports>>
            BY <2>2 DEF vars, roundOnly
        <3>2. Round!RoundAccounted' /\ Round!SolverReturned'
            BY <3>1 DEF RoundInv, Round!RoundAccounted, Round!SolverReturned
        <3> QED BY <3>1, <3>2 DEF RoundInv, AimsOf, SprungBy, Round!Sprung
    <2>3. CASE Next /\ ~RoundNext
        <3>1. machine = "round"
            BY <2>3, OneMachine
        <3> QED BY <2>3, <3>1 DEF Next, SessionNext, PopulationNext, SnapshotNext,
               ReportNext, TspNext, MemoryNext, ScoreNext, DomainNext, SweepNext
    <2> QED BY <2>1, <2>2, <2>3
<1>3. I => RoundSound
    BY DEF RoundInv, RoundSound
<1> QED BY <1>1, <1>2, <1>3, PTL DEF Spec
-----------------------------------------------------------------------------
(* The TSP kernel.                                                         *)
Waves == [island : Islands, code : BOOLEAN]

Entries == [gen : Nat, best : Nat, reset : BOOLEAN]

(* A population: never empty, and best first.                              *)
Sorted(p) ==
    /\ p \in Seq(Nat) /\ Len(p) >= 1
    /\ \A a, b \in 1 .. Len(p) : a <= b => p[a] >= p[b]

(* best_program is the best of its population, or there is none because    *)
(* none works.                                                             *)
HeadOrNone(t, p) == \A i \in Islands : t[i] = p[i][1] \/ (t[i] = None /\ p[i][1] = 0)

TopsAreHeads == HeadOrNone(tops, pops)

(* While nothing works the last island is never reset, so it has one.      *)
LastHasOne == found = 0 => tops[Cardinality(Islands)] # None

(* The best program ever measured is still in some population, and outside *)
(* a generation best_program is up to date.                                *)
TspSearch ==
    /\ phase \in {"check", "evaluate", "judge", "done"}
    /\ seed \in Nat /\ gen \in Nat /\ requests \in Nat /\ found \in Nat /\ mark \in Nat
    /\ pops \in [Islands -> Seq(Nat)] /\ \A i \in Islands : Sorted(pops[i])
    /\ tops \in [Islands -> Nat \cup {None}] /\ wave \in Seq(Waves)
    /\ seed <= found /\ mark <= found
    /\ \A i \in Islands : pops[i][1] <= found
    /\ \E i \in Islands : pops[i][1] = found
    /\ \A i \in Islands : tops[i] # None => tops[i] <= pops[i][1]
    /\ phase # "evaluate" => TopsAreHeads /\ mark = found
    /\ LastHasOne
    /\ phase = "judge" => gen >= 1
    /\ phase = "done" => result = found
    /\ Tsp!WithinBudget

TspTold ==
    /\ history \in Seq(Entries) /\ resets \in SUBSET (1 .. gen)
    /\ Tsp!HistoryIsTrue
    /\ history # <<>> => history[Len(history)].best <= found

TspInv == TspSearch /\ TspTold

LEMMA TspFacts ==
    /\ Islands = 1 .. Cardinality(Islands) /\ Cardinality(Islands) \in Nat
    /\ Cardinality(Islands) >= 2
    /\ Pop \in Nat \ {0} /\ Seeds \in Nat \ {0} /\ PerIsland \in Nat
    /\ Generations \in Nat /\ MaxRatio \in Nat \ {0} /\ IsFiniteSet(Instances)
    /\ MaxRequests \in Nat \cup {None} /\ None \notin Nat
    /\ \A S : Tsp!Cardinality(S) = Cardinality(S)
    /\ Tsp!Calls \in Nat \ {0} /\ Tsp!WaveSize = Cardinality(Islands) * Tsp!Calls
<1>1. \A S : Tsp!Cardinality(S) = Cardinality(S)
    BY DEF Tsp!Cardinality, Cardinality, Tsp!IsFiniteSet, IsFiniteSet
<1>2. \A S : Tsp!IsFiniteSet(S) <=> IsFiniteSet(S)
    BY DEF Tsp!IsFiniteSet, IsFiniteSet
<1>3. Tsp!ValidTsp
    BY EvolutionAssumption
<1>4. /\ Islands = 1 .. Cardinality(Islands) /\ Cardinality(Islands) >= 2
      /\ IsFiniteSet(Islands)
      /\ Pop \in Nat \ {0} /\ Seeds \in Nat \ {0} /\ PerIsland \in Nat
      /\ Generations \in Nat /\ MaxRatio \in Nat \ {0} /\ IsFiniteSet(Instances)
      /\ MaxRequests \in Nat \cup {None} /\ None \notin Nat
    BY <1>1, <1>2, <1>3 DEF Tsp!ValidTsp
<1>5. Cardinality(Islands) \in Nat
    BY <1>4, FS_CardinalityType
<1>6. Tsp!Calls \in Nat \ {0}
    BY <1>4 DEF Tsp!Calls, Tsp!Larger
<1> QED BY <1>1, <1>4, <1>5, <1>6 DEF Tsp!WaveSize

(* A fitness is a number of units.                                         *)
LEMMA FitnessIsNatural ==
    /\ Tsp!SeedFitness \subseteq Nat
    /\ \A code \in BOOLEAN : Tsp!FitnessOf(code) \subseteq Nat
<1>1. Cardinality(Instances) \in Nat
    BY TspFacts, FS_CardinalityType
<1>2. IsFiniteSet(Instances \X (1 .. MaxRatio))
    <2>1. IsFiniteSet(1 .. MaxRatio)
        BY TspFacts, FS_Interval
    <2> QED BY <2>1, TspFacts, FS_Product
<1>3. ASSUME NEW o \in [Instances -> Tsp!Outcomes]
      PROVE  Cardinality({u \in Instances \X (1 .. MaxRatio) :
                              u[2] <= Tsp!RatioTo(o[u[1]])}) \in Nat
    <2> DEFINE U == {u \in Instances \X (1 .. MaxRatio) : u[2] <= Tsp!RatioTo(o[u[1]])}
    <2>1. U \in SUBSET (Instances \X (1 .. MaxRatio))
        OBVIOUS
    <2> HIDE DEF U
    <2>2. IsFiniteSet(U)
        BY <1>2, <2>1, FS_Subset
    <2>3. Cardinality(U) \in Nat
        BY <2>2, FS_CardinalityType
    <2> QED BY <2>3 DEF U
<1>4. Tsp!Fitnesses \subseteq Nat
    BY <1>3, TspFacts DEF Tsp!Fitnesses
<1>5. Tsp!SeedFitness \subseteq Nat
    BY <1>1, TspFacts DEF Tsp!SeedFitness
<1> QED BY <1>4, <1>5 DEF Tsp!FitnessOf

LEMMA SequenceOf ==
    ASSUME NEW n \in Nat, NEW S, NEW f \in [1 .. n -> S]
    PROVE  f \in Seq(S) /\ Len(f) = n /\ \A k \in 1 .. n : f[k] \in S
<1>1. f \in Seq(S)
    BY SeqDef
<1>2. DOMAIN f = 1 .. Len(f) /\ Len(f) \in Nat
    BY <1>1, LenProperties
<1>3. DOMAIN f = 1 .. n
    OBVIOUS
<1>4. 1 .. Len(f) = 1 .. n
    BY <1>2, <1>3
<1>5. Len(f) = n
    BY <1>2, <1>4
<1> QED BY <1>1, <1>5

(* What an island is given when it starts, or starts again.                *)
LEMMA FreshIs ==
    ASSUME NEW f \in Nat
    PROVE  Sorted(Tsp!Fresh(f)) /\ Tsp!Fresh(f)[1] = f
<1> DEFINE n == Tsp!Larger(Pop, Seeds)
<1>1. n \in Nat /\ n >= 1
    BY TspFacts DEF Tsp!Larger
<1> HIDE DEF n
<1>2. Tsp!Fresh(f) \in [1 .. n -> Nat] /\ \A k \in 1 .. n : Tsp!Fresh(f)[k] = f
    BY DEF Tsp!Fresh, n
<1>3. Tsp!Fresh(f) \in Seq(Nat) /\ Len(Tsp!Fresh(f)) = n
    BY <1>1, <1>2, SequenceOf
<1> QED BY <1>1, <1>2, <1>3 DEF Sorted

(* A candidate takes its place, and the best of the population and of the  *)
(* candidate is the first.                                                 *)
LEMMA InsertedIs ==
    ASSUME NEW p, Sorted(p), NEW f \in Nat
    PROVE  /\ Sorted(Tsp!Inserted(p, f))
           /\ Tsp!Inserted(p, f)[1] = Tsp!Larger(p[1], f)
<1> DEFINE n == Len(p)
           q == Tsp!Inserted(p, f)
<1>1. /\ n \in Nat /\ n >= 1 /\ \A k \in 1 .. n : p[k] \in Nat
      /\ \A a, b \in 1 .. n : a <= b => p[a] >= p[b]
    <2>1. p \in Seq(Nat) /\ n >= 1 /\ \A a, b \in 1 .. n : a <= b => p[a] >= p[b]
        BY DEF Sorted
    <2> QED BY <2>1, LenProperties, ElementOfSeq
<1> HIDE DEF n
<1>2. q = [k \in 1 .. n + 1 |->
              IF k <= n /\ p[k] >= f THEN p[k]
              ELSE IF k = 1 \/ p[k - 1] >= f THEN f ELSE p[k - 1]]
    BY DEF Tsp!Inserted, n
<1> HIDE DEF q
<1>3. \A k \in 1 .. n + 1 : k = 1 \/ k - 1 \in 1 .. n
    BY <1>1
<1>4. \A k \in 1 .. n + 1 : q[k] \in Nat
    <2> TAKE k \in 1 .. n + 1
    <2>1. k <= n => k \in 1 .. n
        BY <1>1
    <2>2. k = 1 \/ p[k - 1] \in Nat
        BY <1>1, <1>3
    <2>3. q[k] = IF k <= n /\ p[k] >= f THEN p[k]
                 ELSE IF k = 1 \/ p[k - 1] >= f THEN f ELSE p[k - 1]
        BY <1>2
    <2> QED BY <1>1, <2>1, <2>2, <2>3
<1>5. q \in Seq(Nat) /\ Len(q) = n + 1
    <2>1. q \in [1 .. n + 1 -> Nat] /\ n + 1 \in Nat
        BY <1>1, <1>2, <1>4
    <2> QED BY <2>1, SequenceOf
<1>6. ASSUME NEW a \in 1 .. n + 1, NEW b \in 1 .. n + 1, a < b
      PROVE  q[a] >= q[b]
    <2>1. a \in 1 .. n /\ b - 1 \in 1 .. n /\ a <= b - 1 /\ b # 1
        BY <1>1, <1>6
    <2>2. /\ q[a] = IF p[a] >= f THEN p[a]
                    ELSE IF a = 1 \/ p[a - 1] >= f THEN f ELSE p[a - 1]
          /\ q[b] = IF b <= n /\ p[b] >= f THEN p[b]
                    ELSE IF p[b - 1] >= f THEN f ELSE p[b - 1]
        BY <1>1, <1>2, <2>1
    <2>3. /\ p[a] \in Nat /\ p[b - 1] \in Nat /\ p[a] >= p[b - 1]
          /\ b <= n => (p[b] \in Nat /\ p[b - 1] >= p[b])
        <3>1. b <= n => b \in 1 .. n /\ b - 1 <= b
            BY <1>6
        <3> QED BY <1>1, <2>1, <3>1
    <2>4. a = 1 \/ (p[a - 1] \in Nat /\ p[a - 1] >= p[a])
        <3>1. a = 1 \/ (a - 1 \in 1 .. n /\ a - 1 <= a)
            BY <1>1, <2>1
        <3> QED BY <1>1, <2>1, <3>1
    <2>5. CASE p[a] >= f
        <3>1. q[b] <= p[b - 1] \/ q[b] = f
            BY <2>2, <2>3
        <3> QED BY <1>4, <2>2, <2>3, <2>5, <3>1
    <2>6. CASE ~(p[a] >= f)
        <3>1. q[a] >= f \/ q[a] >= p[a]
            BY <2>2, <2>3, <2>4, <2>6
        <3>2. q[b] = p[b - 1]
            BY <2>2, <2>3, <2>6
        <3> QED BY <1>4, <2>3, <2>6, <3>1, <3>2
    <2> QED BY <2>5, <2>6
<1>7. q[1] = Tsp!Larger(p[1], f)
    <2>1. 1 \in 1 .. n /\ 1 \in 1 .. n + 1
        BY <1>1
    <2>2. q[1] = IF p[1] >= f THEN p[1] ELSE f
        BY <1>1, <1>2, <2>1
    <2> QED BY <1>1, <2>1, <2>2 DEF Tsp!Larger
<1>8. \A a, b \in 1 .. Len(q) : a <= b => q[a] >= q[b]
    <2> SUFFICES ASSUME NEW a \in 1 .. n + 1, NEW b \in 1 .. n + 1, a <= b
                 PROVE  q[a] >= q[b]
        BY <1>5
    <2>1. CASE a = b
        BY <1>4, <2>1
    <2>2. CASE a < b
        BY <1>6, <2>2
    <2> QED BY <2>1, <2>2
<1> QED BY <1>1, <1>5, <1>7, <1>8 DEF Sorted, q

LEMMA TrimmedIs ==
    ASSUME NEW p, Sorted(p)
    PROVE  Sorted(Tsp!Trimmed(p)) /\ Tsp!Trimmed(p)[1] = p[1]
<1> DEFINE n == Tsp!Smaller(Pop, Len(p))
           q == Tsp!Trimmed(p)
<1>1. /\ p \in Seq(Nat) /\ Len(p) \in Nat /\ Len(p) >= 1
      /\ \A k \in 1 .. Len(p) : p[k] \in Nat
      /\ \A a, b \in 1 .. Len(p) : a <= b => p[a] >= p[b]
    <2>1. p \in Seq(Nat) /\ Len(p) >= 1
          /\ \A a, b \in 1 .. Len(p) : a <= b => p[a] >= p[b]
        BY DEF Sorted
    <2> QED BY <2>1, LenProperties, ElementOfSeq
<1>2. n \in Nat /\ n >= 1 /\ n <= Len(p)
    BY <1>1, TspFacts DEF Tsp!Smaller
<1> HIDE DEF n
<1>3. q = [k \in 1 .. n |-> p[k]]
    BY DEF Tsp!Trimmed, n
<1> HIDE DEF q
<1>4. \A k \in 1 .. n : k \in 1 .. Len(p) /\ q[k] = p[k]
    BY <1>1, <1>2, <1>3
<1>5. q \in [1 .. n -> Nat]
    BY <1>1, <1>3, <1>4
<1>6. q \in Seq(Nat) /\ Len(q) = n
    BY <1>2, <1>5, SequenceOf
<1>7. \A a, b \in 1 .. n : a <= b => q[a] >= q[b]
    BY <1>1, <1>4
<1>8. 1 \in 1 .. n /\ q[1] = p[1]
    BY <1>2, <1>4
<1>9. Sorted(q)
    BY <1>2, <1>6, <1>7 DEF Sorted
<1> QED BY <1>8, <1>9 DEF q

LEMMA AcceptedIs ==
    ASSUME NEW p, Sorted(p), NEW f \in Nat
    PROVE  Sorted(Tsp!Accepted(p, f)) /\ Tsp!Accepted(p, f)[1] = Tsp!Larger(p[1], f)
<1>1. CASE f > p[Len(p)]
    <2>1. Tsp!Accepted(p, f) = Tsp!Trimmed(Tsp!Inserted(p, f))
        BY <1>1 DEF Tsp!Accepted
    <2> QED BY <2>1, InsertedIs, TrimmedIs
<1>2. CASE ~(f > p[Len(p)])
    <2>1. Tsp!Accepted(p, f) = Tsp!Trimmed(p)
        BY <1>2 DEF Tsp!Accepted
    <2>2. p \in Seq(Nat) /\ Len(p) >= 1
        BY DEF Sorted
    <2>3. 1 \in 1 .. Len(p) /\ Len(p) \in 1 .. Len(p) /\ 1 <= Len(p)
        BY <2>2, LenProperties
    <2>4. p[1] >= p[Len(p)] /\ p[1] \in Nat /\ p[Len(p)] \in Nat
        BY <2>2, <2>3, ElementOfSeq DEF Sorted
    <2>5. p[1] = Tsp!Larger(p[1], f)
        BY <1>2, <2>4 DEF Tsp!Larger
    <2> QED BY <2>1, <2>5, TrimmedIs
<1> QED BY <1>1, <1>2

(* global_best_fitness is the best there is, once best_program is up to    *)
(* date.                                                                   *)
LEMMA BestOfIslands ==
    ASSUME NEW t, NEW p, NEW m \in Nat,
           \A i \in Islands : p[i][1] \in Nat /\ p[i][1] <= m,
           \E i \in Islands : p[i][1] = m, HeadOrNone(t, p)
    PROVE  Tsp!GlobalBest(t) = m /\ (m > 0 => \E i \in Islands : t[i] # None)
<1> DEFINE S == {0} \cup {t[i] : i \in {j \in Islands : t[j] # None}}
<1>1. None \notin Nat
    BY TspFacts
<1>2. \A i \in Islands : /\ t[i] # None => t[i] = p[i][1]
                         /\ p[i][1] > 0 => t[i] # None
    BY <1>1 DEF HeadOrNone
<1>3. S \subseteq Nat
    BY <1>2
<1>4. m \in S
    BY <1>2
<1>5. \A x \in S : x <= m
    BY <1>2
<1> HIDE DEF S
<1>6. Tsp!Largest(S) = m
    <2> DEFINE x == Tsp!Largest(S)
    <2>1. x \in S /\ \A y \in S : y <= x
        BY <1>4, <1>5 DEF Tsp!Largest
    <2> HIDE DEF x
    <2>2. x \in Nat /\ m \in Nat /\ m <= x /\ x <= m
        BY <1>3, <1>4, <1>5, <2>1
    <2>3. x = m
        BY <2>2
    <2> QED BY <2>3 DEF x
<1>7. Tsp!GlobalBest(t) = Tsp!Largest(S)
    BY DEF Tsp!GlobalBest, S
<1> QED BY <1>2, <1>6, <1>7

(* Of two islands or more, one with the best program is not reset.         *)
LEMMA BestIsKept ==
    ASSUME NEW t, NEW p, NEW m \in Nat,
           \A i \in Islands : p[i][1] \in Nat /\ p[i][1] <= m,
           \E i \in Islands : p[i][1] = m, HeadOrNone(t, p)
    PROVE  \E i \in Islands : /\ i \notin Tsp!Culled(t) /\ p[i][1] = m
                              /\ m = 0 => i = Cardinality(Islands)
<1> DEFINE n == Cardinality(Islands)
           J == {i \in Islands : p[i][1] = m}
           Back == {n - i : i \in J}
<1>1. n \in Nat /\ n >= 2 /\ Islands = 1 .. n /\ IsFiniteSet(Islands)
    <2>1. n \in Nat /\ n >= 2 /\ Islands = 1 .. n
        BY TspFacts
    <2> QED BY <2>1, FS_Interval
<1> HIDE DEF n
<1>2. PICK i \in J : \A j \in J : j <= i
    <2>1. Back \in SUBSET Nat /\ Back # {}
        BY <1>1
    <2> HIDE DEF Back
    <2>2. PICK b \in Back : \A c \in Back : b <= c
        BY <2>1, LeastOfThem
    <2>3. PICK i \in J : b = n - i
        BY DEF Back
    <2>4. ASSUME NEW j \in J PROVE j <= i
        <3>1. n - j \in Back
            BY DEF Back
        <3>2. n - i <= n - j
            BY <2>2, <2>3, <3>1
        <3> QED BY <1>1, <3>2
    <2> QED BY <2>4
<1>3. \A j \in Islands : Tsp!Value(t, j) = p[j][1]
    <2>1. None \notin Nat
        BY TspFacts
    <2> QED BY <2>1 DEF Tsp!Value, HeadOrNone
<1>4. i \in Islands /\ p[i][1] = m
    OBVIOUS
<1>5. ASSUME NEW j \in Islands PROVE Tsp!Weaker(t, j, i) <=> j # i
    <2>1. p[j][1] \in Nat /\ p[j][1] <= m /\ (p[j][1] = m => j <= i)
        BY <1>2
    <2>2. i \in Int /\ j \in Int
        BY <1>1, <1>4
    <2> HIDE DEF J
    <2> QED BY <1>3, <1>4, <2>1, <2>2 DEF Tsp!Weaker
<1>6. {j \in Islands : Tsp!Weaker(t, j, i)} = Islands \ {i}
    BY <1>5
<1>7. Cardinality(Islands \ {i}) = n - 1
    BY <1>1, <1>4, FS_RemoveElement DEF n
<1>8. ~(n - 1 < Tsp!NumberCulled)
    <2>1. Tsp!NumberCulled = Tsp!Larger(1, (2 * n) \div 5)
        BY TspFacts DEF Tsp!NumberCulled, n
    <2>2. (2 * n) \div 5 \in Int /\ (2 * n) \div 5 <= n - 1
        BY <1>1
    <2> QED BY <1>1, <2>1, <2>2 DEF Tsp!Larger
<1>9. i \notin Tsp!Culled(t)
    BY <1>6, <1>7, <1>8, TspFacts DEF Tsp!Culled
<1>10. m = 0 => i = n
    <2> SUFFICES ASSUME m = 0 PROVE i = n
        OBVIOUS
    <2>1. n \in J
        BY <1>1
    <2>2. n <= i /\ i <= n /\ i \in Int
        BY <1>1, <1>2, <1>4, <2>1
    <2> QED BY <1>1, <2>2
<1> QED BY <1>4, <1>9, <1>10 DEF n

LEMMA HeadsAreNumbers ==
    ASSUME TspSearch
    PROVE  /\ \A i \in Islands : pops[i][1] \in Nat /\ pops[i][1] <= found
           /\ \E i \in Islands : pops[i][1] = found
<1>1. ASSUME NEW i \in Islands PROVE pops[i][1] \in Nat
    <2>1. pops[i] \in Seq(Nat) /\ Len(pops[i]) >= 1
        BY DEF TspSearch, Sorted
    <2>2. 1 \in 1 .. Len(pops[i])
        BY <2>1, LenProperties
    <2> QED BY <2>1, <2>2, ElementOfSeq
<1> QED BY <1>1 DEF TspSearch

LEMMA TspInit == ASSUME Tsp!Init PROVE TspInv
<1>1. /\ seed \in Tsp!SeedFitness
      /\ pops = [i \in Islands |-> Tsp!Fresh(seed)]
      /\ tops = [i \in Islands |-> Tsp!BestOf(Tsp!Fresh(seed), 0)]
      /\ mark = seed /\ found = seed /\ phase = "check" /\ wave = <<>> /\ gen = 0
      /\ requests = 0 /\ history = <<>> /\ resets = {}
    BY DEF Tsp!Init
<1>2. seed \in Nat
    BY <1>1, FitnessIsNatural
<1>3. Sorted(Tsp!Fresh(seed)) /\ Tsp!Fresh(seed)[1] = seed
    BY <1>2, FreshIs
<1>4. pops \in [Islands -> Seq(Nat)]
      /\ \A i \in Islands : Sorted(pops[i]) /\ pops[i][1] = seed
    BY <1>1, <1>3 DEF Sorted
<1>5. \A i \in Islands : tops[i] = seed
    BY <1>1, <1>2, <1>3 DEF Tsp!BestOf
<1>6. tops \in [Islands -> Nat \cup {None}] /\ TopsAreHeads
    BY <1>1, <1>2, <1>4, <1>5 DEF TopsAreHeads, HeadOrNone
<1>7. 1 \in Islands /\ LastHasOne
    <2>1. 1 \in Islands /\ Cardinality(Islands) \in Islands /\ None \notin Nat
        BY TspFacts
    <2> QED BY <1>2, <1>5, <2>1 DEF LastHasOne
<1>8. Tsp!WithinBudget
    BY <1>1, TspFacts DEF Tsp!WithinBudget
<1>9. \A i \in Islands : tops[i] # None => tops[i] <= pops[i][1]
    BY <1>2, <1>4, <1>5
<1>10. TspSearch
    BY <1>1, <1>2, <1>4, <1>6, <1>7, <1>8, <1>9 DEF TspSearch
<1>11. Tsp!HistoryIsTrue
    BY <1>1 DEF Tsp!HistoryIsTrue
<1> QED BY <1>1, <1>10, <1>11 DEF TspInv, TspTold

(* A wave has its calls, and is within the budget of the run.              *)
LEMMA TspGenerate == ASSUME TspInv, Tsp!Generate PROVE TspInv'
<1>1. PICK codes \in [1 .. Tsp!WaveSize -> BOOLEAN] :
         wave' = [k \in 1 .. Tsp!WaveSize |->
                     [island |-> ((k - 1) \div Tsp!Calls) + 1, code |-> codes[k]]]
    BY DEF Tsp!Generate
<1>2. /\ phase = "check" /\ ~Tsp!HorizonHit(FALSE) /\ requests' = requests + Tsp!WaveSize
      /\ phase' = "evaluate" /\ seed' = seed /\ pops' = pops /\ tops' = tops
      /\ gen' = gen /\ mark' = mark /\ history' = history /\ resets' = resets
      /\ found' = found /\ result' = result
    BY DEF Tsp!Generate
<1> DEFINE n == Cardinality(Islands)
           c == Tsp!Calls
<1>3. /\ Islands = 1 .. n /\ n \in Nat /\ n >= 2 /\ c \in Nat \ {0}
      /\ Tsp!WaveSize = n * c
    BY TspFacts
<1> HIDE DEF n, c
<1>4. Tsp!WaveSize \in Nat
    BY <1>3
<1>5. ASSUME NEW k \in 1 .. Tsp!WaveSize
      PROVE  ((k - 1) \div c) + 1 \in Islands
    <2> DEFINE q == (k - 1) \div c
    <2>1. k - 1 \in Nat /\ k - 1 < n * c
        BY <1>3, <1>4
    <2>2. q \in Nat /\ (k - 1) % c \in Nat /\ k - 1 = c * q + ((k - 1) % c)
        <3>1. /\ q \in Nat /\ (k - 1) % c \in 0 .. c - 1
              /\ k - 1 = c * q + ((k - 1) % c)
            BY <1>3, <2>1, Divided
        <3> HIDE DEF q
        <3>2. (k - 1) % c \in Nat
            BY <1>3, <3>1
        <3> QED BY <3>1, <3>2
    <2> HIDE DEF q
    <2>3. c * q < n * c
        <3>1. c * q \in Nat
            BY <1>3, <2>2
        <3> QED BY <1>3, <2>1, <2>2, <3>1
    <2>4. q < n
        <3>1. CASE q >= n
            <4>1. c * q >= c * n
                BY <1>3, <2>2, <3>1
            <4> QED BY <1>3, <2>2, <2>3, <4>1
        <3> QED BY <1>3, <2>2, <3>1
    <2> QED BY <1>3, <2>2, <2>4 DEF q
<1>6. wave' \in Seq(Waves)
    <2>1. wave' \in [1 .. Tsp!WaveSize -> Waves]
        BY <1>1, <1>5 DEF Waves, c
    <2> QED BY <1>4, <2>1, SequenceOf
<1>7. requests' \in Nat /\ Tsp!WithinBudget'
    <2>1. requests \in Nat
        BY DEF TspInv, TspSearch
    <2>2. requests' \in Nat
        BY <1>2, <1>4, <2>1
    <2>3. ~(MaxRequests # None /\ requests + Tsp!WaveSize > MaxRequests)
        BY <1>2 DEF Tsp!HorizonHit
    <2>4. MaxRequests # None => requests' <= MaxRequests
        BY <1>2, <2>2, <2>3, TspFacts
    <2> QED BY <2>2, <2>4 DEF Tsp!WithinBudget
<1>8. TspSearch'
    BY <1>2, <1>6, <1>7 DEF TspInv, TspSearch, LastHasOne
<1>9. TspTold'
    BY <1>2 DEF TspInv, TspTold, Tsp!HistoryIsTrue
<1> QED BY <1>8, <1>9 DEF TspInv

(* A candidate that is measured is in its island's population, if it is    *)
(* better than the best there.                                             *)
LEMMA TspEvaluate == ASSUME TspInv, Tsp!Evaluate PROVE TspInv'
<1> DEFINE c == Head(wave)
<1>1. /\ phase = "evaluate" /\ wave # <<>> /\ wave' = Tail(wave)
      /\ \/ \E f \in Tsp!FitnessOf(c.code) :
               /\ pops' = [pops EXCEPT ![c.island] = Tsp!Accepted(@, f)]
               /\ found' = Tsp!Larger(found, f)
         \/ pops' = pops /\ found' = found
      /\ phase' = phase /\ seed' = seed /\ tops' = tops /\ gen' = gen
      /\ requests' = requests /\ mark' = mark /\ history' = history
      /\ resets' = resets /\ result' = result
    BY DEF Tsp!Evaluate
<1>2. wave \in Seq(Waves)
    BY DEF TspInv, TspSearch
<1>3. c \in Waves /\ wave' \in Seq(Waves)
    BY <1>1, <1>2, HeadTailProperties
<1> HIDE DEF c
<1>4. /\ found \in Nat
      /\ \A i \in Islands : Sorted(pops[i]) /\ pops[i][1] \in Nat /\ pops[i][1] <= found
      /\ pops \in [Islands -> Seq(Nat)] /\ seed \in Nat /\ mark \in Nat
      /\ seed <= found /\ mark <= found /\ tops \in [Islands -> Nat \cup {None}]
      /\ \A i \in Islands : tops[i] # None => tops[i] <= pops[i][1]
    <2>1. TspSearch
        BY DEF TspInv
    <2> QED BY <2>1, HeadsAreNumbers DEF TspSearch
<1>5. PICK j \in Islands : pops[j][1] = found
    BY HeadsAreNumbers DEF TspInv
<1>6. /\ found' \in Nat /\ found <= found' /\ pops' \in [Islands -> Seq(Nat)]
      /\ \A i \in Islands : /\ Sorted(pops'[i]) /\ pops'[i][1] <= found'
                            /\ pops[i][1] <= pops'[i][1] /\ pops'[i][1] \in Nat
      /\ \E i \in Islands : pops'[i][1] = found'
    <2>1. CASE pops' = pops /\ found' = found
        BY <1>4, <1>5, <2>1
    <2>2. ASSUME NEW f \in Tsp!FitnessOf(c.code),
                 pops' = [pops EXCEPT ![c.island] = Tsp!Accepted(@, f)],
                 found' = Tsp!Larger(found, f)
          PROVE  <1>6
        <3>1. f \in Nat /\ c.island \in Islands
            BY <1>3, FitnessIsNatural DEF Waves
        <3> DEFINE e == c.island
                   q == Tsp!Accepted(pops[e], f)
        <3>2. Sorted(q) /\ q[1] = Tsp!Larger(pops[e][1], f)
            BY <1>4, <3>1, AcceptedIs
        <3> HIDE DEF q, e
        <3>3. /\ pops' = [pops EXCEPT ![e] = q] /\ e \in Islands
            BY <2>2, <3>1 DEF q, e
        <3>4. /\ pops'[e] = q /\ \A i \in Islands : i # e => pops'[i] = pops[i]
              /\ pops' \in [Islands -> Seq(Nat)]
            BY <1>4, <3>2, <3>3 DEF Sorted
        <3>5. found' \in Nat /\ found <= found' /\ f <= found'
              /\ (found' = found \/ found' = f)
            BY <1>4, <2>2, <3>1 DEF Tsp!Larger
        <3>6. /\ q[1] \in Nat /\ pops[e][1] <= q[1] /\ f <= q[1]
              /\ (q[1] = pops[e][1] \/ q[1] = f)
            BY <1>4, <3>1, <3>2, <3>3 DEF Tsp!Larger
        <3>7. \A i \in Islands : /\ Sorted(pops'[i]) /\ pops'[i][1] <= found'
                                 /\ pops[i][1] <= pops'[i][1] /\ pops'[i][1] \in Nat
            <4> TAKE i \in Islands
            <4>1. CASE i = e
                <5>1. pops[e][1] <= found /\ found \in Nat /\ pops[e][1] \in Nat
                    BY <1>4, <3>3
                <5>2. q[1] <= found'
                    BY <3>1, <3>5, <3>6, <5>1
                <5> QED BY <3>2, <3>4, <3>6, <4>1, <5>2
            <4>2. CASE i # e
                <5>1. pops'[i] = pops[i]
                    BY <3>4, <4>2
                <5>2. Sorted(pops[i]) /\ pops[i][1] \in Nat /\ pops[i][1] <= found
                    BY <1>4
                <5> QED BY <1>4, <3>5, <5>1, <5>2
            <4> QED BY <4>1, <4>2
        <3>8. \E i \in Islands : pops'[i][1] = found'
            <4>1. CASE found' = found
                <5>1. pops[j][1] <= pops'[j][1] /\ pops'[j][1] <= found'
                      /\ pops'[j][1] \in Nat
                    BY <3>7
                <5>2. pops'[j][1] = found'
                    BY <1>4, <1>5, <4>1, <5>1
                <5> QED BY <5>2
            <4>2. CASE found' = f
                <5>1. q[1] <= found' /\ pops'[e][1] = q[1]
                    BY <3>3, <3>4, <3>7
                <5>2. pops'[e][1] = found'
                    BY <3>5, <3>6, <4>2, <5>1
                <5> QED BY <3>3, <5>2
            <4> QED BY <3>5, <4>1, <4>2
        <3> QED BY <3>4, <3>5, <3>7, <3>8
    <2> QED BY <1>1, <2>1, <2>2
<1>7. seed <= found' /\ mark <= found'
    BY <1>4, <1>6
<1>8. \A i \in Islands : tops[i] # None => tops[i] <= pops'[i][1]
    <2> SUFFICES ASSUME NEW i \in Islands, tops[i] # None
                 PROVE  tops[i] <= pops'[i][1]
        OBVIOUS
    <2>1. tops[i] \in Nat /\ tops[i] <= pops[i][1] /\ pops[i][1] \in Nat
        BY <1>4
    <2>2. pops[i][1] <= pops'[i][1] /\ pops'[i][1] \in Nat
        BY <1>6
    <2> QED BY <2>1, <2>2
<1>9. TspSearch'
    <2>1. gen \in Nat /\ requests \in Nat /\ Tsp!WithinBudget
        BY DEF TspInv, TspSearch
    <2>2. Tsp!WithinBudget'
        BY <1>1, <2>1 DEF Tsp!WithinBudget
    <2>3. LastHasOne'
        <3>1. LastHasOne /\ (found' = 0 => found = 0)
            BY <1>4, <1>6 DEF TspInv, TspSearch
        <3> QED BY <1>1, <3>1 DEF LastHasOne
    <2> QED BY <1>1, <1>3, <1>4, <1>6, <1>7, <1>8, <2>1, <2>2, <2>3 DEF TspSearch
<1>10. TspTold'
    <2>1. TspTold
        BY DEF TspInv
    <2>2. ASSUME history # <<>> PROVE history[Len(history)].best <= found'
        <3>1. history[Len(history)].best <= found /\ history \in Seq(Entries)
            BY <2>1, <2>2 DEF TspTold
        <3>2. Len(history) \in 1 .. Len(history)
            BY <2>2, <3>1, LenProperties, EmptySeq
        <3>3. history[Len(history)] \in Entries
            BY <3>1, <3>2, ElementOfSeq
        <3>4. history[Len(history)].best \in Nat
            BY <3>3 DEF Entries
        <3> QED BY <1>4, <1>6, <3>1, <3>4
    <2>3. Tsp!HistoryIsTrue'
        BY <1>1, <2>1 DEF TspTold, Tsp!HistoryIsTrue
    <2> QED BY <1>1, <2>1, <2>2, <2>3 DEF TspTold
<1> QED BY <1>9, <1>10 DEF TspInv

LEMMA LastEntry ==
    ASSUME TspTold, history # <<>>
    PROVE  /\ Len(history) \in Nat \ {0} /\ Len(history) \in DOMAIN history
           /\ DOMAIN history = 1 .. Len(history)
           /\ \A k \in 1 .. Len(history) : history[k] \in Entries
           /\ history[Len(history)].best \in Nat
<1>1. history \in Seq(Entries)
    BY DEF TspTold
<1>2. Len(history) \in Nat \ {0} /\ DOMAIN history = 1 .. Len(history)
      /\ \A k \in 1 .. Len(history) : history[k] \in Entries
    BY <1>1, EmptySeq, LenProperties, ElementOfSeq
<1>3. Len(history) \in 1 .. Len(history)
    BY <1>2
<1>4. history[Len(history)] \in Entries
    BY <1>2, <1>3
<1> QED BY <1>2, <1>3, <1>4 DEF Entries

(* The end of a generation: the bests are those of the populations again,  *)
(* and the best of them is told and published.                             *)
LEMMA TspFinish == ASSUME TspInv, Tsp!Finish PROVE TspInv'
<1>1. /\ phase = "evaluate" /\ phase' = "judge" /\ gen' = gen + 1
      /\ tops' = [i \in Islands |-> Tsp!BestOf(pops[i], tops[i])]
      /\ seed' = seed /\ pops' = pops /\ wave' = wave /\ requests' = requests
      /\ resets' = resets /\ found' = found /\ result' = result
    BY DEF Tsp!Finish
<1>2. IF \E i \in Islands : tops'[i] # None
      THEN /\ history' = Append(history, [gen |-> gen, best |-> Tsp!GlobalBest(tops'),
                                          reset |-> FALSE])
           /\ mark' = Tsp!Larger(mark, Tsp!GlobalBest(tops'))
      ELSE history' = history /\ mark' = mark
    BY DEF Tsp!Finish
<1>3. TspSearch /\ TspTold
    BY DEF TspInv
<1>4. /\ \A i \in Islands : pops[i][1] \in Nat /\ pops[i][1] <= found
      /\ \E i \in Islands : pops[i][1] = found
    BY <1>3, HeadsAreNumbers
<1>5. found \in Nat /\ mark \in Nat /\ gen \in Nat /\ seed \in Nat /\ requests \in Nat
      /\ mark <= found /\ seed <= found /\ None \notin Nat
    BY <1>3, TspFacts DEF TspSearch
<1>6. HeadOrNone(tops', pops) /\ LastHasOne'
    <2>1. \A i \in Islands : tops'[i] = IF pops[i][1] > 0 THEN pops[i][1] ELSE tops[i]
        BY <1>1 DEF Tsp!BestOf
    <2>2. \A i \in Islands : tops[i] # None => tops[i] <= pops[i][1] /\ tops[i] \in Nat
        BY <1>3 DEF TspSearch
    <2>3. HeadOrNone(tops', pops)
        BY <1>4, <2>1, <2>2 DEF HeadOrNone
    <2>4. Cardinality(Islands) \in Islands
        BY TspFacts
    <2>5. LastHasOne
        BY <1>3 DEF TspSearch
    <2>6. LastHasOne'
        BY <1>1, <1>4, <1>5, <2>1, <2>4, <2>5 DEF LastHasOne
    <2> QED BY <2>3, <2>6
<1>7. Tsp!GlobalBest(tops') = found /\ \E i \in Islands : tops'[i] # None
    <2>1. Tsp!GlobalBest(tops') = found /\ (found > 0 => \E i \in Islands : tops'[i] # None)
        BY <1>4, <1>5, <1>6, BestOfIslands
    <2>2. Cardinality(Islands) \in Islands
        BY TspFacts
    <2>3. found = 0 => tops'[Cardinality(Islands)] # None
        BY <1>1, <1>6 DEF LastHasOne
    <2> QED BY <1>5, <2>1, <2>2, <2>3
<1>8. mark' = found
    BY <1>2, <1>5, <1>7 DEF Tsp!Larger
<1>9. tops' \in [Islands -> Nat \cup {None}]
      /\ \A i \in Islands : tops'[i] # None => tops'[i] <= pops'[i][1]
    <2>1. \A i \in Islands : tops'[i] \in Nat \cup {None}
        BY <1>4, <1>6 DEF HeadOrNone
    <2>2. \A i \in Islands : tops'[i] # None => tops'[i] <= pops'[i][1]
        BY <1>1, <1>4, <1>5, <1>6 DEF HeadOrNone
    <2> QED BY <1>1, <2>1, <2>2
<1>10. TspSearch'
    <2>1. TopsAreHeads'
        BY <1>1, <1>6 DEF TopsAreHeads, HeadOrNone
    <2>2. Tsp!WithinBudget'
        BY <1>1, <1>3 DEF TspSearch, Tsp!WithinBudget
    <2>3. gen' \in Nat /\ gen' >= 1 /\ mark' \in Nat /\ mark' <= found'
        BY <1>1, <1>5, <1>8
    <2> QED BY <1>1, <1>3, <1>6, <1>8, <1>9, <2>1, <2>2, <2>3 DEF TspSearch
<1>11. resets' \in SUBSET (1 .. gen')
    <2>1. resets \in SUBSET (1 .. gen)
        BY <1>3 DEF TspTold
    <2> QED BY <1>1, <1>5, <2>1
<1> DEFINE e == [gen |-> gen, best |-> found, reset |-> FALSE]
           n == Len(history)
<1>12. history' = Append(history, e) /\ e \in Entries
    BY <1>2, <1>5, <1>7 DEF Entries
<1>13. e.gen = gen /\ e.best = found /\ e.reset = FALSE
    OBVIOUS
<1> HIDE DEF e
<1>14. /\ history' \in Seq(Entries) /\ n \in Nat /\ Len(history') = n + 1
       /\ \A k \in 1 .. n : history'[k] = history[k]
       /\ history'[n + 1] = e
    BY <1>3, <1>12, Appended DEF TspTold
<1>15. n = gen /\ \A k \in 1 .. n :
          /\ history[k].gen = k - 1
          /\ k > 1 => history[k].best >= history[k - 1].best
          /\ history[k].reset <=> history[k].gen + 1 \in resets
    BY <1>3 DEF TspTold, Tsp!HistoryIsTrue
<1>16. n > 0 => history[n].best <= found /\ history[n].best \in Nat
    <2>1. n > 0 => history # <<>>
        OBVIOUS
    <2> QED BY <1>3, <2>1, LastEntry DEF TspTold
<1>17. gen + 1 \notin resets
    <2>1. resets \in SUBSET (1 .. gen)
        BY <1>3 DEF TspTold
    <2> QED BY <1>5, <2>1
<1> HIDE DEF n
<1>18. ASSUME NEW k \in 1 .. n + 1
       PROVE  /\ history'[k].gen = k - 1
              /\ k > 1 => history'[k].best >= history'[k - 1].best
              /\ history'[k].reset <=> history'[k].gen + 1 \in resets'
    <2>1. CASE k \in 1 .. n
        <3>1. history'[k] = history[k] /\ history[k].gen = k - 1
              /\ (history[k].reset <=> history[k].gen + 1 \in resets)
            BY <1>14, <1>15, <2>1
        <3>2. k > 1 => history'[k - 1] = history[k - 1]
                       /\ history[k].best >= history[k - 1].best
            <4>1. k > 1 => k - 1 \in 1 .. n
                BY <1>14, <2>1
            <4> QED BY <1>14, <1>15, <2>1, <4>1
        <3> QED BY <1>1, <3>1, <3>2
    <2>2. CASE k = n + 1
        <3>1. history'[k] = e /\ gen = k - 1
            BY <1>5, <1>14, <1>15, <2>2
        <3>2. k > 1 => history'[k - 1].best <= found
                       /\ history'[k - 1].best \in Nat
            <4>1. k > 1 => n > 0 /\ n \in 1 .. n /\ k - 1 = n
                BY <1>14, <2>2
            <4> QED BY <1>14, <1>16, <4>1
        <3> QED BY <1>1, <1>5, <1>13, <1>17, <3>1, <3>2
    <2> QED BY <1>14, <2>1, <2>2
<1>19. Tsp!HistoryIsTrue'
    BY <1>1, <1>14, <1>15, <1>18 DEF Tsp!HistoryIsTrue
<1>20. history'[Len(history')].best <= found'
    BY <1>1, <1>5, <1>13, <1>14
<1> QED BY <1>10, <1>11, <1>14, <1>19, <1>20 DEF TspInv, TspTold

(* What follows from a better generation, or from one that is not.         *)
LEMMA TspJudges ==
    ASSUME TspInv, phase = "judge", phase' = "check",
           UNCHANGED <<seed, pops, tops, wave, gen, requests, mark, history, resets, found,
                       result>>
    PROVE  TspInv'
<1>1. TspSearch /\ TspTold
    BY DEF TspInv
<1>2. TopsAreHeads' /\ LastHasOne' /\ Tsp!WithinBudget' /\ mark' = found'
    BY <1>1 DEF TspSearch, TopsAreHeads, HeadOrNone, LastHasOne, Tsp!WithinBudget
<1>3. Tsp!HistoryIsTrue'
    BY <1>1 DEF TspTold, Tsp!HistoryIsTrue
<1>4. TspSearch'
    BY <1>1, <1>2 DEF TspSearch
<1>5. TspTold'
    BY <1>1, <1>3 DEF TspTold
<1> QED BY <1>4, <1>5 DEF TspInv

(* A reset leaves the best program where it is, and marks the generation   *)
(* after which it came.                                                    *)
LEMMA TspReset == ASSUME TspInv, Tsp!PlateauReset PROVE TspInv'
<1> DEFINE culled == Tsp!Culled(tops)
<1>1. /\ phase = "judge" /\ phase' = "check"
      /\ pops' = [i \in Islands |-> IF i \in culled THEN Tsp!Fresh(seed) ELSE pops[i]]
      /\ tops' = [i \in Islands |-> IF i \in culled
                                    THEN Tsp!BestOf(Tsp!Fresh(seed), None) ELSE tops[i]]
      /\ history' = IF history = <<>> THEN history
                    ELSE [history EXCEPT ![Len(history)].reset = TRUE]
      /\ resets' = resets \cup {gen}
      /\ seed' = seed /\ wave' = wave /\ gen' = gen /\ requests' = requests
      /\ mark' = mark /\ found' = found /\ result' = result
    BY DEF Tsp!PlateauReset
<1>2. TspSearch /\ TspTold
    BY DEF TspInv
<1>3. /\ \A i \in Islands : pops[i][1] \in Nat /\ pops[i][1] <= found
      /\ \E i \in Islands : pops[i][1] = found
    BY <1>2, HeadsAreNumbers
<1>4. found \in Nat /\ mark = found /\ gen \in Nat /\ gen >= 1 /\ seed \in Nat
      /\ seed <= found /\ None \notin Nat /\ TopsAreHeads
      /\ pops \in [Islands -> Seq(Nat)] /\ \A i \in Islands : Sorted(pops[i])
    BY <1>1, <1>2, TspFacts DEF TspSearch
<1>5. PICK kept \in Islands :
            /\ kept \notin culled /\ pops[kept][1] = found
            /\ found = 0 => kept = Cardinality(Islands)
    <2>1. \E i \in Islands : /\ i \notin Tsp!Culled(tops) /\ pops[i][1] = found
                             /\ found = 0 => i = Cardinality(Islands)
        <3>1. found \in Nat /\ HeadOrNone(tops, pops)
            BY <1>4 DEF TopsAreHeads
        <3> HIDE DEF culled
        <3> QED BY <1>3, <3>1, BestIsKept
    <2> QED BY <2>1
<1>6. Sorted(Tsp!Fresh(seed)) /\ Tsp!Fresh(seed)[1] = seed
    BY <1>4, FreshIs
<1> HIDE DEF culled
<1>7. /\ pops' \in [Islands -> Seq(Nat)] /\ \A i \in Islands : Sorted(pops'[i])
      /\ \A i \in Islands : pops'[i][1] = IF i \in culled THEN seed ELSE pops[i][1]
    <2>1. \A i \in Islands : pops'[i] = IF i \in culled THEN Tsp!Fresh(seed) ELSE pops[i]
        BY <1>1
    <2>2. Tsp!Fresh(seed) \in Seq(Nat)
        BY <1>6 DEF Sorted
    <2> QED BY <1>1, <1>4, <1>6, <2>1, <2>2
<1>8. HeadOrNone(tops', pops') /\ LastHasOne'
    <2>1. ASSUME NEW i \in Islands
          PROVE  tops'[i] = pops'[i][1] \/ (tops'[i] = None /\ pops'[i][1] = 0)
        <3>1. CASE i \in culled
            <4>1. tops'[i] = IF seed > 0 THEN seed ELSE None
                BY <1>1, <1>6, <3>1 DEF Tsp!BestOf
            <4> QED BY <1>4, <1>7, <3>1, <4>1
        <3>2. CASE i \notin culled
            <4>1. tops'[i] = tops[i] /\ pops'[i][1] = pops[i][1]
                BY <1>1, <1>7, <3>2
            <4> QED BY <1>4, <4>1 DEF TopsAreHeads, HeadOrNone
        <3> QED BY <3>1, <3>2
    <2>2. LastHasOne'
        <3>1. LastHasOne
            BY <1>2 DEF TspSearch
        <3>2. tops'[kept] = tops[kept]
            BY <1>1, <1>5
        <3> QED BY <1>1, <1>5, <3>1, <3>2 DEF LastHasOne
    <2> QED BY <2>1, <2>2 DEF HeadOrNone
<1>9. /\ \A i \in Islands : pops'[i][1] \in Nat /\ pops'[i][1] <= found
      /\ \E i \in Islands : pops'[i][1] = found
    <2>1. \A i \in Islands : pops'[i][1] \in Nat /\ pops'[i][1] <= found
        BY <1>3, <1>4, <1>7
    <2>2. pops'[kept][1] = found
        BY <1>5, <1>7
    <2> QED BY <2>1, <2>2
<1>11. TspSearch'
    <2>1. /\ tops' \in [Islands -> Nat \cup {None}]
          /\ \A i \in Islands : tops'[i] # None => tops'[i] <= pops'[i][1]
        <3>1. \A i \in Islands : tops'[i] \in Nat \cup {None}
            BY <1>8, <1>9 DEF HeadOrNone
        <3>2. \A i \in Islands : tops'[i] # None => tops'[i] <= pops'[i][1]
            BY <1>4, <1>8, <1>9 DEF HeadOrNone
        <3> QED BY <1>1, <3>1, <3>2
    <2>2. TopsAreHeads'
        BY <1>8 DEF TopsAreHeads
    <2>3. Tsp!WithinBudget'
        BY <1>1, <1>2 DEF TspSearch, Tsp!WithinBudget
    <2>4. wave' \in Seq(Waves) /\ requests' \in Nat
        BY <1>1, <1>2 DEF TspSearch
    <2> QED BY <1>1, <1>4, <1>7, <1>8, <1>9, <2>1, <2>2, <2>3, <2>4 DEF TspSearch
<1>12. resets' \in SUBSET (1 .. gen')
    <2>1. resets \in SUBSET (1 .. gen)
        BY <1>2 DEF TspTold
    <2> QED BY <1>1, <1>4, <2>1
<1>14. history # <<>> /\ Len(history) = gen
    BY <1>2, <1>4 DEF TspTold, Tsp!HistoryIsTrue
<1> DEFINE n == Len(history)
           e == [history[n] EXCEPT !.reset = TRUE]
<1>15. /\ n \in Nat \ {0} /\ DOMAIN history = 1 .. n /\ n = gen
      /\ \A k \in 1 .. n : history[k] \in Entries
      /\ history \in Seq(Entries)
    BY <1>2, <1>14, LastEntry DEF TspTold
<1>16. \A k \in 1 .. n :
         /\ history[k].gen = k - 1
         /\ k > 1 => history[k].best >= history[k - 1].best
         /\ history[k].reset <=> history[k].gen + 1 \in resets
    BY <1>2 DEF TspTold, Tsp!HistoryIsTrue
<1>17. history' = [history EXCEPT ![n] = e]
    BY <1>1, <1>14
<1>18. /\ e \in Entries /\ e.gen = history[n].gen /\ e.best = history[n].best
      /\ e.reset = TRUE
    <2>1. n \in 1 .. n
        BY <1>15
    <2>2. history[n] \in Entries
        BY <1>15, <2>1
    <2> QED BY <2>2 DEF Entries
<1> HIDE DEF e, n
<1>19. /\ history' \in [1 .. n -> Entries] /\ history'[n] = e
      /\ \A k \in 1 .. n : k # n => history'[k] = history[k]
    <2>1. history \in [1 .. n -> Entries] /\ n \in 1 .. n
        BY <1>15
    <2> QED BY <1>17, <1>18, <2>1
<1>20. history' \in Seq(Entries) /\ Len(history') = n
    BY <1>15, <1>19, SequenceOf
<1>21. \A k \in 1 .. n : history'[k].gen = history[k].gen
                        /\ history'[k].best = history[k].best
    BY <1>18, <1>19
<1>22. ASSUME NEW k \in 1 .. n
      PROVE  /\ history'[k].gen = k - 1
             /\ k > 1 => history'[k].best >= history'[k - 1].best
             /\ history'[k].reset <=> history'[k].gen + 1 \in resets'
    <2>1. history'[k].gen = k - 1
        BY <1>16, <1>21
    <2>2. k > 1 => history'[k].best >= history'[k - 1].best
        <3>1. k > 1 => k - 1 \in 1 .. n
            BY <1>15
        <3> QED BY <1>16, <1>21, <3>1
    <2>3. history'[k].reset <=> history'[k].gen + 1 \in resets'
        <3>1. CASE k = n
            <4>1. history'[k].gen + 1 = gen
                BY <1>1, <1>4, <1>15, <2>1, <3>1
            <4> QED BY <1>1, <1>18, <1>19, <3>1, <4>1
        <3>2. CASE k # n
            <4>1. history'[k] = history[k] /\ history[k].gen + 1 # gen
                BY <1>1, <1>4, <1>15, <1>16, <1>19, <3>2
            <4>2. history[k].reset <=> history[k].gen + 1 \in resets
                BY <1>16
            <4>3. history[k].gen + 1 \in resets' <=> history[k].gen + 1 \in resets
                <5> DEFINE x == history[k].gen + 1
                <5>1. x # gen
                    BY <4>1
                <5> HIDE DEF x
                <5>2. x \in resets' <=> x \in resets
                    BY <1>1, <5>1
                <5> QED BY <5>2 DEF x
            <4>4. history'[k] = history[k]
                BY <4>1
            <4> QED BY <4>2, <4>3, <4>4
        <3> QED BY <3>1, <3>2
    <2> QED BY <2>1, <2>2, <2>3
<1>23. Tsp!HistoryIsTrue'
    <2>1. n = gen
        BY <1>14 DEF n
    <2> QED BY <1>1, <1>20, <1>22, <2>1 DEF Tsp!HistoryIsTrue
<1>24. history'[Len(history')].best <= found'
    <2>1. history[n].best <= found /\ n \in 1 .. n
        BY <1>2, <1>14, <1>15 DEF TspTold, n
    <2> QED BY <1>1, <1>20, <1>21, <2>1
<1> QED BY <1>11, <1>12, <1>20, <1>23, <1>24 DEF TspInv, TspTold

LEMMA TspReturn == ASSUME TspInv, Tsp!Return PROVE TspInv'
<1> DEFINE S == {pops[i][1] : i \in Islands}
<1>1. /\ phase = "check" /\ phase' = "done" /\ result' = Tsp!Largest(S)
      /\ seed' = seed /\ pops' = pops /\ tops' = tops /\ wave' = wave /\ gen' = gen
      /\ requests' = requests /\ mark' = mark /\ history' = history
      /\ resets' = resets /\ found' = found
    BY DEF Tsp!Return
<1>2. TspSearch /\ TspTold
    BY DEF TspInv
<1>3. found \in Nat /\ S \subseteq Nat /\ found \in S /\ \A x \in S : x <= found
    BY <1>2, HeadsAreNumbers DEF TspSearch
<1> HIDE DEF S
<1>4. Tsp!Largest(S) = found
    <2> DEFINE x == Tsp!Largest(S)
    <2>1. x \in S /\ \A y \in S : y <= x
        BY <1>3 DEF Tsp!Largest
    <2> HIDE DEF x
    <2>2. x \in Nat /\ found <= x /\ x <= found
        BY <1>3, <2>1
    <2>3. x = found
        BY <1>3, <2>2
    <2> QED BY <2>3 DEF x
<1>5. TopsAreHeads' /\ LastHasOne' /\ Tsp!WithinBudget' /\ mark' = found'
    BY <1>1, <1>2 DEF TspSearch, TopsAreHeads, HeadOrNone, LastHasOne, Tsp!WithinBudget
<1>6. Tsp!HistoryIsTrue'
    BY <1>1, <1>2 DEF TspTold, Tsp!HistoryIsTrue
<1>7. TspSearch'
    BY <1>1, <1>2, <1>4, <1>5 DEF TspSearch
<1>8. TspTold'
    BY <1>1, <1>2, <1>6 DEF TspTold
<1> QED BY <1>7, <1>8 DEF TspInv

LEMMA TspSame ==
    ASSUME TspInv,
           UNCHANGED <<phase, seed, pops, tops, wave, gen, requests, mark, history, resets,
                       found, result>>
    PROVE  TspInv'
<1>1. TspSearch /\ TspTold
    BY DEF TspInv
<1>2. (TopsAreHeads' <=> TopsAreHeads) /\ (LastHasOne' <=> LastHasOne)
    BY DEF TopsAreHeads, HeadOrNone, LastHasOne
<1>3. Tsp!WithinBudget'
    BY <1>1 DEF TspSearch, Tsp!WithinBudget
<1>4. Tsp!HistoryIsTrue'
    BY <1>1 DEF TspTold, Tsp!HistoryIsTrue
<1>5. TspSearch'
    BY <1>1, <1>2, <1>3 DEF TspSearch
<1>6. TspTold'
    BY <1>1, <1>4 DEF TspTold
<1> QED BY <1>5, <1>6 DEF TspInv

LEMMA TspStep == ASSUME TspInv, Tsp!Next PROVE TspInv'
<1>1. CASE Tsp!Improvement
    BY <1>1, TspJudges DEF Tsp!Improvement
<1>2. CASE Tsp!Stagnation
    BY <1>2, TspJudges DEF Tsp!Stagnation
<1>3. CASE Tsp!Done
    BY <1>3, TspSame DEF Tsp!Done, Tsp!tspVars
<1> QED BY <1>1, <1>2, <1>3, TspGenerate, TspEvaluate, TspFinish, TspReset, TspReturn
        DEF Tsp!Next

(* Whatever the model writes and whatever fails, the program that the TSP  *)
(* kernel returns is the best that it ever measured, its history tells of  *)
(* every generation, marks those after which islands were reset, and never *)
(* falls, and a run makes no more calls than its budget has.               *)
THEOREM TheBestIsReturned == Spec => []TspSound
<1> DEFINE I == machine = "tsp" => TspInv
<1>1. Init => I
    BY TspInit DEF Init
<1>2. I /\ [Next]_vars => I'
    <2> SUFFICES ASSUME I, [Next]_vars, machine' = "tsp" PROVE TspInv'
        OBVIOUS
    <2>1. CASE TspNext
        BY <2>1, TspStep DEF TspNext
    <2>2. CASE UNCHANGED vars
        BY <2>2, TspSame DEF vars, tspOnly
    <2>3. CASE Next /\ ~TspNext
        <3>1. machine = "tsp"
            BY <2>3, OneMachine
        <3> QED BY <2>3, <3>1 DEF Next, SessionNext, PopulationNext, RoundNext,
               ReportNext, SnapshotNext, MemoryNext, ScoreNext, DomainNext, SweepNext
    <2> QED BY <2>1, <2>2, <2>3
<1>3. I => TspSound
    <2> SUFFICES ASSUME TspInv PROVE Tsp!TspSound
        BY DEF TspSound
    <2>1. Tsp!ResultIsBest
        BY DEF TspInv, TspSearch, Tsp!ResultIsBest
    <2> QED BY <2>1 DEF TspInv, TspSearch, TspTold, Tsp!TspSound
<1> QED BY <1>1, <1>2, <1>3, PTL DEF Spec
-----------------------------------------------------------------------------
(* The memory of the racing kernel.                                        *)
Measured == [program : Programs, track : Tracks, fitness : Nat]

Lines == Measured \cup {Garbage}

(* The lines of the file that parse, and the first of each program.        *)
Parsed(lines) == {k \in DOMAIN lines : lines[k] # Garbage}

Firsts(lines) ==
    {k \in DOMAIN lines :
        /\ lines[k] # Garbage
        /\ \A j \in 1 .. (k - 1) :
              lines[j] = Garbage \/ lines[j].program # lines[k].program}

(* A program has the score of its lap and of the bar of this run, and the  *)
(* lines that are lost are those that a crash has torn, of which one may   *)
(* still cost the next one.                                                *)
MemoryInv ==
    /\ stream \in Seq(Episodes) /\ stage \in {"idle", "searching", "saving"}
    /\ ref \in [Tracks -> Nat] /\ Memory!BarHonest
    /\ pool \in SUBSET Measured /\ IsFiniteSet(pool)
    /\ \A m \in pool : m.fitness = Memory!Score(m.program, ref[m.track])
    /\ todo \in Seq(Measured) /\ file \in Seq(Lines) /\ torn \in BOOLEAN
    /\ written \in Nat /\ crashes \in Nat
    /\ torn => file # <<>> /\ file[Len(file)] = Garbage
    /\ Cardinality(Parsed(file)) >= written - crashes + (IF torn THEN 1 ELSE 0)

LEMMA MemoryFacts ==
    /\ \A p \in Programs : Lap[p] \in Nat \ {0} /\ Style[p] \in Nat
    /\ Synthetic \in [Tracks -> Nat \ {0}]
    /\ \A e \in Episodes : e.lap \in Nat /\ e.completed \in BOOLEAN
    /\ \A e \in Episodes : Memory!Resolved(e) \in {e.track, None}
    /\ None \notin Tracks /\ Garbage \notin Measured
    /\ ScanCount \in Nat /\ TopK \in Nat
    /\ \A S : Memory!Cardinality(S) = Cardinality(S)
<1>1. Memory!ValidMemory
    BY EvolutionAssumption
<1>2. \A S : Memory!Cardinality(S) = Cardinality(S)
    BY DEF Memory!Cardinality, Cardinality, Memory!IsFiniteSet, IsFiniteSet
<1> QED BY <1>1, <1>2 DEF Memory!ValidMemory, Measured

(* The places of a set in a sequence, counted from the first.              *)
LEMMA PlacesCounted ==
    ASSUME NEW n \in Nat, NEW P \in SUBSET (1 .. n)
    PROVE  /\ IsFiniteSet(P) /\ Cardinality(P) \in Nat
           /\ \A i \in 1 .. Cardinality(P) : Memory!Nth(P, i) \in P
           /\ \A k \in P : \E i \in 1 .. Cardinality(P) : Memory!Nth(P, i) = k
<1> DEFINE Upto(k) == {j \in P : j <= k}
           Rank(k) == Cardinality(Upto(k))
           R == {Rank(k) : k \in P}
           Many == Cardinality(P)
           f == [k \in P |-> Rank(k)]
<1>1. IsFiniteSet(P) /\ Many \in Nat
    <2>1. IsFiniteSet(1 .. n)
        BY FS_Interval
    <2> QED BY <2>1, FS_Subset, FS_CardinalityType
<1>2. \A k \in P : IsFiniteSet(Upto(k)) /\ Rank(k) \in 1 .. Many
    <2> TAKE k \in P
    <2>1. Upto(k) \in SUBSET P /\ k \in Upto(k)
        OBVIOUS
    <2> HIDE DEF Upto
    <2>2. IsFiniteSet(Upto(k)) /\ Rank(k) <= Many
        BY <1>1, <2>1, FS_Subset
    <2>3. Rank(k) \in Nat /\ Rank(k) # 0
        BY <2>1, <2>2, FS_CardinalityType, FS_EmptySet
    <2> QED BY <1>1, <2>2, <2>3
<1>3. ASSUME NEW k \in P, NEW l \in P, k < l PROVE Rank(k) < Rank(l)
    <2>1. Upto(k) \in SUBSET Upto(l) /\ l \in Upto(l) /\ l \notin Upto(k)
        <3>1. \A j \in P : j \in Int
            OBVIOUS
        <3>2. \A j \in P : j <= k => j <= l
            BY <1>3, <3>1
        <3>3. l <= l /\ ~(l <= k)
            BY <1>3, <3>1
        <3> QED BY <3>2, <3>3
    <2>2. IsFiniteSet(Upto(l)) /\ IsFiniteSet(Upto(k)) /\ Rank(k) \in 1 .. Many
          /\ Rank(l) \in 1 .. Many
        BY <1>2
    <2> HIDE DEF Upto
    <2>3. Cardinality(Upto(k)) <= Cardinality(Upto(l))
          /\ Cardinality(Upto(k)) # Cardinality(Upto(l))
        BY <2>1, <2>2, FS_Subset
    <2> QED BY <1>1, <2>2, <2>3
<1>4. \A k, l \in P : Rank(k) = Rank(l) => k = l
    <2> SUFFICES ASSUME NEW k \in P, NEW l \in P, k # l PROVE Rank(k) # Rank(l)
        OBVIOUS
    <2>1. Rank(k) \in Nat /\ Rank(l) \in Nat
        BY <1>1, <1>2
    <2> HIDE DEF Rank
    <2>2. k < l \/ l < k
        OBVIOUS
    <2>3. CASE k < l
        BY <1>3, <2>1, <2>3
    <2>4. CASE l < k
        BY <1>3, <2>1, <2>4
    <2> QED BY <2>2, <2>3, <2>4
<1> HIDE DEF Rank, Upto
<1>5. R = 1 .. Many
    <2>1. R \in SUBSET (1 .. Many)
        BY <1>2
    <2>2. f \in Bijection(P, R)
        BY <1>4 DEF Bijection, Injection, Surjection, IsInjective
    <2>3. Cardinality(R) = Many
        BY <1>1, <2>2, FS_Bijection DEF ExistsBijection
    <2>4. IsFiniteSet(1 .. Many) /\ Cardinality(1 .. Many) = Many
        BY <1>1, FS_Interval
    <2> HIDE DEF R
    <2> QED BY <2>1, <2>3, <2>4, FS_Subset
<1>6. \A i : Memory!Nth(P, i) = CHOOSE k \in P : Rank(k) = i
    BY MemoryFacts DEF Memory!Nth, Rank, Upto
<1>7. ASSUME NEW i \in 1 .. Many PROVE Memory!Nth(P, i) \in P /\ Rank(Memory!Nth(P, i)) = i
    <2>1. \E k \in P : Rank(k) = i
        BY <1>5
    <2> QED BY <1>6, <2>1
<1>8. ASSUME NEW k \in P PROVE \E i \in 1 .. Many : Memory!Nth(P, i) = k
    <2>1. Rank(k) \in 1 .. Many
        BY <1>2
    <2>2. Memory!Nth(P, Rank(k)) = k
        BY <1>4, <1>7, <2>1
    <2> QED BY <2>1, <2>2
<1> QED BY <1>1, <1>7, <1>8

(* What is loaded is one line for each program that has one.               *)
LEMMA LoadedTellsAll ==
    ASSUME NEW lines \in Seq(Lines)
    PROVE  {lines[k].program : k \in Parsed(lines)}
           = {Memory!Loaded(lines)[n].program : n \in DOMAIN Memory!Loaded(lines)}
<1> DEFINE n == Len(lines)
           P == Firsts(lines)
           out == Memory!Loaded(lines)
<1>1. n \in Nat /\ DOMAIN lines = 1 .. n
    BY LenProperties
<1>2. P \in SUBSET (1 .. n) /\ P \subseteq Parsed(lines)
    BY <1>1 DEF Firsts, Parsed
<1>3. out = [i \in 1 .. Cardinality(P) |-> lines[Memory!Nth(P, i)]]
    BY MemoryFacts DEF Memory!Loaded, Firsts
<1> HIDE DEF P, out, n
<1>4. /\ \A i \in 1 .. Cardinality(P) : Memory!Nth(P, i) \in P
      /\ \A k \in P : \E i \in 1 .. Cardinality(P) : Memory!Nth(P, i) = k
    BY <1>1, <1>2, PlacesCounted
<1>5. ASSUME NEW k \in Parsed(lines)
      PROVE  \E l \in P : lines[l].program = lines[k].program
    <2> DEFINE Same == {j \in Parsed(lines) : lines[j].program = lines[k].program}
    <2>1. Same \in SUBSET Nat /\ Same # {} /\ Same \subseteq 1 .. n
        BY <1>1 DEF Parsed
    <2>2. PICK l \in Same : \A j \in Same : l <= j
        BY <2>1, LeastOfThem
    <2>3. \A j \in 1 .. (l - 1) : lines[j] = Garbage \/ lines[j].program # lines[l].program
        <3> SUFFICES ASSUME NEW j \in 1 .. (l - 1), lines[j] # Garbage,
                            lines[j].program = lines[l].program
                     PROVE  FALSE
            OBVIOUS
        <3>1. l \in 1 .. n /\ j \in 1 .. n /\ ~(l <= j)
            BY <1>1, <2>1
        <3>2. j \in Same
            BY <1>1, <3>1 DEF Parsed
        <3> QED BY <2>2, <3>1, <3>2
    <2>4. l \in P
        BY <1>1, <2>1, <2>3 DEF P, Firsts, Parsed
    <2> QED BY <2>4
<1>6. DOMAIN out = 1 .. Cardinality(P)
      /\ \A i \in 1 .. Cardinality(P) : out[i] = lines[Memory!Nth(P, i)]
    BY <1>3
<1>7. ASSUME NEW k \in Parsed(lines)
      PROVE  \E i \in DOMAIN out : out[i].program = lines[k].program
    BY <1>4, <1>5, <1>6
<1>8. ASSUME NEW i \in DOMAIN out
      PROVE  \E k \in Parsed(lines) : out[i].program = lines[k].program
    BY <1>2, <1>4, <1>6
<1> DEFINE A == {lines[k].program : k \in Parsed(lines)}
           B == {out[i].program : i \in DOMAIN out}
<1>9. A = B
    <2>1. A \subseteq B
        BY <1>7
    <2>2. B \subseteq A
        BY <1>8
    <2> QED BY <2>1, <2>2
<1> QED BY <1>9 DEF out

(* The faster of two laps is worth no less against the same bar.           *)
LEMMA SpeedFollowsLap ==
    ASSUME NEW p \in Programs, NEW q \in Programs, NEW bar \in Nat, Lap[p] >= Lap[q]
    PROVE  /\ Memory!Speed(p, bar) \in Nat /\ Memory!Speed(q, bar) \in Nat
           /\ Memory!Speed(p, bar) <= Memory!Speed(q, bar)
<1> DEFINE a == Lap[p]
           b == Lap[q]
           x == 10 * bar
           i == x \div a
           j == x \div b
<1>1. a \in Nat \ {0} /\ b \in Nat \ {0} /\ x \in Nat /\ a >= b
    BY MemoryFacts
<1>2. /\ i \in Nat /\ x % a \in 0 .. a - 1 /\ x = a * i + (x % a)
      /\ j \in Nat /\ x % b \in 0 .. b - 1 /\ x = b * j + (x % b)
    BY <1>1, Divided
<1>3. /\ Memory!Speed(p, bar) = IF a <= bar THEN 10 ELSE i
      /\ Memory!Speed(q, bar) = IF b <= bar THEN 10 ELSE j
    BY DEF Memory!Speed
<1>4. x = 10 * bar
    OBVIOUS
<1> DEFINE r == x % a
           s == x % b
<1>5. r \in 0 .. a - 1 /\ s \in 0 .. b - 1 /\ x = a * i + r /\ x = b * j + s
    BY <1>2
<1> HIDE DEF a, b, x, i, j, r, s
<1>6. ~(a <= bar) => i <= 10
    <2> SUFFICES ASSUME a > bar, i > 10 PROVE FALSE
        BY <1>1, <1>2
    <2>1. a * i >= a * 10
        BY <1>1, <1>2
    <2>2. a * i \in Nat /\ a * i <= x
        BY <1>1, <1>2, <1>5
    <2> QED BY <1>1, <1>4, <2>1, <2>2
<1>7. i <= j
    <2> SUFFICES ASSUME i >= j + 1 PROVE FALSE
        BY <1>2
    <2>1. a * i >= a * (j + 1)
        BY <1>1, <1>2
    <2>2. a * (j + 1) >= b * (j + 1)
        BY <1>1, <1>2
    <2>3. b * (j + 1) = b * j + b
        BY <1>1, <1>2
    <2>4. a * i \in Nat /\ b * j \in Nat /\ a * (j + 1) \in Nat
        BY <1>1, <1>2
    <2> QED BY <1>1, <1>5, <2>1, <2>2, <2>3, <2>4
<1> QED BY <1>1, <1>2, <1>3, <1>6, <1>7

(* So it leads by no more than its line is the better one.                 *)
LEMMA ScoreFollowsLap ==
    ASSUME NEW p \in Programs, NEW q \in Programs, NEW bar \in Nat, Lap[p] >= Lap[q]
    PROVE  /\ Memory!Score(p, bar) \in Nat /\ Memory!Score(q, bar) \in Nat
           /\ Memory!Score(p, bar) - Memory!Score(q, bar) <= Style[p] - Style[q]
<1>1. Style[p] \in Nat /\ Style[q] \in Nat
    BY MemoryFacts
<1>2. /\ Memory!Speed(p, bar) \in Nat /\ Memory!Speed(q, bar) \in Nat
      /\ Memory!Speed(p, bar) <= Memory!Speed(q, bar)
    BY SpeedFollowsLap
<1> QED BY <1>1, <1>2 DEF Memory!Score

LEMMA MemoryInit == ASSUME Memory!Init PROVE MemoryInv
<1>1. /\ stream = <<>> /\ stage = "idle" /\ ref = Synthetic /\ pool = {} /\ todo = <<>>
      /\ file = <<>> /\ torn = FALSE /\ written = 0 /\ crashes = 0
    BY DEF Memory!Init
<1>2. /\ stream \in Seq(Episodes) /\ todo \in Seq(Measured) /\ file \in Seq(Lines)
    BY <1>1
<1>3. Parsed(file) = {}
    BY <1>1 DEF Parsed
<1>4. Cardinality(Parsed(file)) = 0 /\ IsFiniteSet(pool)
    BY <1>1, <1>3, FS_EmptySet
<1>5. ref \in [Tracks -> Nat]
    BY <1>1, MemoryFacts
<1>6. Memory!BarHonest
    <2>1. \A t \in Tracks : ref[t] = Synthetic[t] /\ Synthetic[t] \in Nat
        BY <1>1, MemoryFacts
    <2> QED BY <2>1 DEF Memory!BarHonest
<1>7. Cardinality(Parsed(file)) >= written - crashes + (IF torn THEN 1 ELSE 0)
    BY <1>1, <1>4
<1> QED BY <1>1, <1>2, <1>4, <1>5, <1>6, <1>7 DEF MemoryInv

(* The stream only grows, so that a lap that was driven stays driven.      *)
LEMMA MemoryEpisode == ASSUME MemoryInv, Memory!Episode PROVE MemoryInv'
<1>1. PICK e \in Episodes : stream' = Append(stream, e)
    BY DEF Memory!Episode
<1>2. /\ stage' = stage /\ ref' = ref /\ pool' = pool /\ todo' = todo /\ file' = file
      /\ torn' = torn /\ written' = written /\ crashes' = crashes
    BY DEF Memory!Episode
<1>3. stream \in Seq(Episodes)
    BY DEF MemoryInv
<1>4. /\ stream' \in Seq(Episodes) /\ DOMAIN stream = 1 .. Len(stream)
      /\ DOMAIN stream' = 1 .. Len(stream) + 1 /\ Len(stream) \in Nat
      /\ \A k \in 1 .. Len(stream) : stream'[k] = stream[k]
    BY <1>1, <1>3, Appended
<1>5. Memory!BarHonest'
    <2> SUFFICES ASSUME NEW t \in Tracks
                 PROVE  /\ ref[t] <= Synthetic[t]
                        /\ ref[t] < Synthetic[t] =>
                             \E k \in DOMAIN stream' :
                                /\ stream'[k].pilot = "ai_brain" /\ stream'[k].completed
                                /\ stream'[k].track = t /\ stream'[k].lap = ref[t]
        BY <1>2 DEF Memory!BarHonest
    <2>1. /\ ref[t] <= Synthetic[t]
          /\ ref[t] < Synthetic[t] =>
               \E k \in DOMAIN stream :
                  /\ stream[k].pilot = "ai_brain" /\ stream[k].completed
                  /\ stream[k].track = t /\ stream[k].lap = ref[t]
        BY DEF MemoryInv, Memory!BarHonest
    <2>2. \A k \in DOMAIN stream : k \in DOMAIN stream' /\ stream'[k] = stream[k]
        BY <1>4
    <2> QED BY <2>1, <2>2
<1>6. Parsed(file)' = Parsed(file)
    BY <1>2 DEF Parsed
<1>7. \A m \in pool : Memory!Score(m.program, ref[m.track])'
                      = Memory!Score(m.program, ref[m.track])
    BY <1>2 DEF Memory!Score
<1> QED BY <1>2, <1>4, <1>5, <1>6, <1>7 DEF MemoryInv

(* The bar of a run: the synthetic one, or the best of the laps that were  *)
(* driven on the track.                                                    *)
LEMMA CalibratedIs ==
    ASSUME MemoryInv, NEW entries \in {Memory!Scanned, {}}, NEW t \in Tracks
    PROVE  LET bar == Memory!Calibrated(entries)[t]
           IN  /\ bar \in Nat /\ bar <= Synthetic[t]
               /\ bar < Synthetic[t] =>
                    \E k \in DOMAIN stream :
                       /\ stream[k].pilot = "ai_brain" /\ stream[k].completed
                       /\ stream[k].track = t /\ stream[k].lap = bar
<1> DEFINE laps == {e \in entries : Memory!Qualifies(e) /\ Memory!Resolved(e) = t}
           S == {Synthetic[t]} \cup {e.lap : e \in laps}
           bar == Memory!Calibrated(entries)[t]
<1>1. \A e \in entries : e \in Episodes /\ \E k \in DOMAIN stream : stream[k] = e
    <2> SUFFICES ASSUME NEW e \in Memory!Scanned
                 PROVE  e \in Episodes /\ \E k \in DOMAIN stream : stream[k] = e
        OBVIOUS
    <2>1. PICK k \in DOMAIN stream : stream[k] = e
        BY DEF Memory!Scanned
    <2>2. stream \in Seq(Episodes)
        BY DEF MemoryInv
    <2> QED BY <2>1, <2>2, LenProperties, ElementOfSeq
<1>2. S \in SUBSET Nat /\ Synthetic[t] \in S
    BY <1>1, MemoryFacts
<1>3. bar = Memory!Smallest(S)
    BY DEF Memory!Calibrated
<1>4. bar \in S /\ \A x \in S : bar <= x
    <2>1. \E m \in S : \A x \in S : m <= x
        <3> HIDE DEF S
        <3> QED BY <1>2, LeastOfThem
    <2> HIDE DEF S, bar
    <2> QED BY <1>3, <2>1 DEF Memory!Smallest
<1>5. ASSUME bar < Synthetic[t]
      PROVE  \E k \in DOMAIN stream :
                /\ stream[k].pilot = "ai_brain" /\ stream[k].completed
                /\ stream[k].track = t /\ stream[k].lap = bar
    <2>1. bar # Synthetic[t]
        BY <1>2, <1>4, <1>5
    <2>2. PICK e \in laps : e.lap = bar
        BY <1>4, <2>1
    <2>3. e.pilot = "ai_brain" /\ e.completed /\ Memory!Resolved(e) = t /\ e \in Episodes
        BY <1>1 DEF Memory!Qualifies
    <2>4. e.track = t
        BY <2>3, MemoryFacts
    <2>5. PICK k \in DOMAIN stream : stream[k] = e
        BY <1>1
    <2> QED BY <2>2, <2>3, <2>4, <2>5
<1>6. bar \in Nat /\ bar <= Synthetic[t]
    BY <1>2, <1>4
<1> QED BY <1>5, <1>6

LEMMA MemoryStart == ASSUME MemoryInv, Memory!Start PROVE MemoryInv'
<1>1. PICK entries \in {Memory!Scanned, {}} : ref' = Memory!Calibrated(entries)
    BY DEF Memory!Start
<1>2. /\ stage' = "searching" /\ pool' = {} /\ stream' = stream /\ todo' = todo
      /\ file' = file /\ torn' = torn /\ written' = written /\ crashes' = crashes
    BY DEF Memory!Start
<1>3. \A t \in Tracks :
          /\ ref'[t] \in Nat /\ ref'[t] <= Synthetic[t]
          /\ ref'[t] < Synthetic[t] =>
               \E k \in DOMAIN stream :
                  /\ stream[k].pilot = "ai_brain" /\ stream[k].completed
                  /\ stream[k].track = t /\ stream[k].lap = ref'[t]
    BY <1>1, CalibratedIs
<1>4. ref' \in [Tracks -> Nat]
    <2>1. DOMAIN ref' = Tracks /\ ref' = [t \in Tracks |-> ref'[t]]
        BY <1>1 DEF Memory!Calibrated
    <2> QED BY <1>3, <2>1
<1>5. Memory!BarHonest'
    BY <1>2, <1>3 DEF Memory!BarHonest
<1>6. IsFiniteSet(pool') /\ Parsed(file)' = Parsed(file)
    BY <1>2, FS_EmptySet DEF Parsed
<1> QED BY <1>2, <1>4, <1>5, <1>6 DEF MemoryInv

LEMMA MemoryMeasure == ASSUME MemoryInv, Memory!Measure PROVE MemoryInv'
<1>1. PICK p \in Programs, t \in Tracks :
         pool' = pool \cup {[program |-> p, track |-> t,
                             fitness |-> Memory!Score(p, ref[t])]}
    BY DEF Memory!Measure
<1>2. /\ stage = "searching" /\ stage' = stage /\ ref' = ref /\ stream' = stream
      /\ todo' = todo /\ file' = file /\ torn' = torn /\ written' = written
      /\ crashes' = crashes
    BY DEF Memory!Measure
<1> DEFINE m == [program |-> p, track |-> t, fitness |-> Memory!Score(p, ref[t])]
<1>3. ref[t] \in Nat /\ Lap[p] >= Lap[p]
    BY MemoryFacts DEF MemoryInv
<1>4. Memory!Score(p, ref[t]) \in Nat
    BY <1>3, ScoreFollowsLap
<1>5. /\ m \in Measured /\ m.program = p /\ m.track = t
      /\ m.fitness = Memory!Score(p, ref[t])
    BY <1>4 DEF Measured
<1> HIDE DEF m
<1>6. pool' = pool \cup {m}
    BY <1>1 DEF m
<1>7. /\ pool' \in SUBSET Measured /\ IsFiniteSet(pool')
      /\ \A k \in pool' : k.fitness = Memory!Score(k.program, ref[k.track])
    <2>1. /\ pool \in SUBSET Measured /\ IsFiniteSet(pool)
          /\ \A k \in pool : k.fitness = Memory!Score(k.program, ref[k.track])
        BY DEF MemoryInv
    <2>2. \A k \in pool' : k.fitness = Memory!Score(k.program, ref[k.track])
        BY <1>5, <1>6, <2>1
    <2> QED BY <1>5, <1>6, <2>1, <2>2, FS_AddElement
<1>8. \A k \in pool' : k.fitness = Memory!Score(k.program, ref'[k.track])
    BY <1>2, <1>7
<1>9. Memory!BarHonest' /\ Parsed(file)' = Parsed(file)
    BY <1>2 DEF MemoryInv, Memory!BarHonest, Parsed
<1> QED BY <1>2, <1>7, <1>8, <1>9 DEF MemoryInv

LEMMA MemoryEnded == ASSUME MemoryInv, Memory!Ended PROVE MemoryInv'
<1>1. /\ stage' = "saving" /\ stream' = stream /\ ref' = ref /\ pool' = pool
      /\ file' = file /\ torn' = torn /\ written' = written /\ crashes' = crashes
    BY DEF Memory!Ended
<1> DEFINE n == Cardinality(pool)
           Kept(order) ==
               {k \in DOMAIN order :
                   /\ k <= TopK /\ order[k].fitness > 0
                   /\ \A j \in 1 .. (k - 1) : order[j].program # order[k].program}
<1>2. PICK order \in [1 .. n -> pool] :
         todo' = [i \in 1 .. Cardinality(Kept(order)) |->
                     order[Memory!Nth(Kept(order), i)]]
    BY MemoryFacts DEF Memory!Ended
<1> DEFINE P == Kept(order)
<1>3. n \in Nat /\ pool \in SUBSET Measured
    BY FS_CardinalityType DEF MemoryInv
<1> HIDE DEF n
<1>4. P \in SUBSET (1 .. n)
    OBVIOUS
<1>5. todo' = [i \in 1 .. Cardinality(P) |-> order[Memory!Nth(P, i)]]
    BY <1>2
<1> HIDE DEF P
<1>6. Cardinality(P) \in Nat /\ \A i \in 1 .. Cardinality(P) : Memory!Nth(P, i) \in P
    BY <1>3, <1>4, PlacesCounted
<1>7. todo' \in [1 .. Cardinality(P) -> Measured]
    BY <1>3, <1>4, <1>5, <1>6
<1>8. todo' \in Seq(Measured)
    BY <1>6, <1>7, SequenceOf
<1>9. Memory!BarHonest' /\ Parsed(file)' = Parsed(file)
    BY <1>1 DEF MemoryInv, Memory!BarHonest, Parsed
<1>10. \A m \in pool : m.fitness = Memory!Score(m.program, ref'[m.track])
    BY <1>1 DEF MemoryInv
<1> QED BY <1>1, <1>8, <1>9, <1>10 DEF MemoryInv

(* A whole line, unless it is lost to the one that lacks its end.          *)
LEMMA MemorySave == ASSUME MemoryInv, Memory!Save PROVE MemoryInv'
<1> DEFINE h == Head(todo)
           n == Len(file)
<1>1. /\ stage' = stage /\ todo # <<>> /\ todo' = Tail(todo) /\ torn' = FALSE
      /\ written' = written + 1 /\ stream' = stream /\ ref' = ref /\ pool' = pool
      /\ crashes' = crashes
      /\ IF torn THEN file' = [file EXCEPT ![Len(file)] = Garbage]
         ELSE file' = Append(file, h)
    BY DEF Memory!Save
<1>2. /\ todo \in Seq(Measured) /\ file \in Seq(Lines) /\ torn \in BOOLEAN
      /\ written \in Nat /\ crashes \in Nat
      /\ torn => file # <<>> /\ file[n] = Garbage
      /\ Cardinality(Parsed(file)) >= written - crashes + (IF torn THEN 1 ELSE 0)
    BY DEF MemoryInv
<1>3. h \in Measured /\ todo' \in Seq(Measured)
    BY <1>1, <1>2, HeadTailProperties
<1>4. n \in Nat /\ DOMAIN file = 1 .. n /\ IsFiniteSet(Parsed(file))
      /\ Cardinality(Parsed(file)) \in Nat
    <2>1. n \in Nat /\ DOMAIN file = 1 .. n
        BY <1>2, LenProperties
    <2>2. IsFiniteSet(1 .. n) /\ Parsed(file) \in SUBSET (1 .. n)
        BY <2>1, FS_Interval DEF Parsed
    <2> QED BY <2>1, <2>2, FS_Subset, FS_CardinalityType
<1> HIDE DEF h, n
<1>5. /\ file' \in Seq(Lines)
      /\ Cardinality(Parsed(file')) >= written' - crashes'
    <2>1. CASE torn
        <3>1. file' = file
            <4>1. [file EXCEPT ![n] = file[n]] = file
                BY <1>2, <1>4
            <4> QED BY <1>1, <1>2, <2>1, <4>1 DEF n
        <3> QED BY <1>1, <1>2, <1>4, <2>1, <3>1
    <2>2. CASE ~torn
        <3>1. h \in Lines /\ h # Garbage
            BY <1>3, MemoryFacts DEF Lines
        <3>2. /\ file' \in Seq(Lines) /\ DOMAIN file' = 1 .. n + 1
              /\ \A k \in 1 .. n : file'[k] = file[k]
              /\ file'[n + 1] = h
            <4>1. file' = Append(file, h) /\ file \in Seq(Lines)
                BY <1>1, <1>2, <2>2
            <4> QED BY <3>1, <4>1, Appended DEF n
        <3>3. Parsed(file') = Parsed(file) \cup {n + 1} /\ n + 1 \notin Parsed(file)
            <4>1. 1 .. n + 1 = 1 .. n \cup {n + 1} /\ n + 1 \notin 1 .. n
                BY <1>4
            <4> QED BY <1>4, <3>1, <3>2, <4>1 DEF Parsed
        <3>4. Cardinality(Parsed(file')) = Cardinality(Parsed(file)) + 1
            BY <1>4, <3>3, FS_AddElement
        <3> QED BY <1>1, <1>2, <1>4, <2>2, <3>2, <3>4
    <2> QED BY <2>1, <2>2, <1>2
<1>6. Memory!BarHonest' /\ \A m \in pool : m.fitness = Memory!Score(m.program, ref'[m.track])
    BY <1>1 DEF MemoryInv, Memory!BarHonest
<1>7. Parsed(file') = Parsed(file)'
    BY DEF Parsed
<1>8. Cardinality(Parsed(file)') >= written' - crashes' + 0
    BY <1>1, <1>2, <1>4, <1>5, <1>7
<1>9. written' \in Nat /\ crashes' \in Nat
    BY <1>1, <1>2
<1>10. /\ stream' \in Seq(Episodes) /\ stage' \in {"idle", "searching", "saving"}
       /\ ref' \in [Tracks -> Nat] /\ pool' \in SUBSET Measured /\ IsFiniteSet(pool')
    BY <1>1 DEF MemoryInv
<1> QED BY <1>1, <1>3, <1>5, <1>6, <1>8, <1>9, <1>10 DEF MemoryInv

LEMMA MemoryCompleted == ASSUME MemoryInv, Memory!Completed PROVE MemoryInv'
<1>1. /\ stage' = "idle" /\ stream' = stream /\ ref' = ref /\ pool' = pool
      /\ todo' = todo /\ file' = file /\ torn' = torn /\ written' = written
      /\ crashes' = crashes
    BY DEF Memory!Completed
<1>2. Memory!BarHonest' /\ Parsed(file)' = Parsed(file)
    BY <1>1 DEF MemoryInv, Memory!BarHonest, Parsed
<1>3. \A m \in pool : m.fitness = Memory!Score(m.program, ref'[m.track])
    BY <1>1 DEF MemoryInv
<1> QED BY <1>1, <1>2, <1>3 DEF MemoryInv

(* A line that lacks its end is one that a crash accounts for.             *)
LEMMA MemoryCrash == ASSUME MemoryInv, Memory!Crash PROVE MemoryInv'
<1> DEFINE n == Len(file)
<1>1. /\ stage' = "idle" /\ crashes' = crashes + 1 /\ todo' = <<>>
      /\ stream' = stream /\ ref' = ref /\ pool' = pool /\ written' = written
      /\ \/ file' = Append(file, Garbage) /\ torn' = TRUE /\ ~torn
         \/ file' = file /\ torn' = torn
    BY DEF Memory!Crash
<1>2. /\ file \in Seq(Lines) /\ torn \in BOOLEAN /\ written \in Nat /\ crashes \in Nat
      /\ torn => file # <<>> /\ file[n] = Garbage
      /\ Cardinality(Parsed(file)) >= written - crashes + (IF torn THEN 1 ELSE 0)
    BY DEF MemoryInv
<1>3. n \in Nat /\ DOMAIN file = 1 .. n /\ Cardinality(Parsed(file)) \in Nat
    <2>1. n \in Nat /\ DOMAIN file = 1 .. n
        BY <1>2, LenProperties
    <2>2. IsFiniteSet(1 .. n) /\ Parsed(file) \in SUBSET (1 .. n)
        BY <2>1, FS_Interval DEF Parsed
    <2> QED BY <2>1, <2>2, FS_Subset, FS_CardinalityType
<1> HIDE DEF n
<1>4. /\ file' \in Seq(Lines) /\ torn' \in BOOLEAN
      /\ torn' => file' # <<>> /\ file'[Len(file')] = Garbage
      /\ Cardinality(Parsed(file')) >= written' - crashes' + (IF torn' THEN 1 ELSE 0)
    <2>1. CASE file' = Append(file, Garbage) /\ torn' = TRUE /\ ~torn
        <3>1. Garbage \in Lines
            BY DEF Lines
        <3>2. /\ file' \in Seq(Lines) /\ DOMAIN file' = 1 .. n + 1 /\ Len(file') = n + 1
              /\ \A k \in 1 .. n : file'[k] = file[k]
              /\ file'[n + 1] = Garbage
            BY <1>2, <2>1, <3>1, Appended DEF n
        <3>3. Parsed(file') = Parsed(file)
            <4>1. 1 .. n + 1 = 1 .. n \cup {n + 1}
                BY <1>3
            <4> QED BY <1>3, <3>2, <4>1 DEF Parsed
        <3>4. file' # <<>>
            BY <1>3, <3>2
        <3> QED BY <1>1, <1>2, <1>3, <2>1, <3>2, <3>3, <3>4
    <2>2. CASE file' = file /\ torn' = torn
        <3>1. /\ file' \in Seq(Lines) /\ torn' \in BOOLEAN
              /\ torn' => file' # <<>> /\ file'[Len(file')] = Garbage
            BY <1>2, <2>2 DEF n
        <3>2. Cardinality(Parsed(file')) >= written' - crashes' + (IF torn' THEN 1 ELSE 0)
            BY <1>1, <1>2, <1>3, <2>2
        <3> QED BY <3>1, <3>2
    <2> QED BY <1>1, <2>1, <2>2
<1>5. Memory!BarHonest' /\ \A m \in pool : m.fitness = Memory!Score(m.program, ref'[m.track])
    BY <1>1 DEF MemoryInv, Memory!BarHonest
<1>6. Parsed(file') = Parsed(file)'
    BY DEF Parsed
<1>7. /\ stream' \in Seq(Episodes) /\ ref' \in [Tracks -> Nat]
      /\ pool' \in SUBSET Measured /\ IsFiniteSet(pool')
      /\ todo' \in Seq(Measured) /\ written' \in Nat /\ crashes' \in Nat
    BY <1>1, <1>2 DEF MemoryInv
<1> QED BY <1>1, <1>4, <1>5, <1>6, <1>7 DEF MemoryInv

LEMMA MemorySame ==
    ASSUME MemoryInv,
           UNCHANGED <<stream, stage, ref, pool, todo, file, torn, written, crashes>>
    PROVE  MemoryInv'
<1>1. Memory!BarHonest' /\ Parsed(file)' = Parsed(file)
    BY DEF MemoryInv, Memory!BarHonest, Parsed
<1>2. \A m \in pool : m.fitness = Memory!Score(m.program, ref'[m.track])
    BY DEF MemoryInv
<1> QED BY <1>1, <1>2 DEF MemoryInv

LEMMA MemoryStep == ASSUME MemoryInv, Memory!Next PROVE MemoryInv'
BY MemoryEpisode, MemoryStart, MemoryMeasure, MemoryEnded, MemorySave, MemoryCompleted,
   MemoryCrash DEF Memory!Next

(* Of two programs that a run has measured on a track the slower one leads *)
(* by no more than its line is the better one, a bar below the synthetic   *)
(* lap is one that a pilot has driven, and a crash costs no more than the  *)
(* line it tears and the one after.                                        *)
THEOREM WhatIsLearntStays == Spec => []MemorySound
<1> DEFINE I == machine = "memory" => MemoryInv
<1>1. Init => I
    BY MemoryInit DEF Init
<1>2. I /\ [Next]_vars => I'
    <2> SUFFICES ASSUME I, [Next]_vars, machine' = "memory" PROVE MemoryInv'
        OBVIOUS
    <2>1. CASE MemoryNext
        BY <2>1, MemoryStep DEF MemoryNext
    <2>2. CASE UNCHANGED vars
        BY <2>2, MemorySame DEF vars, memoryOnly
    <2>3. CASE Next /\ ~MemoryNext
        <3>1. machine = "memory"
            BY <2>3, OneMachine
        <3> QED BY <2>3, <3>1 DEF Next, SessionNext, PopulationNext, RoundNext,
               ReportNext, SnapshotNext, TspNext, ScoreNext, DomainNext, SweepNext
    <2> QED BY <2>1, <2>2, <2>3
<1>3. I => MemorySound
    <2> SUFFICES ASSUME MemoryInv PROVE Memory!MemorySound
        BY DEF MemorySound
    <2>1. Memory!Comparable
        <3> SUFFICES ASSUME NEW a \in pool, NEW b \in pool, a.track = b.track,
                            Lap[a.program] >= Lap[b.program]
                     PROVE  a.fitness - b.fitness <= Style[a.program] - Style[b.program]
            BY DEF Memory!Comparable
        <3> DEFINE bar == ref[a.track]
        <3>1. /\ a.program \in Programs /\ b.program \in Programs /\ bar \in Nat
              /\ a.fitness = Memory!Score(a.program, bar)
              /\ b.fitness = Memory!Score(b.program, bar)
            BY DEF MemoryInv, Measured
        <3> HIDE DEF bar
        <3> QED BY <3>1, ScoreFollowsLap
    <2>2. Memory!LossBounded
        <3>1. file \in Seq(Lines) /\ written \in Nat /\ crashes \in Nat
              /\ Cardinality(Parsed(file)) >= written - crashes + (IF torn THEN 1 ELSE 0)
            BY DEF MemoryInv
        <3>2. Cardinality(Parsed(file)) \in Nat
            <4>1. Len(file) \in Nat /\ DOMAIN file = 1 .. Len(file)
                BY <3>1, LenProperties
            <4>2. IsFiniteSet(1 .. Len(file)) /\ Parsed(file) \in SUBSET (1 .. Len(file))
                BY <4>1, FS_Interval DEF Parsed
            <4> QED BY <4>2, FS_Subset, FS_CardinalityType
        <3>3. Cardinality(Parsed(file)) >= written - crashes
            BY <3>1, <3>2
        <3> QED BY <3>1, <3>3, LoadedTellsAll, MemoryFacts DEF Memory!LossBounded, Parsed
    <2> QED BY <2>1, <2>2 DEF MemoryInv, Memory!MemorySound
<1> QED BY <1>1, <1>2, <1>3, PTL DEF Spec
-----------------------------------------------------------------------------
(* The cycles of a population.                                             *)
Aimed == Population!Range(Population!DefaultModes)

Balls == {Population!Curveball(m, a) : m \in Aimed, a \in Population!Answers}

Results == {[history |-> h, best |-> Population!Best(h)] : h \in Histories}

EditSets == UNION {{h[k].fields : k \in DOMAIN h} : h \in Histories}

PriorKnown == prior = <<>> \/ prior \in [1 .. N -> Histories]

PopulationInv ==
    /\ pc \in {"Mix", "Advocate", "Rank", "Over", "Raised"}
    /\ PriorKnown
    /\ balls \in Seq(Balls) /\ Len(balls) <= Population!HowMany
    /\ \A b \in 1 .. Len(balls) : balls[b].mode = Population!ModeFor(b)
    /\ pc \in {"Mix", "Raised"} => cases = Corpus
    /\ advocates \in Seq(Results) /\ Len(advocates) <= N
    /\ pc \in {"Rank", "Over"} => Len(advocates) = N
    /\ context \in Seq(EditSets) /\ shown \in Seq(Seq(EditSets))
    /\ Len(shown) = Len(advocates)
    /\ Population!LastEdits(advocates, context,
                            Population!Runners(advocates, Len(advocates)))
    /\ Population!MixSound /\ Population!SiblingsShown

LEMMA PopulationFacts ==
    /\ Population!ValidPopulation
    /\ N \in Nat \ {0} /\ Len(Corpus) \in Nat \ {0} /\ DOMAIN Corpus = 1 .. Len(Corpus)
    /\ Population!HowMany \in Nat
    /\ \A h \in Histories : h \in Seq(Population!Range(h))
    /\ \A h \in Histories : Len(h) \in Nat /\ DOMAIN h = 1 .. Len(h)
    /\ \A h \in Histories : h # <<>> => Len(h) \in DOMAIN h
    /\ \A S : Population!Cardinality(S) = Cardinality(S)
<1>1. Population!ValidPopulation
    BY EvolutionAssumption
<1>2. N \in Nat \ {0} /\ Corpus \in Seq(Population!Range(Corpus)) /\ Corpus # <<>>
      /\ Ratio \in 0 .. 10000 /\ \A h \in Histories : h \in Seq(Population!Range(h))
    BY <1>1 DEF Population!ValidPopulation
<1>3. Len(Corpus) \in Nat \ {0} /\ DOMAIN Corpus = 1 .. Len(Corpus)
    BY <1>2, LenProperties, EmptySeq
<1>4. Population!HowMany \in Nat
    <2>1. Len(Corpus) * Ratio \in Nat
        BY <1>2, <1>3
    <2> QED BY <2>1 DEF Population!HowMany
<1>5. ASSUME NEW h \in Histories
      PROVE  /\ Len(h) \in Nat /\ DOMAIN h = 1 .. Len(h)
             /\ h # <<>> => Len(h) \in DOMAIN h
    BY <1>2, LenProperties, EmptySeq
<1>6. \A S : Population!Cardinality(S) = Cardinality(S)
    BY DEF Population!Cardinality, Cardinality, Population!IsFiniteSet, IsFiniteSet
<1> QED BY <1>1, <1>2, <1>3, <1>4, <1>5, <1>6

(* A finite set in a strict order: every rank is that of one element.      *)
LEMMA Ranks ==
    ASSUME NEW S, IsFiniteSet(S), NEW R \in SUBSET (S \X S),
           \A x \in S : <<x, x>> \notin R,
           \A x, y \in S : x # y => <<x, y>> \in R \/ <<y, x>> \in R,
           \A x, y, z \in S : <<x, y>> \in R /\ <<y, z>> \in R => <<x, z>> \in R
    PROVE  /\ Cardinality(S) \in Nat
           /\ \A x \in S : Cardinality({y \in S : <<y, x>> \in R}) \in 0 .. Cardinality(S) - 1
           /\ \A x, y \in S : Cardinality({z \in S : <<z, x>> \in R})
                              = Cardinality({z \in S : <<z, y>> \in R}) => x = y
           /\ \A k \in 0 .. Cardinality(S) - 1 :
                 \E x \in S : Cardinality({y \in S : <<y, x>> \in R}) = k
<1> DEFINE Below(x) == {y \in S : <<y, x>> \in R}
           Rank(x) == Cardinality(Below(x))
           Many == Cardinality(S)
           Taken == {Rank(x) : x \in S}
           f == [x \in S |-> Rank(x)]
<1>1. Many \in Nat
    BY FS_CardinalityType
<1>2. ASSUME NEW x \in S PROVE IsFiniteSet(Below(x)) /\ Rank(x) \in 0 .. Many - 1
    <2>1. Below(x) \in SUBSET S /\ x \notin Below(x) /\ Below(x) # S
        OBVIOUS
    <2> HIDE DEF Below
    <2>2. IsFiniteSet(Below(x)) /\ Rank(x) <= Many /\ Rank(x) # Many
        BY <2>1, FS_Subset
    <2>3. Rank(x) \in Nat
        BY <2>2, FS_CardinalityType
    <2> QED BY <1>1, <2>2, <2>3
<1>3. ASSUME NEW x \in S, NEW y \in S, <<x, y>> \in R PROVE Rank(x) < Rank(y)
    <2>1. Below(x) \in SUBSET Below(y) /\ x \in Below(y) /\ x \notin Below(x)
        BY <1>3
    <2>2. IsFiniteSet(Below(y)) /\ Rank(x) \in 0 .. Many - 1 /\ Rank(y) \in 0 .. Many - 1
        BY <1>2
    <2> HIDE DEF Below
    <2>3. Rank(x) <= Rank(y) /\ Rank(x) # Rank(y)
        BY <2>1, <2>2, FS_Subset
    <2> HIDE DEF Rank, Many
    <2> QED BY <1>1, <2>2, <2>3
<1>4. ASSUME NEW x \in S, NEW y \in S, x # y PROVE Rank(x) # Rank(y)
    <2>1. Rank(x) \in 0 .. Many - 1 /\ Rank(y) \in 0 .. Many - 1
        BY <1>2
    <2> HIDE DEF Rank, Below
    <2>2. Rank(x) < Rank(y) \/ Rank(y) < Rank(x)
        BY <1>3, <1>4
    <2> HIDE DEF Rank, Many
    <2> QED BY <1>1, <2>1, <2>2
<1>6. \A x \in S : Rank(x) \in 0 .. Many - 1
    BY <1>2
<1>5. Taken = 0 .. Many - 1
    <2> HIDE DEF Rank
    <2>2. f \in Bijection(S, Taken)
        BY <1>4 DEF Bijection, Injection, Surjection, IsInjective
    <2>3. Cardinality(Taken) = Many
        BY <2>2, FS_Bijection DEF ExistsBijection
    <2> HIDE DEF Many
    <2>1. Taken \in SUBSET (0 .. Many - 1)
        BY <1>6
    <2>4. IsFiniteSet(0 .. Many - 1) /\ Cardinality(0 .. Many - 1) = Many
        <3>1. 0 \in Int /\ Many - 1 \in Int
            BY <1>1
        <3>2. Cardinality(0 .. Many - 1) = IF 0 > Many - 1 THEN 0 ELSE (Many - 1) - 0 + 1
            BY <3>1, FS_Interval
        <3> QED BY <1>1, <3>1, <3>2, FS_Interval
    <2> HIDE DEF Taken
    <2> QED BY <2>1, <2>3, <2>4, FS_Subset
<1>7. \A x, y \in S : Rank(x) = Rank(y) => x = y
    BY <1>4
<1>8. \A k \in 0 .. Many - 1 : \E x \in S : Rank(x) = k
    BY <1>5
<1> QED BY <1>1, <1>6, <1>7, <1>8
(* The set of the values of an operator on a finite set; kept as a         *)
(* function.                                                               *)
LEMMA ImageFinite ==
    ASSUME NEW S, IsFiniteSet(S), NEW f
    PROVE  IsFiniteSet({f[x] : x \in S})
<1> DEFINE T == {f[x] : x \in S}
           g == [x \in S |-> f[x]]
<1>1. g \in Surjection(S, T)
    BY DEF Surjection
<1> QED BY <1>1, FS_Surjection

Three == {"edge_case_empty_input", "integer_overflow", "off_by_one"}

Kinds == {"WA", "TLE", "MLE", "RE", "CE"}

LEMMA ModeFacts ==
    /\ None \notin Aimed /\ Three \subseteq Aimed
    /\ Population!Range(Population!Alphabetical) = Three
    /\ Population!DefaultModes \in [1 .. 4 -> Aimed]
    /\ \A i, j \in 1 .. 4 : Population!DefaultModes[i] = Population!DefaultModes[j] => i = j
    /\ \A w : Population!ModeOf(w) \in Three \cup {None}
    /\ \A w : Population!ModeOf(w) # None => w \in Kinds
<1>1. None \notin Aimed
    BY PopulationFacts DEF Population!ValidPopulation, Aimed
<1>2. /\ DOMAIN Population!DefaultModes = 1 .. 4
      /\ Population!DefaultModes[1] = "off_by_one"
      /\ Population!DefaultModes[2] = "edge_case_empty_input"
      /\ Population!DefaultModes[3] = "missing_modulo"
      /\ Population!DefaultModes[4] = "integer_overflow"
    BY DEF Population!DefaultModes
<1>3. /\ DOMAIN Population!Alphabetical = 1 .. 3
      /\ Population!Alphabetical[1] = "edge_case_empty_input"
      /\ Population!Alphabetical[2] = "integer_overflow"
      /\ Population!Alphabetical[3] = "off_by_one"
    BY DEF Population!Alphabetical
<1>4. Population!Range(Population!Alphabetical) = Three
    <2>1. \A i : i \in 1 .. 3 <=> i = 1 \/ i = 2 \/ i = 3
        OBVIOUS
    <2> QED BY <1>3, <2>1 DEF Population!Range, Three
<1>5. Three \subseteq Aimed
    <2>1. 1 \in 1 .. 4 /\ 2 \in 1 .. 4 /\ 4 \in 1 .. 4
        OBVIOUS
    <2> QED BY <1>2, <2>1 DEF Population!Range, Three, Aimed
<1>6. Population!DefaultModes \in [1 .. 4 -> Aimed]
    <2>1. \A i \in 1 .. 4 : Population!DefaultModes[i] \in Aimed
        BY <1>2 DEF Population!Range, Aimed
    <2>2. Population!DefaultModes = [i \in 1 .. 4 |-> Population!DefaultModes[i]]
        BY <1>2 DEF Population!DefaultModes
    <2> QED BY <2>1, <2>2
<1>7. \A i, j \in 1 .. 4 : Population!DefaultModes[i] = Population!DefaultModes[j] => i = j
    <2>1. \A i \in 1 .. 4 : i = 1 \/ i = 2 \/ i = 3 \/ i = 4
        OBVIOUS
    <2> QED BY <1>2, <2>1
<1>8. \A w : Population!ModeOf(w) \in Three \cup {None}
    BY DEF Population!ModeOf, Three
<1>9. \A w : Population!ModeOf(w) # None => w \in Kinds
    BY DEF Population!ModeOf, Kinds
<1> QED BY <1>1, <1>4, <1>5, <1>6, <1>7, <1>8, <1>9

LEMMA PriorFacts ==
    ASSUME PriorKnown
    PROVE  /\ IsFiniteSet(DOMAIN prior)
           /\ \A k \in DOMAIN prior : prior[k] \in Histories
           /\ \A k \in DOMAIN prior : prior[k] # <<>> =>
                 \A v \in DOMAIN Population!Last(prior[k]).verdicts :
                     Population!Last(prior[k]).verdicts[v] \in Nat
<1>1. DOMAIN prior = {} \/ DOMAIN prior = 1 .. N
    <2>1. DOMAIN << >> = {}
        OBVIOUS
    <2> QED BY <2>1 DEF PriorKnown
<1>2. \A k \in DOMAIN prior : prior[k] \in Histories
    <2>1. DOMAIN << >> = {}
        OBVIOUS
    <2> QED BY <2>1 DEF PriorKnown
<1>3. IsFiniteSet(DOMAIN prior)
    BY <1>1, PopulationFacts, FS_EmptySet, FS_Interval
<1>4. ASSUME NEW h \in Histories, h # <<>>
      PROVE  \A v \in DOMAIN Population!Last(h).verdicts :
                Population!Last(h).verdicts[v] \in Nat
    <2>1. Len(h) \in DOMAIN h
        BY <1>4, PopulationFacts
    <2> QED BY <2>1, PopulationFacts DEF Population!ValidPopulation, Population!Last
<1> QED BY <1>2, <1>3, <1>4

LEMMA FailedIs ==
    ASSUME PriorKnown, NEW mode \in Three
    PROVE  /\ Population!Tally(mode) \in Nat
           /\ Population!Tally(mode) > 0 <=> Population!Met(mode)
<1> DEFINE Count(k, v) == Population!Last(prior[k]).verdicts[v]
           Hit(k) == {w \in DOMAIN Population!Last(prior[k]).verdicts :
                         Population!ModeOf(w) = mode}
           Unit(k, v) == ({k} \X {v}) \X (1 .. Count(k, v))
           Of(k) == UNION {Unit(k, v) : v \in Hit(k)}
           Ran == {a \in DOMAIN prior : prior[a] # <<>>}
           All == UNION {Of(k) : k \in Ran}
<1>1. IsFiniteSet(Kinds)
    <2>1. IsFiniteSet({"WA"} \cup {"TLE"})
        BY FS_Singleton, FS_AddElement
    <2>2. IsFiniteSet(({"WA"} \cup {"TLE"}) \cup {"MLE"})
        BY <2>1, FS_AddElement
    <2>3. IsFiniteSet((({"WA"} \cup {"TLE"}) \cup {"MLE"}) \cup {"RE"})
        BY <2>2, FS_AddElement
    <2>4. IsFiniteSet(((({"WA"} \cup {"TLE"}) \cup {"MLE"}) \cup {"RE"}) \cup {"CE"})
        BY <2>3, FS_AddElement
    <2>5. Kinds = ((({"WA"} \cup {"TLE"}) \cup {"MLE"}) \cup {"RE"}) \cup {"CE"}
        BY DEF Kinds
    <2> QED BY <2>4, <2>5
<1>2. ASSUME NEW k \in Ran PROVE IsFiniteSet(Of(k))
    <2>1. Hit(k) \in SUBSET Kinds
        BY ModeFacts DEF Three
    <2>2. IsFiniteSet(Hit(k))
        BY <1>1, <2>1, FS_Subset
    <2>3. ASSUME NEW v \in Hit(k) PROVE IsFiniteSet(Unit(k, v))
        <3>1. Count(k, v) \in Nat
            BY PriorFacts
        <3>2. IsFiniteSet({k} \X {v})
            BY FS_Singleton, FS_Product
        <3>3. IsFiniteSet(1 .. Count(k, v))
            <4> HIDE DEF Count
            <4> QED BY <3>1, FS_Interval
        <3> HIDE DEF Count
        <3> QED BY <3>2, <3>3, FS_Product
    <2> HIDE DEF Hit, Unit
    <2> DEFINE f == [v \in Hit(k) |-> Unit(k, v)]
    <2>4. {Unit(k, v) : v \in Hit(k)} = {f[v] : v \in Hit(k)}
        OBVIOUS
    <2>5. IsFiniteSet({f[v] : v \in Hit(k)})
        <3> HIDE DEF f
        <3> QED BY <2>2, ImageFinite
    <2>6. IsFiniteSet({Unit(k, v) : v \in Hit(k)})
        BY <2>4, <2>5
    <2> QED BY <2>3, <2>6, FS_UNION
<1>3. IsFiniteSet(All)
    <2>1. IsFiniteSet(Ran)
        BY PriorFacts, FS_Subset
    <2> HIDE DEF Of, Ran
    <2> DEFINE g == [k \in Ran |-> Of(k)]
    <2>2. {Of(k) : k \in Ran} = {g[k] : k \in Ran}
        OBVIOUS
    <2>3. IsFiniteSet({g[k] : k \in Ran})
        <3> HIDE DEF g
        <3> QED BY <2>1, ImageFinite
    <2>4. IsFiniteSet({Of(k) : k \in Ran})
        BY <2>2, <2>3
    <2> QED BY <1>2, <2>4, FS_UNION
<1>4. Population!Tally(mode) = Cardinality(All)
    BY PopulationFacts DEF Population!Tally, Population!Failed
<1>5. All # {} <=> Population!Met(mode)
    <2>1. ASSUME NEW k \in Ran, NEW v \in Hit(k)
          PROVE  Unit(k, v) # {} <=> Count(k, v) > 0
        <3>1. Count(k, v) \in Nat
            BY PriorFacts
        <3> HIDE DEF Count
        <3>2. 1 .. Count(k, v) # {} <=> Count(k, v) > 0
            BY <3>1
        <3> DEFINE T == 1 .. Count(k, v)
        <3> HIDE DEF T
        <3>3. ({k} \X {v}) \X T # {} <=> T # {}
            <4>1. ASSUME NEW t \in T PROVE <<<<k, v>>, t>> \in ({k} \X {v}) \X T
                OBVIOUS
            <4>2. ASSUME NEW u \in ({k} \X {v}) \X T PROVE u[2] \in T
                OBVIOUS
            <4> QED BY <4>1, <4>2
        <3> QED BY <3>2, <3>3 DEF T
    <2>2. All # {} <=> \E k \in Ran : \E v \in Hit(k) : Unit(k, v) # {}
        <3> HIDE DEF Ran, Hit, Unit
        <3> QED OBVIOUS
    <2>3. Population!Met(mode) <=> \E k \in Ran : \E v \in Hit(k) : Count(k, v) > 0
        BY DEF Population!Met
    <2> HIDE DEF Ran, Hit, Unit, Count, All
    <2> QED BY <2>1, <2>2, <2>3
<1> HIDE DEF All
<1>6. Cardinality(All) \in Nat /\ (Cardinality(All) = 0 <=> All = {})
    BY <1>3, FS_CardinalityType, FS_EmptySet
<1> QED BY <1>4, <1>5, <1>6
LEMMA PlacesDiffer ==
    /\ \A m \in Three : Population!Place(m) \in 1 .. 3
    /\ \A m, l \in Three : Population!Place(m) = Population!Place(l) => m = l
<1>1. /\ DOMAIN Population!Alphabetical = 1 .. 3
      /\ Population!Alphabetical[1] = "edge_case_empty_input"
      /\ Population!Alphabetical[2] = "integer_overflow"
      /\ Population!Alphabetical[3] = "off_by_one"
    BY DEF Population!Alphabetical
<1>2. 1 \in 1 .. 3 /\ 2 \in 1 .. 3 /\ 3 \in 1 .. 3
    OBVIOUS
<1>3. ASSUME NEW m \in Three
      PROVE  Population!Place(m) \in 1 .. 3
             /\ Population!Alphabetical[Population!Place(m)] = m
    <2>1. \E k \in 1 .. 3 : Population!Alphabetical[k] = m
        BY <1>1, <1>2 DEF Three
    <2>2. Population!Place(m) = CHOOSE k \in 1 .. 3 : Population!Alphabetical[k] = m
        BY <1>1 DEF Population!Place
    <2> QED BY <2>1, <2>2
<1> QED BY <1>3

(* The modes that have failed are ranked, each once; without any the       *)
(* default ones are taken.                                                 *)
LEMMA ModesAre ==
    ASSUME PriorKnown
    PROVE  \E l \in 1 .. 4 :
             /\ Population!Modes \in [1 .. l -> Aimed] /\ Len(Population!Modes) = l
             /\ \A i, j \in 1 .. l : Population!Modes[i] = Population!Modes[j] => i = j
             /\ \/ \A i \in 1 .. l : Population!Met(Population!Modes[i])
                \/ Population!Modes = Population!DefaultModes /\ \A m \in Three : ~Population!Met(m)
<1> DEFINE S == Population!Failing
           c == Cardinality(S)
           R == {p \in S \X S : Population!Sooner(p[1], p[2])}
           Rank(x) == Cardinality({y \in S : <<y, x>> \in R})
           M == Population!Mined
<1>1. S = {m \in Three : Population!Tally(m) > 0} /\ S = {m \in Three : Population!Met(m)}
    BY ModeFacts, FailedIs DEF Population!Failing
<1>2. S \in SUBSET Three
    BY <1>1
<1>3. IsFiniteSet(S) /\ c \in 0 .. 3
    <2>1. IsFiniteSet({"edge_case_empty_input"})
          /\ Cardinality({"edge_case_empty_input"}) = 1
        BY FS_Singleton
    <2>2. IsFiniteSet({"edge_case_empty_input"} \cup {"integer_overflow"})
          /\ Cardinality({"edge_case_empty_input"} \cup {"integer_overflow"}) \in 0 .. 2
        BY <2>1, FS_AddElement
    <2>3. IsFiniteSet(({"edge_case_empty_input"} \cup {"integer_overflow"}) \cup {"off_by_one"})
          /\ Cardinality(({"edge_case_empty_input"} \cup {"integer_overflow"})
                         \cup {"off_by_one"}) \in 0 .. 3
        BY <2>2, FS_AddElement
    <2>4. Three = ({"edge_case_empty_input"} \cup {"integer_overflow"}) \cup {"off_by_one"}
        BY DEF Three
    <2>5. IsFiniteSet(Three) /\ Cardinality(Three) \in 0 .. 3
        BY <2>3, <2>4
    <2>6. IsFiniteSet(S) /\ c <= Cardinality(Three)
        BY <1>2, <2>5, FS_Subset
    <2>7. c \in Nat
        BY <2>6, FS_CardinalityType
    <2> HIDE DEF S, c
    <2> QED BY <2>5, <2>6, <2>7
<1>4. \A x, y \in S : <<x, y>> \in R <=> Population!Sooner(x, y)
    OBVIOUS
<1>5. \A x \in S : Population!Tally(x) \in Nat /\ Population!Place(x) \in 1 .. 3
    BY <1>2, FailedIs, PlacesDiffer
<1>6. /\ \A x \in S : ~Population!Sooner(x, x)
      /\ \A x, y \in S : x # y => Population!Sooner(x, y) \/ Population!Sooner(y, x)
      /\ \A x, y, z \in S : Population!Sooner(x, y) /\ Population!Sooner(y, z)
                            => Population!Sooner(x, z)
    <2> HIDE DEF S
    <2>1. \A x, y \in S : x # y => Population!Place(x) # Population!Place(y)
        BY <1>2, PlacesDiffer
    <2> QED BY <1>5, <2>1 DEF Population!Sooner
<1>7. \A x \in S : {y \in S : <<y, x>> \in R} = {y \in S : Population!Sooner(y, x)}
    BY <1>4
<1>8. /\ \A x, y \in S : Rank(x) = Rank(y) => x = y
      /\ \A k \in 0 .. c - 1 : \E x \in S : Rank(x) = k
    <2>1. R \in SUBSET (S \X S)
        OBVIOUS
    <2>2. /\ \A x \in S : <<x, x>> \notin R
          /\ \A x, y \in S : x # y => <<x, y>> \in R \/ <<y, x>> \in R
          /\ \A x, y, z \in S : <<x, y>> \in R /\ <<y, z>> \in R => <<x, z>> \in R
        <3> HIDE DEF R, S
        <3> QED BY <1>4, <1>6
    <2> HIDE DEF R, S
    <2> QED BY <1>3, <2>1, <2>2, Ranks
<1>9. \A n \in 1 .. c : M[n] \in S /\ Rank(M[n]) = n - 1
    <2> TAKE n \in 1 .. c
    <2>1. M[n] = CHOOSE x \in S : Rank(x) = n - 1
        BY <1>7, PopulationFacts DEF Population!Mined
    <2>2. n - 1 \in 0 .. c - 1
        BY <1>3
    <2> HIDE DEF S, c, Rank, M
    <2>3. \E x \in S : Rank(x) = n - 1
        BY <1>8, <2>2
    <2> QED BY <2>1, <2>3
<1>10. M \in [1 .. c -> S]
    BY <1>9, PopulationFacts DEF Population!Mined
<1> HIDE DEF S, c, R, Rank, M
<1>11. Len(M) = c /\ (M = <<>> <=> c = 0)
    <2>1. c \in Nat
        BY <1>3
    <2>2. M \in Seq(S) /\ Len(M) = c
        BY <1>10, <2>1, SequenceOf
    <2> QED BY <2>2, EmptySeq
<1>12. CASE c = 0
    <2>1. Population!Modes = Population!DefaultModes
        BY <1>11, <1>12 DEF Population!Modes, M
    <2>2. S = {}
        BY <1>3, <1>12, FS_EmptySet DEF c
    <2>3. \A m \in Three : ~Population!Met(m)
        BY <1>1, <2>2
    <2>4. 4 \in Nat /\ 4 \in 1 .. 4
        OBVIOUS
    <2>5. Len(Population!DefaultModes) = 4
        BY <2>4, ModeFacts, SequenceOf
    <2> QED BY <2>1, <2>3, <2>4, <2>5, ModeFacts
<1>13. CASE c # 0
    <2>1. Population!Modes = M
        BY <1>11, <1>13 DEF Population!Modes, M
    <2>2. c \in 1 .. 4
        BY <1>3, <1>13
    <2>3. M \in [1 .. c -> Aimed]
        BY <1>2, <1>10, ModeFacts
    <2>4. \A i, j \in 1 .. c : M[i] = M[j] => i = j
        <3> TAKE i, j \in 1 .. c
        <3>1. Rank(M[i]) = i - 1 /\ Rank(M[j]) = j - 1
            BY <1>9
        <3> QED BY <3>1
    <2>5. \A i \in 1 .. c : Population!Met(M[i])
        BY <1>1, <1>9
    <2> QED BY <1>11, <2>1, <2>2, <2>3, <2>4, <2>5
<1> QED BY <1>12, <1>13
(* Turn by turn, no mode is ahead of another by more than one.             *)
Turns(h, l, r) == {b \in 1 .. h : (b - 1) % l = r}

LEMMA TurnsAreEven ==
    ASSUME NEW h \in Nat, NEW l \in 1 .. 4, NEW r \in 0 .. l - 1, NEW s \in 0 .. l - 1
    PROVE  /\ IsFiniteSet(Turns(h, l, r)) /\ Cardinality(Turns(h, l, r)) \in Nat
           /\ Cardinality(Turns(h, l, r)) <= Cardinality(Turns(h, l, s)) + 1
<1>1. \A t \in 0 .. l - 1 : IsFiniteSet(Turns(h, l, t)) /\ Cardinality(Turns(h, l, t)) \in Nat
    <2> TAKE t \in 0 .. l - 1
    <2>1. IsFiniteSet(1 .. h)
        BY FS_Interval
    <2>2. Turns(h, l, t) \in SUBSET (1 .. h)
        BY DEF Turns
    <2> QED BY <2>1, <2>2, FS_Subset, FS_CardinalityType
<1>2. CASE r = s
    BY <1>1, <1>2
<1>3. CASE r > s
    <2> DEFINE f == [b \in Turns(h, l, r) |-> b - (r - s)]
    <2>1. ASSUME NEW b \in Turns(h, l, r) PROVE b - (r - s) \in Turns(h, l, s)
        <3>1. b \in 1 .. h /\ (b - 1) % l = r
            BY DEF Turns
        <3>2. CASE l = 1
            BY <1>3, <3>2
        <3>3. CASE l = 2
            BY <1>3, <3>1, <3>3 DEF Turns
        <3>4. CASE l = 3
            BY <1>3, <3>1, <3>4 DEF Turns
        <3>5. CASE l = 4
            BY <1>3, <3>1, <3>5 DEF Turns
        <3> QED BY <3>2, <3>3, <3>4, <3>5
    <2>2. \A a, b \in Turns(h, l, r) : a - (r - s) = b - (r - s) => a = b
        BY DEF Turns
    <2>3. f \in Injection(Turns(h, l, r), Turns(h, l, s))
        BY <2>1, <2>2 DEF Injection, IsInjective
    <2>4. Cardinality(Turns(h, l, r)) <= Cardinality(Turns(h, l, s))
        <3> HIDE DEF f
        <3> QED BY <1>1, <2>3, FS_Injection
    <2> QED BY <1>1, <2>4
<1>4. CASE r < s
    <2> DEFINE T == Turns(h, l, r) \ {r + 1}
               f == [b \in T |-> b + (s - r) - l]
    <2>1. ASSUME NEW b \in T PROVE b + (s - r) - l \in Turns(h, l, s)
        <3>1. b \in 1 .. h /\ (b - 1) % l = r /\ b # r + 1
            BY DEF Turns
        <3>2. CASE l = 1
            BY <1>4, <3>2
        <3>3. CASE l = 2
            BY <1>4, <3>1, <3>3 DEF Turns
        <3>4. CASE l = 3
            BY <1>4, <3>1, <3>4 DEF Turns
        <3>5. CASE l = 4
            BY <1>4, <3>1, <3>5 DEF Turns
        <3> QED BY <3>2, <3>3, <3>4, <3>5
    <2>2. \A a, b \in T : a + (s - r) - l = b + (s - r) - l => a = b
        BY DEF Turns
    <2>3. f \in Injection(T, Turns(h, l, s))
        <3> HIDE DEF T
        <3> QED BY <2>1, <2>2 DEF Injection, IsInjective
    <2>4. Cardinality(T) <= Cardinality(Turns(h, l, s))
        <3> HIDE DEF f, T
        <3> QED BY <1>1, <2>3, FS_Injection
    <2>5. IsFiniteSet(T) /\ Cardinality(Turns(h, l, r)) <= Cardinality(T) + 1
        <3>1. Cardinality(T) = IF r + 1 \in Turns(h, l, r)
                               THEN Cardinality(Turns(h, l, r)) - 1
                               ELSE Cardinality(Turns(h, l, r))
            BY <1>1, FS_RemoveElement
        <3>2. IsFiniteSet(T)
            BY <1>1, FS_RemoveElement
        <3> HIDE DEF T
        <3> QED BY <1>1, <3>1, <3>2
    <2>6. Cardinality(T) \in Nat
        BY <2>5, FS_CardinalityType
    <2> HIDE DEF T
    <2> QED BY <1>1, <2>4, <2>5, <2>6
<1> QED BY <1>1, <1>2, <1>3, <1>4
LEMMA BallsAreAimed ==
    /\ \A ball \in Balls : ball.mode \in Aimed
    /\ \A ball \in Balls : \A k \in DOMAIN Corpus : Corpus[k] # ball
BY PopulationFacts DEF Balls, Aimed, Population!Curveball, Population!ValidPopulation

LEMMA ModesSame ==
    ASSUME UNCHANGED prior
    PROVE  /\ Population!Modes' = Population!Modes
           /\ \A k : Population!ModeFor(k)' = Population!ModeFor(k)
<1>1. \A m : Population!Failed(m)' = Population!Failed(m)
    BY DEF Population!Failed
<1>2. \A m : Population!Tally(m)' = Population!Tally(m)
    BY <1>1 DEF Population!Tally
<1>3. Population!Failing' = Population!Failing
    BY <1>2 DEF Population!Failing
<1>4. \A a, b : Population!Sooner(a, b)' = Population!Sooner(a, b)
    BY <1>2 DEF Population!Sooner
<1>5. Population!Mined' = Population!Mined
    BY SMTT(30), <1>3, <1>4 DEF Population!Mined
<1>6. Population!Modes' = Population!Modes
    BY <1>5 DEF Population!Modes
<1> QED BY <1>6 DEF Population!ModeFor

(* The mix that follows from where the curveballs have gone.               *)
LEMMA MixIsSound ==
    ASSUME PriorKnown, NEW positions \in [1 .. Population!HowMany -> DOMAIN Corpus],
           Population!IsInjective(positions),
           Len(balls) = Population!HowMany, balls \in Seq(Balls),
           \A b \in 1 .. Len(balls) : balls[b].mode = Population!ModeFor(b),
           cases' = [k \in DOMAIN Corpus |->
                       IF k \in Population!Range(positions)
                       THEN balls[CHOOSE b \in DOMAIN balls : positions[b] = k] ELSE Corpus[k]],
           UNCHANGED prior
    PROVE  Population!MixSound'
<1> DEFINE h == Population!HowMany
           places == Population!Range(positions)
<1>1. h \in Nat /\ DOMAIN balls = 1 .. h /\ DOMAIN positions = 1 .. h
      /\ places = {positions[b] : b \in 1 .. h} /\ places \in SUBSET DOMAIN Corpus
    BY PopulationFacts, LenProperties DEF Population!Range
<1>2. \A a, b \in 1 .. h : positions[a] = positions[b] => a = b
    BY <1>1 DEF Population!IsInjective
<1>3. \A b \in 1 .. h : cases'[positions[b]] = balls[b]
    <2> TAKE b \in 1 .. h
    <2>1. positions[b] \in DOMAIN Corpus /\ positions[b] \in places
        BY <1>1
    <2>2. (CHOOSE a \in DOMAIN balls : positions[a] = positions[b]) = b
        BY <1>1, <1>2
    <2> QED BY <2>1, <2>2
<1>4. \A k \in DOMAIN Corpus : k \notin places => cases'[k] = Corpus[k]
    OBVIOUS
<1>5. \A b \in 1 .. h : balls[b] \in Balls /\ balls[b].mode = Population!ModeFor(b)
    BY <1>1, LenProperties
<1> HIDE DEF places
<1>6. {k \in DOMAIN Corpus : cases'[k] # Corpus[k]} = places
    <2> SUFFICES ASSUME NEW k \in DOMAIN Corpus
                 PROVE  cases'[k] # Corpus[k] <=> k \in places
        BY <1>1
    <2>1. CASE k \in places
        <3>1. PICK b \in 1 .. h : k = positions[b]
            BY <1>1, <2>1
        <3>2. cases'[k] = balls[b] /\ balls[b] \in Balls
            BY <1>3, <1>5, <3>1
        <3> QED BY <2>1, <3>2, BallsAreAimed
    <2>2. CASE k \notin places
        BY <1>4, <2>2
    <2> QED BY <2>1, <2>2
<1>7. Cardinality(places) = h
    <2> DEFINE f == [b \in 1 .. h |-> positions[b]]
    <2>1. f \in Bijection(1 .. h, places)
        BY <1>1, <1>2 DEF Bijection, Injection, Surjection, IsInjective
    <2>2. IsFiniteSet(1 .. h) /\ Cardinality(1 .. h) = h
        BY <1>1, FS_Interval
    <2> HIDE DEF f
    <2> QED BY <2>1, <2>2, FS_Bijection DEF ExistsBijection
<1>8. Len(cases') = Len(Corpus)
    <2> DEFINE T == {cases'[k] : k \in 1 .. Len(Corpus)}
    <2>1. cases' \in [1 .. Len(Corpus) -> T]
        BY PopulationFacts
    <2> HIDE DEF T
    <2> QED BY <2>1, PopulationFacts, SequenceOf
<1>9. PICK l \in 1 .. 4 :
        /\ Population!Modes \in [1 .. l -> Aimed] /\ Len(Population!Modes) = l
        /\ \A i, j \in 1 .. l : Population!Modes[i] = Population!Modes[j] => i = j
        /\ \/ \A i \in 1 .. l : Population!Met(Population!Modes[i])
           \/ Population!Modes = Population!DefaultModes /\ \A m \in Three : ~Population!Met(m)
    BY ModesAre
<1> DEFINE turn(b) == (b - 1) % l
           of(m) == {k \in places : cases'[k].mode = m}
<1>10. \A b \in 1 .. h : turn(b) \in 0 .. l - 1
                         /\ balls[b].mode = Population!Modes[turn(b) + 1]
    <2> TAKE b \in 1 .. h
    <2>1. turn(b) \in 0 .. l - 1
        <3>1. CASE l = 1
            BY <3>1
        <3>2. CASE l = 2
            BY <3>2
        <3>3. CASE l = 3
            BY <3>3
        <3>4. CASE l = 4
            BY <3>4
        <3> QED BY <3>1, <3>2, <3>3, <3>4
    <2>2. balls[b].mode = Population!Modes[turn(b) + 1]
        BY <1>5, <1>9 DEF Population!ModeFor
    <2> QED BY <2>1, <2>2
<1>11. ASSUME NEW i \in 1 .. l
       PROVE  Cardinality(of(Population!Modes[i])) = Cardinality(Turns(h, l, i - 1))
    <2> DEFINE m == Population!Modes[i]
               T == Turns(h, l, i - 1)
               f == [b \in T |-> positions[b]]
    <2>1. \A b \in 1 .. h : b \in T <=> balls[b].mode = m
        <3> TAKE b \in 1 .. h
        <3>1. turn(b) \in 0 .. l - 1 /\ balls[b].mode = Population!Modes[turn(b) + 1]
            BY <1>10
        <3>2. b \in T <=> turn(b) = i - 1
            BY DEF Turns
        <3> HIDE DEF turn, T
        <3>3. turn(b) + 1 \in 1 .. l
            BY <3>1
        <3>4. balls[b].mode = m <=> turn(b) + 1 = i
            BY <1>9, <3>1, <3>3
        <3> QED BY <3>1, <3>2, <3>4
    <2>2. T \in SUBSET (1 .. h)
        BY DEF Turns
    <2> HIDE DEF T, m
    <2>3. of(m) = {positions[b] : b \in T}
        <3>1. \A b \in T : positions[b] \in of(m)
            <4> TAKE b \in T
            <4>1. b \in 1 .. h /\ balls[b].mode = m
                BY <2>1, <2>2
            <4>2. positions[b] \in places /\ cases'[positions[b]] = balls[b]
                BY <1>1, <1>3, <4>1
            <4> QED BY <4>1, <4>2
        <3>2. ASSUME NEW k \in of(m) PROVE \E b \in T : k = positions[b]
            <4>1. PICK b \in 1 .. h : k = positions[b]
                BY <1>1
            <4>2. balls[b].mode = m
                BY <1>3, <4>1
            <4> QED BY <2>1, <4>1, <4>2
        <3> QED BY <3>1, <3>2
    <2>4. f \in Bijection(T, of(m))
        <3>1. \A b \in T : f[b] \in of(m)
            BY <2>3
        <3>2. \A a, b \in T : f[a] = f[b] => a = b
            BY <1>2, <2>2
        <3>3. \A k \in of(m) : \E b \in T : f[b] = k
            BY <2>3
        <3> HIDE DEF of
        <3> QED BY <3>1, <3>2, <3>3 DEF Bijection, Injection, Surjection, IsInjective
    <2>5. 0 \in 0 .. l - 1 /\ i - 1 \in 0 .. l - 1
        OBVIOUS
    <2>6. IsFiniteSet(T)
        BY <1>1, <2>5, TurnsAreEven DEF T
    <2> HIDE DEF f, of
    <2>7. Cardinality(of(m)) = Cardinality(T)
        BY <2>4, <2>6, FS_Bijection DEF ExistsBijection
    <2> QED BY <2>7 DEF m, T
<1> HIDE DEF of
<1>12. ASSUME NEW m \in Population!Range(Population!Modes),
              NEW n \in Population!Range(Population!Modes)
       PROVE  Cardinality(of(m)) <= Cardinality(of(n)) + 1
    <2>1. PICK i \in 1 .. l, j \in 1 .. l : m = Population!Modes[i] /\ n = Population!Modes[j]
        BY <1>9 DEF Population!Range
    <2>2. i - 1 \in 0 .. l - 1 /\ j - 1 \in 0 .. l - 1
        OBVIOUS
    <2>3. Cardinality(Turns(h, l, i - 1)) <= Cardinality(Turns(h, l, j - 1)) + 1
        BY <1>1, <2>2, TurnsAreEven
    <2> QED BY <1>11, <2>1, <2>3
<1>13. ASSUME NEW k \in places
       PROVE  \/ Population!Met(cases'[k].mode)
              \/ /\ cases'[k].mode \in Aimed
                 /\ \A mode \in Three : ~Population!Met(mode)
    <2>1. PICK b \in 1 .. h : k = positions[b]
        BY <1>1
    <2>2. cases'[k].mode = Population!Modes[turn(b) + 1] /\ turn(b) \in 0 .. l - 1
        <3> HIDE DEF turn
        <3> QED BY <1>3, <1>10, <2>1
    <2> HIDE DEF turn
    <2>3. turn(b) + 1 \in 1 .. l
        BY <2>2
    <2>4. cases'[k].mode \in Aimed
        BY <1>9, <2>2, <2>3
    <2>5. CASE \A i \in 1 .. l : Population!Met(Population!Modes[i])
        BY <2>2, <2>3, <2>5
    <2>6. CASE \A m \in Three : ~Population!Met(m)
        BY <2>4, <2>6
    <2> QED BY <1>9, <2>5, <2>6
<1>14. /\ Population!Modes' = Population!Modes
       /\ \A mode : Population!Met(mode)' = Population!Met(mode)
       /\ Population!Traps' = places
       /\ \A m : Population!AimedAt(m)' = of(m)
    <2>1. Population!Traps' = places
        BY <1>6 DEF Population!Traps
    <2> QED BY <2>1, ModesSame DEF Population!AimedAt, Population!Met, of
<1> QED BY <1>7, <1>8, <1>12, <1>13, <1>14, PopulationFacts, ModeFacts
        DEF Population!MixSound, Aimed
(* What has been shown, and what will be.                                  *)
LEMMA NoEdits == Population!LastEdits(<< >>, << >>, Population!Runners(<< >>, Len(<< >>)))
<1>1. Population!Runners(<< >>, Len(<< >>)) = {}
    BY EmptySeq DEF Population!Runners
<1>2. Population!Cardinality({}) = 0
    BY PopulationFacts, FS_EmptySet
<1> DEFINE at == [n \in 1 .. 0 |-> n]
           edits == [n \in 1 .. 0 |-> Population!Last(<< >>[at[n]].history).fields]
<1>3. at \in [1 .. 0 -> {}]
    OBVIOUS
<1>4. edits = << >>
    OBVIOUS
<1>5. \A m, n \in 1 .. 0 : m < n => at[m] < at[n]
    OBVIOUS
<1> HIDE DEF at
<1> QED BY <1>1, <1>2, <1>3, <1>4, <1>5 DEF Population!LastEdits

LEMMA RunnersFinite ==
    ASSUME NEW a, NEW k \in Nat
    PROVE  /\ IsFiniteSet(Population!Runners(a, k))
           /\ Cardinality(Population!Runners(a, k)) \in Nat
           /\ Population!Runners(a, k) \in SUBSET (1 .. k)
<1>1. Population!Runners(a, k) \in SUBSET (1 .. k)
    BY DEF Population!Runners
<1>2. IsFiniteSet(1 .. k)
    BY FS_Interval
<1> QED BY <1>1, <1>2, FS_Subset, FS_CardinalityType

LEMMA EditsStay ==
    ASSUME NEW a \in Seq(Results), NEW r \in Results, NEW k \in 0 .. Len(a), NEW e,
           Population!LastEdits(a, e, Population!Runners(a, k))
    PROVE  Population!LastEdits(Append(a, r), e, Population!Runners(Append(a, r), k))
<1> DEFINE b == Append(a, r)
           places == Population!Runners(a, k)
           c == Population!Cardinality(places)
<1>1. Len(a) \in Nat /\ \A j \in 1 .. Len(a) : b[j] = a[j]
    BY Appended
<1>2. \A j \in 1 .. k : b[j] = a[j]
    BY <1>1
<1> HIDE DEF b
<1>3. Population!Runners(b, k) = places
    BY <1>2 DEF Population!Runners
<1>4. places \in SUBSET (1 .. k)
    BY DEF Population!Runners
<1> HIDE DEF places
<1>5. PICK at \in [1 .. c -> places] :
        /\ \A m, n \in 1 .. c : m < n => at[m] < at[n]
        /\ e = [n \in 1 .. c |-> Population!Last(a[at[n]].history).fields]
    BY DEF Population!LastEdits, places
<1> HIDE DEF c
<1>6. \A n \in 1 .. c : a[at[n]] = b[at[n]]
    BY <1>2, <1>4, <1>5
<1>7. e = [n \in 1 .. c |-> Population!Last(b[at[n]].history).fields]
    BY <1>5, <1>6
<1>8. Population!LastEdits(b, e, places)
    BY <1>5, <1>7 DEF Population!LastEdits, c
<1> QED BY <1>3, <1>8 DEF b

LEMMA EditsGrow ==
    ASSUME NEW a \in Seq(Results), NEW r \in Results, NEW e \in Seq(EditSets),
           Population!LastEdits(a, e, Population!Runners(a, Len(a)))
    PROVE  Population!LastEdits(Append(a, r),
               IF r.history = << >> THEN e ELSE Append(e, Population!Last(r.history).fields),
               Population!Runners(Append(a, r), Len(Append(a, r))))
<1> DEFINE b == Append(a, r)
           l == Len(a)
           places == Population!Runners(a, l)
           c == Cardinality(places)
           x == Population!Last(r.history).fields
<1>1. l \in Nat /\ Len(b) = l + 1 /\ b[l + 1] = r /\ \A j \in 1 .. l : b[j] = a[j]
    BY Appended
<1>2. Population!LastEdits(b, e, Population!Runners(b, l)) /\ Population!Runners(b, l) = places
    <2>1. l \in 0 .. Len(a)
        BY <1>1
    <2>2. Population!LastEdits(b, e, Population!Runners(b, l))
        <3> HIDE DEF l
        <3> QED BY <2>1, EditsStay DEF l
    <2> HIDE DEF b
    <2>3. Population!Runners(b, l) = places
        BY <1>1 DEF Population!Runners
    <2> QED BY <2>2, <2>3
<1> HIDE DEF b, l
<1>3. CASE r.history = << >>
    <2>1. Population!Runners(b, l + 1) = Population!Runners(b, l)
        <3>1. \A j : j \in 1 .. l + 1 <=> j \in 1 .. l \/ j = l + 1
            BY <1>1
        <3> QED BY <1>1, <1>3, <3>1 DEF Population!Runners
    <2> QED BY <1>1, <1>2, <1>3, <2>1 DEF b
<1>4. CASE r.history # << >>
    <2>1. Population!Runners(b, l + 1) = places \cup {l + 1}
        <3>1. \A j : j \in 1 .. l + 1 <=> j \in 1 .. l \/ j = l + 1
            BY <1>1
        <3>2. Population!Runners(b, l + 1) = Population!Runners(b, l) \cup {l + 1}
            BY <1>1, <1>4, <3>1 DEF Population!Runners
        <3> QED BY <1>2, <3>2
    <2>2. IsFiniteSet(places) /\ c \in Nat /\ places \in SUBSET (1 .. l)
        BY <1>1, RunnersFinite
    <2> HIDE DEF places
    <2>3. Cardinality(places \cup {l + 1}) = c + 1
        <3>1. l + 1 \notin places
            BY <1>1, <2>2
        <3> QED BY <2>2, <3>1, FS_AddElement
    <2>4. PICK at \in [1 .. c -> places] :
            /\ \A m, n \in 1 .. c : m < n => at[m] < at[n]
            /\ e = [n \in 1 .. c |-> Population!Last(b[at[n]].history).fields]
        BY <1>2, PopulationFacts DEF Population!LastEdits
    <2> HIDE DEF c, x
    <2> DEFINE au == [n \in 1 .. c + 1 |-> IF n = c + 1 THEN l + 1 ELSE at[n]]
    <2>5. \A n : n \in 1 .. c + 1 <=> n \in 1 .. c \/ n = c + 1
        BY <2>2
    <2>6. \A n \in 1 .. c : n # c + 1 /\ at[n] \in places /\ at[n] \in 1 .. l
        <3>1. \A n \in 1 .. c : n # c + 1
            BY <2>2
        <3>2. \A n \in 1 .. c : at[n] \in places
            BY <2>4
        <3> QED BY <2>2, <3>1, <3>2
    <2>7. au \in [1 .. c + 1 -> places \cup {l + 1}]
        BY <2>5, <2>6
    <2>8. \A m, n \in 1 .. c + 1 : m < n => au[m] < au[n]
        <3> SUFFICES ASSUME NEW m \in 1 .. c + 1, NEW n \in 1 .. c + 1, m < n
                     PROVE  au[m] < au[n]
            OBVIOUS
        <3>1. m \in 1 .. c /\ m # c + 1 /\ au[m] = at[m]
            BY <2>2
        <3>2. CASE n = c + 1
            <4>1. au[n] = l + 1
                BY <3>2
            <4>2. at[m] \in 1 .. l
                BY <2>6, <3>1
            <4> QED BY <1>1, <3>1, <4>1, <4>2
        <3>3. CASE n # c + 1
            BY <2>4, <2>5, <3>1, <3>3
        <3> QED BY <3>2, <3>3
    <2>9. DOMAIN e = 1 .. c /\ Len(e) = c
        <3>1. DOMAIN e = 1 .. c
            BY <2>4
        <3>2. DOMAIN e = 1 .. Len(e) /\ Len(e) \in Nat
            BY LenProperties
        <3> QED BY <2>2, <3>1, <3>2
    <2>10. x \in EditSets
        <3>1. PICK h \in Histories : r.history = h
            BY DEF Results
        <3>2. Len(h) \in DOMAIN h
            BY <1>4, <3>1, PopulationFacts
        <3> QED BY <3>1, <3>2 DEF EditSets, Population!Last, x
    <2> DEFINE f == Append(e, x)
               g == [n \in 1 .. c + 1 |-> Population!Last(b[au[n]].history).fields]
    <2>11. f \in Seq(EditSets) /\ DOMAIN f = 1 .. c + 1 /\ f[c + 1] = x
           /\ \A n \in 1 .. c : f[n] = e[n]
        BY <2>9, <2>10, Appended
    <2>12. f \in [1 .. c + 1 -> EditSets]
        <3>1. \A s \in Seq(EditSets) : s \in [DOMAIN s -> EditSets]
            BY IsASeq, LenProperties
        <3> HIDE DEF f
        <3> QED BY <2>11, <3>1
    <2> HIDE DEF f
    <2>13. \A n \in 1 .. c + 1 : f[n] = g[n]
        <3> TAKE n \in 1 .. c + 1
        <3>1. CASE n = c + 1
            <4>1. g[n] = Population!Last(b[l + 1].history).fields
                BY <3>1
            <4> QED BY <1>1, <2>11, <3>1, <4>1 DEF x
        <3>2. CASE n # c + 1
            <4>1. n \in 1 .. c
                BY <2>5, <3>2
            <4>2. g[n] = Population!Last(b[at[n]].history).fields
                BY <3>2
            <4> QED BY <2>4, <2>11, <4>1, <4>2
        <3> QED BY <3>1, <3>2
    <2>14. f = g
        BY <2>12, <2>13
    <2>15. Population!Cardinality(places \cup {l + 1}) = c + 1
        BY <2>3, PopulationFacts
    <2> HIDE DEF au
    <2>16. Population!LastEdits(b, f, places \cup {l + 1})
        BY <2>7, <2>8, <2>14, <2>15 DEF Population!LastEdits
    <2> QED BY <1>1, <1>4, <2>1, <2>16 DEF b, f, x
<1> QED BY <1>3, <1>4
LEMMA MixSame ==
    ASSUME UNCHANGED <<prior, cases>>, Population!MixSound,
           pc \in {"Advocate", "Rank", "Over"}
    PROVE  Population!MixSound'
<1>1. Population!Traps' = Population!Traps
    BY DEF Population!Traps
<1>2. \A mode : Population!AimedAt(mode)' = Population!AimedAt(mode)
    BY <1>1 DEF Population!AimedAt
<1>3. \A mode : Population!Met(mode)' = Population!Met(mode)
    BY DEF Population!Met
<1>4. Population!Modes' = Population!Modes
    BY ModesSame
<1> QED BY <1>1, <1>2, <1>3, <1>4 DEF Population!MixSound

LEMMA PopulationInit == ASSUME Population!Init PROVE PopulationInv
<1> USE DEF Population!Init
<1>1. PriorKnown
    BY DEF PriorKnown
<1>2. /\ balls \in Seq(Balls) /\ Len(balls) = 0 /\ advocates \in Seq(Results)
      /\ Len(advocates) = 0 /\ context \in Seq(EditSets) /\ shown \in Seq(Seq(EditSets))
      /\ Len(shown) = 0
    BY EmptySeq
<1>3. 0 <= N /\ 0 <= Population!HowMany
    BY PopulationFacts
<1>4. Population!MixSound
    BY DEF Population!MixSound
<1>5. Population!SiblingsShown
    <2>1. DOMAIN shown = {}
        OBVIOUS
    <2> QED BY <2>1 DEF Population!SiblingsShown
<1> QED BY <1>1, <1>2, <1>3, <1>4, <1>5, NoEdits DEF PopulationInv

LEMMA PopulationGenerate ==
    ASSUME PopulationInv, Population!Generate PROVE PopulationInv'
<1> USE DEF PopulationInv
<1>1. /\ pc = "Mix" /\ Len(balls) < Population!HowMany
      /\ UNCHANGED <<prior, cases, advocates, context, shown>>
    BY DEF Population!Generate, Population!runVars
<1>2. PICK answer \in Population!Answers :
        IF Population!Raises(answer) THEN pc' = "Raised" /\ UNCHANGED balls
        ELSE /\ balls' = Append(balls, Population!Curveball(
                                          Population!ModeFor(Len(balls) + 1), answer))
             /\ UNCHANGED pc
    BY DEF Population!Generate
<1>3. PriorKnown' /\ Population!SiblingsShown'
    BY <1>1 DEF PriorKnown, Population!SiblingsShown
<1>4. Population!MixSound'
    BY <1>1, <1>2 DEF Population!MixSound
<1>5. \A b : Population!ModeFor(b)' = Population!ModeFor(b)
    BY <1>1, ModesSame
<1>6. /\ balls' \in Seq(Balls) /\ Len(balls') <= Population!HowMany
      /\ \A b \in 1 .. Len(balls') : balls'[b].mode = Population!ModeFor(b)
    <2>1. CASE Population!Raises(answer)
        BY <1>2, <2>1
    <2>2. CASE ~Population!Raises(answer)
        <3> DEFINE ball == Population!Curveball(Population!ModeFor(Len(balls) + 1), answer)
        <3>1. ball.mode = Population!ModeFor(Len(balls) + 1)
            BY DEF Population!Curveball
        <3>2. Len(balls) \in Nat
            BY LenProperties
        <3>3. Population!ModeFor(Len(balls) + 1) \in Aimed
            <4>1. PICK l \in 1 .. 4 :
                    /\ Population!Modes \in [1 .. l -> Aimed] /\ Len(Population!Modes) = l
                BY ModesAre
            <4> DEFINE turn == ((Len(balls) + 1) - 1) % l
            <4>2. turn \in 0 .. l - 1
                <5>1. CASE l = 1
                    BY <3>2, <5>1
                <5>2. CASE l = 2
                    BY <3>2, <5>2
                <5>3. CASE l = 3
                    BY SMTT(30), <3>2, <5>3
                <5>4. CASE l = 4
                    BY SMTT(30), <3>2, <5>4
                <5> QED BY <5>1, <5>2, <5>3, <5>4
            <4>3. Population!ModeFor(Len(balls) + 1) = Population!Modes[turn + 1]
                BY <4>1 DEF Population!ModeFor
            <4> HIDE DEF turn
            <4>4. turn + 1 \in 1 .. l
                BY <4>2
            <4> QED BY <4>1, <4>3, <4>4
        <3>4. ball \in Balls
            BY <3>3 DEF Balls
        <3>5. balls' = Append(balls, ball)
            BY <1>2, <2>2
        <3> HIDE DEF ball
        <3>6. /\ balls' \in Seq(Balls) /\ Len(balls') = Len(balls) + 1
              /\ \A b \in 1 .. Len(balls) : balls'[b] = balls[b]
              /\ balls'[Len(balls) + 1] = ball
            BY <3>4, <3>5, Appended
        <3>7. Len(balls') <= Population!HowMany
            BY <1>1, <3>2, <3>6, PopulationFacts
        <3>8. \A b \in 1 .. Len(balls') : b \in 1 .. Len(balls) \/ b = Len(balls) + 1
            BY <3>2, <3>6
        <3> QED BY <3>1, <3>6, <3>7, <3>8
    <2> QED BY <2>1, <2>2
<1>7. pc' \in {"Mix", "Raised"}
    BY <1>1, <1>2
<1>8. Population!LastEdits(advocates', context',
                           Population!Runners(advocates', Len(advocates')))
    BY <1>1
<1> QED BY <1>1, <1>3, <1>4, <1>5, <1>6, <1>7, <1>8

LEMMA PopulationAssemble ==
    ASSUME PopulationInv, Population!Assemble PROVE PopulationInv'
<1> USE DEF PopulationInv
<1>1. /\ pc = "Mix" /\ pc' = "Advocate" /\ Len(balls) = Population!HowMany
      /\ UNCHANGED <<prior, balls, advocates, context, shown>>
    BY DEF Population!Assemble, Population!runVars
<1>2. PICK positions \in [1 .. Population!HowMany -> DOMAIN Corpus] :
        /\ Population!IsInjective(positions)
        /\ cases' = [k \in DOMAIN Corpus |->
                       IF k \in Population!Range(positions)
                       THEN balls[CHOOSE b \in DOMAIN balls : positions[b] = k] ELSE Corpus[k]]
    BY DEF Population!Assemble
<1>3. Population!MixSound'
    BY <1>1, <1>2, MixIsSound
<1>4. PriorKnown' /\ Population!SiblingsShown'
    BY <1>1 DEF PriorKnown, Population!SiblingsShown
<1>5. \A b : Population!ModeFor(b)' = Population!ModeFor(b)
    BY <1>1, ModesSame
<1>6. Population!LastEdits(advocates', context',
                           Population!Runners(advocates', Len(advocates')))
    BY <1>1
<1> QED BY <1>1, <1>3, <1>4, <1>5, <1>6

LEMMA PopulationRun ==
    ASSUME PopulationInv, Population!RunAdvocate PROVE PopulationInv'
<1> USE DEF PopulationInv
<1>1. /\ pc = "Advocate" /\ Len(advocates) < N
      /\ UNCHANGED <<prior, balls, cases>>
      /\ shown' = Append(shown, context)
      /\ pc' = IF Len(advocates') = N THEN "Rank" ELSE pc
    BY DEF Population!RunAdvocate, Population!mixVars
<1>2. PICK h \in Histories :
        /\ advocates' = Append(advocates, [history |-> h, best |-> Population!Best(h)])
        /\ context' = IF h = << >> THEN context
                      ELSE Append(context, Population!Last(h).fields)
    BY DEF Population!RunAdvocate
<1> DEFINE r == [history |-> h, best |-> Population!Best(h)]
<1>3. r \in Results /\ r.history = h
    BY DEF Results
<1>4. advocates' = Append(advocates, r)
    BY <1>2
<1>5. context' = IF r.history = << >> THEN context
                 ELSE Append(context, Population!Last(r.history).fields)
    BY <1>2, <1>3
<1> HIDE DEF r
<1>6. /\ advocates' \in Seq(Results) /\ Len(advocates') = Len(advocates) + 1
      /\ Len(advocates) \in Nat
    BY <1>3, <1>4, Appended
<1>7. /\ shown' \in Seq(Seq(EditSets)) /\ Len(shown') = Len(shown) + 1
      /\ DOMAIN shown = 1 .. Len(shown) /\ DOMAIN shown' = 1 .. Len(shown) + 1
      /\ \A k \in 1 .. Len(shown) : shown'[k] = shown[k]
      /\ shown'[Len(shown) + 1] = context
    BY <1>1, Appended
<1>8. Population!LastEdits(advocates', context',
                           Population!Runners(advocates', Len(advocates')))
    BY <1>3, <1>4, <1>5, EditsGrow
<1>9. context' \in Seq(EditSets)
    <2>1. CASE r.history = << >>
        BY <1>5, <2>1
    <2>2. CASE r.history # << >>
        <3>1. Len(h) \in DOMAIN h
            BY <1>3, <2>2, PopulationFacts
        <3>2. Population!Last(h).fields \in EditSets
            BY <3>1 DEF EditSets, Population!Last
        <3> QED BY <1>2, <1>3, <2>2, <3>2, Appended
    <2> QED BY <2>1, <2>2
<1>10. \A k \in 0 .. Len(advocates) : \A e :
         Population!LastEdits(advocates, e, Population!Runners(advocates, k))
         => Population!LastEdits(advocates', e, Population!Runners(advocates', k))
    BY <1>3, <1>4, EditsStay
<1>11. Population!SiblingsShown'
    <2> SUFFICES ASSUME NEW k \in DOMAIN shown'
                 PROVE  Population!LastEdits(advocates', shown'[k],
                                             Population!Runners(advocates', k - 1))
        BY DEF Population!SiblingsShown
    <2>1. CASE k \in 1 .. Len(shown)
        <3>1. Population!LastEdits(advocates, shown[k],
                                   Population!Runners(advocates, k - 1))
            BY <1>7, <2>1 DEF Population!SiblingsShown
        <3>2. k - 1 \in 0 .. Len(advocates)
            BY <1>6, <2>1
        <3> QED BY <1>7, <1>10, <2>1, <3>1, <3>2
    <2>2. CASE k = Len(shown) + 1
        <3>1. k - 1 = Len(advocates) /\ Len(advocates) \in 0 .. Len(advocates)
            BY <1>6, <2>2
        <3> QED BY <1>7, <1>10, <2>2, <3>1
    <2>3. k \in 1 .. Len(shown) \/ k = Len(shown) + 1
        BY <1>6, <1>7
    <2> QED BY <2>1, <2>2, <2>3
<1>12. Population!MixSound'
    BY <1>1, MixSame
<1>13. \A b : Population!ModeFor(b)' = Population!ModeFor(b)
    BY <1>1, ModesSame
<1>14. PriorKnown'
    BY <1>1 DEF PriorKnown
<1>15. Len(advocates') <= N
    BY <1>1, <1>6, PopulationFacts
<1>16. pc' \in {"Advocate", "Rank"} /\ (pc' = "Rank" => Len(advocates') = N)
    BY <1>1
<1> QED BY <1>1, <1>6, <1>7, <1>8, <1>9, <1>11, <1>12, <1>13, <1>14, <1>15, <1>16

LEMMA PopulationRank ==
    ASSUME PopulationInv, Population!Rank PROVE PopulationInv'
<1> USE DEF PopulationInv
<1>1. /\ pc = "Rank" /\ pc' = "Over"
      /\ UNCHANGED <<prior, balls, cases, advocates, context, shown>>
    BY DEF Population!Rank, Population!runVars, Population!mixVars
<1>2. Population!MixSound'
    BY <1>1, MixSame
<1>3. PriorKnown' /\ Population!SiblingsShown'
    BY <1>1 DEF PriorKnown, Population!SiblingsShown
<1>4. \A b : Population!ModeFor(b)' = Population!ModeFor(b)
    BY <1>1, ModesSame
<1>5. Population!LastEdits(advocates', context',
                           Population!Runners(advocates', Len(advocates')))
    BY <1>1
<1> QED BY <1>1, <1>2, <1>3, <1>4, <1>5

LEMMA PopulationNextCycle ==
    ASSUME PopulationInv, Population!NextCycle PROVE PopulationInv'
<1> USE DEF Population!NextCycle
<1>1. prior' \in [1 .. N -> Histories]
    <2>1. Len(advocates) = N /\ advocates \in Seq(Results)
        BY DEF PopulationInv
    <2>2. \A k \in 1 .. N : advocates[k] \in Results
        BY <2>1, LenProperties
    <2>3. \A r \in Results : r.history \in Histories
        BY DEF Results
    <2> QED BY <2>2, <2>3
<1>2. PriorKnown'
    BY <1>1 DEF PriorKnown
<1>3. /\ balls' \in Seq(Balls) /\ Len(balls') = 0 /\ advocates' \in Seq(Results)
      /\ Len(advocates') = 0 /\ context' \in Seq(EditSets) /\ shown' \in Seq(Seq(EditSets))
      /\ Len(shown') = 0
    BY EmptySeq
<1>4. 0 <= N /\ 0 <= Population!HowMany
    BY PopulationFacts
<1>5. Population!MixSound'
    BY DEF Population!MixSound
<1>6. Population!SiblingsShown'
    <2>1. DOMAIN shown' = {}
        OBVIOUS
    <2> QED BY <2>1 DEF Population!SiblingsShown
<1>7. Population!LastEdits(advocates', context',
                           Population!Runners(advocates', Len(advocates')))
    BY NoEdits
<1> QED BY <1>2, <1>3, <1>4, <1>5, <1>6, <1>7 DEF PopulationInv

LEMMA PopulationSame ==
    ASSUME PopulationInv, UNCHANGED <<pc, cases, populationOnly>> PROVE PopulationInv'
<1> USE DEF PopulationInv, populationOnly
<1>1. \A b : Population!ModeFor(b)' = Population!ModeFor(b)
    BY ModesSame
<1>2. Population!MixSound'
    <2>1. CASE pc \in {"Advocate", "Rank", "Over"}
        BY <2>1, MixSame
    <2>2. CASE pc \notin {"Advocate", "Rank", "Over"}
        BY <2>2 DEF Population!MixSound
    <2> QED BY <2>1, <2>2
<1>3. PriorKnown' /\ Population!SiblingsShown'
    BY DEF PriorKnown, Population!SiblingsShown
<1>4. Population!LastEdits(advocates', context',
                           Population!Runners(advocates', Len(advocates')))
    OBVIOUS
<1> QED BY <1>1, <1>2, <1>3, <1>4

LEMMA PopulationStep == ASSUME PopulationInv, Population!Next PROVE PopulationInv'
BY PopulationGenerate, PopulationAssemble, PopulationRun, PopulationRank,
   PopulationNextCycle DEF Population!Next

(* The traps of a cycle are as many as asked for, each is aimed at what    *)
(* failed in the cycle before, and no mode has two more than another; and  *)
(* an advocate sees the last edits of its siblings of this cycle, in their *)
(* order (evaluation/assembly.py, rsi/adversarial.py, rsi/population.py),  *)
(* for any corpus, ratio, number of advocates and cycles.                  *)
THEOREM TrapsFollowFailures == Spec => []PopulationSound
<1> DEFINE I == machine = "population" => PopulationInv
<1>1. Init => I
    BY PopulationInit DEF Init
<1>2. I /\ [Next]_vars => I'
    <2> SUFFICES ASSUME I, [Next]_vars, machine' = "population" PROVE PopulationInv'
        OBVIOUS
    <2>1. CASE PopulationNext
        BY <2>1, PopulationStep DEF PopulationNext
    <2>2. CASE UNCHANGED vars
        BY <2>2, PopulationSame DEF vars
    <2>3. CASE Next /\ ~PopulationNext
        <3>1. machine = "population"
            BY <2>3, OneMachine
        <3> QED BY <2>3, <3>1 DEF Next, SessionNext, RoundNext, ReportNext, SnapshotNext,
               TspNext, MemoryNext, ScoreNext, DomainNext, SweepNext
    <2> QED BY <2>1, <2>2, <2>3
<1>3. I => PopulationSound
    BY DEF PopulationInv, PopulationSound
<1> QED BY <1>1, <1>2, <1>3, PTL DEF Spec
-----------------------------------------------------------------------------

(* Induction, and what it is for: a function that is defined step by step  *)
(* exists.                                                                 *)
LEMMA Inductive ==
    ASSUME NEW n \in Nat, NEW S, 0 \in S, \A k \in 0 .. n - 1 : k \in S => k + 1 \in S
    PROVE  \A k \in 0 .. n : k \in S
<1> DEFINE F == {k \in 0 .. n : k \notin S}
<1> SUFFICES ASSUME F # {} PROVE FALSE
    OBVIOUS
<1>1. F \in SUBSET Nat
    OBVIOUS
<1>2. PICK m \in F : \A k \in F : m <= k
    <2> HIDE DEF F
    <2> QED BY <1>1, LeastOfThem
<1>3. m \in 1 .. n /\ m \notin S
    OBVIOUS
<1>4. m - 1 \in 0 .. n - 1 /\ m - 1 + 1 = m
    BY <1>3
<1>5. m - 1 \in S
    BY <1>2, <1>4
<1> QED BY <1>3, <1>4, <1>5

StepsOf(T, n) == [1 .. n -> [T -> T]]

Follows(f, T, b, n, g) ==
    f \in [0 .. n -> T] /\ f[0] = b /\ \A k \in 1 .. n : f[k] = g[k][f[k - 1]]

LEMMA Iterated ==
    ASSUME NEW T, NEW b, b \in T, NEW n, n \in Nat, NEW g, g \in StepsOf(T, n)
    PROVE  \E f : Follows(f, T, b, n, g)
<1> DEFINE S == {m \in 0 .. n : \E f : Follows(f, T, b, m, g)}
<1>1. 0 \in S
    <2> DEFINE h == [k \in 0 .. 0 |-> b]
    <2>1. Follows(h, T, b, 0, g)
        BY DEF Follows
    <2> QED BY <2>1
<1>2. ASSUME NEW m \in 0 .. n - 1, m \in S PROVE m + 1 \in S
    <2>1. PICK f : Follows(f, T, b, m, g)
        BY <1>2
    <2> DEFINE h == [k \in 0 .. m + 1 |-> IF k = m + 1 THEN g[m + 1][f[m]] ELSE f[k]]
    <2>2. f \in [0 .. m -> T] /\ f[0] = b /\ \A k \in 1 .. m : f[k] = g[k][f[k - 1]]
        BY <2>1 DEF Follows
    <2>3. h \in [0 .. m + 1 -> T]
        BY <2>2 DEF StepsOf
    <2>4. h[0] = b /\ \A k \in 1 .. m + 1 : h[k] = g[k][h[k - 1]]
        BY <2>2
    <2> HIDE DEF h
    <2>5. Follows(h, T, b, m + 1, g) /\ m + 1 \in 0 .. n
        BY <2>3, <2>4 DEF Follows
    <2> QED BY <2>5
<1>3. \A k \in 0 .. n : k \in S
    <2> HIDE DEF S
    <2> QED BY <1>1, <1>2, Inductive
<1> QED BY <1>3

LEMMA Sums ==
    ASSUME NEW s \in Seq(Int)
    PROVE  \E f \in [0 .. Len(s) -> Int] :
              /\ f[0] = 0 /\ \A k \in 1 .. Len(s) : f[k] = f[k - 1] + s[k]
              /\ Keeping!SumOf(s) = f[Len(s)]
<1> DEFINE n == Len(s)
           g == [k \in 1 .. n |-> [t \in Int |-> t + s[k]]]
           Is(h) == h = [k \in 0 .. n |-> IF k = 0 THEN 0 ELSE h[k - 1] + s[k]]
           h == CHOOSE x : Is(x)
<1>1. n \in Nat /\ \A k \in 1 .. n : s[k] \in Int
    OBVIOUS
<1>2. g \in StepsOf(Int, n)
    BY <1>1 DEF StepsOf
<1>3. \A k \in 1 .. n : \A t \in Int : g[k][t] = t + s[k]
    OBVIOUS
<1>4. PICK f : Follows(f, Int, 0, n, g)
    <2>1. 0 \in Int
        OBVIOUS
    <2> HIDE DEF g, n
    <2> QED BY <1>1, <1>2, <2>1, Iterated
<1>5. /\ f \in [0 .. n -> Int] /\ f[0] = 0
      /\ \A k \in 1 .. n : f[k] = f[k - 1] + s[k]
    <2> HIDE DEF g
    <2>1. f \in [0 .. n -> Int] /\ f[0] = 0 /\ \A k \in 1 .. n : f[k] = g[k][f[k - 1]]
        BY <1>4 DEF Follows
    <2>2. \A k \in 1 .. n : f[k - 1] \in Int
        BY <1>1, <2>1
    <2> QED BY <1>3, <2>1, <2>2
<1>6. Is(f)
    <2> HIDE DEF n, g
    <2>1. \A k \in 0 .. n : f[k] = IF k = 0 THEN 0 ELSE f[k - 1] + s[k]
        BY <1>1, <1>5
    <2>2. f = [k \in 0 .. n |-> f[k]]
        BY <1>5
    <2> QED BY <2>1, <2>2
<1>7. Is(h)
    <2> HIDE DEF Is
    <2> QED BY <1>6
<1>8. Keeping!SumOf(s) = h[n]
    BY DEF Keeping!SumOf
<1> HIDE DEF h, n, g
<1>9. h[0] = 0 /\ \A k \in 1 .. n : h[k] = h[k - 1] + s[k]
    BY <1>1, <1>7
<1> DEFINE S == {k \in 0 .. n : h[k] \in Int}
<1>10. \A k \in 0 .. n : k \in S
    <2>1. 0 \in S
        BY <1>1, <1>9
    <2>2. ASSUME NEW k \in 0 .. n - 1, k \in S PROVE k + 1 \in S
        <3>1. k + 1 \in 1 .. n /\ k + 1 - 1 = k
            BY <1>1
        <3>2. s[k + 1] \in Int /\ h[k] \in Int /\ h[k + 1] = h[k] + s[k + 1]
            BY <1>1, <1>9, <2>2, <3>1
        <3> QED BY <1>1, <3>1, <3>2
    <2> HIDE DEF S
    <2> QED BY <1>1, <2>1, <2>2, Inductive
<1>11. h \in [0 .. n -> Int]
    <2>1. h = [k \in 0 .. n |-> h[k]]
        BY <1>7
    <2> QED BY <1>10, <2>1
<1> QED BY <1>8, <1>9, <1>11 DEF n

LEMMA SquareIsPositive ==
    ASSUME NEW a \in Int PROVE a * a \in Nat /\ (a * a = 0 => a = 0)
OBVIOUS

LEMMA OneSquareMore ==
    ASSUME NEW q \in Int, NEW f \in Int, NEW x \in Int, NEW y \in Int, NEW m \in Int
    PROVE  /\ (q + y * y) + (m + 1) * (x * x) - 2 * ((f + y) * x)
                  = (q + m * (x * x) - 2 * (f * x)) + (y - x) * (y - x)
           /\ (m + 1) * (q + y * y) - (f + y) * (f + y)
                  = (m * q - f * f) + (q + m * (y * y) - 2 * (f * y))
OBVIOUS

(* Of numbers that have no variance all are the same.                      *)
LEMMA NoVarianceNoChange ==
    ASSUME NEW d \in Seq(Int),
           Len(d) * Keeping!SumOf([k \in DOMAIN d |-> d[k] * d[k]])
               = Keeping!SumOf(d) * Keeping!SumOf(d)
    PROVE  \A k \in 1 .. Len(d) : d[k] = d[1]
<1> DEFINE n == Len(d)
           sq == [k \in DOMAIN d |-> d[k] * d[k]]
<1>1. n \in Nat /\ DOMAIN d = 1 .. n /\ \A k \in 1 .. n : d[k] \in Int
    OBVIOUS
<1>2. sq \in Seq(Int) /\ Len(sq) = n /\ \A k \in 1 .. n : sq[k] = d[k] * d[k]
    BY <1>1
<1> HIDE DEF sq
<1>3. PICK f \in [0 .. n -> Int] :
          /\ f[0] = 0 /\ \A k \in 1 .. n : f[k] = f[k - 1] + d[k]
          /\ Keeping!SumOf(d) = f[n]
    BY Sums
<1>4. PICK q \in [0 .. n -> Int] :
          /\ q[0] = 0 /\ \A k \in 1 .. n : q[k] = q[k - 1] + sq[k]
          /\ Keeping!SumOf(sq) = q[n]
    BY <1>2, Sums
<1>5. n * q[n] - f[n] * f[n] = 0
    BY <1>1, <1>3, <1>4 DEF sq
<1> HIDE DEF n
<1>6. \A m \in 0 .. n - 1 :
          /\ m + 1 \in 1 .. n /\ m + 1 - 1 = m /\ f[m] \in Int /\ q[m] \in Int
          /\ d[m + 1] \in Int /\ f[m + 1] = f[m] + d[m + 1]
          /\ q[m + 1] = q[m] + d[m + 1] * d[m + 1]
    <2> SUFFICES ASSUME NEW m \in 0 .. n - 1
                 PROVE  /\ m + 1 \in 1 .. n /\ m + 1 - 1 = m /\ f[m] \in Int
                        /\ q[m] \in Int /\ d[m + 1] \in Int
                        /\ f[m + 1] = f[m] + d[m + 1]
                        /\ q[m + 1] = q[m] + d[m + 1] * d[m + 1]
        OBVIOUS
    <2>1. m + 1 \in 1 .. n /\ m + 1 - 1 = m /\ m \in 0 .. n
        BY <1>1
    <2>2. f[m + 1] = f[m] + d[m + 1] /\ f[m] \in Int /\ d[m + 1] \in Int
        BY SMTT(30), <1>1, <1>3, <2>1 DEF n
    <2>3. q[m + 1] = q[m] + sq[m + 1] /\ sq[m + 1] = d[m + 1] * d[m + 1] /\ q[m] \in Int
        <3>1. q[m + 1] = q[m + 1 - 1] + sq[m + 1] /\ q[m] \in Int
            BY <1>4, <2>1
        <3> QED BY <1>2, <2>1, <3>1
    <2> QED BY <2>1, <2>2, <2>3
<1>7. ASSUME NEW x \in Int
      PROVE  \A m \in 0 .. n :
                /\ q[m] + m * (x * x) - 2 * (f[m] * x) \in Nat
                /\ q[m] + m * (x * x) - 2 * (f[m] * x) = 0
                       => \A k \in 1 .. m : d[k] = x
    <2> DEFINE W(m) == q[m] + m * (x * x) - 2 * (f[m] * x)
               S == {m \in 0 .. n : W(m) \in Nat /\ (W(m) = 0 => \A k \in 1 .. m : d[k] = x)}
    <2>1. 0 \in S
        BY <1>1, <1>3, <1>4
    <2>2. ASSUME NEW m \in 0 .. n - 1, m \in S PROVE m + 1 \in S
        <3> DEFINE a == f[m]
                   b == q[m]
                   y == d[m + 1]
                   w == W(m + 1)
                   v == W(m)
                   e == (y - x) * (y - x)
        <3>1. a \in Int /\ b \in Int /\ y \in Int /\ m \in Int
            BY <1>6
        <3>2. w = b + y * y + (m + 1) * (x * x) - 2 * ((a + y) * x)
            BY <1>6
        <3>3. v = b + m * (x * x) - 2 * (a * x)
            OBVIOUS
        <3>4. v \in Nat /\ (v = 0 => \A k \in 1 .. m : d[k] = x)
            BY <2>2
        <3> HIDE DEF a, b, y, w, v, W
        <3>5. w = v + e
            BY <3>1, <3>2, <3>3, OneSquareMore
        <3>6. e \in Nat /\ (e = 0 => y - x = 0)
            BY <3>1, SquareIsPositive
        <3> HIDE DEF e
        <3>7. w \in Nat /\ (w = 0 => v = 0 /\ y = x)
            BY <3>1, <3>4, <3>5, <3>6
        <3>8. w = 0 => \A k \in 1 .. m + 1 : d[k] = x
            BY <3>4, <3>7 DEF y
        <3>9. m + 1 \in 0 .. n
            BY <1>1
        <3> QED BY <3>7, <3>8, <3>9 DEF w
    <2>3. \A m \in 0 .. n : m \in S
        <3> HIDE DEF S
        <3> QED BY <1>1, <2>1, <2>2, Inductive
    <2> QED BY <2>3
<1> DEFINE V(m) == m * q[m] - f[m] * f[m]
           S == {m \in 0 .. n : V(m) \in Nat /\ (V(m) = 0 => \A k \in 1 .. m : d[k] = d[1])}
<1>8. 0 \in S
    BY <1>1, <1>3, <1>4
<1>9. ASSUME NEW m \in 0 .. n - 1, m \in S PROVE m + 1 \in S
    <2> DEFINE x == d[m + 1]
               W == q[m] + m * (x * x) - 2 * (f[m] * x)
    <2>1. V(m + 1) = V(m) + W
        <3> DEFINE a == f[m]
                   b == q[m]
        <3>1. a \in Int /\ b \in Int /\ x \in Int /\ m \in Int
            BY <1>6
        <3>2. V(m + 1) = (m + 1) * (b + x * x) - (a + x) * (a + x)
            BY <1>6
        <3>3. V(m) = m * b - a * a /\ W = b + m * (x * x) - 2 * (a * x)
            OBVIOUS
        <3> HIDE DEF a, b, x, V, W
        <3> QED BY <3>1, <3>2, <3>3, OneSquareMore
    <2>2. V(m) \in Nat /\ (V(m) = 0 => \A k \in 1 .. m : d[k] = d[1])
        BY <1>9
    <2>3. x \in Int /\ m \in 0 .. n
        BY <1>1, <1>6
    <2> HIDE DEF x, V
    <2>4. W \in Nat /\ (W = 0 => \A k \in 1 .. m : d[k] = x)
        BY <1>7, <2>3
    <2> HIDE DEF W
    <2>5. V(m + 1) \in Nat /\ (V(m + 1) = 0 => W = 0)
        BY <2>1, <2>2, <2>4
    <2>6. V(m + 1) = 0 => \A k \in 1 .. m + 1 : d[k] = d[1]
        <3>1. m = 0 \/ 1 \in 1 .. m
            BY <1>1
        <3>2. \A k \in 1 .. m + 1 : k \in 1 .. m \/ k = m + 1
            OBVIOUS
        <3> QED BY <2>4, <2>5, <3>1, <3>2 DEF x
    <2>7. m + 1 \in 0 .. n
        BY <1>1
    <2> QED BY <2>5, <2>6, <2>7 DEF V
<1>10. \A m \in 0 .. n : m \in S
    <2> HIDE DEF S
    <2> QED BY <1>1, <1>8, <1>9, Inductive
<1>11. n \in 0 .. n /\ V(n) = 0
    BY <1>1, <1>5
<1> HIDE DEF V
<1>12. \A k \in 1 .. n : d[k] = d[1]
    BY <1>10, <1>11
<1> QED BY <1>12 DEF n

LEMMA SameSum ==
    ASSUME NEW s \in Seq(Int), NEW c \in Int, \A k \in 1 .. Len(s) : s[k] = c
    PROVE  Keeping!SumOf(s) = Len(s) * c
<1> DEFINE n == Len(s)
<1>1. PICK f \in [0 .. n -> Int] :
          /\ f[0] = 0 /\ \A k \in 1 .. n : f[k] = f[k - 1] + s[k]
          /\ Keeping!SumOf(s) = f[n]
    BY Sums
<1> DEFINE S == {k \in 0 .. n : f[k] = k * c}
<1>2. n \in Nat
    OBVIOUS
<1> HIDE DEF n
<1>3. 0 \in S
    BY <1>1, <1>2
<1>4. ASSUME NEW k \in 0 .. n - 1, k \in S PROVE k + 1 \in S
    <2>1. k + 1 \in 1 .. n /\ k + 1 - 1 = k
        BY <1>2
    <2>2. f[k + 1] = k * c + c
        <3>1. f[k + 1] = f[k] + s[k + 1] /\ s[k + 1] = c
            BY <1>1, <2>1 DEF n
        <3> QED BY <1>4, <3>1
    <2>3. k * c + c = (k + 1) * c
        OBVIOUS
    <2> QED BY <2>1, <2>2, <2>3
<1>5. \A k \in 0 .. n : k \in S
    <2> HIDE DEF S
    <2> QED BY <1>2, <1>3, <1>4, Inductive
<1> QED BY <1>1, <1>2, <1>5 DEF n

LEMMA ScoreFacts ==
    /\ Whole \in Nat /\ Floor \in Nat /\ ScoreWindow \in Nat /\ ScoreWindow > 1
    /\ Adaptive \in BOOLEAN /\ None \notin Nat
    /\ RunResults \subseteq [passed : 0 .. Whole, cost : Nat, latency : Nat] \cup {None}
BY EvolutionAssumption DEF Keeping!ValidScores

(* What the reason for the weights says of the changes it is given for.    *)
LEMMA ReasonTells ==
    ASSUME NEW d \in Seq(Int)
    PROVE  LET why == Keeping!Reason(d)
               same == \A k \in DOMAIN d : d[k] = d[1]
           IN  /\ (same /\ Len(d) > 0 /\ d[1] = 0) =>
                       why \in {"early_iteration", "budget_exhausted"}
               /\ (Len(d) = 1 /\ (d[1] > Floor \/ d[1] < -Floor)) =>
                       why = "plateau_detected"
               /\ (same /\ Len(d) > 1 /\ d[1] > Floor) => why = "improving"
               /\ (why = "improving" /\ ~same) => Keeping!Spread(d) = Keeping!Bar(d)
<1> DEFINE n == Len(d)
           sq == [k \in DOMAIN d |-> d[k] * d[k]]
           same == \A k \in DOMAIN d : d[k] = d[1]
           why == Keeping!Reason(d)
           sum == Keeping!SumOf(d)
           squares == Keeping!SumOf(sq)
           spread == Keeping!Spread(d)
           bar == Keeping!Bar(d)
<1>1. n \in Nat /\ DOMAIN d = 1 .. n /\ \A k \in 1 .. n : d[k] \in Int
    OBVIOUS
<1>2. sq \in Seq(Int) /\ Len(sq) = n /\ \A k \in 1 .. n : sq[k] = d[k] * d[k]
    BY <1>1
<1>3. sum \in Int /\ squares \in Int
    <2>1. PICK f \in [0 .. n -> Int] : sum = f[n]
        BY Sums
    <2> HIDE DEF sq
    <2>2. PICK q \in [0 .. n -> Int] : squares = q[n]
        BY <1>2, Sums
    <2> QED BY <1>1, <2>1, <2>2
<1>4. spread = IF n <= 1 THEN squares ELSE 4 * (n * squares - sum * sum)
    BY DEF Keeping!Spread
<1>5. Floor \in Nat /\ bar = (n * Floor) * (n * Floor) /\ bar \in Nat
    <2>1. Floor \in Nat /\ bar = (n * Floor) * (n * Floor)
        BY ScoreFacts DEF Keeping!Bar
    <2>2. n * Floor \in Nat
        BY <1>1, <2>1
    <2> QED BY <2>1, <2>2
<1>6. /\ spread > bar => why = "plateau_detected"
      /\ (spread > 0 /\ spread < bar) => why = "high_variance"
      /\ (spread = 0 /\ sum > n * Floor) => why = "improving"
      /\ (spread = 0 /\ ~(sum > n * Floor)) => why \in {"early_iteration", "budget_exhausted"}
      /\ why = "improving" => spread \in {0, bar}
    <2> DEFINE w == Keeping!Reason(d)
    <2>1. why = CASE spread > bar -> "plateau_detected"
                  [] spread > 0 /\ spread < bar -> "high_variance"
                  [] spread \in {0, bar} /\ sum > n * Floor -> "improving"
                  [] OTHER -> IF Keeping!BudgetExhausted THEN "budget_exhausted"
                              ELSE "early_iteration"
        BY DEF Keeping!Reason
    <2>2. spread \in Int /\ n * Floor \in Int
        BY <1>1, <1>3, <1>4, <1>5
    <2> HIDE DEF why, spread, bar, sum, n
    <2> QED BY <1>5, <2>1, <2>2
<1>7. ASSUME same, n > 0
      PROVE  /\ sum = n * d[1] /\ squares = n * (d[1] * d[1])
             /\ n > 1 => spread = 0
    <2> DEFINE c == d[1]
               e == d[1] * d[1]
    <2>1. c \in Int /\ e \in Int /\ \A k \in 1 .. n : d[k] = c /\ sq[k] = e
        BY <1>1, <1>2, <1>7
    <2> HIDE DEF sq
    <2>2. sum = n * c
        BY <1>1, <2>1, SameSum
    <2>3. squares = n * e
        <3>1. \A k \in 1 .. Len(sq) : sq[k] = e
            BY <1>2, <2>1
        <3>2. Keeping!SumOf(sq) = Len(sq) * e
            <4> HIDE DEF e
            <4> QED BY <1>2, <2>1, <3>1, SameSum
        <3> QED BY <1>2, <3>2
    <2>4. n * (n * e) = (n * c) * (n * c)
        <3>1. \A i, j \in Int : i * (i * (j * j)) = (i * j) * (i * j)
            OBVIOUS
        <3> QED BY <1>1, <2>1, <3>1
    <2>5. n > 1 => spread = 0
        <3> HIDE DEF c, e, sum, squares, spread, n
        <3>1. n * (n * e) \in Int
            BY <1>1, <2>1
        <3> QED BY <1>1, <1>4, <2>1, <2>2, <2>3, <2>4, <3>1
    <2> QED BY <2>2, <2>3, <2>5
<1>8. ASSUME n = 1 PROVE same /\ spread = d[1] * d[1] /\ d[1] \in Int /\ bar = Floor * Floor
    <2>1. same /\ d[1] \in Int /\ n > 0 /\ n <= 1
        BY <1>1, <1>8
    <2>2. squares = 1 * (d[1] * d[1])
        BY <1>7, <1>8, <2>1
    <2>3. d[1] * d[1] \in Int /\ 1 * Floor = Floor
        BY <1>5, <2>1
    <2>4. spread = squares
        BY <1>4, <2>1
    <2>5. bar = (1 * Floor) * (1 * Floor)
        BY <1>5, <1>8
    <2> QED BY <2>1, <2>2, <2>3, <2>4, <2>5
<1>9. ASSUME same, n > 0, d[1] = 0 PROVE why \in {"early_iteration", "budget_exhausted"}
    <2>1. sum = n * d[1] /\ n * d[1] = 0
        BY <1>1, <1>7, <1>9
    <2>2. spread = 0
        <3>1. CASE n = 1
            BY <1>8, <1>9, <3>1
        <3>2. CASE n # 1
            BY <1>1, <1>7, <1>9, <3>2
        <3> QED BY <3>1, <3>2
    <2>3. n * Floor \in Nat
        BY <1>1, <1>5
    <2> HIDE DEF sum, spread, why, n
    <2> QED BY <1>6, <2>1, <2>2, <2>3
<1>10. ASSUME n = 1, d[1] > Floor \/ d[1] < -Floor PROVE why = "plateau_detected"
    <2>1. \A i, j \in Int : j >= 0 /\ (i > j \/ i < -j) => i * i > j * j
        OBVIOUS
    <2>2. d[1] * d[1] > Floor * Floor
        BY <1>5, <1>8, <1>10, <2>1
    <2> HIDE DEF spread, bar, why, n
    <2> QED BY <1>6, <1>8, <1>10, <2>2
<1>11. ASSUME same, n > 1, d[1] > Floor PROVE why = "improving"
    <2>1. \A i, j, k \in Int : i > 0 /\ j > k => i * j > i * k
        OBVIOUS
    <2>2. n * d[1] > n * Floor
        BY <1>1, <1>5, <1>11, <2>1
    <2> HIDE DEF sum, spread, why
    <2> QED BY <1>1, <1>6, <1>7, <1>11, <2>2
<1>12. ASSUME why = "improving", ~same PROVE spread = bar
    <2>1. n > 1
        BY <1>1, <1>8, <1>12
    <2>2. spread # 0
        <3> SUFFICES ASSUME spread = 0 PROVE FALSE
            OBVIOUS
        <3>1. n * squares - sum * sum = 0
            <4>1. n * squares \in Int /\ sum * sum \in Int
                BY <1>1, <1>3
            <4> HIDE DEF sum, squares, spread, n
            <4> QED BY <1>1, <1>4, <2>1, <4>1
        <3>2. n * squares = sum * sum
            <4>1. n * squares \in Int /\ sum * sum \in Int
                BY <1>1, <1>3
            <4> HIDE DEF sum, squares, n
            <4> QED BY <3>1, <4>1
        <3> QED BY <1>1, <1>12, <3>2, NoVarianceNoChange
    <2> QED BY <1>6, <1>12, <2>2
<1> HIDE DEF spread, bar, why, sum, squares
<1> QED BY <1>9, <1>10, <1>11, <1>12 DEF why, spread, bar

Weighings ==
    {Keeping!DefaultWeights}
    \cup {Keeping!Adapted(why) : why \in {"plateau_detected", "high_variance", "improving",
                                          "budget_exhausted", "early_iteration"}}

Tried == [result : RunResults, weights : Weighings, score : Int]

Utilities(k) ==
    trail[k].score = Keeping!Utility(Keeping!Measured(trail[k].result), trail[k].weights)

(* Runs that the checkpoint has seen are worth no more than the best one.  *)
ScoresInv ==
    /\ step \in {"run", "checkpoint", "over"} /\ weights \in Weighings
    /\ trail \in Seq(Tried) /\ history \in Seq(Int) /\ Len(history) = Len(trail)
    /\ \A k \in DOMAIN trail : Utilities(k)
    /\ step = "checkpoint" => Len(trail) > 0
    /\ best \in DOMAIN trail \cup {None}
    /\ \A k \in DOMAIN trail :
          step # "checkpoint" \/ k # Len(trail) =>
              best # None /\ trail[k].score <= trail[best].score
    /\ reverts \in Seq([regressed : DOMAIN trail, best : DOMAIN trail])
    /\ \A n \in DOMAIN reverts :
          trail[reverts[n].regressed].score < trail[reverts[n].best].score
    /\ (~Adaptive => reason = None)
    /\ (reason # None /\ Len(trail) > 0) =>
          reason = Keeping!Reason(Keeping!Deltas(Keeping!Before))

LEMMA WeighingsAre ==
    \A w \in Weighings :
        w \in [score : Nat, cost : Nat, time : Nat]
        /\ <<w.score, w.cost, w.time>> \in
               {<<500, 0, 500>>, <<100, 450, 450>>, <<250, 375, 375>>, <<650, 175, 175>>,
                <<300, 400, 300>>, <<400, 300, 300>>}
BY DEF Weighings, Keeping!DefaultWeights, Keeping!Weights, Keeping!Adapted

LEMMA MeasuredIs ==
    \A r \in RunResults : Keeping!Measured(r) \in [score : Int, cost : Int, time : Int]
<1> SUFFICES ASSUME NEW r \in RunResults
             PROVE  Keeping!Measured(r) \in [score : Int, cost : Int, time : Int]
    OBVIOUS
<1>1. CASE r = None
    BY <1>1 DEF Keeping!Measured
<1>2. CASE r # None
    <2>1. r.passed \in Int /\ r.cost \in Int /\ r.latency \in Int /\ Whole \in Int
        BY <1>2, ScoreFacts
    <2>2. Keeping!CostOf(r) \in Int /\ Keeping!Clamped(r.latency) \in Int
        BY <2>1 DEF Keeping!CostOf, Keeping!Clamped
    <2> QED BY <1>2, <2>1, <2>2 DEF Keeping!Measured
<1> QED BY <1>1, <1>2

(* What is no worse in anything is worth no less, and more if it passes    *)
(* more.                                                                   *)
LEMMA UtilityRises ==
    ASSUME NEW p \in [score : Int, cost : Int, time : Int],
           NEW q \in [score : Int, cost : Int, time : Int],
           NEW w \in Weighings, Keeping!AtLeast(p, q)
    PROVE  /\ Keeping!Utility(p, w) \in Int /\ Keeping!Utility(q, w) \in Int
           /\ Keeping!Utility(p, w) >= Keeping!Utility(q, w)
           /\ p.score > q.score => Keeping!Utility(p, w) > Keeping!Utility(q, w)
<1>1. /\ p.score \in Int /\ p.cost \in Int /\ p.time \in Int /\ Whole \in Int
      /\ q.score \in Int /\ q.cost \in Int /\ q.time \in Int
      /\ p.score >= q.score /\ p.cost <= q.cost /\ p.time <= q.time
    BY ScoreFacts DEF Keeping!AtLeast
<1>2. PICK a, b, c \in Nat : w.score = a /\ w.cost = b /\ w.time = c /\ a > 0
    BY WeighingsAre
<1>3. /\ Keeping!Utility(p, w)
             = a * p.score + b * (Whole - p.cost) + c * (Whole - p.time)
      /\ Keeping!Utility(q, w)
             = a * q.score + b * (Whole - q.cost) + c * (Whole - q.time)
    BY <1>2 DEF Keeping!Utility
<1>4. \A n \in Nat : \A i, j \in Int : i >= j =>
          n * i \in Int /\ n * j \in Int /\ n * i >= n * j /\ (n > 0 /\ i > j => n * i > n * j)
    OBVIOUS
<1>5. /\ a * p.score >= a * q.score /\ a * p.score \in Int /\ a * q.score \in Int
      /\ p.score > q.score => a * p.score > a * q.score
    BY <1>1, <1>2, <1>4
<1>6. /\ b * (Whole - p.cost) >= b * (Whole - q.cost)
      /\ b * (Whole - p.cost) \in Int /\ b * (Whole - q.cost) \in Int
    <2>1. Whole - p.cost \in Int /\ Whole - q.cost \in Int /\ Whole - p.cost >= Whole - q.cost
        BY <1>1
    <2> QED BY <1>2, <1>4, <2>1
<1>7. /\ c * (Whole - p.time) >= c * (Whole - q.time)
      /\ c * (Whole - p.time) \in Int /\ c * (Whole - q.time) \in Int
    <2>1. Whole - p.time \in Int /\ Whole - q.time \in Int /\ Whole - p.time >= Whole - q.time
        BY <1>1
    <2> QED BY <1>2, <1>4, <2>1
<1> QED BY <1>3, <1>5, <1>6, <1>7

LEMMA ChangesAreNumbers ==
    ASSUME NEW h \in Seq(Int) PROVE Keeping!Deltas(Keeping!Lookback(h)) \in Seq(Int)
<1> DEFINE s == Keeping!Lookback(h)
           m == IF Len(h) < ScoreWindow THEN Len(h) ELSE ScoreWindow
<1>1. s = SubSeq(h, Len(h) - m + 1, Len(h)) /\ m \in Nat /\ m <= Len(h)
    BY ScoreFacts DEF Keeping!Lookback
<1>2. s \in Seq(Int)
    BY SMTT(30), <1>1, SubSeqProperties
<1> HIDE DEF s
<1>3. Len(s) \in Nat /\ \A k \in 1 .. Len(s) : s[k] \in Int
    BY <1>2
<1>4. CASE Len(s) = 0
    <2>1. Keeping!Deltas(s) = [k \in 1 .. 0 |-> s[k + 1] - s[k]]
        BY <1>4 DEF Keeping!Deltas
    <2> QED BY <2>1 DEF s
<1>5. CASE Len(s) # 0
    <2>1. Len(s) - 1 \in Nat /\ \A k \in 1 .. Len(s) - 1 : s[k + 1] - s[k] \in Int
        BY <1>3, <1>5
    <2> QED BY <2>1 DEF Keeping!Deltas, s
<1> QED BY <1>4, <1>5

LEMMA ReasonIsOne ==
    \A d : Keeping!Reason(d) \in {"plateau_detected", "high_variance", "improving",
                                  "budget_exhausted", "early_iteration"}
BY DEF Keeping!Reason

LEMMA ScoresRun == ASSUME ScoresInv, Keeping!Run PROVE ScoresInv'
<1> DEFINE why == Keeping!Reason(Keeping!Deltas(Keeping!Lookback(history)))
           n == Len(trail)
<1>1. PICK r \in RunResults :
          LET score == Keeping!Utility(Keeping!Measured(r), weights')
          IN  /\ history' = Append(history, score)
              /\ trail' = Append(trail, [result |-> r, weights |-> weights', score |-> score])
    BY DEF Keeping!Run
<1>2. /\ IF Adaptive THEN reason' = why /\ weights' = Keeping!Adapted(why)
         ELSE reason' = reason /\ weights' = weights
      /\ step = "run" /\ step' = "checkpoint" /\ best' = best /\ reverts' = reverts
    BY DEF Keeping!Run
<1>3. weights' \in Weighings
    BY <1>2, ReasonIsOne DEF Weighings, ScoresInv
<1> DEFINE u == Keeping!Utility(Keeping!Measured(r), weights')
           t == [result |-> r, weights |-> weights', score |-> u]
<1>4. u \in Int
    <2>1. Keeping!Measured(r) \in [score : Int, cost : Int, time : Int]
        BY MeasuredIs
    <2>2. Keeping!AtLeast(Keeping!Measured(r), Keeping!Measured(r))
        BY <2>1 DEF Keeping!AtLeast
    <2> QED BY <1>3, <2>1, <2>2, UtilityRises
<1>5. t \in Tried
    BY <1>3, <1>4 DEF Tried
<1>6. /\ trail' \in Seq(Tried) /\ n \in Nat /\ Len(trail') = n + 1
      /\ DOMAIN trail = 1 .. n /\ DOMAIN trail' = 1 .. n + 1
      /\ \A k \in 1 .. n : trail'[k] = trail[k]
      /\ trail'[n + 1] = t
    <2> HIDE DEF t
    <2>1. trail' = Append(trail, t)
        BY <1>1 DEF t
    <2> QED BY <1>5, <2>1, Appended DEF ScoresInv
<1>7. /\ history' \in Seq(Int) /\ Len(history') = n + 1
      /\ SubSeq(history', 1, n) = history
    <2> HIDE DEF u
    <2>1. history' = Append(history, u) /\ history \in Seq(Int) /\ Len(history) = n
        BY <1>1 DEF ScoresInv, u
    <2> HIDE DEF n
    <2>2. /\ history' \in Seq(Int) /\ Len(history') = n + 1
          /\ \A k \in 1 .. n : history'[k] = history[k]
        BY <1>4, <2>1, Appended
    <2>3. SubSeq(history', 1, n) = history
        <3>1. /\ SubSeq(history', 1, n) \in Seq(Int) /\ Len(SubSeq(history', 1, n)) = n
              /\ \A k \in 1 .. n : SubSeq(history', 1, n)[k] = history'[k]
            BY <1>6, <2>2
        <3> QED BY <2>1, <2>2, <3>1, SeqEqual
    <2> QED BY <2>2, <2>3
<1>8. \A k \in DOMAIN trail' : Utilities(k)'
    <2>1. \A k \in 1 .. n : Utilities(k) /\ trail'[k] = trail[k]
        BY <1>6 DEF ScoresInv
    <2>2. \A k \in 1 .. n : Utilities(k)'
        BY <2>1 DEF Utilities, Keeping!Utility, Keeping!Measured, Keeping!CostOf, Keeping!Clamped
    <2>3. ASSUME NEW k, k = n + 1 PROVE Utilities(k)'
        <3>1. trail'[k].score = u /\ trail'[k].result = r /\ trail'[k].weights = weights'
            BY <1>6, <2>3
        <3> QED BY <3>1 DEF Utilities, Keeping!Utility, Keeping!Measured, Keeping!CostOf,
                             Keeping!Clamped
    <2>4. \A k \in DOMAIN trail' : k \in 1 .. n \/ k = n + 1
        BY <1>6
    <2> HIDE DEF n
    <2> QED BY <2>2, <2>3, <2>4
<1>9. \A k \in DOMAIN trail' : k # Len(trail') =>
          best' # None /\ trail'[k].score <= trail'[best'].score
    <2> HIDE DEF n
    <2>1. \A k \in 1 .. n : best # None /\ trail[k].score <= trail[best].score
        BY <1>2, <1>6 DEF ScoresInv
    <2>2. best # None => best \in 1 .. n
        BY <1>6 DEF ScoresInv
    <2>3. \A k \in DOMAIN trail' : k # Len(trail') => k \in 1 .. n
        BY <1>6
    <2> QED BY <1>2, <1>6, <2>1, <2>2, <2>3
<1>10. /\ reverts' \in Seq([regressed : DOMAIN trail', best : DOMAIN trail'])
       /\ \A k \in DOMAIN reverts' :
             trail'[reverts'[k].regressed].score < trail'[reverts'[k].best].score
    <2> HIDE DEF n
    <2>1. /\ reverts \in Seq([regressed : DOMAIN trail, best : DOMAIN trail])
          /\ [regressed : DOMAIN trail, best : DOMAIN trail]
                 \subseteq [regressed : DOMAIN trail', best : DOMAIN trail']
        BY <1>6 DEF ScoresInv
    <2>2. reverts \in Seq([regressed : DOMAIN trail', best : DOMAIN trail'])
        BY <2>1, SeqMonotonic
    <2>3. \A k \in DOMAIN reverts : reverts[k].regressed \in 1 .. n /\ reverts[k].best \in 1 .. n
        <3> DEFINE R == [regressed : DOMAIN trail, best : DOMAIN trail]
        <3>1. \A k \in DOMAIN reverts : reverts[k] \in R
            <4> HIDE DEF R
            <4>1. reverts \in Seq(R)
                BY <2>1 DEF R
            <4> QED BY <4>1, ElementOfSeq, LenProperties
        <3> QED BY <1>6, <3>1
    <2> QED BY <1>2, <1>6, <2>2, <2>3 DEF ScoresInv
<1>11. (~Adaptive => reason' = None)
       /\ (reason' # None => reason' = Keeping!Reason(Keeping!Deltas(Keeping!Before)'))
    <2>1. Keeping!Deltas(Keeping!Before)' = Keeping!Deltas(Keeping!Lookback(history))
        <3>1. Len(trail') - 1 = n
            BY <1>6
        <3> QED BY <1>7, <3>1 DEF Keeping!Deltas, Keeping!Before, Keeping!Lookback, Keeping!Latest
    <2>2. ~Adaptive => reason = None
        BY DEF ScoresInv
    <2> QED BY <1>2, <2>1, <2>2
<1>12. best' \in DOMAIN trail' \cup {None}
    BY <1>2, <1>6 DEF ScoresInv
<1> HIDE DEF n, t, u, why
<1>13. Len(trail') > 0
    BY <1>6
<1> QED BY <1>2, <1>3, <1>6, <1>7, <1>8, <1>9, <1>10, <1>11, <1>12, <1>13 DEF ScoresInv

LEMMA ScoresCheckpoint == ASSUME ScoresInv, Keeping!Checkpoint PROVE ScoresInv'
<1> DEFINE n == Len(trail)
           v == [regressed |-> n, best |-> best]
           R == [regressed : DOMAIN trail, best : DOMAIN trail]
<1>1. /\ step = "checkpoint" /\ step' \in {"run", "over"}
      /\ history' = history /\ weights' = weights /\ reason' = reason /\ trail' = trail
      /\ best' = IF Keeping!NewBest THEN n ELSE best
      /\ reverts' = IF ~Keeping!NewBest /\ Keeping!Regressed
                    THEN Append(reverts, v) ELSE reverts
    BY DEF Keeping!Checkpoint, Keeping!Latest
<1>2. /\ n \in Nat /\ n > 0 /\ DOMAIN trail = 1 .. n /\ n \in DOMAIN trail
      /\ \A k \in DOMAIN trail : trail[k].score \in Int
      /\ best \in DOMAIN trail \cup {None}
    <2>1. trail \in Seq(Tried) /\ n > 0 /\ best \in DOMAIN trail \cup {None}
        BY <1>1 DEF ScoresInv
    <2>2. n \in Nat /\ DOMAIN trail = 1 .. n /\ \A k \in 1 .. n : trail[k] \in Tried
        BY <2>1, ElementOfSeq, LenProperties
    <2> QED BY <2>1, <2>2 DEF Tried
<1>3. None \notin DOMAIN trail
    BY <1>2, ScoreFacts
<1>4. /\ Keeping!NewBest <=> (best = None \/ trail[n].score > trail[best].score)
      /\ Keeping!Regressed <=> (best # None /\ trail[n].score < trail[best].score - Floor)
    BY DEF Keeping!NewBest, Keeping!Regressed, Keeping!Latest
<1> HIDE DEF n
<1>5. best' \in DOMAIN trail /\ \A k \in DOMAIN trail : trail[k].score <= trail[best'].score
    <2>1. \A k \in DOMAIN trail : k = n \/ (best # None /\ trail[k].score <= trail[best].score)
        BY <1>2 DEF ScoresInv, n
    <2> QED BY <1>1, <1>2, <1>4, <2>1
<1>6. /\ reverts' \in Seq(R)
      /\ \A k \in DOMAIN reverts' :
            trail[reverts'[k].regressed].score < trail[reverts'[k].best].score
    <2>1. CASE ~Keeping!NewBest /\ Keeping!Regressed
        <3>1. v \in R /\ trail[v.regressed].score < trail[v.best].score
            BY <1>2, <1>4, <2>1, ScoreFacts
        <3>2. reverts \in Seq(R) /\ reverts' = Append(reverts, v)
            BY <1>1, <2>1 DEF ScoresInv
        <3> HIDE DEF v, R
        <3>3. /\ reverts' \in Seq(R) /\ DOMAIN reverts = 1 .. Len(reverts)
              /\ DOMAIN reverts' = 1 .. Len(reverts) + 1 /\ Len(reverts) \in Nat
              /\ \A k \in 1 .. Len(reverts) : reverts'[k] = reverts[k]
              /\ reverts'[Len(reverts) + 1] = v
            BY <3>1, <3>2, Appended
        <3>4. \A k \in DOMAIN reverts :
                  trail[reverts[k].regressed].score < trail[reverts[k].best].score
            BY DEF ScoresInv
        <3>5. \A k \in DOMAIN reverts' : k \in 1 .. Len(reverts) \/ k = Len(reverts) + 1
            BY <3>3
        <3> QED BY <3>1, <3>3, <3>4, <3>5
    <2>2. CASE reverts' = reverts
        BY <2>2 DEF ScoresInv
    <2> QED BY <1>1, <2>1, <2>2
<1>7. (~Adaptive => reason' = None)
      /\ (reason' # None /\ Len(trail') > 0 =>
             reason' = Keeping!Reason(Keeping!Deltas(Keeping!Before)'))
    <2>1. Keeping!Before' = Keeping!Before
        BY <1>1 DEF Keeping!Before, Keeping!Latest, Keeping!Lookback
    <2>2. Keeping!Deltas(Keeping!Before)' = Keeping!Deltas(Keeping!Before)
        BY <2>1 DEF Keeping!Deltas
    <2> QED BY <1>1, <2>2 DEF ScoresInv
<1>8. \A k \in DOMAIN trail' : Utilities(k)'
    <2>1. \A k \in DOMAIN trail : Utilities(k)
        BY DEF ScoresInv
    <2> QED BY <1>1, <2>1 DEF Utilities, Keeping!Utility, Keeping!Measured, Keeping!CostOf,
                             Keeping!Clamped
<1>9. \A k \in DOMAIN trail' : best' # None /\ trail'[k].score <= trail'[best'].score
    BY <1>1, <1>3, <1>5
<1>10. /\ trail' \in Seq(Tried) /\ history' \in Seq(Int) /\ Len(history') = Len(trail')
       /\ weights' \in Weighings
    BY <1>1 DEF ScoresInv
<1>11. /\ reverts' \in Seq([regressed : DOMAIN trail', best : DOMAIN trail'])
       /\ \A k \in DOMAIN reverts' :
             trail'[reverts'[k].regressed].score < trail'[reverts'[k].best].score
    BY <1>1, <1>6
<1> QED BY <1>1, <1>5, <1>7, <1>8, <1>9, <1>10, <1>11 DEF ScoresInv

LEMMA ScoresHold == ASSUME ScoresInv PROVE Keeping!ScoresSound
<1>1. /\ trail \in Seq(Tried) /\ Len(trail) \in Nat /\ DOMAIN trail = 1 .. Len(trail)
      /\ \A k \in DOMAIN trail : trail[k] \in Tried
    BY ElementOfSeq, LenProperties DEF ScoresInv
<1>2. \A k \in DOMAIN trail : Keeping!Of(k) \in [score : Int, cost : Int, time : Int]
    BY <1>1, MeasuredIs DEF Tried, Keeping!Of
<1>3. ASSUME NEW j \in DOMAIN trail, NEW k \in DOMAIN trail, Keeping!Alike(j, k),
             Keeping!AtLeast(Keeping!Of(j), Keeping!Of(k))
      PROVE  /\ trail[j].score >= trail[k].score
             /\ Keeping!Of(j).score > Keeping!Of(k).score => trail[j].score > trail[k].score
    <2> DEFINE p == Keeping!Of(j)
               q == Keeping!Of(k)
               w == trail[j].weights
    <2>1. trail[j].score = Keeping!Utility(p, w) /\ trail[k].score = Keeping!Utility(q, w)
        BY <1>3 DEF ScoresInv, Utilities, Keeping!Of, Keeping!Alike
    <2>2. w \in Weighings /\ p \in [score : Int, cost : Int, time : Int]
          /\ q \in [score : Int, cost : Int, time : Int] /\ Keeping!AtLeast(p, q)
        BY <1>1, <1>2, <1>3 DEF Tried
    <2> HIDE DEF p, q, w
    <2>3. /\ Keeping!Utility(p, w) >= Keeping!Utility(q, w)
          /\ p.score > q.score => Keeping!Utility(p, w) > Keeping!Utility(q, w)
        BY <2>2, UtilityRises
    <2> QED BY <2>1, <2>3 DEF p, q
<1>4. \A k \in DOMAIN trail : trail[k].score \in Int
    BY <1>1 DEF Tried
<1>5. ASSUME best # None, step # "checkpoint", NEW k \in DOMAIN trail,
             Keeping!Alike(k, best), Keeping!AtLeast(Keeping!Of(k), Keeping!Of(best)),
             Keeping!Of(k).score > Keeping!Of(best).score
      PROVE  FALSE
    <2>1. best \in DOMAIN trail /\ trail[k].score <= trail[best].score
        BY <1>5 DEF ScoresInv
    <2>2. trail[k].score > trail[best].score
        BY <1>3, <1>5, <2>1
    <2> QED BY <1>4, <2>1, <2>2
<1>6. ASSUME NEW n \in DOMAIN reverts,
             Keeping!Alike(reverts[n].regressed, reverts[n].best),
             Keeping!AtLeast(Keeping!Of(reverts[n].regressed), Keeping!Of(reverts[n].best))
      PROVE  FALSE
    <2> DEFINE R == [regressed : DOMAIN trail, best : DOMAIN trail]
    <2>1. reverts[n] \in R
        <3> HIDE DEF R
        <3>1. reverts \in Seq(R)
            BY DEF ScoresInv, R
        <3> QED BY <3>1, ElementOfSeq, LenProperties
    <2> DEFINE j == reverts[n].regressed
               k == reverts[n].best
    <2>2. j \in DOMAIN trail /\ k \in DOMAIN trail /\ trail[j].score < trail[k].score
        BY <2>1 DEF ScoresInv
    <2>3. Keeping!Alike(j, k) /\ Keeping!AtLeast(Keeping!Of(j), Keeping!Of(k))
        BY <1>6
    <2> HIDE DEF j, k
    <2>4. trail[j].score >= trail[k].score
        BY <1>3, <2>2, <2>3
    <2> QED BY <1>4, <2>2, <2>4
<1>7. Keeping!BestUndominated
    BY <1>5, <1>6 DEF Keeping!BestUndominated
<1>8. Keeping!ReasonsHonest
    <2> SUFFICES ASSUME reason # None, Len(trail) > 0
                 PROVE  LET d == Keeping!Deltas(Keeping!Before)
                            same == \A k \in DOMAIN d : d[k] = d[1]
                        IN  /\ (same /\ Len(d) > 0 /\ d[1] = 0) =>
                                   reason \in {"early_iteration", "budget_exhausted"}
                            /\ (Len(d) = 1 /\ (d[1] > Floor \/ d[1] < -Floor)) =>
                                   reason = "plateau_detected"
                            /\ (same /\ Len(d) > 1 /\ d[1] > Floor) => reason = "improving"
                            /\ (reason = "improving" /\ ~same) =>
                                   Keeping!Spread(d) = Keeping!Bar(d)
        BY DEF Keeping!ReasonsHonest, Keeping!Latest
    <2> DEFINE d == Keeping!Deltas(Keeping!Before)
    <2>1. d \in Seq(Int)
        <3> DEFINE h == SubSeq(history, 1, Len(trail) - 1)
        <3>1. h \in Seq(Int)
            BY <1>1, SubSeqProperties DEF ScoresInv
        <3>2. d = Keeping!Deltas(Keeping!Lookback(h))
            BY DEF Keeping!Before, Keeping!Latest
        <3> HIDE DEF h, d
        <3> QED BY <3>1, <3>2, ChangesAreNumbers
    <2>2. reason = Keeping!Reason(d)
        BY DEF ScoresInv
    <2> HIDE DEF d
    <2>3. LET same == \A k \in DOMAIN d : d[k] = d[1]
          IN  /\ (same /\ Len(d) > 0 /\ d[1] = 0) =>
                     reason \in {"early_iteration", "budget_exhausted"}
              /\ (Len(d) = 1 /\ (d[1] > Floor \/ d[1] < -Floor)) => reason = "plateau_detected"
              /\ (same /\ Len(d) > 1 /\ d[1] > Floor) => reason = "improving"
              /\ (reason = "improving" /\ ~same) => Keeping!Spread(d) = Keeping!Bar(d)
        BY <2>1, <2>2, ReasonTells
    <2> QED BY <2>3 DEF d
<1> QED BY <1>7, <1>8 DEF Keeping!ScoresSound

LEMMA ScoresStart == Keeping!Init => ScoresInv
<1> SUFFICES ASSUME Keeping!Init PROVE ScoresInv
    OBVIOUS
<1>1. /\ step = "run" /\ history = <<>> /\ weights = Keeping!DefaultWeights /\ reason = None
      /\ best = None /\ reverts = <<>> /\ trail = <<>>
    BY DEF Keeping!Init
<1> QED BY <1>1 DEF ScoresInv, Weighings

LEMMA GreatestOfThem ==
    ASSUME NEW n \in Nat, NEW S \in SUBSET (0 .. n), S # {}
    PROVE  \E m \in S : \A k \in S : k <= m
<1> DEFINE F == {n - k : k \in S}
<1>1. F \in SUBSET Nat /\ F # {}
    <2>1. \A k \in S : n - k \in Nat
        OBVIOUS
    <2> QED BY <2>1
<1>2. PICK m \in F : \A k \in F : m <= k
    <2> HIDE DEF F
    <2> QED BY <1>1, LeastOfThem
<1>3. PICK k \in S : m = n - k
    OBVIOUS
<1>4. ASSUME NEW j \in S PROVE j <= k
    <2>1. n - j \in F
        OBVIOUS
    <2>2. n - k <= n - j
        BY <1>2, <1>3, <2>1
    <2>3. n \in Int /\ j \in Int /\ k \in Int
        OBVIOUS
    <2> QED BY <2>2, <2>3
<1> QED BY <1>4

DomainEntries == [name : Domains!Names, weight : Nat, optional : BOOLEAN]

LoadedEntries == [name : Domains!Names, cases : BOOLEAN]

LEMMA DomainFacts ==
    /\ CaseScores \subseteq Nat
    /\ \A e \in Environments : e.overrides \in Seq([name : Domains!Names, weight : Int])
BY EvolutionAssumption DEF Domains!ValidDomains

LEMMA WeighedIs ==
    ASSUME NEW d \in DomainEntries, NEW o \in Seq([name : Domains!Names, weight : Int])
    PROVE  Domains!Weighed(d, o) \in DomainEntries
<1> DEFINE at == {k \in DOMAIN o : o[k].name = d.name}
           last == CHOOSE k \in at : \A j \in at : j <= k
<1>1. CASE at = {}
    BY <1>1 DEF Domains!Weighed
<1>2. CASE at # {}
    <2>1. Len(o) \in Nat /\ at \in SUBSET (0 .. Len(o))
        OBVIOUS
    <2>2. \E k \in at : \A j \in at : j <= k
        <3> HIDE DEF at
        <3> QED BY <1>2, <2>1, GreatestOfThem
    <2>3. last \in at
        <3> HIDE DEF at
        <3> QED BY <2>2
    <2>4. o[last] \in [name : Domains!Names, weight : Int]
        <3>1. last \in 1 .. Len(o)
            BY <2>3
        <3> HIDE DEF last, at
        <3> QED BY <3>1, ElementOfSeq
    <2>5. Domains!Larger(0, o[last].weight) \in Nat
        BY <2>4 DEF Domains!Larger
    <2>6. Domains!Weighed(d, o) = [d EXCEPT !.weight = Domains!Larger(0, o[last].weight)]
        BY <1>2 DEF Domains!Weighed
    <2> HIDE DEF last
    <2> QED BY <2>5, <2>6 DEF DomainEntries
<1> QED BY <1>1, <1>2

LEMMA InOrderIs ==
    ASSUME NEW S, NEW x, NEW y, NEW z,
           x \in Seq(S), y \in Seq(S), z \in Seq(S)
    PROVE  x \o y \o z \in Seq(S)
BY ConcatProperties

LEMMA RegistryIs ==
    ASSUME NEW e \in Environments PROVE Domains!RegistryOf(e) \in Seq(DomainEntries)
<1> DEFINE Entry(k) == IF e.enabled = None \/ Domains!Shipped[k].name \in e.enabled
                       THEN <<Domains!Weighed(Domains!Shipped[k], e.overrides)>> ELSE <<>>
<1>1. \A k \in 1 .. 3 : Domains!Shipped[k] \in DomainEntries
    <2>1. Domains!Shipped[1] = [name |-> "codeforces", weight |-> 5, optional |-> FALSE]
        BY DEF Domains!Shipped
    <2>2. Domains!Shipped[2] = [name |-> "multifile", weight |-> 3, optional |-> TRUE]
        BY DEF Domains!Shipped
    <2>3. Domains!Shipped[3] = [name |-> "shader", weight |-> 2, optional |-> TRUE]
        BY DEF Domains!Shipped
    <2>4. /\ Domains!Shipped[1] \in DomainEntries /\ Domains!Shipped[2] \in DomainEntries
          /\ Domains!Shipped[3] \in DomainEntries
        BY <2>1, <2>2, <2>3 DEF DomainEntries, Domains!Names
    <2> QED BY <2>4
<1>2. ASSUME NEW k \in 1 .. 3 PROVE Entry(k) \in Seq(DomainEntries)
    <2>1. Domains!Weighed(Domains!Shipped[k], e.overrides) \in DomainEntries
        BY <1>1, DomainFacts, WeighedIs
    <2> QED BY <2>1
<1>3. Entry(1) \o Entry(2) \o Entry(3) \in Seq(DomainEntries)
    <2>1. /\ Entry(1) \in Seq(DomainEntries) /\ Entry(2) \in Seq(DomainEntries)
          /\ Entry(3) \in Seq(DomainEntries)
        BY <1>2
    <2> HIDE DEF Entry
    <2> QED BY <2>1, InOrderIs
<1> QED BY <1>3 DEF Domains!RegistryOf, Domains!InOrder

LEMMA LoadedIs ==
    ASSUME NEW s \in Seq(DomainEntries), NEW shapes
    PROVE  Domains!LoadedOf(s, shapes) \in Seq(LoadedEntries)
<1> DEFINE Entry(k) ==
        IF k \in DOMAIN s /\ Domains!LoadOf(s[k], shapes[s[k].name]) # "raises"
        THEN <<[name |-> s[k].name,
                cases |-> Domains!LoadOf(s[k], shapes[s[k].name]) = "cases"]>>
        ELSE <<>>
<1>1. ASSUME NEW k \in 1 .. 3 PROVE Entry(k) \in Seq(LoadedEntries)
    <2>1. CASE k \in DOMAIN s
        <3>1. s[k].name \in Domains!Names
            <4>1. s[k] \in DomainEntries
                BY <2>1, ElementOfSeq, LenProperties
            <4> QED BY <4>1 DEF DomainEntries
        <3>2. [name |-> s[k].name,
               cases |-> Domains!LoadOf(s[k], shapes[s[k].name]) = "cases"] \in LoadedEntries
            BY <3>1 DEF LoadedEntries
        <3> QED BY <3>2
    <2>2. CASE k \notin DOMAIN s
        BY <2>2
    <2> QED BY <2>1, <2>2
<1>2. Entry(1) \o Entry(2) \o Entry(3) \in Seq(LoadedEntries)
    <2>1. /\ Entry(1) \in Seq(LoadedEntries) /\ Entry(2) \in Seq(LoadedEntries)
          /\ Entry(3) \in Seq(LoadedEntries)
        BY <1>1
    <2> HIDE DEF Entry
    <2> QED BY <2>1, InOrderIs
<1> QED BY <1>2 DEF Domains!LoadedOf, Domains!InOrder

(* What a domain counts for among those that there are scores of.          *)
Effective(names) ==
    [n \in Domains!Names |->
        IF n \notin names THEN 0
        ELSE IF Domains!Total(names) > 0 THEN Domains!WeightOf(n) ELSE 1]

LEMMA WeightIs ==
    ASSUME registry \in Seq(DomainEntries), NEW n PROVE Domains!WeightOf(n) \in Nat
<1> DEFINE at == {k \in DOMAIN registry : registry[k].name = n}
           k == CHOOSE k \in at : TRUE
<1>1. CASE at # {}
    <2>1. k \in DOMAIN registry /\ Domains!WeightOf(n) = registry[k].weight
        BY <1>1 DEF Domains!WeightOf
    <2> HIDE DEF k
    <2>2. registry[k] \in DomainEntries
        BY <2>1, ElementOfSeq, LenProperties
    <2> QED BY <2>1, <2>2 DEF DomainEntries
<1>2. CASE at = {}
    BY <1>2 DEF Domains!WeightOf
<1> QED BY <1>1, <1>2

LEMMA AggregateIs ==
    ASSUME registry \in Seq(DomainEntries), NEW D, D \subseteq Domains!Names, D # {},
           NEW p \in [D -> Nat]
    PROVE  LET e == Effective(D)
               s(n) == IF n \in D THEN p[n] ELSE 0
               g == Domains!Aggregate(p)
           IN  /\ e \in [Domains!Names -> Nat]
               /\ g.over = e["codeforces"] + e["multifile"] + e["shader"]
               /\ g.sum = e["codeforces"] * s("codeforces") + e["multifile"] * s("multifile")
                            + e["shader"] * s("shader")
               /\ \A a : a.per = p =>
                     Domains!Counting(a) = {n \in Domains!Names : e[n] > 0}
               /\ \E n \in D : e[n] > 0
               /\ \A n \in Domains!Names : e[n] > 0 => n \in D
<1> DEFINE e == Effective(D)
           s(n) == IF n \in D THEN p[n] ELSE 0
           g == Domains!Aggregate(p)
           w(n) == IF n \in D THEN Domains!WeightOf(n) ELSE 0
<1>1. \A n : Domains!WeightOf(n) \in Nat /\ w(n) \in Nat
    BY WeightIs
<1>2. DOMAIN p = D
    OBVIOUS
<1>3. Domains!Total(D) = w("codeforces") + w("multifile") + w("shader")
    BY DEF Domains!Total, Domains!SumOver
<1>4. e \in [Domains!Names -> Nat]
    BY <1>1 DEF Effective
<1>5. Domains!Names = {"codeforces", "multifile", "shader"}
    BY DEF Domains!Names
<1>6. CASE Domains!Total(D) > 0
    <2>1. \A n \in Domains!Names : e[n] = w(n)
        BY <1>6 DEF Effective
    <2>2. /\ g.over = Domains!Total(D)
          /\ g.sum = (IF "codeforces" \in D
                      THEN Domains!WeightOf("codeforces") * p["codeforces"] ELSE 0)
                   + (IF "multifile" \in D
                      THEN Domains!WeightOf("multifile") * p["multifile"] ELSE 0)
                   + (IF "shader" \in D
                      THEN Domains!WeightOf("shader") * p["shader"] ELSE 0)
        BY <1>2, <1>6 DEF Domains!Aggregate, Domains!SumOver
    <2>3. g.over = e["codeforces"] + e["multifile"] + e["shader"]
        <3> HIDE DEF g, w, e
        <3> QED BY <1>3, <1>5, <2>1, <2>2
    <2>4. \A n : (IF n \in D THEN Domains!WeightOf(n) * p[n] ELSE 0) = w(n) * s(n)
        <3> SUFFICES ASSUME NEW n
                     PROVE  (IF n \in D THEN Domains!WeightOf(n) * p[n] ELSE 0) = w(n) * s(n)
            OBVIOUS
        <3>1. CASE n \in D
            BY <3>1
        <3>2. CASE n \notin D
            BY <3>2
        <3> QED BY <3>1, <3>2
    <2>5. g.sum = w("codeforces") * s("codeforces") + w("multifile") * s("multifile")
                    + w("shader") * s("shader")
        <3> HIDE DEF g, w, s
        <3> QED BY <2>2, <2>4
    <2>6. g.sum = e["codeforces"] * s("codeforces") + e["multifile"] * s("multifile")
                    + e["shader"] * s("shader")
        <3> HIDE DEF g, e, w, s
        <3> QED BY <1>5, <2>1, <2>5
    <2>7. \E n \in Domains!Names : w(n) > 0
        <3> HIDE DEF w
        <3> QED BY <1>1, <1>3, <1>5, <1>6
    <2>8. \A a : a.per = p => Domains!Counting(a) = {n \in Domains!Names : e[n] > 0}
        <3> SUFFICES ASSUME NEW a, a.per = p
                     PROVE  Domains!Counting(a) = {n \in Domains!Names : e[n] > 0}
            OBVIOUS
        <3>1. {n \in D : Domains!WeightOf(n) > 0} # {}
            BY <2>7
        <3>2. Domains!Counting(a) = {n \in D : Domains!WeightOf(n) > 0}
            BY <1>2, <3>1 DEF Domains!Counting
        <3>3. \A n \in Domains!Names : e[n] > 0 <=> (n \in D /\ Domains!WeightOf(n) > 0)
            BY <2>1
        <3> HIDE DEF e
        <3> QED BY <3>2, <3>3
    <2>9. (\E n \in D : e[n] > 0) /\ (\A n \in Domains!Names : e[n] > 0 => n \in D)
        BY <2>1, <2>7
    <2> QED BY <1>4, <2>3, <2>6, <2>8, <2>9
<1>7. CASE ~(Domains!Total(D) > 0)
    <2>1. \A n \in Domains!Names : e[n] = IF n \in D THEN 1 ELSE 0
        BY <1>7 DEF Effective
    <2>2. /\ g.over = (IF "codeforces" \in D THEN 1 ELSE 0)
                       + (IF "multifile" \in D THEN 1 ELSE 0) + (IF "shader" \in D THEN 1 ELSE 0)
          /\ g.sum = s("codeforces") + s("multifile") + s("shader")
        BY <1>2, <1>7 DEF Domains!Aggregate, Domains!SumOver
    <2>3. g.over = e["codeforces"] + e["multifile"] + e["shader"]
        <3> HIDE DEF g, e
        <3> QED BY <1>5, <2>1, <2>2
    <2>4. \A n \in Domains!Names : s(n) = e[n] * s(n)
        <3> SUFFICES ASSUME NEW n \in Domains!Names PROVE s(n) = e[n] * s(n)
            OBVIOUS
        <3>1. s(n) \in Nat
            OBVIOUS
        <3>2. CASE n \in D
            <4>1. e[n] = 1
                BY <2>1, <3>2
            <4> HIDE DEF s, e
            <4> QED BY <3>1, <4>1
        <3>3. CASE n \notin D
            <4>1. e[n] = 0 /\ s(n) = 0
                BY <2>1, <3>3
            <4> HIDE DEF s, e
            <4> QED BY <4>1
        <3> QED BY <3>2, <3>3
    <2>6. g.sum = e["codeforces"] * s("codeforces") + e["multifile"] * s("multifile")
                    + e["shader"] * s("shader")
        <3> HIDE DEF g, e, s
        <3> QED BY <1>5, <2>2, <2>4
    <2>7. \A n \in D : Domains!WeightOf(n) = 0
        <3>1. \A n \in Domains!Names : w(n) = 0
            <4> HIDE DEF w
            <4> QED BY <1>1, <1>3, <1>5, <1>7
        <3> QED BY <3>1
    <2>8. \A a : a.per = p => Domains!Counting(a) = {n \in Domains!Names : e[n] > 0}
        <3> SUFFICES ASSUME NEW a, a.per = p
                     PROVE  Domains!Counting(a) = {n \in Domains!Names : e[n] > 0}
            OBVIOUS
        <3>1. {n \in D : Domains!WeightOf(n) > 0} = {}
            BY <2>7
        <3>2. Domains!Counting(a) = D
            BY <1>2, <3>1 DEF Domains!Counting
        <3>3. \A n \in Domains!Names : e[n] > 0 <=> n \in D
            BY <2>1
        <3> HIDE DEF e
        <3> QED BY <3>2, <3>3
    <2>9. (\E n \in D : e[n] > 0) /\ (\A n \in Domains!Names : e[n] > 0 => n \in D)
        BY <2>1
    <2> QED BY <1>4, <2>3, <2>6, <2>8, <2>9
<1> QED BY <1>6, <1>7

(* The domains that a measured advocate has scores of.                     *)
Reached == {Domains!Primary} \cup {loaded[k].name : k \in DOMAIN loaded}

Rankings == {[per |-> p, aggregate |-> Domains!Aggregate(p), told |-> Domains!EventOf(p)] :
                p \in [Reached -> Nat]}

(* All advocates of a cycle are measured in the same domains, and weighed  *)
(* by the same registry.                                                   *)
DomainsInv ==
    /\ stage \in {"off", "loaded", "measure", "chosen"}
    /\ registry \in Seq(DomainEntries) /\ loaded \in Seq(LoadedEntries)
    /\ ranked \in Seq(Rankings)
    /\ stage = "measure" =>
          /\ given \in Seq(Domains!Names) /\ per \in [DOMAIN per -> Nat]
          /\ DOMAIN per \cup {given[k] : k \in DOMAIN given} = Reached
    /\ chosen # None =>
          /\ stage = "chosen" /\ chosen \in DOMAIN ranked
          /\ \A j \in DOMAIN ranked :
                ~Domains!Exceeds(ranked[j].aggregate, ranked[chosen].aggregate)

LEMMA ReachedIs ==
    ASSUME loaded \in Seq(LoadedEntries)
    PROVE  /\ Reached \subseteq Domains!Names /\ Domains!Primary \in Reached
           /\ Len(loaded) \in Nat /\ DOMAIN loaded = 1 .. Len(loaded)
           /\ \A k \in DOMAIN loaded : loaded[k].name \in Domains!Names
           /\ loaded # <<>> => Domains!Primary = loaded[1].name
<1>1. Len(loaded) \in Nat /\ DOMAIN loaded = 1 .. Len(loaded)
    OBVIOUS
<1>2. \A k \in DOMAIN loaded : loaded[k].name \in Domains!Names
    <2>1. \A k \in DOMAIN loaded : loaded[k] \in LoadedEntries
        BY ElementOfSeq, LenProperties
    <2> QED BY <2>1 DEF LoadedEntries
<1>3. Domains!Primary \in Domains!Names
    <2>1. CASE loaded = <<>>
        BY <2>1 DEF Domains!Primary, Domains!Names
    <2>2. CASE loaded # <<>>
        <3>1. 1 \in DOMAIN loaded
            BY <2>2, EmptySeq
        <3> QED BY <1>2, <2>2, <3>1 DEF Domains!Primary
    <2> QED BY <2>1, <2>2
<1> QED BY <1>1, <1>2, <1>3 DEF Reached, Domains!Primary

LEMMA RankedIs ==
    ASSUME DomainsInv, NEW k \in DOMAIN ranked
    PROVE  /\ ranked[k].per \in [Reached -> Nat]
           /\ ranked[k].aggregate = Domains!Aggregate(ranked[k].per)
           /\ ranked[k].told = Domains!EventOf(ranked[k].per)
           /\ Reached \subseteq Domains!Names /\ Reached # {}
<1>1. ranked[k] \in Rankings
    BY ElementOfSeq, LenProperties DEF DomainsInv
<1>2. Reached \subseteq Domains!Names /\ Reached # {}
    BY ReachedIs DEF DomainsInv
<1> QED BY <1>1, <1>2 DEF Rankings

(* Weighed alike, what is more wherever it counts is more.                 *)
LEMMA Products ==
    \A n \in Nat : \A i, j \in Nat :
        /\ n * i \in Nat /\ n * 0 = 0
        /\ i >= j => n * i >= n * j
        /\ (n > 0 /\ i > j) => n * i > n * j
OBVIOUS

LEMMA MeansAre ==
    ASSUME NEW a \in Nat, NEW b \in Nat, NEW c \in Nat, NEW x \in Nat,
           NEW i \in Nat, NEW j \in Nat, NEW k \in Nat
    PROVE  /\ (a > 0 => x <= i) /\ (b > 0 => x <= j) /\ (c > 0 => x <= k) =>
                  x * (a + b + c) <= a * i + b * j + c * k
           /\ (a > 0 => x >= i) /\ (b > 0 => x >= j) /\ (c > 0 => x >= k) =>
                  x * (a + b + c) >= a * i + b * j + c * k
<1>1. x * (a + b + c) = a * x + b * x + c * x
    OBVIOUS
<1>2. ASSUME NEW n \in Nat, NEW m \in Nat
      PROVE  /\ n * m \in Nat /\ n * x \in Nat
             /\ (n > 0 => x <= m) => n * x <= n * m
             /\ (n > 0 => x >= m) => n * x >= n * m
    <2>1. CASE n = 0
        BY <2>1
    <2>2. CASE n > 0
        BY <2>2, Products
    <2> QED BY <2>1, <2>2
<1> DEFINE ax == a * x
           bx == b * x
           cx == c * x
           ai == a * i
           bj == b * j
           ck == c * k
<1>3. /\ ax \in Nat /\ ai \in Nat /\ ((a > 0 => x <= i) => ax <= ai)
      /\ ((a > 0 => x >= i) => ax >= ai)
    BY <1>2
<1>4. /\ bx \in Nat /\ bj \in Nat /\ ((b > 0 => x <= j) => bx <= bj)
      /\ ((b > 0 => x >= j) => bx >= bj)
    BY <1>2
<1>5. /\ cx \in Nat /\ ck \in Nat /\ ((c > 0 => x <= k) => cx <= ck)
      /\ ((c > 0 => x >= k) => cx >= ck)
    BY <1>2
<1> HIDE DEF ax, bx, cx, ai, bj, ck
<1>6. /\ (a > 0 => x <= i) /\ (b > 0 => x <= j) /\ (c > 0 => x <= k) =>
             ax + bx + cx <= ai + bj + ck
      /\ (a > 0 => x >= i) /\ (b > 0 => x >= j) /\ (c > 0 => x >= k) =>
             ax + bx + cx >= ai + bj + ck
    BY <1>3, <1>4, <1>5
<1> QED BY <1>1, <1>6 DEF ax, bx, cx, ai, bj, ck

LEMMA SumsExceed ==
    ASSUME NEW a \in Nat, NEW b \in Nat, NEW c \in Nat, a > 0 \/ b > 0 \/ c > 0,
           NEW i \in Nat, NEW j \in Nat, NEW k \in Nat,
           NEW u \in Nat, NEW v \in Nat, NEW w \in Nat,
           a > 0 => i > u, b > 0 => j > v, c > 0 => k > w
    PROVE  (a * i + b * j + c * k) * (a + b + c) > (a * u + b * v + c * w) * (a + b + c)
<1>1. ASSUME NEW n \in Nat, NEW m \in Nat, NEW l \in Nat, n > 0 => m > l
      PROVE  n * m \in Nat /\ n * l \in Nat /\ n * m >= n * l /\ (n > 0 => n * m > n * l)
    <2>1. CASE n = 0
        BY <2>1
    <2>2. CASE n > 0
        BY <1>1, <2>2, Products
    <2> QED BY <2>1, <2>2
<1> DEFINE p == a * i + b * j + c * k
           q == a * u + b * v + c * w
           t == a + b + c
           ai == a * i
           bj == b * j
           ck == c * k
           au == a * u
           bv == b * v
           cw == c * w
<1>2. ai \in Nat /\ au \in Nat /\ ai >= au /\ (a > 0 => ai > au)
    BY <1>1
<1>3. bj \in Nat /\ bv \in Nat /\ bj >= bv /\ (b > 0 => bj > bv)
    BY <1>1
<1>4. ck \in Nat /\ cw \in Nat /\ ck >= cw /\ (c > 0 => ck > cw)
    BY <1>1
<1>5. p = ai + bj + ck /\ q = au + bv + cw
    OBVIOUS
<1>6. t \in Nat /\ t > 0
    OBVIOUS
<1> HIDE DEF ai, bj, ck, au, bv, cw, p, q, t
<1>7. p \in Nat /\ q \in Nat /\ p > q
    BY <1>2, <1>3, <1>4, <1>5
<1>8. t * p > t * q /\ t * p = p * t /\ t * q = q * t
    BY <1>6, <1>7, Products
<1> QED BY <1>8 DEF p, q, t

LEMMA DomainsHold == ASSUME DomainsInv PROVE Domains!DomainsSound
<1> DEFINE e == Effective(Reached)
           s(f, n) == IF n \in Reached THEN f[n] ELSE 0
           C == {n \in Domains!Names : e[n] > 0}
<1>1. Domains!Names = {"codeforces", "multifile", "shader"}
    BY DEF Domains!Names
<1>2. ASSUME NEW k \in DOMAIN ranked
      PROVE  LET p == ranked[k].per
                 g == ranked[k].aggregate
             IN  /\ p \in [Reached -> Nat] /\ e \in [Domains!Names -> Nat]
                 /\ g = Domains!Aggregate(p)
                 /\ ranked[k].told = Domains!EventOf(p)
                 /\ g.over = e["codeforces"] + e["multifile"] + e["shader"]
                 /\ g.sum = e["codeforces"] * s(p, "codeforces")
                              + e["multifile"] * s(p, "multifile")
                              + e["shader"] * s(p, "shader")
                 /\ Domains!Counting(ranked[k]) = C
                 /\ C # {} /\ C \subseteq Reached
                 /\ \A n \in Domains!Names : s(p, n) \in Nat
    <2> DEFINE p == ranked[k].per
    <2>1. /\ p \in [Reached -> Nat] /\ Reached \subseteq Domains!Names /\ Reached # {}
          /\ ranked[k].aggregate = Domains!Aggregate(p) /\ registry \in Seq(DomainEntries)
          /\ ranked[k].told = Domains!EventOf(p)
        BY RankedIs DEF DomainsInv
    <2>2. \A a : a.per = p => Domains!Counting(a) = C
        <3> HIDE DEF p
        <3> QED BY <2>1, AggregateIs, ZenonT(60)
    <2>3. Domains!Counting(ranked[k]) = C
        BY <2>2
    <2>4. \A n \in Domains!Names : s(p, n) \in Nat
        BY <2>1
    <2> HIDE DEF p
    <2>5. /\ e \in [Domains!Names -> Nat]
          /\ Domains!Aggregate(p).over = e["codeforces"] + e["multifile"] + e["shader"]
          /\ Domains!Aggregate(p).sum = e["codeforces"] * s(p, "codeforces")
                              + e["multifile"] * s(p, "multifile")
                              + e["shader"] * s(p, "shader")
          /\ C # {} /\ C \subseteq Reached
        BY <2>1, AggregateIs
    <2> QED BY <2>1, <2>3, <2>4, <2>5 DEF p
<1> HIDE DEF e
<1>3. ASSUME NEW k \in DOMAIN ranked PROVE Domains!IsAMean(ranked[k])
    <2> DEFINE p == ranked[k].per
               g == ranked[k].aggregate
    <2>1. /\ p \in [Reached -> Nat] /\ e \in [Domains!Names -> Nat]
          /\ g.over = e["codeforces"] + e["multifile"] + e["shader"]
          /\ g.sum = e["codeforces"] * s(p, "codeforces") + e["multifile"] * s(p, "multifile")
                       + e["shader"] * s(p, "shader")
          /\ Domains!Counting(ranked[k]) = C /\ C # {} /\ C \subseteq Reached
          /\ \A n \in Domains!Names : s(p, n) \in Nat
        BY <1>2
    <2> HIDE DEF p, g
    <2>2. /\ \E n \in C : \A m \in C : p[n] <= p[m]
          /\ \E n \in C : \A m \in C : p[n] >= p[m]
        <3> DEFINE top == s(p, "codeforces") + s(p, "multifile") + s(p, "shader")
                   F == {p[m] : m \in C}
        <3>1. \A n \in C : p[n] = s(p, n)
            BY <2>1
        <3>2. top \in Nat /\ \A n \in C : s(p, n) \in 0 .. top
            <4> HIDE DEF s
            <4> QED BY <1>1, <2>1
        <3> HIDE DEF C, s, top
        <3>3. F \in SUBSET (0 .. top) /\ F \in SUBSET Nat /\ F # {}
            BY <2>1, <3>1, <3>2
        <3>4. (\E m \in F : \A n \in F : m <= n) /\ (\E m \in F : \A n \in F : n <= m)
            <4> HIDE DEF F
            <4> QED BY <3>2, <3>3, LeastOfThem, GreatestOfThem
        <3>5. \A n \in C : p[n] \in Nat
            BY <3>1, <3>2
        <3> QED BY <3>4, <3>5
    <2>3. ASSUME NEW n \in C
          PROVE  /\ (\A m \in C : p[n] <= p[m]) => p[n] * g.over <= g.sum
                 /\ (\A m \in C : p[n] >= p[m]) => p[n] * g.over >= g.sum
        <3> DEFINE x == p[n]
        <3>1. x \in Nat
            BY <2>1
        <3>2. \A m \in Domains!Names :
                  /\ e[m] \in Nat /\ s(p, m) \in Nat
                  /\ (\A l \in C : p[n] <= p[l]) => (e[m] > 0 => x <= s(p, m))
                  /\ (\A l \in C : p[n] >= p[l]) => (e[m] > 0 => x >= s(p, m))
            BY <2>1
        <3> DEFINE a == e["codeforces"]
                   b == e["multifile"]
                   c == e["shader"]
                   i == s(p, "codeforces")
                   j == s(p, "multifile")
                   v == s(p, "shader")
        <3>3. /\ a \in Nat /\ b \in Nat /\ c \in Nat /\ i \in Nat /\ j \in Nat /\ v \in Nat
              /\ (\A l \in C : p[n] <= p[l]) =>
                    (a > 0 => x <= i) /\ (b > 0 => x <= j) /\ (c > 0 => x <= v)
              /\ (\A l \in C : p[n] >= p[l]) =>
                    (a > 0 => x >= i) /\ (b > 0 => x >= j) /\ (c > 0 => x >= v)
            <4> HIDE DEF x, s, C
            <4> QED BY <1>1, <3>2
        <3>4. g.over = a + b + c /\ g.sum = a * i + b * j + c * v
            BY <2>1
        <3> HIDE DEF a, b, c, i, j, v, x, s, C
        <3>5. /\ (a > 0 => x <= i) /\ (b > 0 => x <= j) /\ (c > 0 => x <= v) =>
                    x * (a + b + c) <= a * i + b * j + c * v
              /\ (a > 0 => x >= i) /\ (b > 0 => x >= j) /\ (c > 0 => x >= v) =>
                    x * (a + b + c) >= a * i + b * j + c * v
            BY <3>1, <3>3, MeansAre
        <3> QED BY <3>3, <3>4, <3>5 DEF x
    <2>4. PICK n \in C : \A m \in C : p[n] <= p[m]
        BY <2>2
    <2>5. PICK l \in C : \A m \in C : p[l] >= p[m]
        BY <2>2
    <2>6. p[n] * g.over <= g.sum /\ p[l] * g.over >= g.sum
        <3> HIDE DEF C
        <3> QED BY <2>3, <2>4, <2>5
    <2> HIDE DEF C
    <2> QED BY <2>1, <2>6 DEF Domains!IsAMean, p, g
<1>4. ASSUME NEW k \in DOMAIN ranked PROVE Domains!EventExplains(ranked[k])
    <2> DEFINE p == ranked[k].per
               tells == ranked[k].told
    <2>1. p \in [Reached -> Nat] /\ tells = Domains!EventOf(p)
          /\ ranked[k].aggregate = Domains!Aggregate(p)
        BY <1>2
    <2> SUFFICES ASSUME tells # None, tells.over > 0
                 PROVE  LET Part(n) == tells.weights[n] * p[n]
                        IN  Domains!SumOver(DOMAIN p, Part) * ranked[k].aggregate.over
                                = ranked[k].aggregate.sum * tells.over
        BY DEF Domains!EventExplains
    <2>2. tells = [weights |-> [n \in Reached |-> Domains!WeightOf(n)],
                  over |-> Domains!Total(Reached)]
        BY <2>1 DEF Domains!EventOf
    <2> HIDE DEF tells, p
    <2>3. DOMAIN p = Reached /\ Domains!Total(Reached) > 0
        BY <2>1, <2>2
    <2>4. /\ ranked[k].aggregate.over = tells.over
          /\ ranked[k].aggregate.sum
                = (IF "codeforces" \in Reached
                   THEN Domains!WeightOf("codeforces") * p["codeforces"] ELSE 0)
                  + (IF "multifile" \in Reached
                     THEN Domains!WeightOf("multifile") * p["multifile"] ELSE 0)
                  + (IF "shader" \in Reached
                     THEN Domains!WeightOf("shader") * p["shader"] ELSE 0)
        BY <2>1, <2>2, <2>3 DEF Domains!Aggregate, Domains!SumOver
    <2>5. \A n \in Reached : tells.weights[n] = Domains!WeightOf(n)
        BY <2>2
    <2> QED BY <2>3, <2>4, <2>5 DEF Domains!SumOver
<1>5. Domains!Undominated
    <2> SUFFICES ASSUME chosen # None, NEW k \in DOMAIN ranked,
                        \A n \in Domains!Counting(ranked[k]) :
                            ranked[k].per[n] > ranked[chosen].per[n]
                 PROVE  FALSE
        BY DEF Domains!Undominated
    <2>1. /\ chosen \in DOMAIN ranked
          /\ ~Domains!Exceeds(ranked[k].aggregate, ranked[chosen].aggregate)
        BY DEF DomainsInv
    <2> DEFINE p == ranked[k].per
               q == ranked[chosen].per
               f == ranked[k].aggregate
               g == ranked[chosen].aggregate
    <2>2. /\ e \in [Domains!Names -> Nat]
          /\ f.over = e["codeforces"] + e["multifile"] + e["shader"]
          /\ f.sum = e["codeforces"] * s(p, "codeforces") + e["multifile"] * s(p, "multifile")
                       + e["shader"] * s(p, "shader")
          /\ Domains!Counting(ranked[k]) = C /\ C # {} /\ C \subseteq Reached
          /\ \A n \in Domains!Names : s(p, n) \in Nat
        BY <1>2
    <2>3. /\ g.over = e["codeforces"] + e["multifile"] + e["shader"]
          /\ g.sum = e["codeforces"] * s(q, "codeforces") + e["multifile"] * s(q, "multifile")
                       + e["shader"] * s(q, "shader")
          /\ \A n \in Domains!Names : s(q, n) \in Nat
        BY <1>2, <2>1
    <2>4. \A n \in Domains!Names : e[n] > 0 => s(p, n) > s(q, n)
        BY <2>2
    <2>5. \E n \in Domains!Names : e[n] > 0
        BY <2>2
    <2>6. f.sum * f.over > g.sum * f.over
        <3> DEFINE a == e["codeforces"]
                   b == e["multifile"]
                   c == e["shader"]
                   i == s(p, "codeforces")
                   j == s(p, "multifile")
                   v == s(p, "shader")
                   x == s(q, "codeforces")
                   y == s(q, "multifile")
                   z == s(q, "shader")
        <3>1. /\ a \in Nat /\ b \in Nat /\ c \in Nat /\ (a > 0 \/ b > 0 \/ c > 0)
              /\ i \in Nat /\ j \in Nat /\ v \in Nat /\ x \in Nat /\ y \in Nat /\ z \in Nat
              /\ (a > 0 => i > x) /\ (b > 0 => j > y) /\ (c > 0 => v > z)
            <4> HIDE DEF p, q, f, g, s, C
            <4> QED BY <1>1, <2>2, <2>3, <2>4, <2>5
        <3>2. f.over = a + b + c /\ f.sum = a * i + b * j + c * v
              /\ g.sum = a * x + b * y + c * z
            BY <2>2, <2>3
        <3> HIDE DEF a, b, c, i, j, v, x, y, z, f, g, p, q, s, C
        <3>3. (a * i + b * j + c * v) * (a + b + c) > (a * x + b * y + c * z) * (a + b + c)
            BY <3>1, SumsExceed
        <3> QED BY <3>2, <3>3
    <2> HIDE DEF p, q, f, g, s, C
    <2> QED BY <2>1, <2>2, <2>3, <2>6 DEF Domains!Exceeds, f, g
<1> QED BY <1>3, <1>4, <1>5 DEF Domains!DomainsSound

LEMMA DomainsStart == Domains!Init => DomainsInv
<1> SUFFICES ASSUME Domains!Init PROVE DomainsInv
    OBVIOUS
<1>1. stage = "off" /\ registry = <<>> /\ loaded = <<>> /\ ranked = <<>> /\ chosen = None
    BY DEF Domains!Init
<1> QED BY <1>1 DEF DomainsInv

LEMMA AggregatesStay ==
    ASSUME registry' = registry, loaded' = loaded
    PROVE  /\ Reached' = Reached /\ Rankings' = Rankings
<1>1. Reached' = Reached
    BY DEF Reached, Domains!Primary
<1>2. \A names : Domains!Total(names)' = Domains!Total(names)
    BY DEF Domains!Total, Domains!SumOver, Domains!WeightOf
<1>3. \A p : Domains!EventOf(p)' = Domains!EventOf(p)
    BY <1>2 DEF Domains!EventOf, Domains!WeightOf
<1>4. \A p : Domains!Aggregate(p)' = Domains!Aggregate(p)
    BY <1>2 DEF Domains!Aggregate, Domains!SumOver, Domains!WeightOf
<1> QED BY <1>1, <1>3, <1>4 DEF Rankings

LEMMA DomainsLoad == ASSUME DomainsInv, Domains!Load PROVE DomainsInv'
<1>1. PICK e \in Environments, shapes \in [Domains!Names -> Domains!Shapes] :
          /\ registry' = Domains!RegistryOf(e)
          /\ loaded' = Domains!LoadedOf(Domains!RegistryOf(e), shapes)
    BY DEF Domains!Load
<1>2. stage' = "loaded" /\ ranked' = <<>> /\ chosen' = None
    BY DEF Domains!Load
<1>3. registry' \in Seq(DomainEntries) /\ loaded' \in Seq(LoadedEntries)
    BY <1>1, RegistryIs, LoadedIs
<1> QED BY <1>2, <1>3 DEF DomainsInv

LEMMA DomainsLoadRaises == ASSUME DomainsInv, Domains!LoadRaises PROVE DomainsInv'
<1>1. /\ stage' = "off" /\ registry' = <<>> /\ loaded' = <<>> /\ ranked' = <<>>
      /\ chosen' = None
    BY DEF Domains!LoadRaises
<1> QED BY <1>1 DEF DomainsInv

LEMMA DomainsImprove == ASSUME DomainsInv, Domains!Improve PROVE DomainsInv'
<1>1. /\ stage = "loaded" /\ stage' = "measure" /\ registry' = registry
      /\ loaded' = loaded /\ ranked' = ranked /\ chosen' = chosen
      /\ given' = [k \in 1 .. (Len(loaded) - 1) |-> loaded[k + 1].name]
    BY DEF Domains!Improve
<1>2. PICK x \in CaseScores \cup {0} : per' = [n \in {Domains!Primary} |-> x]
    BY DEF Domains!Improve
<1>3. per' \in [DOMAIN per' -> Nat] /\ DOMAIN per' = {Domains!Primary}
    BY <1>2, DomainFacts
<1>4. /\ Reached \subseteq Domains!Names /\ Domains!Primary \in Reached
      /\ Len(loaded) \in Nat /\ DOMAIN loaded = 1 .. Len(loaded)
      /\ \A k \in DOMAIN loaded : loaded[k].name \in Domains!Names
      /\ loaded # <<>> => Domains!Primary = loaded[1].name
      /\ loaded \in Seq(LoadedEntries)
    BY ReachedIs DEF DomainsInv
<1>5. given' \in Seq(Domains!Names)
      /\ DOMAIN per' \cup {given'[k] : k \in DOMAIN given'} = Reached
    <2>1. CASE loaded = <<>>
        <3>1. given' = <<>> /\ Reached = {Domains!Primary}
            BY <1>1, <2>1 DEF Reached
        <3> QED BY <1>3, <3>1
    <2>2. CASE loaded # <<>>
        <3> DEFINE n == Len(loaded) - 1
        <3>1. n \in Nat /\ Len(loaded) = n + 1
            BY <1>4, <2>2, EmptySeq
        <3> HIDE DEF n
        <3>2. DOMAIN given' = 1 .. n /\ \A k \in 1 .. n : given'[k] = loaded[k + 1].name
            BY <1>1, <3>1 DEF n
        <3>3. \A k \in 1 .. n : k + 1 \in DOMAIN loaded
            BY <1>4, <3>1
        <3>4. given' \in Seq(Domains!Names)
            <4>1. given' = [k \in 1 .. n |-> loaded[k + 1].name]
                BY <1>1 DEF n
            <4> QED BY <1>4, <3>1, <3>3, <4>1
        <3>5. \A k \in DOMAIN loaded : k = 1 \/ (k - 1 \in 1 .. n /\ k - 1 + 1 = k)
            BY <1>4, <3>1
        <3>6. \A y : y \in Reached <=> y = Domains!Primary \/ \E k \in 1 .. n : y = given'[k]
            <4>1. \A k \in DOMAIN loaded : loaded[k].name = Domains!Primary
                                            \/ \E j \in 1 .. n : loaded[k].name = given'[j]
                BY <1>4, <2>2, <3>2, <3>5
            <4>2. \A k \in 1 .. n : given'[k] \in Reached
                BY <3>2, <3>3 DEF Reached
            <4> QED BY <4>1, <4>2 DEF Reached
        <3> QED BY <1>3, <3>2, <3>4, <3>6
    <2> QED BY <2>1, <2>2
<1>6. Reached' = Reached /\ Rankings' = Rankings
    BY <1>1, AggregatesStay
<1>7. chosen' = None
    BY <1>1 DEF DomainsInv
<1>8. registry \in Seq(DomainEntries) /\ ranked \in Seq(Rankings)
    BY DEF DomainsInv
<1> QED BY <1>1, <1>3, <1>4, <1>5, <1>6, <1>7, <1>8 DEF DomainsInv

LEMMA DomainsMeasureNext == ASSUME DomainsInv, Domains!MeasureNext PROVE DomainsInv'
<1>1. /\ stage = "measure" /\ given # <<>> /\ given' = Tail(given)
      /\ stage' = stage /\ registry' = registry /\ loaded' = loaded /\ ranked' = ranked
      /\ chosen' = chosen
    BY DEF Domains!MeasureNext
<1>2. PICK x \in CaseScores \cup {0} :
          per' = [n \in DOMAIN per \cup {Head(given)} |->
                     IF n = Head(given) THEN x ELSE per[n]]
    BY DEF Domains!MeasureNext
<1>3. /\ given \in Seq(Domains!Names) /\ per \in [DOMAIN per -> Nat]
      /\ DOMAIN per \cup {given[k] : k \in DOMAIN given} = Reached
    BY <1>1 DEF DomainsInv
<1>4. per' \in [DOMAIN per' -> Nat] /\ DOMAIN per' = DOMAIN per \cup {Head(given)}
    BY <1>2, <1>3, DomainFacts
<1>5. given' \in Seq(Domains!Names)
      /\ DOMAIN per' \cup {given'[k] : k \in DOMAIN given'} = Reached
    <2> DEFINE n == Len(given) - 1
    <2>1. n \in Nat /\ DOMAIN given = 1 .. n + 1 /\ Head(given) = given[1]
        BY <1>1, <1>3, EmptySeq
    <2>2. /\ given' \in Seq(Domains!Names) /\ DOMAIN given' = 1 .. n
          /\ \A k \in 1 .. n : given'[k] = given[k + 1]
        BY <1>1, <1>3, <2>1, HeadTailProperties
    <2> HIDE DEF n
    <2>3. \A k \in DOMAIN given : k = 1 \/ (k - 1 \in 1 .. n /\ k - 1 + 1 = k)
        BY <2>1
    <2>4. \A k \in 1 .. n : k + 1 \in DOMAIN given
        BY <2>1
    <2>5. \A y : (\E k \in DOMAIN given : y = given[k])
                    <=> y = Head(given) \/ \E k \in DOMAIN given' : y = given'[k]
        <3>1. ASSUME NEW k \in DOMAIN given
              PROVE  given[k] = Head(given) \/ \E j \in DOMAIN given' : given[k] = given'[j]
            BY <2>1, <2>2, <2>3
        <3>2. 1 \in DOMAIN given
            BY <2>1
        <3> QED BY <2>1, <2>2, <2>4, <3>1, <3>2
    <2> QED BY <1>3, <1>4, <2>2, <2>5
<1>6. Reached' = Reached /\ Rankings' = Rankings
    BY <1>1, AggregatesStay
<1> QED BY <1>1, <1>4, <1>5, <1>6 DEF DomainsInv, Domains!Exceeds

LEMMA DomainsConclude == ASSUME DomainsInv, Domains!Conclude PROVE DomainsInv'
<1> DEFINE a == [per |-> per, aggregate |-> Domains!Aggregate(per),
                 told |-> Domains!EventOf(per)]
<1>1. /\ stage = "measure" /\ given = <<>> /\ ranked' = Append(ranked, a)
      /\ stage' = "loaded" /\ registry' = registry /\ loaded' = loaded /\ chosen' = chosen
    BY DEF Domains!Conclude
<1>2. per \in [Reached -> Nat]
    <2>1. /\ per \in [DOMAIN per -> Nat]
          /\ DOMAIN per \cup {given[k] : k \in DOMAIN given} = Reached
        BY <1>1 DEF DomainsInv
    <2>2. {given[k] : k \in DOMAIN given} = {}
        BY <1>1
    <2>3. DOMAIN per = Reached
        BY <2>1, <2>2
    <2> QED BY <2>1, <2>3
<1>3. a \in Rankings
    BY <1>2 DEF Rankings
<1>4. /\ ranked' \in Seq(Rankings)
      /\ \A k \in DOMAIN ranked : k \in DOMAIN ranked' /\ ranked'[k] = ranked[k]
    <2> HIDE DEF a
    <2> QED BY <1>1, <1>3, Appended DEF DomainsInv
<1>5. Reached' = Reached /\ Rankings' = Rankings
    BY <1>1, AggregatesStay
<1>6. chosen = None
    <2>1. chosen # None => stage = "chosen"
        BY DEF DomainsInv
    <2> QED BY <1>1, <2>1
<1> QED BY <1>1, <1>4, <1>5, <1>6 DEF DomainsInv

LEMMA DomainsChoose == ASSUME DomainsInv, Domains!Choose PROVE DomainsInv'
<1>1. PICK k \in DOMAIN ranked :
          /\ \A j \in DOMAIN ranked :
                ~Domains!Exceeds(ranked[j].aggregate, ranked[k].aggregate)
          /\ chosen' = k
    BY DEF Domains!Choose
<1>2. /\ stage' = "chosen" /\ registry' = registry /\ loaded' = loaded /\ ranked' = ranked
    BY DEF Domains!Choose
<1>3. Reached' = Reached /\ Rankings' = Rankings
    BY <1>2, AggregatesStay
<1> QED BY <1>1, <1>2, <1>3 DEF DomainsInv, Domains!Exceeds

LEMMA DomainsStay ==
    ASSUME DomainsInv, UNCHANGED <<stage, domainOnly>> PROVE DomainsInv'
<1>1. /\ stage' = stage /\ registry' = registry /\ loaded' = loaded /\ given' = given
      /\ per' = per /\ ranked' = ranked /\ chosen' = chosen
    BY DEF domainOnly
<1>2. Reached' = Reached /\ Rankings' = Rankings
    BY <1>1, AggregatesStay
<1> QED BY <1>1, <1>2 DEF DomainsInv, Domains!Exceeds

LEMMA SweepFacts ==
    /\ MaxIterations \in Nat /\ Trajectories \in Nat /\ None \notin Nat
    /\ NoisyScores \subseteq Int
    /\ Len(Grid) \in Nat /\ Len(Grid) > 0 /\ Sweep!Detectors = 1 .. Len(Grid)
    /\ \A c \in Sweep!Detectors :
          Grid[c].threshold \in Nat /\ Grid[c].window \in Nat /\ Grid[c].window > 0
<1>1. /\ MaxIterations \in Nat /\ Trajectories \in Nat /\ None \notin Nat
      /\ NoisyScores \subseteq Int
      /\ Grid \in Seq([threshold : Nat, window : Nat \ {0}]) /\ Len(Grid) > 0
    BY EvolutionAssumption DEF Sweep!ValidSweep
<1>2. Len(Grid) \in Nat /\ Sweep!Detectors = 1 .. Len(Grid)
    BY <1>1 DEF Sweep!Detectors
<1>3. \A c \in 1 .. Len(Grid) : Grid[c] \in [threshold : Nat, window : Nat \ {0}]
    BY <1>1, ElementOfSeq
<1> QED BY <1>1, <1>2, <1>3

(* The detector d finds the first n scores flat.                           *)
FlatAt(s, n, d) ==
    /\ n >= d.window
    /\ \A j \in (n - d.window + 1) .. (n - 1) : Sweep!Gap(s[j], s[j + 1]) < d.threshold

LEMMA FlatIs ==
    ASSUME NEW s \in Seq(Int), NEW n \in 0 .. Len(s), NEW d,
           d.window \in Nat, d.window > 0
    PROVE  Sweep!Flat(SubSeq(s, 1, n), d) <=> FlatAt(s, n, d)
<1> DEFINE p == SubSeq(s, 1, n)
           v == d.window
           w == Sweep!LastOf(p, v)
<1>1. n \in Nat /\ Len(s) \in Nat /\ n <= Len(s)
    OBVIOUS
<1>2. p \in Seq(Int) /\ Len(p) = n /\ \A k \in 1 .. n : p[k] = s[k]
    <2>1. p \in Seq(Int) /\ Len(p) = n
        BY <1>1
    <2>2. \A k \in 1 .. n : p[k] = s[k]
        BY <1>1
    <2> QED BY <2>1, <2>2
<1> HIDE DEF p
<1>3. CASE n < v
    BY <1>1, <1>2, <1>3 DEF Sweep!Flat, FlatAt, p
<1>4. CASE n >= v
    <2>1. w = SubSeq(p, n - v + 1, n)
        BY <1>2 DEF Sweep!LastOf
    <2>2. Len(w) = v /\ \A k \in 1 .. v : w[k] = p[n - v + k]
        <3> DEFINE m == n - v + 1
        <3>1. m \in Int /\ m >= 1 /\ m <= n /\ n - m + 1 = v
            BY <1>1, <1>4
        <3>2. w = SubSeq(p, m, n)
            BY <2>1
        <3>3. \A k \in 1 .. v : m + k - 1 = n - v + k
            BY <1>1
        <3> HIDE DEF m, w
        <3>4. \A i \in m .. n : p[i] \in Int
            BY <1>1, <1>2, <3>1
        <3>5. /\ Len(w) = IF m <= n THEN n - m + 1 ELSE 0
              /\ \A i \in 1 .. n - m + 1 : w[i] = p[m + i - 1]
            BY <1>1, <3>1, <3>2, <3>4, SubSeqProperties
        <3> QED BY <3>1, <3>3, <3>5
    <2> HIDE DEF w
    <2>3. ASSUME NEW k \in 1 .. v - 1
          PROVE  w[k] = s[n - v + k] /\ w[k + 1] = s[n - v + k + 1]
        <3>1. k \in 1 .. v /\ k + 1 \in 1 .. v
            OBVIOUS
        <3>2. n - v + k \in 1 .. n /\ n - v + (k + 1) \in 1 .. n
              /\ n - v + (k + 1) = n - v + k + 1
            <4>1. v \in Nat /\ n >= v
                BY <1>4
            <4>2. k \in 1 .. v /\ k + 1 \in 1 .. v
                BY <3>1
            <4> HIDE DEF v
            <4> QED BY <1>1, <4>1, <4>2
        <3> QED BY <1>2, <2>2, <3>1, <3>2
    <2>4. Sweep!Flat(p, d) <=> \A k \in 1 .. v - 1 : Sweep!Gap(w[k], w[k + 1]) < d.threshold
        BY <1>2, <1>4, <2>2 DEF Sweep!Flat, w
    <2>5. \A k \in 1 .. v - 1 : n - v + k \in (n - v + 1) .. (n - 1)
        BY <1>1
    <2>6. \A j \in (n - v + 1) .. (n - 1) : j - (n - v) \in 1 .. v - 1 /\ n - v + (j - (n - v)) = j
        BY <1>1
    <2>7. Sweep!Flat(p, d)
             <=> \A j \in (n - v + 1) .. (n - 1) : Sweep!Gap(s[j], s[j + 1]) < d.threshold
        <3>1. ASSUME Sweep!Flat(p, d), NEW j \in (n - v + 1) .. (n - 1)
              PROVE  Sweep!Gap(s[j], s[j + 1]) < d.threshold
            <4>1. PICK k \in 1 .. v - 1 : n - v + k = j
                BY <2>6
            <4>2. w[k] = s[n - v + k] /\ w[k + 1] = s[n - v + k + 1]
                BY <2>3
            <4>3. Sweep!Gap(w[k], w[k + 1]) < d.threshold
                BY <2>4, <3>1
            <4> QED BY <4>1, <4>2, <4>3
        <3>2. ASSUME \A j \in (n - v + 1) .. (n - 1) : Sweep!Gap(s[j], s[j + 1]) < d.threshold,
                     NEW k \in 1 .. v - 1
              PROVE  Sweep!Gap(w[k], w[k + 1]) < d.threshold
            BY <2>3, <2>5, <3>2
        <3> QED BY <2>4, <3>1, <3>2
    <2> QED BY <1>4, <2>7 DEF FlatAt, p
<1> QED BY <1>1, <1>3, <1>4

LEMMA FlatStays ==
    ASSUME NEW s, NEW t, NEW n \in Nat, \A k \in 1 .. n : t[k] = s[k], NEW d,
           d.window \in Nat, d.window > 0
    PROVE  FlatAt(t, n, d) <=> FlatAt(s, n, d)
<1>1. CASE n >= d.window
    <2>1. \A j \in (n - d.window + 1) .. (n - 1) : j \in 1 .. n /\ j + 1 \in 1 .. n
        BY <1>1
    <2> QED BY <2>1 DEF FlatAt
<1>2. CASE ~(n >= d.window)
    BY <1>2 DEF FlatAt
<1> QED BY <1>1, <1>2

(* Where a detector cuts a trajectory off, if it does.                     *)
Cut(s, c, at) ==
    /\ at \in (1 .. Len(s)) \cup {None}
    /\ at # None => FlatAt(s, at, Grid[c])
    /\ \A n \in 1 .. Len(s) : at = None \/ n < at => ~FlatAt(s, n, Grid[c])

LEMMA LooserCutsEarlier ==
    ASSUME NEW c \in Sweep!Detectors, NEW q \in Sweep!Detectors, Sweep!Looser(q, c),
           NEW s \in Seq(Int), NEW a, NEW b, Cut(s, c, a), Cut(s, q, b), a # None
    PROVE  b # None /\ b <= a
<1>1. /\ Grid[c].threshold \in Nat /\ Grid[c].window \in Nat
      /\ Grid[q].threshold \in Nat /\ Grid[q].window \in Nat
      /\ Grid[q].threshold >= Grid[c].threshold /\ Grid[q].window <= Grid[c].window
    BY SweepFacts DEF Sweep!Looser
<1>2. a \in 1 .. Len(s) /\ Len(s) \in Nat /\ FlatAt(s, a, Grid[c])
    BY DEF Cut
<1>3. \A j \in 1 .. Len(s) - 1 : Sweep!Gap(s[j], s[j + 1]) \in Int
    <2>1. ASSUME NEW j \in 1 .. Len(s) - 1 PROVE Sweep!Gap(s[j], s[j + 1]) \in Int
        <3>1. j \in 1 .. Len(s) /\ j + 1 \in 1 .. Len(s)
            BY <1>2
        <3>2. s[j] \in Int /\ s[j + 1] \in Int
            BY <3>1, ElementOfSeq
        <3> QED BY <3>2 DEF Sweep!Gap
    <2> QED BY <2>1
<1>4. FlatAt(s, a, Grid[q])
    <2>1. a >= Grid[q].window
        BY <1>1, <1>2 DEF FlatAt
    <2>2. ASSUME NEW j \in (a - Grid[q].window + 1) .. (a - 1)
          PROVE  Sweep!Gap(s[j], s[j + 1]) < Grid[q].threshold
        <3> DEFINE v == Grid[c].window
                   w == Grid[q].window
        <3>1. v \in Nat /\ w \in Nat /\ w <= v /\ a >= w /\ a <= Len(s) /\ a \in Nat
              /\ a >= v /\ j \in (a - w + 1) .. (a - 1) /\ Len(s) \in Nat
            BY <1>1, <1>2, <2>1 DEF FlatAt
        <3> HIDE DEF v, w
        <3>2. j \in (a - v + 1) .. (a - 1) /\ j \in 1 .. Len(s) - 1
            <4> DEFINE n == Len(s)
            <4>1. /\ v \in Int /\ w \in Int /\ a \in Int /\ n \in Int /\ j \in Int
                  /\ 0 <= w /\ w <= v /\ v <= a /\ a <= n
                  /\ a - w + 1 <= j /\ j <= a - 1
                BY <3>1
            <4> HIDE DEF n
            <4>2. a - v + 1 <= j /\ 1 <= j /\ j <= n - 1
                BY <4>1
            <4> QED BY <4>1, <4>2 DEF n
        <3>3. Sweep!Gap(s[j], s[j + 1]) < Grid[c].threshold
            BY <1>2, <3>2 DEF FlatAt, v
        <3>4. Sweep!Gap(s[j], s[j + 1]) \in Int
            BY <1>3, <3>2
        <3> QED BY <1>1, <3>3, <3>4
    <2> QED BY <2>1, <2>2 DEF FlatAt
<1>5. ~(b = None \/ a < b)
    BY <1>2, <1>4 DEF Cut
<1>6. b \in 1 .. Len(s)
    BY <1>5 DEF Cut
<1> QED BY <1>2, <1>5, <1>6

(* A walk in steps of at most t.                                           *)
LEMMA Walk ==
    ASSUME NEW s \in Seq(Int), NEW m \in 1 .. Len(s), NEW n \in m .. Len(s), NEW t \in Nat,
           \A j \in m .. n - 1 : Sweep!Gap(s[j], s[j + 1]) <= t
    PROVE  \A i, j \in m .. n : Sweep!Gap(s[i], s[j]) <= (n - m) * t
<1>1. /\ m \in Nat /\ n \in Nat /\ m > 0 /\ m <= n /\ n <= Len(s) /\ Len(s) \in Nat
      /\ \A k \in m .. n : s[k] \in Int
    <2>1. m \in Nat /\ n \in Nat /\ m > 0 /\ m <= n /\ n <= Len(s) /\ Len(s) \in Nat
        OBVIOUS
    <2>2. \A k \in m .. n : k \in 1 .. Len(s)
        BY <2>1
    <2> QED BY <2>1, <2>2, ElementOfSeq
<1>2. ASSUME NEW i \in m .. n, NEW j \in i .. n
      PROVE  Sweep!Gap(s[i], s[j]) <= (n - m) * t
    <2> DEFINE S == {k \in 0 .. n - i : Sweep!Gap(s[i], s[i + k]) <= k * t}
    <2>1. n - i \in Nat /\ s[i] \in Int
        BY <1>1
    <2>2. 0 \in S
        BY <1>1, <2>1 DEF Sweep!Gap
    <2>3. ASSUME NEW k \in 0 .. n - i - 1, k \in S PROVE k + 1 \in S
        <3> DEFINE x == s[i]
                   y == s[i + k]
                   z == s[i + (k + 1)]
                   u == k * t
        <3>1. i + k \in m .. n - 1 /\ i + (k + 1) \in m .. n /\ i + k \in m .. n
              /\ i + k + 1 = i + (k + 1) /\ k + 1 \in 0 .. n - i
            BY <1>1
        <3>2. x \in Int /\ y \in Int /\ z \in Int /\ Sweep!Gap(y, z) <= t
            BY <1>1, <3>1
        <3>3. Sweep!Gap(x, y) <= u
            BY <2>3
        <3>4. u \in Int /\ (k + 1) * t = u + t
            BY <2>1
        <3> HIDE DEF x, y, z, u
        <3>5. Sweep!Gap(x, z) <= u + t
            BY <3>2, <3>3, <3>4 DEF Sweep!Gap
        <3> QED BY <3>1, <3>4, <3>5 DEF x, z
    <2>4. \A k \in 0 .. n - i : k \in S
        <3> HIDE DEF S
        <3> QED BY <2>1, <2>2, <2>3, Inductive
    <2>5. j - i \in 0 .. n - i /\ i + (j - i) = j /\ s[j] \in Int
        BY <1>1
    <2>6. Sweep!Gap(s[i], s[j]) <= (j - i) * t
        BY <2>4, <2>5
    <2>7. (j - i) * t <= (n - m) * t /\ (j - i) * t \in Int /\ (n - m) * t \in Int
        <3> DEFINE a == j - i
                   b == n - m
        <3>1. a \in Nat /\ b \in Nat /\ b >= a
            BY <1>1
        <3> HIDE DEF a, b
        <3>2. t * b >= t * a /\ t * b = b * t /\ t * a = a * t /\ a * t \in Int /\ b * t \in Int
            BY <3>1, Products
        <3> QED BY <3>2 DEF a, b
    <2>8. Sweep!Gap(s[i], s[j]) \in Int
        BY <2>1, <2>5 DEF Sweep!Gap
    <2> DEFINE x == Sweep!Gap(s[i], s[j])
               y == (j - i) * t
               z == (n - m) * t
    <2>9. x <= y /\ y <= z /\ x \in Int /\ y \in Int /\ z \in Int
        BY <2>6, <2>7, <2>8
    <2> HIDE DEF x, y, z
    <2>10. x <= z
        BY <2>9
    <2> QED BY <2>10 DEF x, z
<1>3. ASSUME NEW i \in m .. n, NEW j \in m .. n
      PROVE  Sweep!Gap(s[i], s[j]) <= (n - m) * t
    <2>1. CASE i <= j
        <3>1. j \in i .. n
            BY <1>1, <2>1
        <3> QED BY <1>2, <3>1
    <2>2. CASE j <= i
        <3>1. i \in j .. n
            BY <1>1, <2>2
        <3>2. Sweep!Gap(s[j], s[i]) = Sweep!Gap(s[i], s[j])
            BY <1>1 DEF Sweep!Gap
        <3> QED BY <1>2, <3>1, <3>2
    <2> QED BY <1>1, <2>1, <2>2
<1> QED BY <1>3

Runs == [points : Seq(Int), at : Nat \cup {None}]

(* The run of a detector over the scores s that it cuts off at at.         *)
CutRun(s, c, r) ==
    Cut(s, c, r.at) /\ r.points = IF r.at = None THEN s ELSE SubSeq(s, 1, r.at)

(* The trajectories of all detectors are those of the same scores.         *)
SweepInv ==
    /\ points \in Seq(Int)
    /\ ended \in [Sweep!Detectors -> Nat \cup {None}]
    /\ \A c \in Sweep!Detectors : Cut(points, c, ended[c])
    /\ results \in [Sweep!Detectors -> Seq(Runs)]
    /\ \A c, q \in Sweep!Detectors : Len(results[c]) = Len(results[q])
    /\ \A c \in Sweep!Detectors : \A n \in DOMAIN results[c] :
          \E s \in Seq(Int) : \A q \in Sweep!Detectors : CutRun(s, q, results[q][n])
    /\ optimum # None =>
          /\ Sweep!Over /\ optimum \in Sweep!Detectors
          /\ \A q \in Sweep!Detectors : Sweep!Count(q) <= Sweep!Count(optimum)

LEMMA CountIs ==
    ASSUME SweepInv, NEW c \in Sweep!Detectors
    PROVE  /\ Len(results[c]) \in Nat /\ DOMAIN results[c] = 1 .. Len(results[c])
           /\ IsFiniteSet({n \in DOMAIN results[c] : results[c][n].at # None})
           /\ Sweep!Count(c) \in 0 .. Len(results[c]) /\ Sweep!Count(c) \in Nat
<1> DEFINE n == Len(results[c])
           S == {k \in DOMAIN results[c] : results[c][k].at # None}
<1>1. n \in Nat /\ DOMAIN results[c] = 1 .. n
    <2>1. results[c] \in Seq(Runs)
        BY DEF SweepInv
    <2> QED BY <2>1
<1>2. IsFiniteSet(1 .. n) /\ Cardinality(1 .. n) = n
    <2>1. 1 \in Int /\ n \in Int
        BY <1>1
    <2> QED BY <1>1, <2>1, FS_Interval
<1>3. S \subseteq 1 .. n /\ Sweep!Count(c) = Cardinality(S)
    <2>1. S \subseteq 1 .. n
        BY <1>1
    <2>2. Sweep!Count(c) = Cardinality(S)
        BY DEF Sweep!Count, Sweep!Cardinality, Cardinality
    <2> QED BY <2>1, <2>2
<1> HIDE DEF S, n
<1>4. IsFiniteSet(S) /\ Cardinality(S) <= n /\ Cardinality(S) \in Nat
    <2>1. IsFiniteSet(S) /\ Cardinality(S) <= Cardinality(1 .. n)
        BY <1>2, <1>3, FS_Subset
    <2> QED BY <1>2, <2>1, FS_CardinalityType
<1>5. Sweep!Count(c) \in 0 .. n /\ Sweep!Count(c) \in Nat
    BY <1>1, <1>3, <1>4
<1> QED BY <1>1, <1>4, <1>5 DEF S, n

LEMMA SweepStart == Sweep!Init => SweepInv
<1> SUFFICES ASSUME Sweep!Init PROVE SweepInv
    OBVIOUS
<1>1. /\ points = <<>> /\ ended = [c \in Sweep!Detectors |-> None]
      /\ results = [c \in Sweep!Detectors |-> <<>>] /\ optimum = None
    BY DEF Sweep!Init
<1>2. \A c \in Sweep!Detectors : Cut(points, c, ended[c])
    BY <1>1 DEF Cut
<1>3. results \in [Sweep!Detectors -> Seq(Runs)]
    BY <1>1
<1> QED BY <1>1, <1>2, <1>3 DEF SweepInv

LEMMA SweepScore == ASSUME SweepInv, Sweep!Score PROVE SweepInv'
<1>1. PICK x \in NoisyScores : points' = Append(points, x)
    BY DEF Sweep!Score
<1>2. /\ ended' = [c \in Sweep!Detectors |->
                      IF ended[c] = None /\ Sweep!Flat(points', Grid[c])
                      THEN Len(points') ELSE ended[c]]
      /\ results' = results /\ optimum' = optimum
    BY DEF Sweep!Score
<1> DEFINE n == Len(points)
<1>3. /\ points' \in Seq(Int) /\ n \in Nat /\ Len(points') = n + 1
      /\ \A k \in 1 .. n : points'[k] = points[k]
    <2>1. points \in Seq(Int) /\ x \in Int
        BY SweepFacts DEF SweepInv
    <2> QED BY <1>1, <2>1, Appended
<1>4. ended \in [Sweep!Detectors -> Nat \cup {None}]
      /\ ended' \in [Sweep!Detectors -> Nat \cup {None}]
    BY <1>2, <1>3 DEF SweepInv
<1> HIDE DEF n
<1>5. ASSUME NEW c \in Sweep!Detectors PROVE Cut(points', c, ended'[c])
    <2> DEFINE d == Grid[c]
    <2>1. d.window \in Nat /\ d.window > 0
        BY SweepFacts
    <2>2. Cut(points, c, ended[c])
        BY DEF SweepInv
    <2>3. Sweep!Flat(points', d) <=> FlatAt(points', n + 1, d)
        <3> HIDE DEF d
        <3>1. n + 1 \in 0 .. Len(points') /\ SubSeq(points', 1, n + 1) = points'
            <4>1. SubSeq(points', 1, n + 1) \in Seq(Int)
                  /\ Len(SubSeq(points', 1, n + 1)) = n + 1
                  /\ \A k \in 1 .. n + 1 : SubSeq(points', 1, n + 1)[k] = points'[k]
                BY <1>3
            <4> QED BY <1>3, <4>1, SeqEqual
        <3> QED BY <1>3, <2>1, <3>1, FlatIs
    <2>4. \A k \in 1 .. n : FlatAt(points', k, d) <=> FlatAt(points, k, d)
        <3> SUFFICES ASSUME NEW k \in 1 .. n
                     PROVE  FlatAt(points', k, d) <=> FlatAt(points, k, d)
            OBVIOUS
        <3>1. k \in Nat /\ \A j \in 1 .. k : points'[j] = points[j]
            BY <1>3
        <3> HIDE DEF d
        <3> QED BY <2>1, <3>1, FlatStays
    <2>5. ended[c] \in (1 .. n) \cup {None}
          /\ (ended[c] # None => FlatAt(points, ended[c], d))
          /\ \A k \in 1 .. n : ended[c] = None \/ k < ended[c] => ~FlatAt(points, k, d)
        BY <2>2 DEF Cut, n
    <2>6. ended'[c] = IF ended[c] = None /\ FlatAt(points', n + 1, d) THEN n + 1 ELSE ended[c]
        BY <1>2, <1>3, <2>3
    <2> HIDE DEF d
    <2>7. None \notin Nat
        BY SweepFacts
    <2>8. CASE ended[c] = None
        <3>1. CASE FlatAt(points', n + 1, d)
            <4>1. ended'[c] = n + 1
                BY <2>6, <2>8, <3>1
            <4>2. \A k \in 1 .. n + 1 : k < n + 1 => k \in 1 .. n
                BY <1>3
            <4>3. \A k \in 1 .. n + 1 : n + 1 = None \/ k < n + 1 => ~FlatAt(points', k, d)
                BY <1>3, <2>4, <2>5, <2>7, <2>8, <4>2
            <4> QED BY <1>3, <3>1, <4>1, <4>3 DEF Cut, d
        <3>2. CASE ~FlatAt(points', n + 1, d)
            <4>1. ended'[c] = None
                BY <2>6, <2>8, <3>2
            <4>2. \A k \in 1 .. n + 1 : k \in 1 .. n \/ k = n + 1
                BY <1>3
            <4>3. \A k \in 1 .. n + 1 : ~FlatAt(points', k, d)
                BY <2>4, <2>5, <2>8, <3>2, <4>2
            <4> QED BY <1>3, <4>1, <4>3 DEF Cut, d
        <3> QED BY <3>1, <3>2
    <2>9. CASE ended[c] # None
        <3>1. ended'[c] = ended[c] /\ ended[c] \in 1 .. n
            BY <2>5, <2>6, <2>9
        <3>2. FlatAt(points', ended[c], d)
            BY <2>4, <2>5, <2>9, <3>1
        <3>3. \A k \in 1 .. n + 1 : k < ended[c] => k \in 1 .. n /\ ~FlatAt(points', k, d)
            BY <1>3, <2>4, <2>5, <3>1
        <3>4. ended[c] \in 1 .. n + 1
            BY <1>3, <3>1
        <3> QED BY <1>3, <2>9, <3>1, <3>2, <3>3, <3>4 DEF Cut, d
    <2> QED BY <2>8, <2>9
<1>6. /\ results' \in [Sweep!Detectors -> Seq(Runs)]
      /\ \A c, q \in Sweep!Detectors : Len(results'[c]) = Len(results'[q])
      /\ \A c \in Sweep!Detectors : \A k \in DOMAIN results'[c] :
            \E s \in Seq(Int) : \A q \in Sweep!Detectors : CutRun(s, q, results'[q][k])
      /\ optimum' = None
    <2>1. optimum' = None
        BY <1>2 DEF SweepInv, Sweep!Score
    <2> QED BY <1>2, <2>1 DEF SweepInv
<1> QED BY <1>3, <1>4, <1>5, <1>6 DEF SweepInv

LEMMA SweepEndTrajectory == ASSUME SweepInv, Sweep!EndTrajectory PROVE SweepInv'
<1> DEFINE r(c) == [points |-> IF ended[c] = None THEN points ELSE SubSeq(points, 1, ended[c]),
                    at |-> ended[c]]
<1>1. /\ points' = <<>> /\ ended' = [c \in Sweep!Detectors |-> None]
      /\ results' = [c \in Sweep!Detectors |-> Append(results[c], r(c))]
      /\ optimum' = optimum /\ ~Sweep!Over
    BY DEF Sweep!EndTrajectory
<1>2. optimum' = None
    BY <1>1 DEF SweepInv
<1>3. \A c \in Sweep!Detectors : Cut(points', c, ended'[c])
    BY <1>1 DEF Cut
<1>4. /\ points \in Seq(Int) /\ ended \in [Sweep!Detectors -> Nat \cup {None}]
      /\ \A c \in Sweep!Detectors : Cut(points, c, ended[c])
      /\ results \in [Sweep!Detectors -> Seq(Runs)]
      /\ \A c, q \in Sweep!Detectors : Len(results[c]) = Len(results[q])
    BY DEF SweepInv
<1>5. ASSUME NEW c \in Sweep!Detectors PROVE r(c) \in Runs /\ CutRun(points, c, r(c))
    <2>1. CASE ended[c] = None
        BY <1>4, <2>1 DEF Runs, CutRun
    <2>2. CASE ended[c] # None
        <3>1. ended[c] \in 1 .. Len(points) /\ ended[c] \in Nat
            BY <1>4, <2>2 DEF Cut
        <3>2. SubSeq(points, 1, ended[c]) \in Seq(Int)
            BY <1>4, <3>1
        <3> QED BY <1>4, <2>2, <3>1, <3>2 DEF Runs, CutRun
    <2> QED BY <2>1, <2>2
<1> HIDE DEF r
<1>6. ASSUME NEW c \in Sweep!Detectors
      PROVE  LET n == Len(results[c])
             IN  /\ results'[c] \in Seq(Runs) /\ n \in Nat /\ Len(results'[c]) = n + 1
                 /\ DOMAIN results[c] = 1 .. n /\ DOMAIN results'[c] = 1 .. n + 1
                 /\ \A k \in 1 .. n : results'[c][k] = results[c][k]
                 /\ results'[c][n + 1] = r(c)
    <2>1. results'[c] = Append(results[c], r(c)) /\ results[c] \in Seq(Runs) /\ r(c) \in Runs
        BY <1>1, <1>4, <1>5
    <2> QED BY <2>1, Appended
<1>7. results' \in [Sweep!Detectors -> Seq(Runs)]
      /\ \A c, q \in Sweep!Detectors : Len(results'[c]) = Len(results'[q])
    <2>1. results' = [c \in Sweep!Detectors |-> results'[c]]
        BY <1>1
    <2>2. \A c \in Sweep!Detectors : results'[c] \in Seq(Runs)
                                     /\ Len(results'[c]) = Len(results[c]) + 1
        BY <1>6
    <2> QED BY <1>4, <2>1, <2>2
<1>8. ASSUME NEW c \in Sweep!Detectors, NEW k \in DOMAIN results'[c]
      PROVE  \E s \in Seq(Int) : \A q \in Sweep!Detectors : CutRun(s, q, results'[q][k])
    <2> DEFINE n == Len(results[c])
    <2>1. \A q \in Sweep!Detectors : Len(results[q]) = n
        BY <1>4
    <2>2. k \in 1 .. n \/ k = n + 1
        BY <1>6
    <2>3. CASE k \in 1 .. n
        <3>1. k \in DOMAIN results[c]
            BY <1>6, <2>3
        <3>2. PICK s \in Seq(Int) : \A q \in Sweep!Detectors : CutRun(s, q, results[q][k])
            BY <3>1 DEF SweepInv
        <3>3. \A q \in Sweep!Detectors : results'[q][k] = results[q][k]
            BY <1>6, <2>1, <2>3
        <3> QED BY <3>2, <3>3
    <2>4. CASE k = n + 1
        <3>1. \A q \in Sweep!Detectors : results'[q][k] = r(q)
            BY <1>6, <2>1, <2>4
        <3> QED BY <1>4, <1>5, <3>1
    <2> QED BY <2>2, <2>3, <2>4
<1>9. points' \in Seq(Int) /\ ended' \in [Sweep!Detectors -> Nat \cup {None}]
    BY <1>1
<1> QED BY <1>2, <1>3, <1>7, <1>8, <1>9 DEF SweepInv

LEMMA SweepChoose == ASSUME SweepInv, Sweep!Choose PROVE SweepInv'
<1> DEFINE D == Sweep!Detectors
           S == {c \in D : \A q \in D : Sweep!Count(q) <= Sweep!Count(c)}
           F == {Sweep!Count(c) : c \in D}
<1>1. /\ Sweep!Over /\ optimum' = Sweep!Min(S)
      /\ points' = points /\ ended' = ended /\ results' = results
    BY DEF Sweep!Choose
<1>2. D \subseteq Nat /\ 1 \in D
    BY SweepFacts
<1> HIDE DEF D
<1>3. F \in SUBSET (0 .. Len(results[1])) /\ F # {} /\ Len(results[1]) \in Nat
    <2>1. Len(results[1]) \in Nat
        BY <1>2, CountIs DEF D
    <2>2. \A c \in D : Sweep!Count(c) \in 0 .. Len(results[1])
        <3>1. \A c \in D : Len(results[c]) = Len(results[1])
            BY <1>2 DEF SweepInv, D
        <3>2. \A c \in D : Sweep!Count(c) \in 0 .. Len(results[c])
            BY CountIs DEF D
        <3> QED BY <3>1, <3>2
    <2> QED BY <1>2, <2>1, <2>2
<1>4. \E m \in F : \A k \in F : k <= m
    <2> HIDE DEF F
    <2> QED BY <1>3, GreatestOfThem
<1>5. S # {} /\ S \in SUBSET Nat
    BY <1>2, <1>4
<1>6. optimum' \in S
    <2> HIDE DEF S
    <2>1. \E m \in S : \A k \in S : m <= k
        BY <1>5, LeastOfThem
    <2> QED BY <1>1, <2>1 DEF Sweep!Min
<1>7. \A c \in D : Sweep!Count(c)' = Sweep!Count(c)
    BY <1>1 DEF Sweep!Count
<1>8. /\ Sweep!Over' /\ optimum' \in Sweep!Detectors
      /\ \A q \in Sweep!Detectors : Sweep!Count(q)' <= Sweep!Count(optimum)'
    <2>1. Sweep!Over'
        BY <1>1 DEF Sweep!Over
    <2>2. Sweep!Count(optimum)' = Sweep!Count(optimum')
        BY <1>1 DEF Sweep!Count
    <2> QED BY <1>6, <1>7, <2>1, <2>2 DEF D
<1> QED BY <1>1, <1>8 DEF SweepInv

LEMMA SweepStays == ASSUME SweepInv, UNCHANGED sweepOnly PROVE SweepInv'
<1>1. points' = points /\ ended' = ended /\ results' = results /\ optimum' = optimum
    BY DEF sweepOnly
<1>2. Sweep!Over' <=> Sweep!Over
    BY <1>1 DEF Sweep!Over
<1>3. \A c \in Sweep!Detectors : Sweep!Count(c)' = Sweep!Count(c)
    BY <1>1 DEF Sweep!Count
<1>4. Sweep!Count(optimum)' = Sweep!Count(optimum)
    BY <1>1 DEF Sweep!Count
<1> QED BY <1>1, <1>2, <1>3, <1>4 DEF SweepInv

LEMMA TrajectoriesAre ==
    ASSUME SweepInv, NEW c \in Sweep!Detectors, NEW n \in DOMAIN results[c]
    PROVE  \E s \in Seq(Int) : \A q \in Sweep!Detectors :
              n \in DOMAIN results[q] /\ CutRun(s, q, results[q][n])
<1>1. PICK s \in Seq(Int) : \A q \in Sweep!Detectors : CutRun(s, q, results[q][n])
    BY DEF SweepInv
<1>2. \A q \in Sweep!Detectors : Len(results[q]) = Len(results[c])
    BY DEF SweepInv
<1>3. \A q \in Sweep!Detectors : n \in DOMAIN results[q]
    BY <1>2, CountIs
<1> QED BY <1>1, <1>3

LEMMA CutOffIs ==
    ASSUME SweepInv, NEW c \in Sweep!Detectors, NEW r \in Sweep!Converged(c)
    PROVE  \E s \in Seq(Int) : Cut(s, c, r.at) /\ r.points = SubSeq(s, 1, r.at)
                               /\ r.at \in 1 .. Len(s)
<1>1. PICK n \in DOMAIN results[c] : r = results[c][n] /\ r.at # None
    BY DEF Sweep!Converged, Sweep!Range
<1>2. PICK s \in Seq(Int) : CutRun(s, c, results[c][n])
    BY TrajectoriesAre
<1>3. Cut(s, c, r.at) /\ r.points = SubSeq(s, 1, r.at)
    BY <1>1, <1>2 DEF CutRun
<1>4. r.at \in 1 .. Len(s)
    BY <1>1, <1>3 DEF Cut
<1> QED BY <1>3, <1>4

LEMMA LooserHold == ASSUME SweepInv PROVE Sweep!LooserIsEarlier
<1>1. ASSUME NEW c \in Sweep!Detectors, NEW q \in Sweep!Detectors, Sweep!Looser(q, c),
             NEW n \in DOMAIN results[c], results[c][n].at # None
      PROVE  /\ results[q][n].at # None /\ results[q][n].at <= results[c][n].at
             /\ n \in DOMAIN results[q]
    <2>1. PICK s \in Seq(Int) : \A p \in Sweep!Detectors :
              n \in DOMAIN results[p] /\ CutRun(s, p, results[p][n])
        BY TrajectoriesAre
    <2>2. Cut(s, c, results[c][n].at) /\ Cut(s, q, results[q][n].at)
        BY <2>1 DEF CutRun
    <2> QED BY <1>1, <2>1, <2>2, LooserCutsEarlier
<1>2. ASSUME NEW c \in Sweep!Detectors, NEW q \in Sweep!Detectors, Sweep!Looser(q, c)
      PROVE  Sweep!Count(q) >= Sweep!Count(c)
    <2> DEFINE S == {n \in DOMAIN results[c] : results[c][n].at # None}
               T == {n \in DOMAIN results[q] : results[q][n].at # None}
    <2>1. S \subseteq T
        BY <1>1, <1>2
    <2>2. IsFiniteSet(T)
        BY Zenon, CountIs
    <2>3. Sweep!Count(c) = Cardinality(S) /\ Sweep!Count(q) = Cardinality(T)
        BY DEF Sweep!Count, Sweep!Cardinality, Cardinality
    <2> HIDE DEF S, T
    <2>4. Cardinality(S) <= Cardinality(T)
        BY <2>1, <2>2, FS_Subset
    <2>5. Sweep!Count(c) \in Nat /\ Sweep!Count(q) \in Nat
        BY Zenon, CountIs
    <2> QED BY <2>3, <2>4, <2>5
<1>3. ASSUME optimum # None, NEW q \in Sweep!Detectors,
             \A c \in Sweep!Detectors : Sweep!Looser(q, c)
      PROVE  Sweep!Count(q) = Sweep!Count(optimum)
    <2>1. optimum \in Sweep!Detectors /\ Sweep!Count(q) <= Sweep!Count(optimum)
        BY <1>3 DEF SweepInv
    <2>2. Sweep!Count(q) >= Sweep!Count(optimum)
        BY <1>2, <1>3, <2>1
    <2>3. Sweep!Count(optimum) \in Int /\ Sweep!Count(q) \in Int
        <3>1. \A c \in Sweep!Detectors : Sweep!Count(c) \in Nat
            <4>1. ASSUME NEW c \in Sweep!Detectors PROVE Sweep!Count(c) \in Nat
                BY Zenon, CountIs
            <4> QED BY <4>1
        <3> QED BY <2>1, <3>1
    <2> QED BY <2>1, <2>2, <2>3
<1> QED BY <1>1, <1>2, <1>3 DEF Sweep!LooserIsEarlier

LEMMA CutOffHold == ASSUME SweepInv PROVE Sweep!CutOffWhereFlat
<1> SUFFICES ASSUME NEW c \in Sweep!Detectors, NEW r \in Sweep!Converged(c)
             PROVE  LET d == Grid[c]
                        plateau == SubSeq(r.points, Sweep!PlateauAt(c, r), r.at)
                    IN  /\ Len(r.points) = r.at /\ Len(plateau) = d.window
                        /\ \A j, k \in DOMAIN plateau :
                              Sweep!Gap(plateau[j], plateau[k]) <= Sweep!Slack(d)
                        /\ \A n \in 1 .. (r.at - 1) : ~Sweep!Flat(SubSeq(r.points, 1, n), d)
                        /\ Sweep!Gap(Sweep!Improvement(r), plateau[1] - r.points[1])
                                <= Sweep!Slack(d)
    BY DEF Sweep!CutOffWhereFlat
<1> DEFINE d == Grid[c]
           v == Grid[c].window
           t == IF d.threshold = 0 THEN 0 ELSE d.threshold - 1
           at == r.at
           p == r.points
           m == at - v + 1
           w == SubSeq(p, m, at)
<1>1. PICK s \in Seq(Int) : Cut(s, c, at) /\ p = SubSeq(s, 1, at) /\ at \in 1 .. Len(s)
    BY CutOffIs
<1>2. v \in Nat /\ v > 0 /\ d.threshold \in Nat
    BY SweepFacts
<1>3. FlatAt(s, at, d) /\ \A n \in 1 .. Len(s) : n < at => ~FlatAt(s, n, d)
    <2>1. at # None
        BY <1>1, SweepFacts
    <2> QED BY <1>1, <2>1 DEF Cut
<1> HIDE DEF at, p
<1>4. at \in Nat /\ at > 0 /\ at <= Len(s) /\ Len(s) \in Nat /\ at >= v
    BY <1>1, <1>3 DEF FlatAt
<1>5. p \in Seq(Int) /\ Len(p) = at /\ \A k \in 1 .. at : p[k] = s[k]
    BY <1>1, <1>4
<1>6. m \in 1 .. Len(s) /\ m <= at /\ at - m = v - 1 /\ at - m + 1 = v /\ m \in Int
    <2>1. \A a, b, n \in Nat : b > 0 /\ a >= b /\ a <= n =>
              /\ a - b + 1 \in 1 .. n /\ a - b + 1 <= a /\ a - (a - b + 1) = b - 1
              /\ a - (a - b + 1) + 1 = b /\ a - b + 1 \in Int
        OBVIOUS
    <2>2. v \in Nat /\ v > 0
        BY <1>2
    <2> HIDE DEF v
    <2> QED BY <1>4, <2>1, <2>2
<1>7. \A i, j \in m .. at : Sweep!Gap(s[i], s[j]) <= Sweep!Slack(d)
    <2>1. ASSUME NEW j \in m .. at - 1 PROVE Sweep!Gap(s[j], s[j + 1]) <= t
        <3>1. j \in 1 .. Len(s) /\ j + 1 \in 1 .. Len(s)
            <4> HIDE DEF m
            <4> QED BY <1>4, <1>6
        <3>2. s[j] \in Int /\ s[j + 1] \in Int
            BY <3>1, ElementOfSeq
        <3>3. Sweep!Gap(s[j], s[j + 1]) < d.threshold
            BY <1>3 DEF FlatAt
        <3>4. Sweep!Gap(s[j], s[j + 1]) \in Nat
            BY <3>2 DEF Sweep!Gap
        <3> HIDE DEF d
        <3> QED BY <1>2, <3>3, <3>4
    <2>2. t \in Nat
        BY <1>2
    <2>3. Sweep!Slack(d) = (at - m) * t
        BY <1>6 DEF Sweep!Slack
    <2> HIDE DEF t, m
    <2>4. at \in m .. Len(s)
        BY <1>4, <1>6
    <2> QED BY <1>6, <2>1, <2>2, <2>3, <2>4, Walk
<1>8. /\ Len(w) = v /\ DOMAIN w = 1 .. v
      /\ \A k \in 1 .. v : m + k - 1 \in m .. at /\ w[k] = s[m + k - 1]
    <2> HIDE DEF m, v
    <2>1. \A i \in m .. at : i \in 1 .. at
        BY <1>4, <1>6
    <2>2. \A i \in m .. at : p[i] \in Int
        BY <1>5, <2>1, ElementOfSeq
    <2>3. /\ w \in Seq(Int) /\ Len(w) = IF m <= at THEN at - m + 1 ELSE 0
          /\ \A i \in 1 .. at - m + 1 : w[i] = p[m + i - 1]
        BY SMTT(30), <1>4, <1>6, <2>2, SubSeqProperties
    <2>4. \A k \in 1 .. v : m + k - 1 \in m .. at
        BY <1>4, <1>6
    <2> HIDE DEF w
    <2>5. DOMAIN w = 1 .. v
        BY <1>6, <2>3
    <2> QED BY <1>5, <1>6, <2>1, <2>3, <2>4, <2>5
<1> HIDE DEF w
<1>9. \A j, k \in DOMAIN w : Sweep!Gap(w[j], w[k]) <= Sweep!Slack(d)
    <2> HIDE DEF m, d, v
    <2> QED BY <1>7, <1>8
<1>10. ASSUME NEW n \in 1 .. at - 1 PROVE ~Sweep!Flat(SubSeq(p, 1, n), d)
    <2>1. n \in 0 .. Len(p) /\ n \in 1 .. Len(s) /\ n < at /\ n \in Nat
        BY <1>4, <1>5
    <2>2. Sweep!Flat(SubSeq(p, 1, n), d) <=> FlatAt(p, n, d)
        <3>1. d.window \in Nat /\ d.window > 0
            BY <1>2
        <3> HIDE DEF d
        <3> QED BY <1>5, <2>1, <3>1, FlatIs
    <2>3. FlatAt(p, n, d) <=> FlatAt(s, n, d)
        <3>1. d.window \in Nat /\ d.window > 0 /\ \A k \in 1 .. n : p[k] = s[k]
            BY <1>2, <1>4, <1>5
        <3> HIDE DEF d
        <3> QED BY <2>1, <3>1, FlatStays
    <2> QED BY <1>3, <2>1, <2>2, <2>3
<1>11. Sweep!Gap(Sweep!Improvement(r), w[1] - p[1]) <= Sweep!Slack(d)
    <2>1. Sweep!Improvement(r) = p[at] - p[1]
        BY <1>5 DEF Sweep!Improvement, Sweep!FinalScore, p
    <2>2. p[at] = s[at] /\ p[1] = s[1] /\ s[at] \in Int /\ s[1] \in Int
        <3>1. at \in 1 .. at /\ 1 \in 1 .. at /\ 1 \in 1 .. Len(s)
            BY <1>4
        <3> QED BY <1>1, <1>5, <3>1, ElementOfSeq
    <2>3. w[1] = s[m] /\ s[m] \in Int /\ m \in m .. at /\ at \in m .. at
        <3>1. 1 \in 1 .. v /\ m + 1 - 1 = m
            BY <1>2, <1>6
        <3>2. m \in m .. at /\ at \in m .. at
            <4> HIDE DEF m
            <4> QED BY <1>4, <1>6
        <3> HIDE DEF m, v
        <3> QED BY <1>6, <1>8, <3>1, <3>2, ElementOfSeq
    <2>4. Sweep!Gap(s[at], s[m]) <= Sweep!Slack(d)
        BY <1>7, <2>3
    <2> DEFINE x == s[at]
               y == s[m]
               z == s[1]
    <2>5. x \in Int /\ y \in Int /\ z \in Int
        BY <2>2, <2>3
    <2> HIDE DEF x, y, z
    <2>6. Sweep!Gap(x - z, y - z) = Sweep!Gap(x, y)
        BY <2>5 DEF Sweep!Gap
    <2> HIDE DEF m, d
    <2> QED BY <2>1, <2>2, <2>3, <2>4, <2>6 DEF x, y, z
<1>12. SubSeq(r.points, Sweep!PlateauAt(c, r), r.at) = w
    BY DEF Sweep!PlateauAt, w, at, p
<1> HIDE DEF m, v, d, t
<1>13. Len(p) = at /\ Len(w) = v
    BY <1>5, <1>8
<1> QED BY <1>9, <1>10, <1>11, <1>12, <1>13 DEF at, p, d, v

LEMMA SurvivorsHold == ASSUME SweepInv PROVE Sweep!SurvivorsAveraged
<1> SUFFICES ASSUME NEW c \in Sweep!Detectors
             PROVE  /\ \A i \in 1 .. (MaxIterations - 1) :
                          Sweep!Averaged(c, i + 1) \subseteq Sweep!Averaged(c, i)
                    /\ \A i \in 2 .. MaxIterations : \A n \in Sweep!Averaged(c, i) :
                          results[c][n].at = None \/ results[c][n].at >= i
                    /\ (\A n \in DOMAIN results[c] :
                            results[c][n].at # None /\ results[c][n].at < 5)
                         => DOMAIN Sweep!FloorScores(c) = {}
    BY DEF Sweep!SurvivorsAveraged
<1>1. ASSUME NEW n \in DOMAIN results[c]
      PROVE  LET r == results[c][n]
             IN  /\ Len(r.points) \in Nat /\ DOMAIN r.points = 1 .. Len(r.points)
                 /\ r.at # None => Len(r.points) = r.at /\ r.at \in Nat
    <2> DEFINE r == results[c][n]
    <2>1. r.points \in Seq(Int)
        <3>1. results[c] \in Seq(Runs)
            BY DEF SweepInv
        <3>2. r \in Runs
            BY <3>1, ElementOfSeq, LenProperties
        <3> QED BY <3>2 DEF Runs
    <2>2. PICK s \in Seq(Int) : CutRun(s, c, r)
        BY TrajectoriesAre
    <2> HIDE DEF r
    <2>3. r.at # None => Len(r.points) = r.at /\ r.at \in Nat
        <3>1. r.at # None => r.at \in 1 .. Len(s) /\ r.points = SubSeq(s, 1, r.at)
            BY <2>2 DEF CutRun, Cut
        <3> QED BY <3>1
    <2> QED BY <2>1, <2>3 DEF r
<1>2. \A i \in 1 .. (MaxIterations - 1) :
          Sweep!Averaged(c, i + 1) \subseteq Sweep!Averaged(c, i)
    BY <1>1 DEF Sweep!Averaged
<1>3. \A i \in 2 .. MaxIterations : \A n \in Sweep!Averaged(c, i) :
          results[c][n].at = None \/ results[c][n].at >= i
    BY <1>1 DEF Sweep!Averaged
<1>4. ASSUME \A n \in DOMAIN results[c] : results[c][n].at # None /\ results[c][n].at < 5
      PROVE  DOMAIN Sweep!FloorScores(c) = {}
    <2>1. \A n \in DOMAIN results[c] : ~(Len(results[c][n].points) >= 5)
        BY <1>1, <1>4
    <2> QED BY <2>1 DEF Sweep!FloorScores
<1> QED BY <1>2, <1>3, <1>4

(* The figures by which a harness is kept or promoted are what they say.   *)
FiguresInv ==
    /\ machine = "score" => ScoresInv
    /\ machine = "domain" => DomainsInv
    /\ machine = "sweep" => SweepInv

LEMMA FiguresStay == ASSUME FiguresInv, UNCHANGED vars PROVE FiguresInv'
<1>1. machine' = machine
    BY DEF vars
<1>2. CASE machine = "score"
    <2>1. /\ step' = step /\ weights' = weights /\ reason' = reason /\ best' = best
          /\ reverts' = reverts /\ trail' = trail /\ history' = history
        BY DEF vars, scoreOnly
    <2>2. Keeping!Deltas(Keeping!Before)' = Keeping!Deltas(Keeping!Before)
        BY <2>1 DEF Keeping!Before, Keeping!Latest, Keeping!Lookback, Keeping!Deltas
    <2>3. \A k \in DOMAIN trail' : Utilities(k)'
        <3>1. \A k \in DOMAIN trail : Utilities(k)
            BY <1>2 DEF FiguresInv, ScoresInv
        <3> QED BY <2>1, <3>1 DEF Utilities, Keeping!Utility, Keeping!Measured,
                             Keeping!CostOf, Keeping!Clamped
    <2>4. ScoresInv
        BY <1>2 DEF FiguresInv
    <2>5. ScoresInv'
        BY <2>1, <2>2, <2>3, <2>4 DEF ScoresInv
    <2> QED BY <1>1, <1>2, <2>5 DEF FiguresInv
<1>3. CASE machine = "domain"
    BY <1>1, <1>3, DomainsStay DEF FiguresInv, vars
<1>4. CASE machine = "sweep"
    BY <1>1, <1>4, SweepStays DEF FiguresInv, vars
<1> QED BY <1>1, <1>2, <1>3, <1>4 DEF FiguresInv

(* No run that is better in everything is passed over for the best one or  *)
(* given up for it, and the weights follow the scores as they say; the     *)
(* aggregate of an advocate is a mean of the scores in the domains that    *)
(* count, and none that is better wherever it counts is passed over; and a *)
(* looser detector cuts off no later, each only where the scores were      *)
(* flat, and the sweep's choice cuts off as often as any                   *)
(* (evaluator/engine.py, rsi/loop.py, evaluation/registry.py,              *)
(* rsi/population.py, rsi/simulation.py), for any results, floor, window,  *)
(* environments, scores, grid and number of runs.                          *)
THEOREM FiguresAreHonest == Spec => []FiguresSound
<1>1. Init => FiguresInv
    BY ScoresStart, DomainsStart, SweepStart DEF Init, FiguresInv
<1>2. FiguresInv /\ [Next]_vars => FiguresInv'
    <2> SUFFICES ASSUME FiguresInv, [Next]_vars PROVE FiguresInv'
        OBVIOUS
    <2>1. CASE ScoreNext
        <3>1. machine = "score" /\ machine' = "score" /\ Keeping!Next /\ ScoresInv
            BY <2>1 DEF ScoreNext, BesideScore, FiguresInv
        <3>2. ScoresInv'
            BY <3>1, ScoresRun, ScoresCheckpoint DEF Keeping!Next
        <3> QED BY <3>1, <3>2 DEF FiguresInv
    <2>2. CASE DomainNext
        <3>1. machine = "domain" /\ machine' = "domain" /\ Domains!Next /\ DomainsInv
            BY <2>2 DEF DomainNext, BesideDomain, FiguresInv
        <3>2. DomainsInv'
            BY <3>1, DomainsLoad, DomainsLoadRaises, DomainsImprove, DomainsMeasureNext,
               DomainsConclude, DomainsChoose DEF Domains!Next
        <3> QED BY <3>1, <3>2 DEF FiguresInv
    <2>3. CASE SweepNext
        <3>1. machine = "sweep" /\ machine' = "sweep" /\ Sweep!Next /\ SweepInv
            BY <2>3 DEF SweepNext, BesideSweep, FiguresInv
        <3>2. SweepInv'
            BY <3>1, SweepScore, SweepEndTrajectory, SweepChoose DEF Sweep!Next
        <3> QED BY <3>1, <3>2 DEF FiguresInv
    <2>4. CASE UNCHANGED vars
        BY <2>4, FiguresStay
    <2>5. CASE Next /\ ~(ScoreNext \/ DomainNext \/ SweepNext)
        <3>1. machine' = machine /\ machine \notin {"score", "domain", "sweep"}
            BY <2>5 DEF Next, SessionNext, PopulationNext, RoundNext, ReportNext, SnapshotNext,
               TspNext, MemoryNext, BesideSession, BesidePopulation, BesideRound, BesideReport,
               BesideSnapshot, BesideTsp, BesideMemory
        <3> QED BY <3>1 DEF FiguresInv
    <2> QED BY <2>1, <2>2, <2>3, <2>4, <2>5
<1>3. FiguresInv => FiguresSound
    BY ScoresHold, DomainsHold, LooserHold, CutOffHold, SurvivorsHold
    DEF FiguresInv, FiguresSound, Sweep!SweepSound
<1> QED BY <1>1, <1>2, <1>3, PTL DEF Spec
-----------------------------------------------------------------------------
(* Sessions and their replay.                                              *)
LEMMA ReplayFacts ==
    /\ MaxIter \in Nat \ {0} /\ Len(Cases) \in Nat /\ DOMAIN Cases = 1 .. Len(Cases)
    /\ \A k, n \in DOMAIN Cases : Cases[k] = Cases[n] => k = n
    /\ \A s \in SessionIds : Lineages[s] \in Nat
    /\ \A s \in SessionIds : \A c \in Foreign[s], k \in DOMAIN Cases : Cases[k] # c
    /\ Session!Range(Cases) = {Cases[k] : k \in DOMAIN Cases}
    /\ \A S : Session!Cardinality(S) = Cardinality(S)
<1>1. Session!ValidReplay
    BY EvolutionAssumption
<1>2. \A S : Session!Cardinality(S) = Cardinality(S)
    BY DEF Session!Cardinality, Cardinality, Session!IsFiniteSet, IsFiniteSet
<1>3. Session!Range(Cases) = {Cases[k] : k \in DOMAIN Cases}
    BY DEF Session!Range
<1>4. \A s \in SessionIds : \A c \in Foreign[s], k \in DOMAIN Cases : Cases[k] # c
    <2> SUFFICES ASSUME NEW s \in SessionIds, NEW c \in Foreign[s], NEW k \in DOMAIN Cases
                 PROVE  Cases[k] # c
        OBVIOUS
    <2>1. Session!Range(Cases) \cap Foreign[s] = {}
        BY <1>1 DEF Session!ValidReplay
    <2> QED BY <1>3, <2>1
<1>5. Len(Cases) \in Nat /\ DOMAIN Cases = 1 .. Len(Cases)
    BY <1>1, LenProperties DEF Session!ValidReplay
<1> QED BY <1>1, <1>2, <1>3, <1>4, <1>5 DEF Session!ValidReplay, Session!IsInjective

(* The file is a sequence, of events of all kinds.                         *)
IsAFile == file \in Seq({file[k] : k \in DOMAIN file})

(* What is appended to the file, and what is there stays.                  *)
Grown(t) ==
    /\ Len(t) \in Nat /\ Len(file') = Len(file) + Len(t)
    /\ DOMAIN file' = 1 .. Len(file')
    /\ \A k \in 1 .. Len(file) : file'[k] = file[k]
    /\ \A k \in 1 .. Len(t) : file'[Len(file) + k] = t[k]

LEMMA FileFacts == ASSUME IsAFile PROVE Len(file) \in Nat /\ DOMAIN file = 1 .. Len(file)
BY LenProperties DEF IsAFile

(* What of the events of a session comes into the file: if none of them    *)
(* was ever lost, all of these.                                            *)
LEMMA PublishIs ==
    ASSUME IsAFile, NEW s, NEW S, NEW events \in Seq(S), Session!Publish(s, events)
    PROVE  \E t \in Seq(S) :
              /\ Grown(t) /\ IsAFile' /\ Len(t) <= Len(events)
              /\ \A k \in 1 .. Len(t) : \E n \in 1 .. Len(events) : t[k] = events[n]
              /\ s \notin lost' => t = events /\ s \notin lost
              /\ \A x : x # s => (x \in lost' <=> x \in lost)
<1>1. PICK piped \in 0 .. Len(events) :
          /\ file' = file \o SubSeq(events, piped + 1, Len(events))
          /\ lost' = IF piped > 0 THEN lost \cup {s} ELSE lost
    <2>1. PICK piped \in IF outlet[s] = "pipe" THEN 0 .. Len(events) ELSE {0} :
              /\ file' = file \o SubSeq(events, piped + 1, Len(events))
              /\ lost' = IF piped > 0 THEN lost \cup {s} ELSE lost
        BY DEF Session!Publish
    <2>2. Len(events) \in Nat
        BY LenProperties
    <2>3. piped \in 0 .. Len(events)
        BY <2>1, <2>2
    <2> QED BY <2>1, <2>3
<1> DEFINE t == SubSeq(events, piped + 1, Len(events))
           F == {file[k] : k \in DOMAIN file}
<1>2. Len(events) \in Nat /\ DOMAIN events = 1 .. Len(events)
      /\ \A k \in 1 .. Len(events) : events[k] \in S
    BY LenProperties, ElementOfSeq
<1>3. /\ t \in Seq(S) /\ Len(t) = Len(events) - piped /\ DOMAIN t = 1 .. Len(t)
      /\ \A k \in 1 .. Len(t) : t[k] = events[piped + k]
    <2>1. piped + 1 \in Int /\ Len(events) \in Int
          /\ \A k \in piped + 1 .. Len(events) : events[k] \in S
        BY <1>2
    <2>2. /\ t \in Seq(S)
          /\ Len(t) = IF piped + 1 <= Len(events) THEN Len(events) - (piped + 1) + 1 ELSE 0
          /\ \A k \in 1 .. Len(events) - (piped + 1) + 1 : t[k] = events[piped + 1 + k - 1]
        BY <2>1, SubSeqProperties
    <2> HIDE DEF t
    <2>3. Len(t) = Len(events) - piped /\ DOMAIN t = 1 .. Len(t)
        <3>1. \A n \in Nat : \A p \in 0 .. n :
                  (IF p + 1 <= n THEN n - (p + 1) + 1 ELSE 0) = n - p
            OBVIOUS
        <3>2. Len(t) = Len(events) - piped
            BY <1>2, <2>2, <3>1, ZenonT(20)
        <3>3. DOMAIN t = 1 .. Len(t)
            BY <2>2, LenProperties
        <3> QED BY <3>2, <3>3
    <2>4. \A k \in 1 .. Len(t) : piped + 1 + k - 1 = piped + k
                                 /\ k \in 1 .. Len(events) - (piped + 1) + 1
        BY <1>2, <2>3
    <2> QED BY <2>2, <2>3, <2>4
<1>4. /\ Len(file) \in Nat /\ DOMAIN file = 1 .. Len(file)
      /\ file \in Seq(F \cup S) /\ t \in Seq(F \cup S)
    <2>1. Len(file) \in Nat /\ DOMAIN file = 1 .. Len(file)
        BY FileFacts
    <2>2. file \in Seq(F)
        BY DEF IsAFile
    <2> HIDE DEF t, F
    <2>3. file \in Seq(F \cup S)
        BY <2>2, SeqMonotonic
    <2>4. t \in Seq(F \cup S)
        BY <1>3, SeqMonotonic
    <2> QED BY <2>1, <2>3, <2>4
<1> HIDE DEF t, F
<1>5. file' = file \o t
    BY <1>1 DEF t
<1>6. /\ file' \in Seq(F \cup S) /\ Len(file') = Len(file) + Len(t)
      /\ DOMAIN file' = 1 .. Len(file')
      /\ \A k \in 1 .. Len(file) : file'[k] = file[k]
      /\ \A k \in 1 .. Len(t) : file'[Len(file) + k] = t[k]
    <2>1. /\ file' \in Seq(F \cup S) /\ Len(file') = Len(file) + Len(t)
          /\ \A k \in 1 .. Len(file) + Len(t) :
                file'[k] = IF k <= Len(file) THEN file[k] ELSE t[k - Len(file)]
        BY <1>4, <1>5, ConcatProperties
    <2>2. DOMAIN file' = 1 .. Len(file')
        BY <2>1, LenProperties
    <2>3. Len(t) \in Nat
        BY <1>2, <1>3
    <2>4. \A k \in 1 .. Len(file) : k \in 1 .. Len(file) + Len(t) /\ k <= Len(file)
        BY <1>4, <2>3
    <2>5. \A k \in 1 .. Len(t) : /\ Len(file) + k \in 1 .. Len(file) + Len(t)
                                 /\ ~(Len(file) + k <= Len(file)) /\ Len(file) + k - Len(file) = k
        BY <1>4, <2>3
    <2> QED BY <2>1, <2>2, <2>4, <2>5
<1>7. IsAFile'
    <2>1. Len(file') \in Nat /\ DOMAIN file' = 1 .. Len(file')
        BY <1>6, LenProperties
    <2>2. file' = [k \in 1 .. Len(file') |-> file'[k]]
        BY <1>6, SeqDef, <2>1
    <2> DEFINE G == {file'[k] : k \in DOMAIN file'}
    <2>3. \A k \in 1 .. Len(file') : file'[k] \in G
        BY <2>1
    <2>4. file' \in [1 .. Len(file') -> G]
        BY <2>2, <2>3
    <2> HIDE DEF G
    <2>5. file' \in Seq(G)
        BY <2>1, <2>4, SeqDef
    <2> QED BY <2>5 DEF IsAFile, G
<1>8. s \notin lost' => t = events /\ s \notin lost
    <2> SUFFICES ASSUME s \notin lost' PROVE t = events /\ s \notin lost
        OBVIOUS
    <2>1. piped = 0 /\ s \notin lost
        BY <1>1
    <2>2. Len(t) = Len(events) /\ \A k \in 1 .. Len(t) : t[k] = events[k]
        BY <1>2, <1>3, <2>1
    <2>3. t = events
        BY <1>3, <2>2, SeqEqual
    <2> QED BY <2>1, <2>3
<1>9. Grown(t) /\ Len(t) <= Len(events)
      /\ \A k \in 1 .. Len(t) : \E n \in 1 .. Len(events) : t[k] = events[n]
    <2>1. Len(t) \in Nat /\ Len(t) <= Len(events)
          /\ \A k \in 1 .. Len(t) : piped + k \in 1 .. Len(events)
        BY <1>2, <1>3
    <2> QED BY <1>3, <1>6, <2>1 DEF Grown
<1>10. \A x : x # s => (x \in lost' <=> x \in lost)
    BY <1>1
<1> QED BY <1>3, <1>7, <1>8, <1>9, <1>10

(* One event or two, which come into the file or the session has lost one. *)
LEMMA OnePublished ==
    ASSUME IsAFile, NEW s, NEW e, Session!Publish(s, <<e>>)
    PROVE  \E t : /\ Grown(t) /\ IsAFile' /\ Len(t) <= 1
                  /\ \A k \in 1 .. Len(t) : t[k] = e
                  /\ s \notin lost' => t = <<e>> /\ s \notin lost
                  /\ \A x : x # s => (x \in lost' <=> x \in lost)
<1>1. <<e>> \in Seq({e}) /\ Len(<<e>>) = 1
    OBVIOUS
<1>2. PICK t \in Seq({e}) :
          /\ Grown(t) /\ IsAFile' /\ Len(t) <= Len(<<e>>)
          /\ s \notin lost' => t = <<e>> /\ s \notin lost
          /\ \A x : x # s => (x \in lost' <=> x \in lost)
    BY <1>1, PublishIs
<1>3. \A k \in 1 .. Len(t) : t[k] \in {e}
    BY ElementOfSeq
<1> QED BY <1>1, <1>2, <1>3

LEMMA TwoPublished ==
    ASSUME IsAFile, NEW s, NEW d, NEW e, Session!Publish(s, <<d, e>>)
    PROVE  \E t : /\ Grown(t) /\ IsAFile' /\ Len(t) <= 2
                  /\ \A k \in 1 .. Len(t) : t[k] \in {d, e}
                  /\ s \notin lost' => t = <<d, e>> /\ s \notin lost
                  /\ \A x : x # s => (x \in lost' <=> x \in lost)
<1>1. <<d, e>> \in Seq({d, e}) /\ Len(<<d, e>>) = 2 /\ \A n \in 1 .. 2 : <<d, e>>[n] \in {d, e}
    OBVIOUS
<1>2. PICK t \in Seq({d, e}) :
          /\ Grown(t) /\ IsAFile' /\ Len(t) <= Len(<<d, e>>)
          /\ s \notin lost' => t = <<d, e>> /\ s \notin lost
          /\ \A x : x # s => (x \in lost' <=> x \in lost)
    BY <1>1, PublishIs
<1>3. \A k \in 1 .. Len(t) : t[k] \in {d, e}
    BY ElementOfSeq
<1> QED BY <1>1, <1>2, <1>3

(* What has been rebuilt for an iteration, event by event.                 *)
Unbuilt == [harness |-> Session!Base, flips |-> 0, over |-> FALSE]

ReadingOf(F, n, s, i) ==
    CHOOSE x : x = [k \in 0 .. n |->
                      IF k = 0 THEN Unbuilt ELSE Session!Rebuilt(x[k - 1], F[k], s, i)]

LEMMA Readings ==
    ASSUME NEW F, NEW n \in Nat, NEW s, NEW i
    PROVE  LET h == ReadingOf(F, n, s, i)
           IN  h[0] = Unbuilt /\ \A k \in 1 .. n : h[k] = Session!Rebuilt(h[k - 1], F[k], s, i)
<1> DEFINE Is(x, m) == x = [k \in 0 .. m |->
                           IF k = 0 THEN Unbuilt ELSE Session!Rebuilt(x[k - 1], F[k], s, i)]
           S == {m \in 0 .. n : \E x : Is(x, m)}
<1>1. 0 \in S
    <2> DEFINE x == [k \in 0 .. 0 |-> Unbuilt]
    <2>1. x = [k \in 0 .. 0 |->
                 IF k = 0 THEN Unbuilt ELSE Session!Rebuilt(x[k - 1], F[k], s, i)]
        OBVIOUS
    <2>2. Is(x, 0)
        BY <2>1
    <2> HIDE DEF x, Is
    <2> QED BY <2>2
<1>2. ASSUME NEW m \in 0 .. n - 1, m \in S PROVE m + 1 \in S
    <2>1. PICK x : Is(x, m)
        BY <1>2
    <2> DEFINE y == [k \in 0 .. m + 1 |->
                        IF k = m + 1 THEN Session!Rebuilt(x[m], F[m + 1], s, i) ELSE x[k]]
    <2>2. m + 1 \in 0 .. n /\ m \in 0 .. m /\ 0 # m + 1 /\ m # m + 1 /\ m + 1 - 1 = m
        OBVIOUS
    <2>3. \A k \in 0 .. m : x[k] = IF k = 0 THEN Unbuilt
                                   ELSE Session!Rebuilt(x[k - 1], F[k], s, i)
        BY <2>1
    <2>4. /\ \A k \in 0 .. m : k # m + 1 /\ k \in 0 .. m + 1
          /\ \A k \in 0 .. m : k # 0 => k - 1 \in 0 .. m
          /\ \A k \in 0 .. m + 1 : k \in 0 .. m \/ k = m + 1
        OBVIOUS
    <2>5. (\A k \in 0 .. m : y[k] = x[k]) /\ m + 1 \in 0 .. m + 1
          /\ y[m + 1] = Session!Rebuilt(x[m], F[m + 1], s, i)
        BY <2>2, <2>4
    <2>6. y = [k \in 0 .. m + 1 |-> y[k]]
        OBVIOUS
    <2> HIDE DEF y, S
    <2>7. ASSUME NEW k \in 0 .. m + 1
          PROVE  y[k] = IF k = 0 THEN Unbuilt ELSE Session!Rebuilt(y[k - 1], F[k], s, i)
        <3>1. CASE k = m + 1
            BY <2>2, <2>5, <3>1
        <3>2. CASE k \in 0 .. m
            BY <2>3, <2>4, <2>5, <3>2
        <3> QED BY <2>4, <3>1, <3>2
    <2>8. Is(y, m + 1)
        BY <2>6, <2>7
    <2> HIDE DEF Is
    <2> QED BY <2>2, <2>8 DEF S
<1>3. \E x : Is(x, n)
    <2> HIDE DEF Is
    <2>1. \A k \in 0 .. n - 1 : k \in S => k + 1 \in S
        BY <1>2
    <2>2. \A k \in 0 .. n : k \in S
        <3> HIDE DEF S
        <3> QED BY <1>1, <2>1, Inductive
    <2> QED BY <2>2
<1> DEFINE h == ReadingOf(F, n, s, i)
<1>4. Is(h, n)
    BY <1>3 DEF ReadingOf
<1> HIDE DEF h
<1>5. h[0] = Unbuilt /\ \A k \in 1 .. n : h[k] = Session!Rebuilt(h[k - 1], F[k], s, i)
    BY <1>4
<1> QED BY <1>5 DEF h

(* An event that adds nothing: of another session, or not of a completed   *)
(* iteration.                                                              *)
Beside(e, s) == e.session # s \/ e.kind # "iteration" \/ e.status # "complete"

(* With what is appended, the harness is rebuilt a little further.         *)
LEMMA HarnessGrows ==
    ASSUME IsAFile, NEW t, Grown(t), NEW s, NEW i
    PROVE  \E f : /\ f[0] = Session!HarnessAt(s, i) /\ f[Len(t)] = Session!HarnessAt(s, i)'
                  /\ \A k \in 1 .. Len(t) : f[k] = Session!Rebuilt(f[k - 1], t[k], s, i)
<1> DEFINE n == Len(file)
           m == Len(file')
           f == ReadingOf(file, n, s, i)
           g == ReadingOf(file', m, s, i)
           h == [k \in 0 .. Len(t) |-> g[n + k]]
           S == {k \in 0 .. n : g[k] = f[k]}
<1>1. n \in Nat /\ m \in Nat /\ Len(t) \in Nat /\ m = n + Len(t)
      /\ (\A k \in 1 .. n : file'[k] = file[k])
      /\ \A k \in 1 .. Len(t) : file'[n + k] = t[k]
    BY FileFacts DEF Grown
<1>2. Session!HarnessAt(s, i) = f[n] /\ Session!HarnessAt(s, i)' = g[m]
    BY DEF Session!HarnessAt, Unbuilt, ReadingOf
<1> HIDE DEF n, m
<1>3. f[0] = Unbuilt /\ \A k \in 1 .. n : f[k] = Session!Rebuilt(f[k - 1], file[k], s, i)
    BY <1>1, Readings
<1>4. g[0] = Unbuilt /\ \A k \in 1 .. m : g[k] = Session!Rebuilt(g[k - 1], file'[k], s, i)
    BY <1>1, Readings
<1> HIDE DEF f, g
<1>5. ASSUME NEW k \in 0 .. n - 1, k \in S PROVE k + 1 \in S
    <2>1. k + 1 \in 1 .. n /\ k + 1 \in 1 .. m /\ k + 1 - 1 = k /\ k + 1 \in 0 .. n
        BY <1>1
    <2> QED BY <1>1, <1>3, <1>4, <1>5, <2>1
<1>6. n \in S
    <2>1. 0 \in S
        BY <1>1, <1>3, <1>4
    <2>2. \A k \in 0 .. n - 1 : k \in S => k + 1 \in S
        BY <1>5
    <2> HIDE DEF S
    <2>3. n \in 0 .. n
        BY <1>1
    <2> QED BY <1>1, <2>1, <2>2, <2>3, Inductive
<1>7. h[0] = Session!HarnessAt(s, i) /\ h[Len(t)] = Session!HarnessAt(s, i)'
    BY <1>1, <1>2, <1>6
<1>8. ASSUME NEW k \in 1 .. Len(t) PROVE h[k] = Session!Rebuilt(h[k - 1], t[k], s, i)
    <2>1. /\ n + k \in 1 .. m /\ k \in 0 .. Len(t) /\ k - 1 \in 0 .. Len(t)
          /\ n + k - 1 = n + (k - 1)
        BY <1>1
    <2>2. h[k] = g[n + k] /\ h[k - 1] = g[n + (k - 1)]
        BY <2>1
    <2> HIDE DEF h
    <2> QED BY <1>1, <1>4, <2>1, <2>2
<1> HIDE DEF h
<1> QED BY <1>7, <1>8

LEMMA HarnessStays ==
    ASSUME IsAFile, NEW t, Grown(t), Len(t) <= 2, NEW s, NEW i,
           \A k \in 1 .. Len(t) : Beside(t[k], s)
    PROVE  Session!HarnessAt(s, i)' = Session!HarnessAt(s, i)
<1>1. PICK f : /\ f[0] = Session!HarnessAt(s, i) /\ f[Len(t)] = Session!HarnessAt(s, i)'
               /\ \A k \in 1 .. Len(t) : f[k] = Session!Rebuilt(f[k - 1], t[k], s, i)
    BY HarnessGrows
<1>2. \A k \in 1 .. Len(t) : f[k] = f[k - 1]
    BY <1>1 DEF Beside, Session!Rebuilt
<1>3. Len(t) \in {0, 1, 2}
    <2>1. Len(t) \in Nat
        BY DEF Grown
    <2>2. \A n \in Nat : n <= 2 => n \in {0, 1, 2}
        OBVIOUS
    <2> QED BY <2>1, <2>2
<1>4. f[Len(t)] = f[0]
    BY <1>2, <1>3
<1> QED BY <1>1, <1>4

(* A completed iteration of the session itself.                            *)
LEMMA HarnessAdds ==
    ASSUME IsAFile, NEW t, Grown(t), Len(t) \in {1, 2}, NEW s, NEW i,
           Len(t) = 2 => Beside(t[1], s)
    PROVE  Session!HarnessAt(s, i)' =
               Session!Rebuilt(Session!HarnessAt(s, i), t[Len(t)], s, i)
<1>1. PICK f : /\ f[0] = Session!HarnessAt(s, i) /\ f[Len(t)] = Session!HarnessAt(s, i)'
               /\ \A k \in 1 .. Len(t) : f[k] = Session!Rebuilt(f[k - 1], t[k], s, i)
    BY HarnessGrows
<1>2. f[Len(t)] = Session!Rebuilt(f[Len(t) - 1], t[Len(t)], s, i)
    BY <1>1
<1>3. f[Len(t) - 1] = f[0]
    <2>1. CASE Len(t) = 1
        BY <2>1
    <2>2. CASE Len(t) = 2
        <3>1. f[1] = Session!Rebuilt(f[0], t[1], s, i)
            BY <1>1, <2>2
        <3>2. f[1] = f[0]
            BY <2>2, <3>1 DEF Beside, Session!Rebuilt
        <3> QED BY <2>2, <3>2
    <2> QED BY <2>1, <2>2
<1> QED BY <1>1, <1>2, <1>3

(* Which iteration an event is counted for, and what ends there, in a file *)
(* that is given.                                                          *)
ActiveIn(F, k) ==
    LET starts == {n \in 1 .. k : /\ F[n].kind = "iteration"
                                  /\ F[n].session = F[k].session}
    IN  IF starts = {} THEN -1 ELSE F[CHOOSE n \in starts : \A m \in starts : m <= n].iter

Ends(e, s, kind) == e.session = s /\ e.kind = kind /\ e.status = "complete"

LEMMA ActiveIs ==
    ASSUME NEW F, NEW k \in Nat, NEW m \in 1 .. k, F[m].session = F[k].session,
           F[m].kind = "iteration",
           \A n \in m + 1 .. k : F[n].session # F[k].session \/ F[n].kind # "iteration"
    PROVE  ActiveIn(F, k) = F[m].iter
<1> DEFINE starts == {n \in 1 .. k : F[n].kind = "iteration" /\ F[n].session = F[k].session}
<1>1. m \in starts /\ \A n \in starts : n <= m
    <2>1. ASSUME NEW n \in starts PROVE n <= m
        <3>1. n \in 1 .. k /\ n \notin m + 1 .. k
            OBVIOUS
        <3> HIDE DEF starts
        <3> QED BY <3>1
    <2> QED BY <2>1
<1>2. \A n \in starts : n \in Int
    OBVIOUS
<1> HIDE DEF starts
<1> DEFINE c == CHOOSE n \in starts : \A j \in starts : j <= n
<1>3. c = m
    <2>1. \E n \in starts : \A j \in starts : j <= n
        BY <1>1
    <2>2. c \in starts /\ \A j \in starts : j <= c
        BY <2>1, Zenon
    <2> HIDE DEF c
    <2>3. c \in Int /\ m \in Int /\ c <= m /\ m <= c
        BY <1>1, <1>2, <2>2
    <2> QED BY <2>3
<1>4. ActiveIn(F, k) = F[CHOOSE n \in starts : \A j \in starts : j <= n].iter
    BY <1>1 DEF ActiveIn, starts
<1> QED BY <1>3, <1>4

LEMMA ActiveStays ==
    ASSUME IsAFile, NEW t, Grown(t), NEW k \in 1 .. Len(file)
    PROVE  ActiveIn(file', k) = ActiveIn(file, k)
<1> DEFINE starts == {n \in 1 .. k : /\ file[n].kind = "iteration"
                                     /\ file[n].session = file[k].session}
           new == {n \in 1 .. k : /\ file'[n].kind = "iteration"
                                  /\ file'[n].session = file'[k].session}
           Last(S) == CHOOSE n \in S : \A j \in S : j <= n
<1>1. \A n \in 1 .. k : file'[n] = file[n]
    BY FileFacts DEF Grown
<1>2. new = starts
    BY <1>1
<1>3. ActiveIn(file, k) = IF starts = {} THEN -1 ELSE file[Last(starts)].iter
    BY DEF ActiveIn
<1>4. ActiveIn(file', k) = IF new = {} THEN -1 ELSE file'[Last(new)].iter
    BY DEF ActiveIn
<1>5. starts # {} => Last(starts) \in 1 .. k
    <2>1. k \in Nat /\ starts \in SUBSET (0 .. k) /\ \A n \in starts : n \in 1 .. k
        BY FileFacts
    <2> HIDE DEF starts
    <2>2. starts # {} => \E n \in starts : \A j \in starts : j <= n
        BY <2>1, GreatestOfThem
    <2> QED BY <2>1, <2>2
<1> HIDE DEF starts, new
<1>6. Last(new) = Last(starts)
    BY <1>2
<1> HIDE DEF Last
<1> QED BY <1>1, <1>2, <1>3, <1>4, <1>5, <1>6

LEMMA FinalIs ==
    ASSUME IsAFile, NEW s, NEW i, NEW kind
    PROVE  /\ Session!Final(s, i, kind)
                = {k \in 1 .. Len(file) : Ends(file[k], s, kind) /\ ActiveIn(file, k) = i}
           /\ IsAFile' => Session!Final(s, i, kind)'
                = {k \in 1 .. Len(file') : Ends(file'[k], s, kind) /\ ActiveIn(file', k) = i}
<1>1. DOMAIN file = 1 .. Len(file)
    BY FileFacts
<1>2. IsAFile' => DOMAIN file' = 1 .. Len(file')
    BY LenProperties DEF IsAFile
<1>3. /\ \A k : Session!Active(k) = ActiveIn(file, k)
      /\ \A k : Session!Active(k)' = ActiveIn(file', k)
    BY DEF Session!Active, ActiveIn
<1>4. Session!Final(s, i, kind)
          = {k \in DOMAIN file : /\ file[k].kind = kind /\ file[k].status = "complete"
                                 /\ file[k].session = s /\ ActiveIn(file, k) = i}
    BY <1>3 DEF Session!Final
<1>5. Session!Final(s, i, kind)'
          = {k \in DOMAIN file' : /\ file'[k].kind = kind /\ file'[k].status = "complete"
                                 /\ file'[k].session = s /\ ActiveIn(file', k) = i}
    BY <1>3 DEF Session!Final
<1> QED BY <1>1, <1>2, <1>4, <1>5 DEF Ends

LEMMA EndsStay ==
    ASSUME IsAFile, IsAFile', NEW t, Grown(t), NEW s, NEW i, NEW kind,
           \A k \in 1 .. Len(t) : ~Ends(t[k], s, kind)
    PROVE  /\ Session!Final(s, i, kind)' = Session!Final(s, i, kind)
           /\ \A k \in Session!Final(s, i, kind) : k \in 1 .. Len(file) /\ file'[k] = file[k]
<1>1. Len(file) \in Nat /\ Len(t) \in Nat /\ Len(file') = Len(file) + Len(t)
      /\ (\A k \in 1 .. Len(file) : file'[k] = file[k])
      /\ \A k \in 1 .. Len(t) : file'[Len(file) + k] = t[k]
    BY FileFacts DEF Grown
<1>2. \A k \in 1 .. Len(file') :
          \/ k \in 1 .. Len(file)
          \/ k - Len(file) \in 1 .. Len(t) /\ k = Len(file) + (k - Len(file))
    BY <1>1
<1>3. \A k \in 1 .. Len(file') : Ends(file'[k], s, kind) => k \in 1 .. Len(file)
    BY <1>1, <1>2
<1>4. \A k \in 1 .. Len(file) : k \in 1 .. Len(file')
    BY <1>1
<1>5. \A k \in 1 .. Len(file) : ActiveIn(file', k) = ActiveIn(file, k)
    BY ActiveStays
<1> DEFINE old == {k \in 1 .. Len(file) : Ends(file[k], s, kind) /\ ActiveIn(file, k) = i}
           new == {k \in 1 .. Len(file') : Ends(file'[k], s, kind) /\ ActiveIn(file', k) = i}
<1>6. new = old
    BY <1>1, <1>3, <1>4, <1>5
<1>7. Session!Final(s, i, kind) = old /\ Session!Final(s, i, kind)' = new
    BY FinalIs
<1> QED BY <1>1, <1>6, <1>7

LEMMA EndsAdd ==
    ASSUME IsAFile, IsAFile', NEW t, Grown(t), NEW s, NEW i, NEW kind, Len(t) \in {1, 2},
           Len(t) = 2 => ~Ends(t[1], s, kind), Ends(t[Len(t)], s, kind)
    PROVE  Session!Final(s, i, kind)' = Session!Final(s, i, kind)
               \cup (IF ActiveIn(file', Len(file')) = i THEN {Len(file')} ELSE {})
<1>1. Len(file) \in Nat /\ Len(t) \in Nat /\ Len(file') = Len(file) + Len(t)
      /\ (\A k \in 1 .. Len(file) : file'[k] = file[k])
      /\ \A k \in 1 .. Len(t) : file'[Len(file) + k] = t[k]
    BY FileFacts DEF Grown
<1>2. /\ file'[Len(file')] = t[Len(t)] /\ Len(file') \in 1 .. Len(file')
      /\ \A k \in 1 .. Len(file) : k \in 1 .. Len(file') /\ k < Len(file')
    BY <1>1
<1>3. \A k \in 1 .. Len(file') : \/ k \in 1 .. Len(file) \/ k = Len(file')
                                 \/ Len(t) = 2 /\ k = Len(file) + 1
    BY <1>1
<1>4. \A k \in 1 .. Len(file') :
          Ends(file'[k], s, kind) <=> Ends(file'[k], s, kind)
                                      /\ (k \in 1 .. Len(file) \/ k = Len(file'))
    <2>1. Len(t) = 2 => file'[Len(file) + 1] = t[1]
        BY <1>1
    <2> QED BY <1>3, <2>1
<1>5. \A k \in 1 .. Len(file) : ActiveIn(file', k) = ActiveIn(file, k)
    BY ActiveStays
<1>6. Ends(file'[Len(file')], s, kind)
    BY <1>2
<1> DEFINE old == {k \in 1 .. Len(file) : Ends(file[k], s, kind) /\ ActiveIn(file, k) = i}
           new == {k \in 1 .. Len(file') : Ends(file'[k], s, kind) /\ ActiveIn(file', k) = i}
<1>7. new = old \cup (IF ActiveIn(file', Len(file')) = i THEN {Len(file')} ELSE {})
    BY <1>1, <1>2, <1>4, <1>5, <1>6
<1>8. Session!Final(s, i, kind) = old /\ Session!Final(s, i, kind)' = new
    BY FinalIs
<1> QED BY <1>7, <1>8

LEMMA EndsAddTwo ==
    ASSUME IsAFile, IsAFile', NEW t, Grown(t), NEW s, NEW i, NEW kind, Len(t) = 2,
           ~Ends(t[1], s, kind), Ends(t[2], s, kind)
    PROVE  Session!Final(s, i, kind)' = Session!Final(s, i, kind)
               \cup (IF ActiveIn(file', Len(file')) = i THEN {Len(file')} ELSE {})
<1>1. Len(t) \in {1, 2} /\ (Len(t) = 2 => ~Ends(t[1], s, kind)) /\ Ends(t[Len(t)], s, kind)
    OBVIOUS
<1>2. IsAFile /\ IsAFile' /\ Grown(t)
    OBVIOUS
<1> QED BY <1>1, <1>2, EndsAdd


(* The invariant of a session: where its loop is,                          *)
Fields == {"prompt", "tools", "protocol", "context", "budget"}

IterationIds == 0 .. MaxIter - 1

IsLoop(w) ==
    /\ w = [pc |-> w.pc, lineage |-> w.lineage, iter |-> w.iter, harness |-> w.harness,
            best |-> w.best, score |-> w.score, verdicts |-> w.verdicts]
    /\ w.pc \in {"start", "cases", "over", "done"} /\ w.lineage \in Nat \ {0}
    /\ w.iter \in IterationIds /\ w.score \in Int
    /\ w.verdicts \in Seq(VerdictKinds) /\ Len(w.verdicts) <= Len(Cases)
    /\ DOMAIN w.harness = Fields /\ DOMAIN w.best = Fields

(* which iterations its first lineage has begun,                           *)
FirstBegun(x) ==
    /\ run[x].lineage = 1 =>
          \A i \in Nat : <<x, 1, i>> \in DOMAIN ran
                         <=> i < run[x].iter \/ (i = run[x].iter /\ run[x].pc # "start")
    /\ \A i \in Nat : <<x, 1, i>> \in DOMAIN ran => DOMAIN ran[<<x, 1, i>>] = Fields

(* the verdicts of the iteration it is in,                                 *)
GivenSoFar(x) ==
    run[x].pc = "cases" =>
        \A k \in 1 .. Len(run[x].verdicts) :
            /\ <<x, run[x].iter, Cases[k]>> \in DOMAIN judged
            /\ judged[<<x, run[x].iter, Cases[k]>>] = run[x].verdicts[k]

(* and, if none of its events is lost, what is rebuilt from those,         *)
Known(x, i) == <<x, 1>> \notin marred /\ Session!HarnessAt(x, i).flips = 0

IsBuilt(b) ==
    /\ b = [harness |-> b.harness, flips |-> b.flips, over |-> b.over]
    /\ b.flips \in Nat /\ b.over \in BOOLEAN

Recalls(x, i) ==
    LET b == Session!HarnessAt(x, i)
    IN  /\ IsBuilt(b)
        /\ (run[x].lineage = 1 /\ run[x].pc \in {"start", "cases"} /\ i >= run[x].iter) =>
              /\ b.over = FALSE
              /\ Known(x, i) => b.harness = run[x].harness
        /\ (run[x].lineage = 1 /\ i < run[x].iter) => b.over = TRUE
        /\ <<x, 1, i + 1>> \in DOMAIN ran => b.over = TRUE
        /\ (/\ <<x, 1, i>> \in DOMAIN ran /\ Known(x, i)
            /\ run[x].lineage = 1 \/ <<x, 1, i + 1>> \in DOMAIN ran) =>
              b.harness = ran[<<x, 1, i>>]

Recalled(x) == \A i \in IterationIds : Recalls(x, i)

(* that its verdicts are counted for the iteration it is in,               *)
Current(x) ==
    run[x].pc = "cases" =>
        \E m \in 1 .. Len(file) :
            /\ file[m].session = x /\ file[m].kind = "iteration" /\ file[m].iter = run[x].iter
            /\ \A n \in m + 1 .. Len(file) :
                  file[n].session # x \/ file[n].kind # "iteration"

(* that the last of them is the one it gave,                               *)
EndsOf(x, i, c) == {n \in Session!Final(x, i, "sandbox") : file[n].case = c}

Attributed(x) ==
    \A i \in IterationIds : \A k \in DOMAIN Cases :
        /\ EndsOf(x, i, Cases[k]) = {} <=> <<x, i, Cases[k]>> \notin DOMAIN judged
        /\ \A n \in EndsOf(x, i, Cases[k]) :
              (\A m \in EndsOf(x, i, Cases[k]) : m <= n) =>
                  file[n].verdict = judged[<<x, i, Cases[k]>>]

(* and that a score says how many of them are OK.                          *)
Scored(x) ==
    run[x].lineage = 1 =>
        \A i \in IterationIds : \A n \in Session!Final(x, i, "iteration") :
            /\ i <= run[x].iter /\ (run[x].pc \in {"start", "cases"} => i < run[x].iter)
            /\ \A k \in DOMAIN Cases : <<x, i, Cases[k]>> \in DOMAIN judged
            /\ file[n].score = Cardinality({k \in DOMAIN Cases :
                                              judged[<<x, i, Cases[k]>>] = "OK"})

Remembered(x) == Recalled(x) /\ Current(x) /\ Attributed(x) /\ Scored(x)

SessionInv(x) ==
    /\ IsLoop(run[x]) /\ FirstBegun(x) /\ GivenSoFar(x)
    /\ x \notin lost => Remembered(x)

ReplayInv ==
    /\ IsAFile /\ run = [x \in SessionIds |-> run[x]]
    /\ \A x \in SessionIds : SessionInv(x)

(* What the others do changes nothing of it.                               *)
Untouched(x) ==
    /\ run'[x] = run[x] /\ (x \notin lost' => x \notin lost)
    /\ \A i \in Nat : <<x, 1, i>> \in DOMAIN ran' <=> <<x, 1, i>> \in DOMAIN ran
    /\ \A i \in Nat : <<x, 1, i>> \in DOMAIN ran => ran'[<<x, 1, i>>] = ran[<<x, 1, i>>]
    /\ \A i, c : <<x, i, c>> \in DOMAIN judged' <=> <<x, i, c>> \in DOMAIN judged
    /\ \A i, c : <<x, i, c>> \in DOMAIN judged => judged'[<<x, i, c>>] = judged[<<x, i, c>>]
    /\ <<x, 1>> \in marred' <=> <<x, 1>> \in marred

LEMMA EndsOfStays ==
    ASSUME IsAFile, IsAFile', NEW t, Grown(t), NEW x, NEW i, NEW c,
           \A k \in 1 .. Len(t) : ~(Ends(t[k], x, "sandbox") /\ t[k].case = c)
    PROVE  /\ EndsOf(x, i, c)' = EndsOf(x, i, c)
           /\ \A n \in EndsOf(x, i, c) : file'[n] = file[n]
<1> DEFINE OldEnds == Session!Final(x, i, "sandbox")
           NewEnds == Session!Final(x, i, "sandbox")'
<1>1. Len(file) \in Nat /\ Len(t) \in Nat /\ Len(file') = Len(file) + Len(t)
      /\ (\A k \in 1 .. Len(file) : file'[k] = file[k])
      /\ \A k \in 1 .. Len(t) : file'[Len(file) + k] = t[k]
    BY FileFacts DEF Grown
<1>2. /\ OldEnds = {k \in 1 .. Len(file) : Ends(file[k], x, "sandbox")
                                            /\ ActiveIn(file, k) = i}
      /\ NewEnds = {k \in 1 .. Len(file') : Ends(file'[k], x, "sandbox")
                                             /\ ActiveIn(file', k) = i}
    BY FinalIs
<1>3. \A k \in 1 .. Len(file) : ActiveIn(file', k) = ActiveIn(file, k)
    BY ActiveStays
<1>4. EndsOf(x, i, c) = {n \in OldEnds : file[n].case = c}
      /\ EndsOf(x, i, c)' = {n \in NewEnds : file'[n].case = c}
    BY DEF EndsOf
<1> HIDE DEF OldEnds, NewEnds
<1>5. ASSUME NEW k \in 1 .. Len(file'), Ends(file'[k], x, "sandbox"), file'[k].case = c
      PROVE  k \in 1 .. Len(file)
    <2>1. k \in 1 .. Len(file) \/ (k - Len(file) \in 1 .. Len(t)
                                   /\ k = Len(file) + (k - Len(file)))
        BY <1>1
    <2> QED BY <1>1, <1>5, <2>1
<1>6. \A k \in 1 .. Len(file) : k \in 1 .. Len(file')
    BY <1>1
<1> QED BY <1>1, <1>2, <1>3, <1>4, <1>5, <1>6

LEMMA AttributedStays ==
    ASSUME IsAFile, IsAFile', NEW t, Grown(t), NEW x, Attributed(x),
           \A k \in 1 .. Len(t) : Ends(t[k], x, "sandbox") =>
               \A j \in DOMAIN Cases : t[k].case # Cases[j],
           \A i, c : <<x, i, c>> \in DOMAIN judged' <=> <<x, i, c>> \in DOMAIN judged,
           \A i, c : <<x, i, c>> \in DOMAIN judged => judged'[<<x, i, c>>] = judged[<<x, i, c>>]
    PROVE  Attributed(x)'
<1> SUFFICES ASSUME NEW i \in IterationIds, NEW k \in DOMAIN Cases
             PROVE  /\ EndsOf(x, i, Cases[k])' = {} <=> <<x, i, Cases[k]>> \notin DOMAIN judged'
                    /\ \A n \in EndsOf(x, i, Cases[k])' :
                          (\A m \in EndsOf(x, i, Cases[k])' : m <= n) =>
                              file'[n].verdict = judged'[<<x, i, Cases[k]>>]
    BY DEF Attributed
<1>1. \A j \in 1 .. Len(t) : ~(Ends(t[j], x, "sandbox") /\ t[j].case = Cases[k])
    OBVIOUS
<1>2. EndsOf(x, i, Cases[k])' = EndsOf(x, i, Cases[k])
      /\ \A n \in EndsOf(x, i, Cases[k]) : file'[n] = file[n]
    BY <1>1, EndsOfStays
<1>3. /\ EndsOf(x, i, Cases[k]) = {} <=> <<x, i, Cases[k]>> \notin DOMAIN judged
      /\ \A n \in EndsOf(x, i, Cases[k]) :
            (\A m \in EndsOf(x, i, Cases[k]) : m <= n) =>
                file[n].verdict = judged[<<x, i, Cases[k]>>]
    BY DEF Attributed
<1> HIDE DEF EndsOf
<1> QED BY <1>2, <1>3

LEMMA CurrentStays ==
    ASSUME IsAFile, NEW t, Grown(t), NEW x, Current(x), run'[x].iter = run[x].iter,
           run'[x].pc = "cases" => run[x].pc = "cases",
           \A k \in 1 .. Len(t) : t[k].session # x \/ t[k].kind # "iteration"
    PROVE  Current(x)'
<1> SUFFICES ASSUME run'[x].pc = "cases"
             PROVE  \E m \in 1 .. Len(file') :
                       /\ file'[m].session = x /\ file'[m].kind = "iteration"
                       /\ file'[m].iter = run'[x].iter
                       /\ \A n \in m + 1 .. Len(file') :
                             file'[n].session # x \/ file'[n].kind # "iteration"
    BY DEF Current
<1>1. PICK m \in 1 .. Len(file) :
          /\ file[m].session = x /\ file[m].kind = "iteration" /\ file[m].iter = run[x].iter
          /\ \A n \in m + 1 .. Len(file) : file[n].session # x \/ file[n].kind # "iteration"
    BY DEF Current
<1>2. Len(file) \in Nat /\ Len(t) \in Nat /\ Len(file') = Len(file) + Len(t)
      /\ (\A k \in 1 .. Len(file) : file'[k] = file[k])
      /\ \A k \in 1 .. Len(t) : file'[Len(file) + k] = t[k]
    BY FileFacts DEF Grown
<1>3. ASSUME NEW n \in m + 1 .. Len(file')
      PROVE  file'[n].session # x \/ file'[n].kind # "iteration"
    <2>1. n \in m + 1 .. Len(file) \/ n - Len(file) \in 1 .. Len(t)
        BY <1>2
    <2>2. n \in m + 1 .. Len(file) => n \in 1 .. Len(file)
        BY <1>2
    <2>3. Len(file) + (n - Len(file)) = n
        BY <1>2
    <2> QED BY <1>1, <1>2, <2>1, <2>2, <2>3
<1>4. m \in 1 .. Len(file') /\ file'[m] = file[m]
    BY <1>2
<1> QED BY <1>1, <1>3, <1>4

LEMMA ScoredStays ==
    ASSUME IsAFile, IsAFile', NEW t, Grown(t), NEW x, Scored(x),
           run'[x].lineage = 1 => run[x].lineage = 1,
           run'[x].lineage = 1 => run'[x].iter = run[x].iter
                                  /\ (run'[x].pc \in {"start", "cases"}
                                         => run[x].pc \in {"start", "cases"}),
           \A k \in 1 .. Len(t) : ~Ends(t[k], x, "iteration"),
           \A i \in IterationIds : \A k \in DOMAIN Cases :
               (run[x].lineage = 1 /\ i = run[x].iter /\ run[x].pc \in {"start", "cases"})
               \/ (<<x, i, Cases[k]>> \in DOMAIN judged =>
                      /\ <<x, i, Cases[k]>> \in DOMAIN judged'
                      /\ judged'[<<x, i, Cases[k]>>] = judged[<<x, i, Cases[k]>>])
    PROVE  Scored(x)'
<1> SUFFICES ASSUME run'[x].lineage = 1, NEW i \in IterationIds,
                    NEW n \in Session!Final(x, i, "iteration")'
             PROVE  /\ i <= run'[x].iter
                    /\ (run'[x].pc \in {"start", "cases"} => i < run'[x].iter)
                    /\ \A k \in DOMAIN Cases : <<x, i, Cases[k]>> \in DOMAIN judged'
                    /\ file'[n].score = Cardinality({k \in DOMAIN Cases :
                                              judged'[<<x, i, Cases[k]>>] = "OK"})
    BY DEF Scored
<1>1. n \in Session!Final(x, i, "iteration") /\ file'[n] = file[n]
    BY EndsStay
<1>2. /\ i <= run[x].iter /\ (run[x].pc \in {"start", "cases"} => i < run[x].iter)
      /\ \A k \in DOMAIN Cases : <<x, i, Cases[k]>> \in DOMAIN judged
      /\ file[n].score = Cardinality({k \in DOMAIN Cases : judged[<<x, i, Cases[k]>>] = "OK"})
    BY <1>1 DEF Scored
<1>3. run'[x].iter = run[x].iter
      /\ (run'[x].pc \in {"start", "cases"} => run[x].pc \in {"start", "cases"})
    OBVIOUS
<1>4. ~(i = run[x].iter /\ run[x].pc \in {"start", "cases"})
    <2>1. i \in Int
        BY ReplayFacts DEF IterationIds
    <2> QED BY <1>2, <2>1
<1>5. \A k \in DOMAIN Cases : /\ <<x, i, Cases[k]>> \in DOMAIN judged'
                              /\ judged'[<<x, i, Cases[k]>>] = judged[<<x, i, Cases[k]>>]
    BY <1>2, <1>4
<1>6. {k \in DOMAIN Cases : judged'[<<x, i, Cases[k]>>] = "OK"}
      = {k \in DOMAIN Cases : judged[<<x, i, Cases[k]>>] = "OK"}
    BY <1>5
<1> QED BY <1>1, <1>2, <1>3, <1>5, <1>6

LEMMA ReplayBeside ==
    ASSUME IsAFile, IsAFile', NEW t, Grown(t), Len(t) <= 2, NEW x, SessionInv(x), Untouched(x),
           \A k \in 1 .. Len(t) : t[k].session # x
    PROVE  SessionInv(x)'
<1>1. IsLoop(run[x])' /\ FirstBegun(x)'
    BY DEF SessionInv, Untouched, IsLoop, FirstBegun
<1>2. GivenSoFar(x)'
    BY DEF SessionInv, Untouched, GivenSoFar
<1>3. ASSUME x \notin lost' PROVE Remembered(x)'
    <2>1. Recalled(x) /\ Current(x) /\ Attributed(x) /\ Scored(x)
        BY <1>3 DEF SessionInv, Untouched, Remembered
    <2>2. \A i : Session!HarnessAt(x, i)' = Session!HarnessAt(x, i)
        <3> SUFFICES ASSUME NEW i PROVE Session!HarnessAt(x, i)' = Session!HarnessAt(x, i)
            OBVIOUS
        <3>1. \A k \in 1 .. Len(t) : Beside(t[k], x)
            BY DEF Beside
        <3> QED BY <3>1, HarnessStays
    <2>3. Recalled(x)'
        BY <2>1, <2>2 DEF Recalled, Recalls, Known, Untouched, IterationIds
    <2>4. Current(x)'
        BY <2>1, CurrentStays DEF Untouched
    <2>5. Attributed(x)'
        BY <2>1, AttributedStays DEF Untouched, Ends
    <2>6. Scored(x)'
        BY <2>1, ScoredStays DEF Untouched, Ends
    <2> QED BY <2>3, <2>4, <2>5, <2>6 DEF Remembered
<1> QED BY <1>1, <1>2, <1>3 DEF SessionInv

LEMMA ReplayCloses ==
    ASSUME ReplayInv, IsAFile', run' = [x \in SessionIds |-> run'[x]],
           NEW s \in SessionIds, SessionInv(s)', NEW t, Grown(t), Len(t) <= 2,
           \A k \in 1 .. Len(t) : t[k].session = s,
           \A x \in SessionIds : x # s => Untouched(x)
    PROVE  ReplayInv'
<1>1. ASSUME NEW x \in SessionIds, x # s PROVE SessionInv(x)'
    <2>1. IsAFile /\ SessionInv(x) /\ Untouched(x)
        BY <1>1 DEF ReplayInv
    <2>2. \A k \in 1 .. Len(t) : t[k].session # x
        BY <1>1
    <2> QED BY <2>1, <2>2, ReplayBeside
<1> QED BY <1>1 DEF ReplayInv

(* A loop that has changed as a record that was given.                     *)
LEMMA LoopFields ==
    ASSUME ReplayInv, NEW s \in SessionIds, NEW w, run' = [run EXCEPT ![s] = w]
    PROVE  /\ run'[s] = w /\ run' = [x \in SessionIds |-> run'[x]]
           /\ \A x \in SessionIds : x # s => run'[x] = run[x]
BY DEF ReplayInv

LEMMA ReplayBegin ==
    ASSUME ReplayInv, NEW s \in SessionIds, Session!Begin(s) PROVE ReplayInv'
<1> DEFINE w == run[s]
           e == Session!Started(s, w.iter)
<1>1. /\ w.pc = "start" /\ run' = [run EXCEPT ![s] = [w EXCEPT !.pc = "cases", !.verdicts = <<>>]]
      /\ ran' = Session!Put(ran, <<s, w.lineage, w.iter>>, w.harness)
      /\ Session!Publish(s, <<e>>) /\ judged' = judged /\ marred' = marred
    BY DEF Session!Begin
<1>2. IsAFile /\ SessionInv(s) /\ IsLoop(w)
    BY DEF ReplayInv, SessionInv
<1>3. /\ e.session = s /\ e.kind = "iteration" /\ e.status = "start" /\ e.iter = w.iter
    BY DEF Session!Started
<1>4. /\ run'[s].pc = "cases" /\ run'[s].verdicts = <<>> /\ run'[s].lineage = w.lineage
      /\ run'[s].iter = w.iter /\ run'[s].harness = w.harness /\ IsLoop(run'[s])
      /\ run' = [x \in SessionIds |-> run'[x]]
      /\ \A x \in SessionIds : x # s => run'[x] = run[x]
    <2>1. /\ run'[s] = [w EXCEPT !.pc = "cases", !.verdicts = <<>>]
          /\ run' = [x \in SessionIds |-> run'[x]]
          /\ \A x \in SessionIds : x # s => run'[x] = run[x]
        BY <1>1, LoopFields
    <2>2. run'[s] = [pc |-> "cases", lineage |-> w.lineage, iter |-> w.iter,
                     harness |-> w.harness, best |-> w.best, score |-> w.score,
                     verdicts |-> <<>>]
        BY <1>2, <2>1 DEF IsLoop
    <2>3. <<>> \in Seq(VerdictKinds) /\ Len(<<>>) <= Len(Cases)
        BY ReplayFacts
    <2> QED BY <1>2, <2>1, <2>2, <2>3 DEF IsLoop
<1> HIDE DEF w, e
<1>5. /\ DOMAIN ran' = DOMAIN ran \cup {<<s, w.lineage, w.iter>>}
      /\ ran'[<<s, w.lineage, w.iter>>] = w.harness
      /\ \A p \in DOMAIN ran : p # <<s, w.lineage, w.iter>> => ran'[p] = ran[p]
    BY <1>1 DEF Session!Put
<1>6. PICK t : /\ Grown(t) /\ IsAFile' /\ Len(t) <= 1
               /\ \A k \in 1 .. Len(t) : t[k] = e
               /\ s \notin lost' => t = <<e>> /\ s \notin lost
               /\ \A x : x # s => (x \in lost' <=> x \in lost)
    BY <1>1, <1>2, OnePublished DEF e
<1>7. w.iter \in Nat /\ w.lineage \in Nat
    BY <1>2, ReplayFacts DEF IsLoop, IterationIds
<1>8. FirstBegun(s)'
    <2>1. FirstBegun(s) /\ DOMAIN w.harness = Fields
        BY <1>2 DEF SessionInv, IsLoop
    <2> QED BY <1>1, <1>4, <1>5, <1>7, <2>1 DEF FirstBegun, w
<1>9. GivenSoFar(s)'
    BY <1>4 DEF GivenSoFar
<1>10. ASSUME s \notin lost' PROVE Remembered(s)'
    <2>1. t = <<e>> /\ Len(t) = 1 /\ t[1] = e
          /\ Recalled(s) /\ Current(s) /\ Attributed(s) /\ Scored(s)
        BY <1>2, <1>6, <1>10 DEF SessionInv, Remembered
    <2>2. \A i : Session!HarnessAt(s, i)' = Session!HarnessAt(s, i)
        <3> SUFFICES ASSUME NEW i PROVE Session!HarnessAt(s, i)' = Session!HarnessAt(s, i)
            OBVIOUS
        <3>1. Len(t) <= 2 /\ \A k \in 1 .. Len(t) : Beside(t[k], s)
            BY <1>3, <2>1 DEF Beside
        <3> QED BY <1>2, <1>6, <3>1, HarnessStays
    <2>3. Recalled(s)'
        <3> SUFFICES ASSUME NEW i \in IterationIds PROVE Recalls(s, i)'
            BY DEF Recalled
        <3> DEFINE b == Session!HarnessAt(s, i)
        <3>1. /\ IsBuilt(b)
              /\ (w.lineage = 1 /\ i >= w.iter) =>
                    b.over = FALSE /\ (Known(s, i) => b.harness = w.harness)
              /\ (w.lineage = 1 /\ i < w.iter) => b.over = TRUE
              /\ <<s, 1, i + 1>> \in DOMAIN ran => b.over = TRUE
              /\ (/\ <<s, 1, i>> \in DOMAIN ran /\ Known(s, i)
                  /\ w.lineage = 1 \/ <<s, 1, i + 1>> \in DOMAIN ran) =>
                    b.harness = ran[<<s, 1, i>>]
            BY <1>1, <2>1 DEF Recalled, Recalls, w
        <3>2. i \in Int /\ i >= 0
            BY ReplayFacts DEF IterationIds
        <3> HIDE DEF b
        <3>3. <<s, 1, i + 1>> \in DOMAIN ran' =>
                  <<s, 1, i + 1>> \in DOMAIN ran \/ (w.lineage = 1 /\ w.iter = i + 1)
            BY <1>5
        <3>4. <<s, 1, i>> \in DOMAIN ran' =>
                 \/ w.lineage = 1 /\ w.iter = i /\ ran'[<<s, 1, i>>] = w.harness
                 \/ <<s, 1, i>> \in DOMAIN ran /\ ran'[<<s, 1, i>>] = ran[<<s, 1, i>>]
            BY <1>5
        <3>5. <<s, 1, i + 1>> \in DOMAIN ran' => b.over = TRUE
            BY <1>7, <3>1, <3>2, <3>3
        <3>6. (/\ <<s, 1, i>> \in DOMAIN ran' /\ Known(s, i)
               /\ w.lineage = 1 \/ <<s, 1, i + 1>> \in DOMAIN ran') =>
                  b.harness = ran'[<<s, 1, i>>]
            BY <1>7, <3>1, <3>2, <3>3, <3>4
        <3>7. Session!HarnessAt(s, i)' = b /\ (Known(s, i)' <=> Known(s, i))
            BY <1>1, <2>2 DEF Known, b
        <3> QED BY <1>4, <3>1, <3>5, <3>6, <3>7 DEF Recalls
    <2>4. Current(s)'
        <3>1. Len(file) \in Nat /\ Len(file') = Len(file) + 1 /\ file'[Len(file) + 1] = e
            BY <1>2, <1>6, <2>1, FileFacts DEF Grown
        <3>2. Len(file') \in 1 .. Len(file') /\ Len(file') + 1 .. Len(file') = {}
              /\ file'[Len(file')] = e
            BY <3>1
        <3> QED BY <1>3, <1>4, <3>2 DEF Current
    <2>5. Attributed(s)'
        <3>1. \A k \in 1 .. Len(t) : ~Ends(t[k], s, "sandbox")
            BY <1>3, <2>1 DEF Ends
        <3> QED BY <1>1, <1>2, <1>6, <2>1, <3>1, AttributedStays
    <2>6. Scored(s)'
        <3>1. \A k \in 1 .. Len(t) : ~Ends(t[k], s, "iteration")
            BY <1>3, <2>1 DEF Ends
        <3> QED BY <1>1, <1>2, <1>4, <1>6, <2>1, <3>1, ScoredStays DEF w
    <2> QED BY <2>3, <2>4, <2>5, <2>6 DEF Remembered
<1>11. SessionInv(s)'
    BY <1>4, <1>8, <1>9, <1>10 DEF SessionInv
<1>12. \A x \in SessionIds : x # s => Untouched(x)
    BY <1>1, <1>4, <1>5, <1>6 DEF Untouched
<1>13. Len(t) <= 2 /\ \A k \in 1 .. Len(t) : t[k].session = s
    BY <1>3, <1>6 DEF Grown
<1> QED BY <1>4, <1>6, <1>11, <1>12, <1>13, ReplayCloses

(* A session that goes on with the same harness in the same iteration,     *)
(* whatever it tells of a case, remembers what it did.                     *)
LEMMA RecalledStays ==
    ASSUME IsAFile, NEW t, Grown(t), Len(t) <= 2, NEW x, Recalled(x),
           \A k \in 1 .. Len(t) : Beside(t[k], x),
           run'[x].lineage = 1 =>
               /\ run[x].lineage = 1 /\ run'[x].iter = run[x].iter
               /\ run'[x].pc \in {"start", "cases"} =>
                     run[x].pc \in {"start", "cases"} /\ run'[x].harness = run[x].harness,
           ran' = ran, <<x, 1>> \in marred' <=> <<x, 1>> \in marred
    PROVE  Recalled(x)'
<1> SUFFICES ASSUME NEW i \in IterationIds PROVE Recalls(x, i)'
    BY DEF Recalled
<1>1. Session!HarnessAt(x, i)' = Session!HarnessAt(x, i)
    BY HarnessStays
<1>2. Recalls(x, i)
    BY DEF Recalled
<1>3. Known(x, i)' <=> Known(x, i)
    BY <1>1 DEF Known
<1> QED BY <1>1, <1>2, <1>3 DEF Recalls

(* An event that ends in an iteration that the session is in.              *)
LEMMA ActiveNow ==
    ASSUME IsAFile', NEW x, Current(x)', run'[x].pc = "cases",
           file'[Len(file')].session = x, Len(file') \in Nat
    PROVE  ActiveIn(file', Len(file')) = run'[x].iter
<1>1. PICK m \in 1 .. Len(file') :
          /\ file'[m].session = x /\ file'[m].kind = "iteration" /\ file'[m].iter = run'[x].iter
          /\ \A n \in m + 1 .. Len(file') : file'[n].session # x \/ file'[n].kind # "iteration"
    BY DEF Current
<1> QED BY <1>1, ActiveIs

LEMMA AttributedGrows ==
    ASSUME IsAFile, IsAFile', NEW t, Grown(t), Len(t) = 2, NEW x, NEW c, NEW v, NEW iter,
           Attributed(x), c \in {Cases[k] : k \in DOMAIN Cases},
           ~Ends(t[1], x, "sandbox"), Ends(t[2], x, "sandbox"),
           t[2].case = c, t[2].verdict = v, ActiveIn(file', Len(file')) = iter,
           judged' = Session!Put(judged, <<x, iter, c>>, v)
    PROVE  Attributed(x)'
<1> SUFFICES ASSUME NEW i \in IterationIds, NEW k \in DOMAIN Cases
             PROVE  /\ EndsOf(x, i, Cases[k])' = {} <=> <<x, i, Cases[k]>> \notin DOMAIN judged'
                    /\ \A n \in EndsOf(x, i, Cases[k])' :
                          (\A m \in EndsOf(x, i, Cases[k])' : m <= n) =>
                              file'[n].verdict = judged'[<<x, i, Cases[k]>>]
    BY DEF Attributed
<1> DEFINE n == Len(file')
<1>1. /\ Session!Final(x, i, "sandbox")' = Session!Final(x, i, "sandbox")
             \cup (IF iter = i THEN {n} ELSE {})
      /\ \A m \in Session!Final(x, i, "sandbox") :
            m \in 1 .. Len(file) /\ m < n /\ file'[m] = file[m]
      /\ file'[n] = t[2] /\ n \in 1 .. n
    <2> HIDE DEF n
    <2>2. Session!Final(x, i, "sandbox")' = Session!Final(x, i, "sandbox")
             \cup (IF ActiveIn(file', Len(file')) = i THEN {Len(file')} ELSE {})
        BY EndsAddTwo
    <2> USE DEF n
    <2>3. /\ Len(file) \in Nat /\ Len(file') = Len(file) + 2 /\ file'[Len(file) + 2] = t[2]
          /\ \A j \in 1 .. Len(file) : file'[j] = file[j]
        BY FileFacts DEF Grown
    <2>4. \A m \in Session!Final(x, i, "sandbox") : m \in 1 .. Len(file)
        BY FinalIs
    <2> QED BY <2>2, <2>3, <2>4
<1> HIDE DEF n
<1>2. /\ EndsOf(x, i, Cases[k])' = EndsOf(x, i, Cases[k])
             \cup (IF iter = i /\ Cases[k] = c THEN {n} ELSE {})
      /\ \A m \in EndsOf(x, i, Cases[k]) : m \in 1 .. Len(file) /\ m < n /\ file'[m] = file[m]
    BY <1>1 DEF EndsOf
<1>3. /\ EndsOf(x, i, Cases[k]) = {} <=> <<x, i, Cases[k]>> \notin DOMAIN judged
      /\ \A m \in EndsOf(x, i, Cases[k]) :
            (\A j \in EndsOf(x, i, Cases[k]) : j <= m) =>
                file[m].verdict = judged[<<x, i, Cases[k]>>]
    BY DEF Attributed
<1> HIDE DEF EndsOf
<1>4. CASE iter = i /\ Cases[k] = c
    <2>1. <<x, i, Cases[k]>> \in DOMAIN judged' /\ judged'[<<x, i, Cases[k]>>] = v
        BY <1>4 DEF Session!Put
    <2>2. EndsOf(x, i, Cases[k])' = EndsOf(x, i, Cases[k]) \cup {n}
        BY <1>2, <1>4
    <2>3. ASSUME NEW m \in EndsOf(x, i, Cases[k])', \A j \in EndsOf(x, i, Cases[k])' : j <= m
          PROVE  m = n
        <3>1. n <= m /\ (m = n \/ (m \in Int /\ m < n))
            BY <1>2, <2>2, <2>3
        <3>2. n \in Int
            BY LenProperties DEF IsAFile, n
        <3> QED BY <3>1, <3>2
    <2> QED BY <1>1, <2>1, <2>2, <2>3
<1>5. CASE ~(iter = i /\ Cases[k] = c)
    <2>1. EndsOf(x, i, Cases[k])' = EndsOf(x, i, Cases[k])
        BY <1>2, <1>5
    <2>2. <<x, i, Cases[k]>> # <<x, iter, c>>
        BY <1>5
    <2>3. /\ <<x, i, Cases[k]>> \in DOMAIN judged' <=> <<x, i, Cases[k]>> \in DOMAIN judged
          /\ <<x, i, Cases[k]>> \in DOMAIN judged =>
                judged'[<<x, i, Cases[k]>>] = judged[<<x, i, Cases[k]>>]
        BY <2>2 DEF Session!Put
    <2> QED BY <1>2, <1>3, <2>1, <2>3
<1> QED BY <1>4, <1>5

LEMMA ReplayCase ==
    ASSUME ReplayInv, NEW s \in SessionIds, Session!RunCase(s) PROVE ReplayInv'
<1> DEFINE w == run[s]
           n == Len(w.verdicts)
           c == Cases[n + 1]
           d == Session!Dispatched(s, c)
<1>1. PICK v \in VerdictKinds :
          /\ w.pc = "cases" /\ n < Len(Cases)
          /\ run' = [run EXCEPT ![s] = [w EXCEPT !.verdicts = Append(w.verdicts, v)]]
          /\ judged' = Session!Put(judged, <<s, w.iter, c>>, v)
          /\ Session!Publish(s, <<d, Session!Judged(s, c, v)>>)
          /\ ran' = ran /\ marred' = marred
    BY DEF Session!RunCase
<1> DEFINE e == Session!Judged(s, c, v)
<1>2. IsAFile /\ SessionInv(s) /\ IsLoop(w)
    BY DEF ReplayInv, SessionInv
<1>3. /\ d.session = s /\ d.kind = "sandbox" /\ d.status = "dispatch"
      /\ e.session = s /\ e.kind = "sandbox" /\ e.status = "complete"
      /\ e.case = c /\ e.verdict = v
    BY DEF Session!Dispatched, Session!Judged
<1>4. /\ run'[s].pc = "cases" /\ run'[s].verdicts = Append(w.verdicts, v)
      /\ run'[s].lineage = w.lineage /\ run'[s].iter = w.iter /\ run'[s].harness = w.harness
      /\ IsLoop(run'[s]) /\ run' = [x \in SessionIds |-> run'[x]]
      /\ \A x \in SessionIds : x # s => run'[x] = run[x]
    <2>1. /\ run'[s] = [w EXCEPT !.verdicts = Append(w.verdicts, v)]
          /\ run' = [x \in SessionIds |-> run'[x]]
          /\ \A x \in SessionIds : x # s => run'[x] = run[x]
        BY <1>1, LoopFields
    <2>2. run'[s] = [pc |-> w.pc, lineage |-> w.lineage, iter |-> w.iter,
                     harness |-> w.harness, best |-> w.best, score |-> w.score,
                     verdicts |-> Append(w.verdicts, v)]
        BY <1>2, <2>1 DEF IsLoop
    <2>3. /\ Append(w.verdicts, v) \in Seq(VerdictKinds)
          /\ Len(Append(w.verdicts, v)) <= Len(Cases)
        BY <1>1, <1>2, ReplayFacts, Appended DEF IsLoop
    <2> QED BY <1>1, <1>2, <2>1, <2>2, <2>3 DEF IsLoop
<1>5. /\ n \in Nat /\ n + 1 \in DOMAIN Cases
      /\ Len(run'[s].verdicts) = n + 1 /\ run'[s].verdicts[n + 1] = v
      /\ \A k \in 1 .. n : run'[s].verdicts[k] = w.verdicts[k]
    <2>1. w.verdicts \in Seq(VerdictKinds)
        BY <1>2 DEF IsLoop
    <2> QED BY <1>1, <1>4, <2>1, ReplayFacts, Appended
<1> HIDE DEF w, d, e
<1>6. PICK t : /\ Grown(t) /\ IsAFile' /\ Len(t) <= 2
               /\ \A k \in 1 .. Len(t) : t[k] \in {d, e}
               /\ s \notin lost' => t = <<d, e>> /\ s \notin lost
               /\ \A x : x # s => (x \in lost' <=> x \in lost)
    BY <1>1, <1>2, TwoPublished DEF e
<1> HIDE DEF n, c
<1>7. /\ DOMAIN judged' = DOMAIN judged \cup {<<s, w.iter, c>>}
      /\ judged'[<<s, w.iter, c>>] = v
      /\ \A p \in DOMAIN judged : p # <<s, w.iter, c>> => judged'[p] = judged[p]
    BY <1>1 DEF Session!Put
<1>8. FirstBegun(s)'
    <2>1. FirstBegun(s)
        BY <1>2 DEF SessionInv
    <2> QED BY <1>1, <1>4, <2>1 DEF FirstBegun, w
<1>9. GivenSoFar(s)'
    <2> SUFFICES ASSUME NEW k \in 1 .. n + 1
                 PROVE  /\ <<s, w.iter, Cases[k]>> \in DOMAIN judged'
                        /\ judged'[<<s, w.iter, Cases[k]>>] = run'[s].verdicts[k]
        BY <1>4, <1>5 DEF GivenSoFar
    <2>1. CASE k = n + 1
        BY <1>5, <1>7, <2>1 DEF c
    <2>2. CASE k # n + 1
        <3>1. k \in 1 .. n /\ k \in DOMAIN Cases
            BY <1>5, <2>2, ReplayFacts
        <3>2. Cases[k] # c
            BY <1>5, <2>2, <3>1, ReplayFacts DEF c
        <3>3. <<s, w.iter, Cases[k]>> \in DOMAIN judged
              /\ judged[<<s, w.iter, Cases[k]>>] = w.verdicts[k]
            BY <1>1, <1>2, <3>1 DEF SessionInv, GivenSoFar, w, n
        <3>4. <<s, w.iter, Cases[k]>> # <<s, w.iter, c>>
            BY <3>2
        <3> QED BY <1>5, <1>7, <3>1, <3>3, <3>4
    <2> QED BY <2>1, <2>2
<1>10. ASSUME s \notin lost' PROVE Remembered(s)'
    <2>1. t = <<d, e>> /\ Len(t) = 2 /\ t[1] = d /\ t[2] = e
          /\ Recalled(s) /\ Current(s) /\ Attributed(s) /\ Scored(s)
        BY <1>2, <1>6, <1>10 DEF SessionInv, Remembered
    <2>2. \A k \in 1 .. Len(t) : t[k].kind = "sandbox"
        BY <1>3, <1>6
    <2>3. Recalled(s)'
        <3>1. \A k \in 1 .. Len(t) : Beside(t[k], s)
            BY <2>2 DEF Beside
        <3> QED BY <1>1, <1>2, <1>4, <1>6, <2>1, <3>1, RecalledStays DEF w
    <2>4. Current(s)'
        BY <1>1, <1>2, <1>4, <1>6, <2>1, <2>2, CurrentStays DEF w
    <2>5. Attributed(s)'
        <3>1. Len(file') \in Nat /\ file'[Len(file')] = e
            <4>1. Len(file) \in Nat /\ Len(file') = Len(file) + 2 /\ file'[Len(file) + 2] = e
                BY <1>2, <1>6, <2>1, FileFacts DEF Grown
            <4> QED BY <4>1
        <3>2. ActiveIn(file', Len(file')) = w.iter
            BY <1>3, <1>4, <1>6, <2>4, <3>1, ActiveNow
        <3>3. c \in {Cases[k] : k \in DOMAIN Cases}
            BY <1>5 DEF c
        <3>4. ~Ends(t[1], s, "sandbox") /\ Ends(t[2], s, "sandbox")
              /\ t[2].case = c /\ t[2].verdict = v
            BY <1>3, <2>1 DEF Ends
        <3> QED BY <1>1, <1>2, <1>6, <2>1, <3>2, <3>3, <3>4, AttributedGrows
    <2>6. Scored(s)'
        <3>1. \A k \in 1 .. Len(t) : ~Ends(t[k], s, "iteration")
            BY <2>2 DEF Ends
        <3>2. CASE w.lineage = 1
            <4>1. \A i \in IterationIds : \A k \in DOMAIN Cases :
                      \/ run[s].lineage = 1 /\ i = run[s].iter /\ run[s].pc \in {"start", "cases"}
                      \/ <<s, i, Cases[k]>> \in DOMAIN judged =>
                            /\ <<s, i, Cases[k]>> \in DOMAIN judged'
                            /\ judged'[<<s, i, Cases[k]>>] = judged[<<s, i, Cases[k]>>]
                BY <1>1, <1>7, <3>2 DEF w
            <4> QED BY <1>1, <1>2, <1>4, <1>6, <2>1, <3>1, <4>1, ScoredStays DEF w
        <3>3. CASE w.lineage # 1
            BY <1>4, <3>3 DEF Scored
        <3> QED BY <3>2, <3>3
    <2> QED BY <2>3, <2>4, <2>5, <2>6 DEF Remembered
<1>11. SessionInv(s)'
    BY <1>4, <1>8, <1>9, <1>10 DEF SessionInv
<1>12. \A x \in SessionIds : x # s => Untouched(x)
    BY <1>1, <1>4, <1>6, <1>7 DEF Untouched
<1>13. \A k \in 1 .. Len(t) : t[k].session = s
    BY <1>3, <1>6
<1> QED BY <1>4, <1>6, <1>11, <1>12, <1>13, ReplayCloses

(* Whatever the improver answers, a harness keeps its fields.              *)
LEMMA FieldsStay ==
    ASSUME NEW h, DOMAIN h = Fields, NEW v, NEW change \in Session!Changes(h, v)
    PROVE  DOMAIN change[1] = Fields
<1>1. \A part, factor : DOMAIN Session!Scaled(h, part, factor) = Fields
    BY DEF Session!Scaled
<1>2. DOMAIN Session!RuleEdit(h, v)[1] = Fields
    BY <1>1 DEF Session!RuleEdit
<1>3. \A e \in Edits : DOMAIN Session!ModelEdit(h, e)[1] = Fields
    BY DEF Session!ModelEdit, Fields
<1>4. \/ change = Session!RuleEdit(h, v)
      \/ \E e \in Edits : change = Session!ModelEdit(h, e)
    BY DEF Session!Changes
<1> QED BY <1>2, <1>3, <1>4

(* A harness with what a delta tells, and what a completed iteration adds  *)
(* to what was rebuilt.                                                    *)
WithTold(h, delta) ==
    [h EXCEPT !.prompt = Session!Told(h, delta, "prompt"),
              !.tools = Session!Told(h, delta, "tools"),
              !.budget = delta.budget @@ h.budget]

Adds(b, e, i, c) ==
    /\ IsBuilt(c)
    /\ b.over = TRUE => c = b
    /\ b.over = FALSE /\ ~(e.iter < i) =>
          c.over = TRUE /\ c.harness = b.harness /\ c.flips = b.flips
    /\ b.over = FALSE /\ e.iter < i =>
          /\ c.over = FALSE /\ c.harness = WithTold(b.harness, e.delta)
          /\ c.flips = 0 => b.flips = 0 /\ ~e.delta.protocol /\ ~e.delta.context

LEMMA RebuiltIs ==
    ASSUME NEW b, IsBuilt(b), NEW e, NEW s, Ends(e, s, "iteration"), NEW i
    PROVE  Adds(b, e, i, Session!Rebuilt(b, e, s, i))
<1> DEFINE c == Session!Rebuilt(b, e, s, i)
           x == IF e.delta.protocol THEN 1 ELSE 0
           y == IF e.delta.context THEN 1 ELSE 0
           h == WithTold(b.harness, e.delta)
<1>1. x \in {0, 1} /\ y \in {0, 1} /\ (x = 0 => ~e.delta.protocol) /\ (y = 0 => ~e.delta.context)
    OBVIOUS
<1>2. Session!Applied(b, e.delta) = [harness |-> h, flips |-> b.flips + x + y, over |-> b.over]
    BY DEF Session!Applied, WithTold
<1>3. c = IF b.over THEN b
          ELSE IF e.iter < i THEN [harness |-> h, flips |-> b.flips + x + y, over |-> b.over]
          ELSE [harness |-> b.harness, flips |-> b.flips, over |-> TRUE]
    <2> HIDE DEF x, y, h
    <2> QED BY <1>2 DEF Session!Rebuilt, Session!Earlier, Ends
<1>4. b.flips + x + y \in Nat /\ (b.flips + x + y = 0 => b.flips = 0 /\ x = 0 /\ y = 0)
    <2>1. b.flips \in Nat
        BY DEF IsBuilt
    <2> HIDE DEF x, y
    <2> QED BY <1>1, <2>1
<1> HIDE DEF c, x, y, h
<1>5. /\ IsBuilt(c)
      /\ b.over = TRUE => c = b
      /\ b.over = FALSE /\ ~(e.iter < i) =>
            c.over = TRUE /\ c.harness = b.harness /\ c.flips = b.flips
      /\ b.over = FALSE /\ e.iter < i =>
            c.over = FALSE /\ c.flips = b.flips + x + y /\ c.harness = h
    BY <1>3, <1>4 DEF IsBuilt
<1>6. Adds(b, e, i, c)
    BY <1>1, <1>4, <1>5 DEF Adds, h
<1> QED BY <1>6 DEF c

(* What is published of an iteration that is over.                         *)
LEMMA CompletedIs ==
    ASSUME IsAFile, NEW s, NEW worse \in BOOLEAN, NEW d, NEW e,
           Session!Publish(s, (IF worse THEN <<d>> ELSE <<>>) \o <<e>>)
    PROVE  \E t : /\ Grown(t) /\ IsAFile' /\ Len(t) <= 2
                  /\ \A k \in 1 .. Len(t) : t[k] \in {d, e}
                  /\ s \notin lost' => /\ s \notin lost /\ Len(t) \in {1, 2} /\ t[Len(t)] = e
                                       /\ Len(t) = 2 => t[1] = d
                  /\ \A x : x # s => (x \in lost' <=> x \in lost)
<1>1. CASE worse
    <2>1. Session!Publish(s, <<d, e>>)
        <3>1. /\ <<d>> \in Seq({d, e}) /\ <<e>> \in Seq({d, e}) /\ <<d, e>> \in Seq({d, e})
              /\ Len(<<d>>) = 1 /\ Len(<<e>>) = 1 /\ Len(<<d, e>>) = 2
              /\ <<d>>[1] = d /\ <<e>>[1] = e /\ <<d, e>>[1] = d /\ <<d, e>>[2] = e
            OBVIOUS
        <3>2. /\ <<d>> \o <<e>> \in Seq({d, e}) /\ Len(<<d>> \o <<e>>) = 2
              /\ \A k \in 1 .. 2 : (<<d>> \o <<e>>)[k]
                                      = IF k <= 1 THEN <<d>>[k] ELSE <<e>>[k - 1]
            BY <3>1, ConcatProperties
        <3>3. \A k \in 1 .. 2 : (<<d>> \o <<e>>)[k] = <<d, e>>[k]
            BY <3>1, <3>2
        <3>4. <<d>> \o <<e>> = <<d, e>>
            BY <3>1, <3>2, <3>3, SeqEqual
        <3> QED BY <1>1, <3>4
    <2>2. PICK t : /\ Grown(t) /\ IsAFile' /\ Len(t) <= 2
                   /\ \A k \in 1 .. Len(t) : t[k] \in {d, e}
                   /\ s \notin lost' => t = <<d, e>> /\ s \notin lost
                   /\ \A x : x # s => (x \in lost' <=> x \in lost)
        BY <2>1, TwoPublished
    <2>3. Len(<<d, e>>) = 2 /\ <<d, e>>[2] = e /\ <<d, e>>[1] = d
        OBVIOUS
    <2> QED BY <2>2, <2>3
<1>2. CASE ~worse
    <2>1. Session!Publish(s, <<e>>)
        <3>1. <<e>> \in Seq({e}) => <<>> \o <<e>> = <<e>>
            BY ConcatEmptySeq
        <3>2. <<e>> \in Seq({e})
            OBVIOUS
        <3> QED BY <1>2, <3>1, <3>2
    <2>2. PICK t : /\ Grown(t) /\ IsAFile' /\ Len(t) <= 1
                   /\ \A k \in 1 .. Len(t) : t[k] = e
                   /\ s \notin lost' => t = <<e>> /\ s \notin lost
                   /\ \A x : x # s => (x \in lost' <=> x \in lost)
        BY <2>1, OnePublished
    <2>3. Len(<<e>>) = 1 /\ <<e>>[1] = e
        OBVIOUS
    <2>4. Len(t) <= 2
        BY <2>2 DEF Grown
    <2> QED BY <2>2, <2>3, <2>4
<1> QED BY <1>1, <1>2

LEMMA ScoredGrows ==
    ASSUME IsAFile, IsAFile', NEW t, Grown(t), Len(t) \in {1, 2}, NEW x \in SessionIds,
           SessionInv(x), Scored(x), run[x].pc = "cases",
           Len(run[x].verdicts) = Len(Cases), judged' = judged,
           Len(t) = 2 => ~Ends(t[1], x, "iteration"), Ends(t[Len(t)], x, "iteration"),
           t[Len(t)].iter = run[x].iter,
           t[Len(t)].score = Session!Number(run[x].verdicts, "OK"),
           run'[x].lineage = run[x].lineage,
           \/ run'[x].pc = "over" /\ run'[x].iter = run[x].iter
           \/ run'[x].iter = run[x].iter + 1
    PROVE  Scored(x)'
<1> DEFINE w == run[x]
           n == Len(file')
           e == t[Len(t)]
<1>1. /\ w.iter \in Nat /\ DOMAIN w.verdicts = DOMAIN Cases /\ Len(file) \in Nat
      /\ Len(file') = Len(file) + Len(t) /\ file'[n] = e
      /\ \A k \in 1 .. Len(file) : file'[k] = file[k]
    <2>1. IsLoop(w)
        BY DEF SessionInv
    <2>2. w.iter \in Nat /\ DOMAIN w.verdicts = DOMAIN Cases
        BY <2>1, ReplayFacts, LenProperties DEF IsLoop, IterationIds
    <2>3. Len(file) \in Nat /\ Len(t) \in Nat /\ Len(file') = Len(file) + Len(t)
          /\ (\A k \in 1 .. Len(file) : file'[k] = file[k])
          /\ \A k \in 1 .. Len(t) : file'[Len(file) + k] = t[k]
        BY FileFacts DEF Grown
    <2>4. Len(t) \in 1 .. Len(t)
        OBVIOUS
    <2>5. file'[n] = e
        BY <2>3, <2>4
    <2> QED BY <2>2, <2>3, <2>5
<1>2. ActiveIn(file', n) = w.iter
    <2>1. n \in Nat /\ n \in 1 .. n /\ n + 1 .. n = {}
        BY <1>1
    <2>2. file'[n].kind = "iteration" /\ file'[n].iter = w.iter
        BY <1>1 DEF Ends
    <2> HIDE DEF n, w
    <2> QED BY <2>1, <2>2, ActiveIs
<1>3. \A i : Session!Final(x, i, "iteration")'
                 = Session!Final(x, i, "iteration") \cup (IF w.iter = i THEN {n} ELSE {})
    <2> SUFFICES ASSUME NEW i
                 PROVE  Session!Final(x, i, "iteration")'
                            = Session!Final(x, i, "iteration") \cup (IF w.iter = i THEN {n} ELSE {})
        OBVIOUS
    <2>1. Session!Final(x, i, "iteration")' = Session!Final(x, i, "iteration")
              \cup (IF ActiveIn(file', Len(file')) = i THEN {Len(file')} ELSE {})
        BY EndsAdd
    <2> QED BY <1>2, <2>1
<1>4. \A i : \A k \in Session!Final(x, i, "iteration") : file'[k] = file[k]
    BY <1>1, FinalIs
<1>5. \A k \in DOMAIN Cases : /\ <<x, w.iter, Cases[k]>> \in DOMAIN judged
                              /\ judged[<<x, w.iter, Cases[k]>>] = w.verdicts[k]
    BY ReplayFacts DEF SessionInv, GivenSoFar
<1>6. e.score = Cardinality({k \in DOMAIN Cases : judged[<<x, w.iter, Cases[k]>>] = "OK"})
    <2>1. {k \in DOMAIN Cases : judged[<<x, w.iter, Cases[k]>>] = "OK"}
          = {k \in DOMAIN w.verdicts : w.verdicts[k] = "OK"}
        BY <1>1, <1>5
    <2> QED BY <2>1, ReplayFacts DEF Session!Number
<1> SUFFICES ASSUME run'[x].lineage = 1, NEW i \in IterationIds,
                    NEW k \in Session!Final(x, i, "iteration")'
             PROVE  /\ i <= run'[x].iter
                    /\ (run'[x].pc \in {"start", "cases"} => i < run'[x].iter)
                    /\ \A j \in DOMAIN Cases : <<x, i, Cases[j]>> \in DOMAIN judged'
                    /\ file'[k].score = Cardinality({j \in DOMAIN Cases :
                                              judged'[<<x, i, Cases[j]>>] = "OK"})
    BY DEF Scored
<1> HIDE DEF w, n, e
<1>7. i \in Int
    BY ReplayFacts DEF IterationIds
<1>8. CASE k = n /\ w.iter = i
    BY <1>1, <1>5, <1>6, <1>8 DEF w
<1>9. CASE k \in Session!Final(x, i, "iteration")
    <2>1. /\ i < w.iter /\ file'[k] = file[k]
          /\ \A j \in DOMAIN Cases : <<x, i, Cases[j]>> \in DOMAIN judged
          /\ file[k].score = Cardinality({j \in DOMAIN Cases : judged[<<x, i, Cases[j]>>] = "OK"})
        BY <1>4, <1>9 DEF Scored, w
    <2> QED BY <1>1, <1>7, <2>1 DEF w
<1> QED BY <1>3, <1>8, <1>9

(* The next harness is rebuilt from the delta, unless that hides some of   *)
(* the change.                                                             *)
LEMMA RecalledGrows ==
    ASSUME IsAFile, NEW t, Grown(t), Len(t) \in {1, 2}, NEW x \in SessionIds,
           SessionInv(x), Recalled(x), run[x].pc = "cases",
           Len(t) = 2 => Beside(t[1], x), Ends(t[Len(t)], x, "iteration"),
           t[Len(t)].iter = run[x].iter, NEW change, t[Len(t)].delta = change[2],
           run'[x].lineage = run[x].lineage, run'[x].harness = change[1],
           \/ run'[x].pc = "over" /\ run'[x].iter = run[x].iter
           \/ run'[x].pc = "start" /\ run'[x].iter = run[x].iter + 1,
           ran' = ran,
           <<x, 1>> \notin marred' =>
               /\ <<x, 1>> \notin marred
               /\ run[x].lineage = 1 => Session!Honest(run[x].harness, change)
    PROVE  Recalled(x)'
<1> SUFFICES ASSUME NEW i \in IterationIds PROVE Recalls(x, i)'
    BY DEF Recalled
<1> DEFINE w == run[x]
           e == t[Len(t)]
           b == Session!HarnessAt(x, i)
           c == Session!Rebuilt(b, e, x, i)
<1>1. Session!HarnessAt(x, i)' = c
    BY HarnessAdds
<1>2. /\ IsBuilt(b)
      /\ (w.lineage = 1 /\ i >= w.iter) =>
            b.over = FALSE /\ (Known(x, i) => b.harness = w.harness)
      /\ (w.lineage = 1 /\ i < w.iter) => b.over = TRUE
      /\ <<x, 1, i + 1>> \in DOMAIN ran => b.over = TRUE
      /\ (/\ <<x, 1, i>> \in DOMAIN ran /\ Known(x, i)
          /\ w.lineage = 1 \/ <<x, 1, i + 1>> \in DOMAIN ran) =>
            b.harness = ran[<<x, 1, i>>]
    BY DEF Recalled, Recalls
<1>3. /\ IsBuilt(c)
      /\ b.over = TRUE => c = b
      /\ b.over = FALSE /\ ~(e.iter < i) =>
            c.over = TRUE /\ c.harness = b.harness /\ c.flips = b.flips
      /\ b.over = FALSE /\ e.iter < i =>
            /\ c.over = FALSE
            /\ c.flips = 0 => b.flips = 0 /\ ~e.delta.protocol /\ ~e.delta.context
            /\ c.harness = WithTold(b.harness, e.delta)
    <2>1. IsBuilt(b) /\ Ends(e, x, "iteration")
        BY <1>2
    <2> HIDE DEF b, e
    <2>2. Adds(b, e, i, c)
        BY <2>1, RebuiltIs
    <2> HIDE DEF c
    <2> QED BY <2>2 DEF Adds
<1>4. /\ w.iter \in Nat /\ i \in Nat
      /\ w.lineage = 1 => \A j \in Nat : <<x, 1, j>> \in DOMAIN ran => j <= w.iter
      /\ e.iter = w.iter /\ e.delta = change[2]
    <2>1. w.iter \in Nat /\ i \in Nat
        BY ReplayFacts DEF SessionInv, IsLoop, IterationIds
    <2> QED BY <2>1 DEF SessionInv, FirstBegun
<1>5. Known(x, i) <=> <<x, 1>> \notin marred /\ b.flips = 0
    BY DEF Known
<1>6. Known(x, i)' <=> <<x, 1>> \notin marred' /\ c.flips = 0
    BY <1>1 DEF Known
<1> HIDE DEF w, e, b, c
<1>7. CASE b.over = TRUE
    <2>1. c = b /\ (Known(x, i)' => Known(x, i))
        BY <1>3, <1>5, <1>6, <1>7
    <2>2. ~(w.lineage = 1 /\ i >= w.iter)
        BY <1>2, <1>7
    <2> QED BY <1>1, <1>2, <1>4, <1>7, <2>1, <2>2 DEF Recalls, w
<1>8. CASE b.over = FALSE /\ w.lineage # 1
    <2>1. <<x, 1, i + 1>> \notin DOMAIN ran
        BY <1>2, <1>8
    <2> QED BY <1>1, <1>3, <1>8, <2>1 DEF Recalls, w
<1>9. CASE b.over = FALSE /\ w.lineage = 1 /\ ~(w.iter < i)
    <2>1. i = w.iter /\ c.over = TRUE /\ c.harness = b.harness /\ c.flips = b.flips
        BY <1>2, <1>3, <1>4, <1>9
    <2>2. <<x, 1, i>> \in DOMAIN ran /\ (Known(x, i)' => Known(x, i))
        BY <1>4, <1>5, <1>6, <1>9, <2>1 DEF SessionInv, FirstBegun, w
    <2>3. Known(x, i)' => c.harness = ran[<<x, 1, i>>]
        BY <1>2, <1>9, <2>1, <2>2
    <2>4. ~(run'[x].pc \in {"start", "cases"} /\ i >= run'[x].iter)
        BY <1>4, <2>1 DEF w
    <2> QED BY <1>1, <1>3, <2>1, <2>3, <2>4 DEF Recalls, w
<1>10. CASE b.over = FALSE /\ w.lineage = 1 /\ w.iter < i
    <2>1. <<x, 1, i>> \notin DOMAIN ran /\ <<x, 1, i + 1>> \notin DOMAIN ran
          /\ ~(i < run'[x].iter)
        <3>1. i + 1 \in Nat /\ ~(i <= w.iter) /\ ~(i + 1 <= w.iter)
            BY <1>4, <1>10
        <3>2. ~(i < run'[x].iter)
            BY <1>4, <1>10 DEF w
        <3> QED BY <1>4, <1>10, <3>1, <3>2
    <2>2. ASSUME Known(x, i)' PROVE c.harness = change[1]
        <3>1. /\ Known(x, i) /\ ~change[2].protocol /\ ~change[2].context
              /\ b.harness = w.harness /\ Session!Honest(w.harness, change)
            BY <1>2, <1>3, <1>4, <1>5, <1>6, <1>10, <2>2 DEF w
        <3>2. change[1] = WithTold(w.harness, change[2])
            BY <3>1 DEF Session!Honest, WithTold
        <3>3. c.harness = WithTold(w.harness, change[2])
            BY <1>3, <1>4, <1>10, <3>1
        <3> QED BY <3>2, <3>3
    <2>3. c.over = FALSE
        BY <1>3, <1>4, <1>10
    <2> QED BY <1>1, <1>3, <1>10, <2>1, <2>2, <2>3 DEF Recalls, w
<1>11. b.over \in BOOLEAN
    BY <1>2 DEF IsBuilt
<1> QED BY <1>7, <1>8, <1>9, <1>10, <1>11

LEMMA ReplayImprove ==
    ASSUME ReplayInv, NEW s \in SessionIds, Session!Improve(s) PROVE ReplayInv'
<1> DEFINE w == run[s]
           score == Session!Number(w.verdicts, "OK")
           worse == score < w.score
           from == IF worse THEN w.best ELSE w.harness
           d == Session!Reverted(s, w.iter)
<1>1. PICK change \in Session!Changes(from, w.verdicts), stop \in BOOLEAN :
          /\ w.pc = "cases" /\ Len(w.verdicts) = Len(Cases) /\ (w.iter = MaxIter - 1 => stop)
          /\ run' = [run EXCEPT ![s] =
                       [w EXCEPT !.pc = IF stop THEN "over" ELSE "start",
                                 !.iter = IF stop THEN w.iter ELSE w.iter + 1,
                                 !.harness = change[1],
                                 !.best = IF score > w.score THEN w.harness ELSE w.best,
                                 !.score = IF score > w.score THEN score ELSE w.score]]
          /\ marred' = IF worse \/ ~Session!Honest(from, change)
                       THEN marred \cup {<<s, w.lineage>>} ELSE marred
          /\ Session!Publish(s, (IF worse THEN <<d>> ELSE <<>>)
                                \o <<Session!Completed(s, w.iter, score, change[2])>>)
          /\ ran' = ran /\ judged' = judged
    BY DEF Session!Improve
<1> DEFINE e == Session!Completed(s, w.iter, score, change[2])
<1>2. IsAFile /\ SessionInv(s) /\ IsLoop(w)
    BY DEF ReplayInv, SessionInv
<1>3. /\ d.session = s /\ d.kind = "revert"
      /\ e.session = s /\ e.kind = "iteration" /\ e.status = "complete" /\ e.iter = w.iter
      /\ e.score = score /\ e.delta = change[2]
    BY DEF Session!Reverted, Session!Completed
<1>4. score \in Int
    <2>1. /\ w.verdicts \in Seq(VerdictKinds) /\ Len(w.verdicts) \in Nat
          /\ DOMAIN w.verdicts = 1 .. Len(w.verdicts)
        BY <1>2, LenProperties DEF IsLoop
    <2>2. IsFiniteSet(1 .. Len(w.verdicts))
        <3>1. Len(w.verdicts) \in Int /\ 1 \in Int
            BY <2>1
        <3> HIDE DEF w
        <3> QED BY <3>1, FS_Interval
    <2>3. IsFiniteSet({k \in DOMAIN w.verdicts : w.verdicts[k] = "OK"})
        BY <2>1, <2>2, FS_Subset
    <2> QED BY <2>3, FS_CardinalityType, ReplayFacts DEF Session!Number
<1> HIDE DEF score
<1>5. worse \in BOOLEAN /\ DOMAIN from = Fields /\ (~worse => from = w.harness)
    BY <1>2 DEF IsLoop
<1>6. DOMAIN change[1] = Fields
    <2> HIDE DEF from
    <2> QED BY <1>5, FieldsStay
<1> HIDE DEF worse, from
<1>7. /\ run'[s].pc = (IF stop THEN "over" ELSE "start")
      /\ run'[s].iter = (IF stop THEN w.iter ELSE w.iter + 1)
      /\ run'[s].lineage = w.lineage /\ run'[s].harness = change[1] /\ IsLoop(run'[s])
      /\ run' = [x \in SessionIds |-> run'[x]]
      /\ \A x \in SessionIds : x # s => run'[x] = run[x]
    <2>1. /\ run'[s] = [w EXCEPT !.pc = IF stop THEN "over" ELSE "start",
                                 !.iter = IF stop THEN w.iter ELSE w.iter + 1,
                                 !.harness = change[1],
                                 !.best = IF score > w.score THEN w.harness ELSE w.best,
                                 !.score = IF score > w.score THEN score ELSE w.score]
          /\ run' = [x \in SessionIds |-> run'[x]]
          /\ \A x \in SessionIds : x # s => run'[x] = run[x]
        BY <1>1, LoopFields
    <2>2. run'[s] = [pc |-> IF stop THEN "over" ELSE "start", lineage |-> w.lineage,
                     iter |-> IF stop THEN w.iter ELSE w.iter + 1, harness |-> change[1],
                     best |-> IF score > w.score THEN w.harness ELSE w.best,
                     score |-> IF score > w.score THEN score ELSE w.score,
                     verdicts |-> w.verdicts]
        BY <1>2, <2>1 DEF IsLoop
    <2>3. (IF stop THEN w.iter ELSE w.iter + 1) \in IterationIds
        BY <1>1, <1>2, ReplayFacts DEF IsLoop, IterationIds
    <2> HIDE DEF w
    <2> QED BY <1>2, <1>4, <1>6, <2>1, <2>2, <2>3 DEF IsLoop
<1>8. PICK t : /\ Grown(t) /\ IsAFile' /\ Len(t) <= 2
               /\ \A k \in 1 .. Len(t) : t[k] \in {d, e}
               /\ s \notin lost' => /\ s \notin lost /\ Len(t) \in {1, 2} /\ t[Len(t)] = e
                                    /\ Len(t) = 2 => t[1] = d
               /\ \A x : x # s => (x \in lost' <=> x \in lost)
    <2>1. Session!Publish(s, (IF worse THEN <<d>> ELSE <<>>) \o <<e>>)
        BY <1>1
    <2> HIDE DEF d, e
    <2> QED BY <1>2, <1>5, <2>1, CompletedIs
<1> HIDE DEF w, d, e
<1>9. FirstBegun(s)'
    <2>1. FirstBegun(s) /\ w.iter \in Nat
        BY <1>2, ReplayFacts DEF SessionInv, IsLoop, IterationIds
    <2>2. \A i \in Nat : i < w.iter + 1 <=> i < w.iter \/ i = w.iter
        BY <2>1
    <2> QED BY <1>1, <1>7, <2>1, <2>2 DEF FirstBegun, w
<1>10. GivenSoFar(s)'
    BY <1>7 DEF GivenSoFar
<1>11. \/ run'[s].pc = "over" /\ run'[s].iter = w.iter
       \/ run'[s].pc = "start" /\ run'[s].iter = w.iter + 1
    BY <1>7
<1>12. ASSUME s \notin lost' PROVE Remembered(s)'
    <2>1. /\ Len(t) \in {1, 2} /\ t[Len(t)] = e /\ (Len(t) = 2 => t[1] = d)
          /\ Recalled(s) /\ Current(s) /\ Attributed(s) /\ Scored(s)
        BY <1>2, <1>8, <1>12 DEF SessionInv, Remembered
    <2>2. Ends(t[Len(t)], s, "iteration") /\ (Len(t) = 2 => Beside(t[1], s))
          /\ (Len(t) = 2 => ~Ends(t[1], s, "iteration"))
        BY <1>3, <2>1 DEF Ends, Beside
    <2>3. Recalled(s)'
        <3>1. <<s, 1>> \notin marred' =>
                  /\ <<s, 1>> \notin marred
                  /\ w.lineage = 1 => Session!Honest(w.harness, change)
            BY <1>1, <1>5
        <3>2. t[Len(t)].iter = w.iter /\ t[Len(t)].delta = change[2]
            BY <1>3, <2>1
        <3> QED BY <1>1, <1>2, <1>7, <1>8, <1>11, <2>1, <2>2, <3>1, <3>2, RecalledGrows DEF w
    <2>4. Current(s)'
        BY <1>7 DEF Current
    <2>5. Attributed(s)'
        <3>1. \A k \in 1 .. Len(t) : ~Ends(t[k], s, "sandbox")
            BY <1>3, <1>8 DEF Ends
        <3> QED BY <1>1, <1>2, <1>8, <2>1, <3>1, AttributedStays
    <2>6. Scored(s)'
        <3>1. t[Len(t)].iter = w.iter /\ t[Len(t)].score = Session!Number(w.verdicts, "OK")
            BY <1>3, <2>1 DEF score
        <3>2. \/ run'[s].pc = "over" /\ run'[s].iter = w.iter
              \/ run'[s].iter = w.iter + 1
            BY <1>11
        <3> QED BY <1>1, <1>2, <1>7, <1>8, <2>1, <2>2, <3>1, <3>2, ScoredGrows DEF w
    <2> QED BY <2>3, <2>4, <2>5, <2>6 DEF Remembered
<1>13. SessionInv(s)'
    BY <1>7, <1>9, <1>10, <1>12 DEF SessionInv
<1>14. \A x \in SessionIds : x # s => Untouched(x)
    BY <1>1, <1>7, <1>8 DEF Untouched
<1>15. \A k \in 1 .. Len(t) : t[k].session = s
    BY <1>3, <1>8
<1> QED BY <1>7, <1>8, <1>13, <1>14, <1>15, ReplayCloses

(* A session that leaves its cases, or goes on to the next lineage.        *)
LEMMA ReplayLeaves ==
    ASSUME ReplayInv, NEW s \in SessionIds, NEW t, Grown(t), IsAFile', Len(t) <= 2,
           \A k \in 1 .. Len(t) : /\ t[k].session = s /\ t[k].kind = "sandbox"
                                  /\ \A j \in DOMAIN Cases : t[k].case # Cases[j],
           s \notin lost' => s \notin lost,
           \A x : x # s => (x \in lost' <=> x \in lost),
           ran' = ran, judged' = judged, marred' = marred,
           IsLoop(run'[s]), run' = [x \in SessionIds |-> run'[x]],
           \A x \in SessionIds : x # s => run'[x] = run[x],
           run'[s].pc # "cases",
           run'[s].lineage = 1 =>
               /\ run[s].lineage = 1 /\ run'[s].iter = run[s].iter
               /\ run[s].pc # "start" /\ run'[s].pc # "start"
    PROVE  ReplayInv'
<1>1. IsAFile /\ SessionInv(s)
    BY DEF ReplayInv
<1>2. FirstBegun(s)' /\ GivenSoFar(s)'
    BY <1>1 DEF SessionInv, FirstBegun, GivenSoFar
<1>3. ASSUME s \notin lost' PROVE Remembered(s)'
    <2>1. Recalled(s) /\ Attributed(s) /\ Scored(s)
        BY <1>1, <1>3 DEF SessionInv, Remembered
    <2>2. Recalled(s)'
        <3>1. \A k \in 1 .. Len(t) : Beside(t[k], s)
            BY DEF Beside
        <3>2. run'[s].pc \in {"over", "done"} \/ run'[s].lineage # 1
            BY DEF IsLoop
        <3> QED BY <1>1, <2>1, <3>1, <3>2, RecalledStays
    <2>3. Current(s)'
        BY DEF Current
    <2>4. Attributed(s)'
        <3>1. \A k \in 1 .. Len(t) : Ends(t[k], s, "sandbox") =>
                  \A j \in DOMAIN Cases : t[k].case # Cases[j]
            OBVIOUS
        <3>2. /\ \A i, c : <<s, i, c>> \in DOMAIN judged' <=> <<s, i, c>> \in DOMAIN judged
              /\ \A i, c : <<s, i, c>> \in DOMAIN judged =>
                              judged'[<<s, i, c>>] = judged[<<s, i, c>>]
            OBVIOUS
        <3> QED BY <1>1, <2>1, <3>1, <3>2, AttributedStays
    <2>5. Scored(s)'
        <3>1. \A k \in 1 .. Len(t) : ~Ends(t[k], s, "iteration")
            BY DEF Ends
        <3>2. run'[s].lineage = 1 => run'[s].pc \in {"over", "done"}
            BY DEF IsLoop
        <3>3. \A i \in IterationIds : \A k \in DOMAIN Cases :
                  \/ run[s].lineage = 1 /\ i = run[s].iter /\ run[s].pc \in {"start", "cases"}
                  \/ <<s, i, Cases[k]>> \in DOMAIN judged =>
                        /\ <<s, i, Cases[k]>> \in DOMAIN judged'
                        /\ judged'[<<s, i, Cases[k]>>] = judged[<<s, i, Cases[k]>>]
            OBVIOUS
        <3> QED BY <1>1, <2>1, <3>1, <3>2, <3>3, ScoredStays
    <2> QED BY <2>2, <2>3, <2>4, <2>5 DEF Remembered
<1>4. SessionInv(s)'
    BY <1>2, <1>3 DEF SessionInv
<1>5. \A x \in SessionIds : x # s => Untouched(x)
    BY DEF Untouched
<1> QED BY <1>4, <1>5, ReplayCloses

(* Nothing is written.                                                     *)
LEMMA NothingWritten ==
    ASSUME IsAFile, file' = file
    PROVE  IsAFile' /\ Grown(<<>>) /\ Len(<<>>) = 0
BY FileFacts DEF IsAFile, Grown

(* Its loop goes on without an event, and is in no iteration any more, or  *)
(* in another lineage.                                                     *)
LEMMA ReplayStill ==
    ASSUME ReplayInv, NEW s \in SessionIds, file' = file, lost' = lost,
           ran' = ran, judged' = judged, marred' = marred,
           IsLoop(run'[s]), run' = [x \in SessionIds |-> run'[x]],
           \A x \in SessionIds : x # s => run'[x] = run[x],
           run'[s].pc # "cases",
           run'[s].lineage = 1 =>
               /\ run[s].lineage = 1 /\ run'[s].iter = run[s].iter
               /\ run[s].pc # "start" /\ run'[s].pc # "start"
    PROVE  ReplayInv'
<1>1. IsAFile' /\ Grown(<<>>) /\ Len(<<>>) = 0 /\ 1 .. Len(<<>>) = {}
    BY NothingWritten DEF ReplayInv
<1>2. PICK t : Grown(t) /\ Len(t) = 0 /\ 1 .. Len(t) = {}
    BY <1>1
<1>3. /\ Len(t) <= 2
      /\ \A k \in 1 .. Len(t) : /\ t[k].session = s /\ t[k].kind = "sandbox"
                               /\ \A j \in DOMAIN Cases : t[k].case # Cases[j]
      /\ s \notin lost' => s \notin lost
      /\ \A x : x # s => (x \in lost' <=> x \in lost)
    BY <1>2
<1> QED BY <1>1, <1>2, <1>3, ReplayLeaves

LEMMA ReplayFail ==
    ASSUME ReplayInv, NEW s \in SessionIds, Session!Fail(s) PROVE ReplayInv'
<1> DEFINE w == run[s]
<1>1. /\ w.pc = "cases" /\ run' = [run EXCEPT ![s] = [w EXCEPT !.pc = "over"]]
      /\ file' = file /\ lost' = lost /\ ran' = ran /\ judged' = judged /\ marred' = marred
    BY DEF Session!Fail
<1>2. IsAFile /\ IsLoop(w)
    BY DEF ReplayInv, SessionInv
<1>3. /\ run'[s] = [w EXCEPT !.pc = "over"] /\ run' = [x \in SessionIds |-> run'[x]]
      /\ \A x \in SessionIds : x # s => run'[x] = run[x]
    BY <1>1, LoopFields
<1>4. /\ IsLoop(run'[s]) /\ run'[s].pc = "over" /\ run'[s].lineage = w.lineage
      /\ run'[s].iter = w.iter
    <2>1. run'[s] = [pc |-> "over", lineage |-> w.lineage, iter |-> w.iter,
                     harness |-> w.harness, best |-> w.best, score |-> w.score,
                     verdicts |-> w.verdicts]
        BY <1>2, <1>3 DEF IsLoop
    <2> HIDE DEF w
    <2> QED BY <1>2, <2>1 DEF IsLoop
<1>5. run[s].pc # "start" /\ run'[s].lineage = run[s].lineage /\ run'[s].iter = run[s].iter
    BY <1>1, <1>4
<1>6. file' = file /\ lost' = lost /\ ran' = ran /\ judged' = judged /\ marred' = marred
    BY <1>1
<1> HIDE DEF w
<1> QED BY <1>3, <1>4, <1>5, <1>6, ReplayStill

LEMMA ReplayNextLineage ==
    ASSUME ReplayInv, NEW s \in SessionIds, Session!NextLineage(s) PROVE ReplayInv'
<1> DEFINE w == run[s]
<1>1. /\ run' = [run EXCEPT ![s] = Session!Fresh(w.lineage + 1)]
      /\ file' = file /\ lost' = lost /\ ran' = ran /\ judged' = judged /\ marred' = marred
    BY DEF Session!NextLineage
<1>2. IsAFile /\ w.lineage \in Nat \ {0}
    BY DEF ReplayInv, SessionInv, IsLoop
<1>3. /\ run'[s] = Session!Fresh(w.lineage + 1) /\ run' = [x \in SessionIds |-> run'[x]]
      /\ \A x \in SessionIds : x # s => run'[x] = run[x]
    BY <1>1, LoopFields
<1>4. IsLoop(run'[s]) /\ run'[s].pc = "start" /\ run'[s].lineage # 1
    <2> HIDE DEF w
    <2>1. DOMAIN Session!Base = Fields /\ 0 \in IterationIds /\ <<>> \in Seq(VerdictKinds)
          /\ Len(<<>>) <= Len(Cases) /\ w.lineage + 1 \in Nat \ {0} /\ w.lineage + 1 # 1
        BY <1>2, ReplayFacts DEF Session!Base, Fields, IterationIds
    <2> QED BY <1>3, <2>1 DEF Session!Fresh, IsLoop
<1> QED BY <1>1, <1>3, <1>4, ReplayStill

LEMMA ReplayForeign ==
    ASSUME ReplayInv, NEW s \in SessionIds, Session!RunForeign(s) PROVE ReplayInv'
<1> DEFINE w == run[s]
<1>1. /\ w.pc = "over" /\ run' = [run EXCEPT ![s] = [w EXCEPT !.pc = "done"]]
      /\ ran' = ran /\ judged' = judged /\ marred' = marred
      /\ \/ \E c \in Foreign[s] :
               Session!Publish(s, <<Session!Dispatched(s, c), Session!Judged(s, c, "OK")>>)
         \/ file' = file /\ lost' = lost
    BY DEF Session!RunForeign
<1>2. IsAFile /\ IsLoop(w)
    BY DEF ReplayInv, SessionInv
<1>3. /\ run'[s] = [w EXCEPT !.pc = "done"] /\ run' = [x \in SessionIds |-> run'[x]]
      /\ \A x \in SessionIds : x # s => run'[x] = run[x]
    BY <1>1, LoopFields
<1>4. /\ IsLoop(run'[s]) /\ run'[s].pc = "done" /\ run'[s].lineage = w.lineage
      /\ run'[s].iter = w.iter
    <2>1. run'[s] = [pc |-> "done", lineage |-> w.lineage, iter |-> w.iter,
                     harness |-> w.harness, best |-> w.best, score |-> w.score,
                     verdicts |-> w.verdicts]
        BY <1>2, <1>3 DEF IsLoop
    <2> HIDE DEF w
    <2> QED BY <1>2, <2>1 DEF IsLoop
<1>5. CASE file' = file /\ lost' = lost
    <2> HIDE DEF w
    <2>1. /\ run[s].pc # "start" /\ run'[s].pc # "start" /\ run'[s].pc # "cases"
          /\ run'[s].lineage = run[s].lineage /\ run'[s].iter = run[s].iter
        BY <1>1, <1>4 DEF w
    <2>2. ran' = ran /\ judged' = judged /\ marred' = marred
        BY <1>1
    <2> QED BY <1>3, <1>4, <1>5, <2>1, <2>2, ReplayStill
<1>6. CASE \E c \in Foreign[s] :
              Session!Publish(s, <<Session!Dispatched(s, c), Session!Judged(s, c, "OK")>>)
    <2>1. PICK c \in Foreign[s] :
              Session!Publish(s, <<Session!Dispatched(s, c), Session!Judged(s, c, "OK")>>)
        BY <1>6
    <2> DEFINE d == Session!Dispatched(s, c)
               e == Session!Judged(s, c, "OK")
    <2>2. /\ d.session = s /\ d.kind = "sandbox" /\ d.case = c
          /\ e.session = s /\ e.kind = "sandbox" /\ e.case = c
        BY DEF Session!Dispatched, Session!Judged
    <2>3. PICK t : /\ Grown(t) /\ IsAFile' /\ Len(t) <= 2
                   /\ \A k \in 1 .. Len(t) : t[k] \in {d, e}
                   /\ s \notin lost' => t = <<d, e>> /\ s \notin lost
                   /\ \A x : x # s => (x \in lost' <=> x \in lost)
        <3>1. Session!Publish(s, <<d, e>>)
            BY <2>1
        <3> HIDE DEF d, e
        <3> QED BY <1>2, <3>1, TwoPublished
    <2> HIDE DEF d, e
    <2>4. \A k \in 1 .. Len(t) : /\ t[k].session = s /\ t[k].kind = "sandbox"
                                 /\ \A j \in DOMAIN Cases : t[k].case # Cases[j]
        BY <2>2, <2>3, ReplayFacts
    <2>5. (s \notin lost' => s \notin lost) /\ (\A x : x # s => (x \in lost' <=> x \in lost))
          /\ Grown(t) /\ IsAFile' /\ Len(t) <= 2
        BY <2>3
    <2>6. /\ run[s].pc # "start" /\ run'[s].pc # "start" /\ run'[s].pc # "cases"
          /\ run'[s].lineage = run[s].lineage /\ run'[s].iter = run[s].iter
        BY <1>1, <1>4
    <2>7. ran' = ran /\ judged' = judged /\ marred' = marred
        BY <1>1
    <2> HIDE DEF w
    <2> QED BY <1>3, <1>4, <2>4, <2>5, <2>6, <2>7, ReplayLeaves
<1> QED BY <1>1, <1>5, <1>6

LEMMA ReplayStay ==
    ASSUME ReplayInv, UNCHANGED <<file, sessionOnly>> PROVE ReplayInv'
<1>1. /\ file' = file /\ run' = run /\ lost' = lost /\ ran' = ran /\ judged' = judged
      /\ marred' = marred
    BY DEF sessionOnly
<1>2. IsAFile' /\ Grown(<<>>) /\ Len(<<>>) = 0 /\ 1 .. Len(<<>>) = {}
    BY <1>1, NothingWritten DEF ReplayInv
<1>3. PICK t : Grown(t) /\ Len(t) <= 2 /\ 1 .. Len(t) = {}
    BY <1>2
<1>4. ASSUME NEW x \in SessionIds PROVE SessionInv(x)'
    <2>1. IsAFile /\ SessionInv(x)
        BY DEF ReplayInv
    <2>2. Untouched(x)
        BY <1>1 DEF Untouched
    <2> QED BY <1>2, <1>3, <2>1, <2>2, ReplayBeside
<1> QED BY <1>1, <1>2, <1>4 DEF ReplayInv

LEMMA ReplayStart == ASSUME Session!Init PROVE ReplayInv
<1>1. /\ run = [x \in SessionIds |-> Session!Fresh(1)] /\ file = <<>> /\ ran = <<>>
      /\ judged = <<>> /\ lost = {} /\ marred = {}
    BY DEF Session!Init
<1>2. IsAFile /\ Len(file) = 0 /\ 1 .. Len(file) = {} /\ DOMAIN ran = {} /\ DOMAIN judged = {}
    BY <1>1 DEF IsAFile
<1>3. \A x, i : Session!HarnessAt(x, i) = Unbuilt
    <2> SUFFICES ASSUME NEW x, NEW i PROVE Session!HarnessAt(x, i) = Unbuilt
        OBVIOUS
    <2> DEFINE f == ReadingOf(file, Len(file), x, i)
    <2>1. Session!HarnessAt(x, i) = f[Len(file)]
        BY DEF Session!HarnessAt, Unbuilt, ReadingOf
    <2>2. f[0] = Unbuilt
        BY <1>2, Readings
    <2> QED BY <1>2, <2>1, <2>2
<1>4. \A x, i, kind : Session!Final(x, i, kind) = {}
    BY <1>2, FinalIs
<1>5. ASSUME NEW x \in SessionIds PROVE SessionInv(x)
    <2> DEFINE w == run[x]
    <2>1. w = Session!Fresh(1)
        BY <1>1
    <2>2. DOMAIN Session!Base = Fields /\ 0 \in IterationIds /\ <<>> \in Seq(VerdictKinds)
          /\ Len(<<>>) <= Len(Cases)
        BY ReplayFacts DEF Session!Base, Fields, IterationIds
    <2>3. IsLoop(w) /\ w.pc = "start" /\ w.lineage = 1 /\ w.iter = 0 /\ w.harness = Session!Base
        BY <2>1, <2>2 DEF Session!Fresh, IsLoop
    <2>4. FirstBegun(x) /\ GivenSoFar(x) /\ Current(x)
        BY <1>2, <2>3 DEF FirstBegun, GivenSoFar, Current
    <2>5. Recalled(x)
        <3> SUFFICES ASSUME NEW i \in IterationIds PROVE Recalls(x, i)
            BY DEF Recalled
        <3>1. i \in Int /\ ~(i < 0)
            BY ReplayFacts DEF IterationIds
        <3>2. /\ IsBuilt(Unbuilt) /\ Unbuilt.over = FALSE
              /\ Unbuilt.harness = Session!Base
            BY DEF Unbuilt, IsBuilt
        <3> QED BY <1>2, <1>3, <2>3, <3>1, <3>2 DEF Recalls
    <2>6. Attributed(x) /\ Scored(x)
        BY <1>2, <1>4 DEF Attributed, Scored, EndsOf
    <2> QED BY <2>3, <2>4, <2>5, <2>6 DEF SessionInv, Remembered
<1> QED BY <1>1, <1>2, <1>5 DEF ReplayInv

(* What is replayed is what ran, but for what the overrides name.          *)
LEMMA FaithfulHolds == ASSUME ReplayInv PROVE Session!ReplayFaithful
<1> SUFFICES ASSUME NEW s \in SessionIds \ lost, NEW i \in IterationIds,
                    NEW specs \in Overrides,
                    Session!Replay(s, i, specs).code = 0,
                    <<s, 1, i>> \in DOMAIN ran, <<s, 1>> \notin marred,
                    run[s].lineage = 1 \/ <<s, 1, i + 1>> \in DOMAIN ran,
                    Session!Replay(s, i, specs).original.flips = 0
             PROVE  /\ Session!Replay(s, i, specs).original.harness = ran[<<s, 1, i>>]
                    /\ \A f \in DOMAIN Session!Base \ {"budget"} :
                          (\A k \in DOMAIN specs : specs[k].field # f)
                             => Session!Replay(s, i, specs).replayed[f] = ran[<<s, 1, i>>][f]
    BY DEF Session!ReplayFaithful, Session!Iterations, IterationIds
<1> DEFINE answer == Session!Replay(s, i, specs)
           b == Session!HarnessAt(s, i)
           h == b.harness
           merged == Session!Merged(specs)
<1>1. answer.original = b /\ answer.replayed = Session!Overridden(h, merged)
    BY DEF Session!Replay, Session!Exit
<1>2. b.harness = ran[<<s, 1, i>>]
    <2>1. Recalls(s, i)
        BY DEF ReplayInv, SessionInv, Remembered, Recalled
    <2>2. Known(s, i)
        BY <1>1 DEF Known
    <2> QED BY <2>1, <2>2 DEF Recalls
<1>3. DOMAIN h = Fields
    <2>1. i \in Nat
        BY ReplayFacts DEF IterationIds
    <2> QED BY <1>2, <2>1 DEF ReplayInv, SessionInv, FirstBegun
<1>4. ASSUME NEW f \in DOMAIN Session!Base \ {"budget"},
             \A k \in DOMAIN specs : specs[k].field # f
      PROVE  Session!Overridden(h, merged)[f] = h[f]
    <2>1. <<f, None>> \notin DOMAIN merged
        BY <1>4 DEF Session!Merged
    <2>2. f \in DOMAIN h /\ f # "budget"
        BY <1>3 DEF Session!Base, Fields
    <2> HIDE DEF h, merged
    <2> QED BY <2>1, <2>2 DEF Session!Overridden
<1> QED BY <1>1, <1>2, <1>4

(* What is read of the verdicts is what they were last, and all of them.   *)
LEMMA ReadVerdicts ==
    ASSUME ReplayInv, NEW s \in SessionIds \ lost, NEW i \in IterationIds, NEW k \in DOMAIN Cases
    PROVE  LET replayed == Session!OriginalVerdicts(s, i)
           IN  /\ Cases[k] \in DOMAIN replayed <=> <<s, i, Cases[k]>> \in DOMAIN judged
               /\ Cases[k] \in DOMAIN replayed => replayed[Cases[k]] = judged[<<s, i, Cases[k]>>]
<1> DEFINE replayed == Session!OriginalVerdicts(s, i)
           c == Cases[k]
           ends == Session!Final(s, i, "sandbox")
           mine == EndsOf(s, i, c)
<1>1. IsAFile /\ Attributed(s)
    BY DEF ReplayInv, SessionInv, Remembered
<1>2. /\ mine = {} <=> <<s, i, c>> \notin DOMAIN judged
      /\ \A n \in mine : (\A m \in mine : m <= n) => file[n].verdict = judged[<<s, i, c>>]
    BY <1>1 DEF Attributed
<1>3. mine = {n \in ends : file[n].case = c}
    BY DEF EndsOf
<1>4. replayed = [x \in {file[n].case : n \in ends} |->
                    file[Session!LastOf({n \in ends : file[n].case = x})].verdict]
    BY DEF Session!OriginalVerdicts
<1>5. Len(file) \in Nat /\ ends \in SUBSET (0 .. Len(file))
    <2>1. Len(file) \in Nat /\ \A n \in 1 .. Len(file) : n \in 0 .. Len(file)
        BY <1>1, FileFacts
    <2> QED BY <1>1, <2>1, FinalIs
<1> HIDE DEF replayed, ends, mine, c
<1>6. c \in DOMAIN replayed <=> mine # {}
    BY <1>3, <1>4
<1>7. ASSUME c \in DOMAIN replayed PROVE replayed[c] = judged[<<s, i, c>>]
    <2>1. mine \in SUBSET (0 .. Len(file)) /\ mine # {}
        BY <1>3, <1>5, <1>6, <1>7
    <2>2. \E m \in mine : \A n \in mine : n <= m
        BY <1>5, <2>1, GreatestOfThem
    <2>3. Session!LastOf(mine) \in mine /\ \A n \in mine : n <= Session!LastOf(mine)
        BY <2>2 DEF Session!LastOf
    <2>4. replayed[c] = file[Session!LastOf(mine)].verdict
        BY <1>3, <1>4, <1>7
    <2> QED BY <1>2, <2>3, <2>4
<1> QED BY <1>2, <1>6, <1>7 DEF replayed, c

LEMMA AttributedHolds == ASSUME ReplayInv PROVE Session!VerdictsAttributed
<1> SUFFICES ASSUME NEW s \in SessionIds \ lost, NEW i \in IterationIds
             PROVE  LET replayed == Session!OriginalVerdicts(s, i)
                        score == Session!AggregateScore(s, i)
                    IN  /\ \A c \in Session!Range(Cases) :
                            /\ c \in DOMAIN replayed <=> <<s, i, c>> \in DOMAIN judged
                            /\ c \in DOMAIN replayed => replayed[c] = judged[<<s, i, c>>]
                        /\ run[s].lineage = 1 /\ score # None =>
                              score = Session!Cardinality({c \in Session!Range(Cases) :
                                                             replayed[c] = "OK"})
    BY DEF Session!VerdictsAttributed, Session!Iterations, IterationIds
<1> DEFINE replayed == Session!OriginalVerdicts(s, i)
           score == Session!AggregateScore(s, i)
           ends == Session!Final(s, i, "iteration")
           K == {k \in DOMAIN Cases : judged[<<s, i, Cases[k]>>] = "OK"}
           C == {c \in Session!Range(Cases) : replayed[c] = "OK"}
<1>0. /\ Session!Range(Cases) = {Cases[k] : k \in DOMAIN Cases}
      /\ Session!Cardinality(C) = Cardinality(C)
    BY ReplayFacts
<1>1. \A c \in Session!Range(Cases) :
          /\ c \in DOMAIN replayed <=> <<s, i, c>> \in DOMAIN judged
          /\ c \in DOMAIN replayed => replayed[c] = judged[<<s, i, c>>]
    BY <1>0, ReadVerdicts
<1>2. ASSUME run[s].lineage = 1, score # None PROVE score = Cardinality(C)
    <2>1. score = IF ends = {} THEN None ELSE file[Session!FirstOf(ends)].score
        BY DEF Session!AggregateScore
    <2>2. ends \in SUBSET Nat
        <3>1. IsAFile
            BY DEF ReplayInv
        <3> QED BY <3>1, FileFacts, FinalIs
    <2>3. /\ \A n \in ends : file[n].score = Cardinality(K)
          /\ ends # {} => \A k \in DOMAIN Cases : <<s, i, Cases[k]>> \in DOMAIN judged
        BY <1>2 DEF ReplayInv, SessionInv, Remembered, Scored
    <2> HIDE DEF replayed, score, ends, K, C
    <2>4. ends # {}
        BY <1>2, <2>1
    <2>5. Session!FirstOf(ends) \in ends
        <3>1. \E m \in ends : \A n \in ends : m <= n
            BY <2>2, <2>4, LeastOfThem
        <3> QED BY <3>1 DEF Session!FirstOf
    <2>6. score = Cardinality(K)
        BY <2>1, <2>3, <2>4, <2>5
    <2>7. \A k \in DOMAIN Cases : replayed[Cases[k]] = judged[<<s, i, Cases[k]>>]
        BY <1>0, <1>1, <2>3, <2>4
    <2>8. IsFiniteSet(K)
        <3>1. Len(Cases) \in Int /\ 1 \in Int /\ DOMAIN Cases = 1 .. Len(Cases)
            BY ReplayFacts
        <3>2. IsFiniteSet(DOMAIN Cases)
            BY <3>1, FS_Interval
        <3> QED BY <3>2, FS_Subset DEF K
    <2> DEFINE f == [k \in K |-> Cases[k]]
    <2>9. f \in Bijection(K, C)
        <3>1. \A k \in K : k \in DOMAIN Cases /\ Cases[k] \in C
            BY <1>0, <2>7 DEF K, C
        <3>2. \A c \in C : \E k \in K : f[k] = c
            BY <1>0, <2>7 DEF K, C
        <3>3. \A k, n \in K : f[k] = f[n] => k = n
            BY <3>1, ReplayFacts
        <3>4. f \in [K -> C]
            BY <3>1
        <3> HIDE DEF f
        <3> QED BY <3>2, <3>3, <3>4 DEF Bijection, Injection, Surjection, IsInjective
    <2> HIDE DEF f
    <2>10. Cardinality(C) = Cardinality(K)
        BY <2>8, <2>9, FS_Bijection DEF ExistsBijection
    <2> QED BY <2>6, <2>10
<1> QED BY <1>0, <1>1, <1>2

SessionTrue == machine = "session" => ReplayInv

(* What is replayed of an iteration is the harness that it ran with, as    *)
(* long as the file has told all of it, and the verdicts shown are the     *)
(* last that it gave, whatever the other sessions write in between         *)
(* (observability/core.py, rsi/loop.py, rsi/replay.py), for any sessions,  *)
(* lineages, cases, improvers, losses and number of iterations.            *)
THEOREM ReplayIsFaithful == Spec => []ReplaySound
<1>1. Init => SessionTrue
    BY ReplayStart DEF Init, SessionTrue
<1>2. SessionTrue /\ [Next]_vars => SessionTrue'
    <2> SUFFICES ASSUME SessionTrue, [Next]_vars PROVE SessionTrue'
        OBVIOUS
    <2>1. CASE SessionNext
        <3>1. machine = "session" /\ machine' = "session" /\ Session!Next /\ ReplayInv
            BY <2>1 DEF SessionNext, BesideSession, SessionTrue
        <3>2. ReplayInv'
            BY <3>1, ReplayBegin, ReplayCase, ReplayImprove, ReplayFail, ReplayForeign,
               ReplayNextLineage DEF Session!Next
        <3> QED BY <3>1, <3>2 DEF SessionTrue
    <2>2. CASE UNCHANGED vars
        <3>1. machine' = machine /\ UNCHANGED <<file, sessionOnly>>
            BY <2>2 DEF vars
        <3> QED BY <3>1, ReplayStay DEF SessionTrue
    <2>3. CASE Next /\ ~SessionNext
        <3>1. machine' = machine /\ machine # "session"
            BY <2>3 DEF Next, PopulationNext, RoundNext, ReportNext, SnapshotNext, TspNext,
               MemoryNext, ScoreNext, DomainNext, SweepNext, BesidePopulation, BesideRound,
               BesideReport, BesideSnapshot, BesideTsp, BesideMemory, BesideScore,
               BesideDomain, BesideSweep
        <3> QED BY <3>1 DEF SessionTrue
    <2> QED BY <2>1, <2>2, <2>3
<1>3. SessionTrue => ReplaySound
    BY FaithfulHolds, AttributedHolds DEF SessionTrue, ReplaySound
<1> QED BY <1>1, <1>2, <1>3, PTL DEF Spec
================================================================================
