----------------------- MODULE SandboxExecution_proofs -----------------------
(***************************************************************************)
(* Neither a microVM nor a process is lost by the sandbox: the pools of    *)
(* any number of executors and users, of any size.                         *)
(***************************************************************************)
EXTENDS SandboxExecution, FiniteSetTheorems, SequenceTheorems, TLAPS

(***************************************************************************)
(* The inductive invariant.  A pool is sound because the number of a VM is *)
(* never used again: every VM it knows has a number up to the counter.     *)
(* While it is made, it holds no more VMs than it tried to make.           *)
(***************************************************************************)
KeptWell(c, stack, out, over) ==
    /\ c \in 0 .. MaxIds /\ over \in 0 .. c
    /\ stack \in Seq(1 .. c) /\ out \in SUBSET (1 .. c)
    /\ IsInjective(stack) /\ ToSet(stack) \cap out = {}
    /\ Len(stack) + Cardinality(out) <= PoolSize + over

WarmingUp(c, stack, out) ==
    c < PoolSize /\ Len(stack) + Cardinality(out) <= c

PoolsKept ==
    /\ counter \in [Owners -> Nat] /\ overdue \in [Owners -> Nat]
    /\ available \in [Owners -> Seq(Ids)] /\ acquired \in [Owners -> SUBSET Ids]
    /\ \A p \in Owners :
          /\ KeptWell(counter[p], available[p], acquired[p], overdue[p])
          /\ pc[p] \in {"New", "Warm"}
                => WarmingUp(counter[p], available[p], acquired[p])

ProcessesType ==
    /\ alive \subseteq Owners \X Ids /\ orphans \subseteq Owners \X Ids
    /\ socket \in [Ids -> Owners \cup {NoOwner}]

Children == [fed : Nat, read : Nat, eof : BOOLEAN, wrote : Nat, drained : Nat,
             exited : BOOLEAN, holder : BOOLEAN]

RunType ==
    /\ pc \in [Owners -> PCs]
    /\ tier \in [Owners -> {"subprocess", "gvisor", "firecracker"}]
    /\ job \in [Owners -> Jobs \cup {NoJob}]
    /\ child \in [Owners -> Children]

Busy == {"Compile", "Acquire", "Holding", "Launch", "Feed", "Poll", "Collect"}

(* An executor that is busy has a job, its pipes hold what they can, and   *)
(* the child runs only while it is fed or polled.                          *)
ChildWell(at, j, c) ==
    /\ at \in Busy => j \in Jobs
    /\ c.read <= c.fed /\ c.drained <= c.wrote
    /\ c.fed - c.read <= PipeSize /\ c.wrote - c.drained <= PipeSize
    /\ at \notin {"Feed", "Poll"} => c.exited

RunKept == RunType /\ \A e \in Executors : ChildWell(pc[e], job[e], child[e])

IInv == PoolsKept /\ ProcessesType /\ ProcessesKnown /\ RunKept
-----------------------------------------------------------------------------
(* Stacks: what Append, Front and Tail make of the elements.                *)
LEMMA Pushed ==
    ASSUME NEW S, NEW s \in Seq(S), NEW x \in S
    PROVE  /\ Append(s, x) \in Seq(S) /\ Len(Append(s, x)) = Len(s) + 1
           /\ ToSet(Append(s, x)) = ToSet(s) \cup {x}
           /\ IsInjective(s) /\ x \notin ToSet(s) => IsInjective(Append(s, x))
<1> DEFINE t == Append(s, x)
<1>1. /\ t \in Seq(S) /\ Len(t) = Len(s) + 1 /\ Len(s) \in Nat
      /\ DOMAIN t = 1 .. Len(s) + 1 /\ DOMAIN s = 1 .. Len(s)
      /\ \A i \in 1 .. Len(s) : t[i] = s[i]
      /\ t[Len(s) + 1] = x
    BY AppendProperties, LenProperties
<1> HIDE DEF t
<1>2. ToSet(t) = ToSet(s) \cup {x}
    <2>1. ASSUME NEW y \in ToSet(t) PROVE y \in ToSet(s) \cup {x}
        <3>1. PICK i \in 1 .. Len(s) + 1 : y = t[i]
            BY <2>1, <1>1 DEF ToSet
        <3>2. CASE i = Len(s) + 1
            BY <3>1, <3>2, <1>1
        <3>3. CASE i \in 1 .. Len(s)
            BY <3>1, <3>3, <1>1 DEF ToSet
        <3> QED BY <3>1, <3>2, <3>3, <1>1
    <2>2. x \in ToSet(t)
        <3>1. Len(s) + 1 \in DOMAIN t
            BY <1>1
        <3> QED BY <3>1, <1>1 DEF ToSet
    <2>3. ASSUME NEW y \in ToSet(s) PROVE y \in ToSet(t)
        <3>1. PICK i \in 1 .. Len(s) : y = s[i]
            BY <2>3, <1>1 DEF ToSet
        <3>2. i \in DOMAIN t /\ y = t[i]
            BY <3>1, <1>1
        <3> QED BY <3>2 DEF ToSet
    <2> QED BY <2>1, <2>2, <2>3
<1>3. ASSUME IsInjective(s), x \notin ToSet(s) PROVE IsInjective(t)
    <2>1. SUFFICES ASSUME NEW i \in 1 .. Len(s) + 1, NEW j \in 1 .. Len(s) + 1, t[i] = t[j]
                   PROVE  i = j
        BY <1>1 DEF IsInjective
    <2>2. \A k \in 1 .. Len(s) : s[k] # x
        BY <1>3, <1>1 DEF ToSet
    <2>3. i \in 1 .. Len(s) \/ i = Len(s) + 1
        BY <1>1
    <2>4. j \in 1 .. Len(s) \/ j = Len(s) + 1
        BY <1>1
    <2>5. CASE i \in 1 .. Len(s) /\ j \in 1 .. Len(s)
        BY <2>1, <2>5, <1>1, <1>3 DEF IsInjective
    <2> QED BY <2>1, <2>2, <2>3, <2>4, <2>5, <1>1
<1> QED BY <1>1, <1>2, <1>3 DEF t

LEMMA Popped ==
    ASSUME NEW S, NEW s \in Seq(S), s # <<>>
    PROVE  /\ Front(s) \in Seq(S) /\ Len(Front(s)) = Len(s) - 1 /\ Last(s) \in S
           /\ ToSet(s) = ToSet(Front(s)) \cup {Last(s)}
           /\ IsInjective(s) => IsInjective(Front(s)) /\ Last(s) \notin ToSet(Front(s))
<1> DEFINE n == Len(s) - 1  t == Front(s)
<1>1. /\ Len(s) \in Nat \ {0} /\ n \in Nat /\ DOMAIN s = 1 .. n + 1
      /\ \A i \in 1 .. n + 1 : s[i] \in S
    BY EmptySeq, LenProperties
<1>2. t \in Seq(S) /\ Len(t) = n /\ \A i \in 1 .. n : t[i] = s[i]
    BY <1>1, SubSeqProperties DEF Front
<1>3. DOMAIN t = 1 .. n /\ Last(s) = s[n + 1]
    BY <1>1, <1>2, LenProperties DEF Last
<1> HIDE DEF t, n
<1>4. ToSet(s) = ToSet(t) \cup {Last(s)}
    <2>1. ASSUME NEW y \in ToSet(s) PROVE y \in ToSet(t) \cup {Last(s)}
        <3>1. PICK i \in 1 .. n + 1 : y = s[i]
            BY <2>1, <1>1 DEF ToSet
        <3>2. CASE i \in 1 .. n
            BY <3>1, <3>2, <1>2, <1>3 DEF ToSet
        <3>3. i \in 1 .. n \/ i = n + 1
            BY <1>1
        <3> QED BY <3>1, <3>2, <3>3, <1>3
    <2>2. Last(s) \in ToSet(s)
        <3>1. n + 1 \in DOMAIN s
            BY <1>1
        <3> QED BY <3>1, <1>3 DEF ToSet
    <2>3. ASSUME NEW y \in ToSet(t) PROVE y \in ToSet(s)
        <3>1. PICK i \in 1 .. n : y = t[i]
            BY <2>3, <1>3 DEF ToSet
        <3>2. i \in DOMAIN s /\ y = s[i]
            BY <3>1, <1>1, <1>2
        <3> QED BY <3>2 DEF ToSet
    <2> QED BY <2>1, <2>2, <2>3
<1>5. ASSUME IsInjective(s) PROVE IsInjective(t) /\ Last(s) \notin ToSet(t)
    <2>1. \A i, j \in 1 .. n + 1 : s[i] = s[j] => i = j
        BY <1>5, <1>1 DEF IsInjective
    <2>2. IsInjective(t)
        BY <2>1, <1>1, <1>2, <1>3 DEF IsInjective
    <2>3. ASSUME NEW i \in 1 .. n PROVE t[i] # Last(s)
        BY <2>1, <1>1, <1>2, <1>3
    <2> QED BY <2>2, <2>3, <1>3 DEF ToSet
<1> QED BY <1>1, <1>2, <1>3, <1>4, <1>5 DEF t, n

LEMMA Shifted ==
    ASSUME NEW S, NEW s \in Seq(S), s # <<>>
    PROVE  /\ Tail(s) \in Seq(S) /\ Len(Tail(s)) = Len(s) - 1 /\ Head(s) \in S
           /\ ToSet(s) = ToSet(Tail(s)) \cup {Head(s)}
           /\ IsInjective(s) => IsInjective(Tail(s)) /\ Head(s) \notin ToSet(Tail(s))
<1> DEFINE n == Len(s) - 1  t == Tail(s)
<1>1. /\ Len(s) \in Nat \ {0} /\ n \in Nat /\ DOMAIN s = 1 .. n + 1
    BY EmptySeq, LenProperties
<1>2. t \in Seq(S) /\ Len(t) = n /\ \A i \in 1 .. n : t[i] = s[i + 1]
    BY HeadTailProperties
<1>3. DOMAIN t = 1 .. n /\ Head(s) = s[1] /\ Head(s) \in S
    BY <1>1, <1>2, LenProperties, HeadTailProperties
<1> HIDE DEF t, n
<1>4. ToSet(s) = ToSet(t) \cup {Head(s)}
    <2>1. ASSUME NEW y \in ToSet(s) PROVE y \in ToSet(t) \cup {Head(s)}
        <3>1. PICK i \in 1 .. n + 1 : y = s[i]
            BY <2>1, <1>1 DEF ToSet
        <3>2. CASE i # 1
            <4>1. i - 1 \in 1 .. n /\ y = t[i - 1]
                BY <3>1, <3>2, <1>1, <1>2
            <4> QED BY <4>1, <1>3 DEF ToSet
        <3> QED BY <3>1, <3>2, <1>3
    <2>2. Head(s) \in ToSet(s)
        <3>1. 1 \in DOMAIN s
            BY <1>1
        <3> QED BY <3>1, <1>3 DEF ToSet
    <2>3. ASSUME NEW y \in ToSet(t) PROVE y \in ToSet(s)
        <3>1. PICK i \in 1 .. n : y = t[i]
            BY <2>3, <1>3 DEF ToSet
        <3>2. i + 1 \in DOMAIN s /\ y = s[i + 1]
            BY <3>1, <1>1, <1>2
        <3> QED BY <3>2 DEF ToSet
    <2> QED BY <2>1, <2>2, <2>3
<1>5. ASSUME IsInjective(s) PROVE IsInjective(t) /\ Head(s) \notin ToSet(t)
    <2>1. \A i, j \in 1 .. n + 1 : s[i] = s[j] => i = j
        BY <1>5, <1>1 DEF IsInjective
    <2>2. IsInjective(t)
        <3>1. SUFFICES ASSUME NEW i \in 1 .. n, NEW j \in 1 .. n, t[i] = t[j]
                       PROVE  i = j
            BY <1>3 DEF IsInjective
        <3>2. i + 1 \in 1 .. n + 1 /\ j + 1 \in 1 .. n + 1 /\ s[i + 1] = s[j + 1]
            BY <3>1, <1>1, <1>2
        <3>3. i + 1 = j + 1
            BY <2>1, <3>2
        <3> QED BY <3>3
    <2>3. ASSUME NEW i \in 1 .. n PROVE t[i] # Head(s)
        <3>1. i + 1 \in 1 .. n + 1 /\ i + 1 # 1 /\ 1 \in 1 .. n + 1
            BY <1>1
        <3> QED BY <2>1, <3>1, <1>2, <1>3
    <2> QED BY <2>2, <2>3, <1>3 DEF ToSet
<1> QED BY <1>1, <1>2, <1>3, <1>4, <1>5 DEF t, n
-----------------------------------------------------------------------------
(* One pool: what each operation makes of a pool that is kept well.         *)
LEMMA Counted ==
    ASSUME NEW c \in Nat, NEW out \in SUBSET (1 .. c)
    PROVE  IsFiniteSet(out) /\ Cardinality(out) \in Nat
<1>1. IsFiniteSet(1 .. c)
    BY FS_Interval
<1>2. IsFiniteSet(out)
    BY <1>1, FS_Subset
<1> QED BY <1>2, FS_CardinalityType

(* The number of a new VM is in no place of the pool.                       *)
LEMMA NewNumber ==
    ASSUME NEW c, NEW s, NEW o, NEW v, KeptWell(c, s, o, v), c < MaxIds
    PROVE  /\ c \in Nat /\ v \in Nat /\ Len(s) \in Nat /\ Cardinality(o) \in Nat
           /\ c + 1 \in 0 .. MaxIds /\ v \in 0 .. c + 1 /\ v + 1 \in 0 .. c + 1
           /\ s \in Seq(1 .. c + 1) /\ c + 1 \in 1 .. c + 1
           /\ o \in SUBSET (1 .. c + 1) /\ o \cup {c + 1} \in SUBSET (1 .. c + 1)
           /\ c + 1 \notin ToSet(s) /\ c + 1 \notin o
           /\ Cardinality(o \cup {c + 1}) = Cardinality(o) + 1
<1>1. c \in Nat /\ v \in Nat /\ s \in Seq(1 .. c) /\ o \in SUBSET (1 .. c)
    BY PoolAssumption DEF KeptWell
<1>2. c + 1 \in 0 .. MaxIds /\ v \in 0 .. c + 1 /\ v + 1 \in 0 .. c + 1
    BY <1>1, PoolAssumption DEF KeptWell
<1>3. 1 .. c \subseteq 1 .. c + 1 /\ c + 1 \in 1 .. c + 1 /\ c + 1 \notin 1 .. c
    BY <1>1
<1>4. s \in Seq(1 .. c + 1)
    BY <1>1, <1>3, SeqMonotonic
<1>5. c + 1 \notin ToSet(s) /\ Len(s) \in Nat
    BY <1>1, <1>3, LenProperties, ElementOfSeq DEF ToSet
<1>6. IsFiniteSet(o) /\ Cardinality(o) \in Nat
    BY <1>1, Counted
<1>7. Cardinality(o \cup {c + 1}) = Cardinality(o) + 1
    BY <1>1, <1>3, <1>6, FS_AddElement
<1> QED BY <1>1, <1>2, <1>3, <1>4, <1>5, <1>6, <1>7

LEMMA GivenUp ==
    ASSUME NEW c, NEW s, NEW o, NEW v, KeptWell(c, s, o, v), c < MaxIds
    PROVE  KeptWell(c + 1, s, o, v)
BY NewNumber DEF KeptWell

LEMMA NewPushed ==
    ASSUME NEW c, NEW s, NEW o, NEW v, KeptWell(c, s, o, v), c < MaxIds,
           Len(s) + Cardinality(o) < PoolSize + v
    PROVE  /\ KeptWell(c + 1, Append(s, c + 1), o, v)
           /\ Len(Append(s, c + 1)) = Len(s) + 1
<1>0. /\ c \in Nat /\ v \in Nat /\ Len(s) \in Nat /\ Cardinality(o) \in Nat
      /\ s \in Seq(1 .. c + 1) /\ c + 1 \in 1 .. c + 1
      /\ c + 1 \notin ToSet(s) /\ c + 1 \notin o
      /\ Cardinality(o \cup {c + 1}) = Cardinality(o) + 1
    BY NewNumber
<1>1. /\ Append(s, c + 1) \in Seq(1 .. c + 1) /\ Len(Append(s, c + 1)) = Len(s) + 1
      /\ ToSet(Append(s, c + 1)) = ToSet(s) \cup {c + 1}
      /\ IsInjective(Append(s, c + 1))
    BY <1>0, Pushed DEF KeptWell
<1>2. ToSet(Append(s, c + 1)) \cap o = {}
    BY <1>0, <1>1 DEF KeptWell
<1>3. Len(s) + 1 + Cardinality(o) <= PoolSize + v
    BY <1>0, PoolAssumption
<1> QED BY <1>1, <1>2, <1>3, NewNumber DEF KeptWell

LEMMA NewTaken ==
    ASSUME NEW c, NEW s, NEW o, NEW v, KeptWell(c, s, o, v), c < MaxIds
    PROVE  /\ Len(s) + Cardinality(o) < PoolSize + v
                 => KeptWell(c + 1, s, o \cup {c + 1}, v)
           /\ KeptWell(c + 1, s, o \cup {c + 1}, v + 1)
<1>0. /\ c \in Nat /\ v \in Nat /\ Len(s) \in Nat /\ Cardinality(o) \in Nat
      /\ s \in Seq(1 .. c + 1) /\ c + 1 \in 1 .. c + 1
      /\ c + 1 \notin ToSet(s) /\ c + 1 \notin o
      /\ Cardinality(o \cup {c + 1}) = Cardinality(o) + 1
    BY NewNumber
<1>1. ToSet(s) \cap (o \cup {c + 1}) = {}
    BY <1>0 DEF KeptWell
<1>2. /\ Len(s) + Cardinality(o) < PoolSize + v
            => Len(s) + Cardinality(o \cup {c + 1}) <= PoolSize + v
      /\ Len(s) + Cardinality(o) <= PoolSize + v
            => Len(s) + Cardinality(o \cup {c + 1}) <= PoolSize + (v + 1)
    BY <1>0, PoolAssumption
<1> QED BY <1>1, <1>2, NewNumber DEF KeptWell

LEMMA Handed ==
    ASSUME NEW c, NEW s, NEW o, NEW v, KeptWell(c, s, o, v), s # <<>>
    PROVE  KeptWell(c, Front(s), o \cup {Last(s)}, v)
<1>1. c \in Nat /\ v \in Nat /\ s \in Seq(1 .. c) /\ o \in SUBSET (1 .. c)
    BY PoolAssumption DEF KeptWell
<1>2. /\ Front(s) \in Seq(1 .. c) /\ Len(Front(s)) = Len(s) - 1 /\ Last(s) \in 1 .. c
      /\ ToSet(s) = ToSet(Front(s)) \cup {Last(s)}
      /\ IsInjective(Front(s)) /\ Last(s) \notin ToSet(Front(s))
    BY <1>1, Popped DEF KeptWell
<1>3. ToSet(Front(s)) \cap (o \cup {Last(s)}) = {} /\ Last(s) \notin o
    BY <1>2 DEF KeptWell
<1>4. /\ Cardinality(o \cup {Last(s)}) = Cardinality(o) + 1
      /\ Cardinality(o) \in Nat /\ Len(s) \in Nat
    BY <1>1, <1>3, Counted, FS_AddElement, LenProperties
<1>5. Len(Front(s)) + Cardinality(o \cup {Last(s)}) = Len(s) + Cardinality(o)
    BY <1>2, <1>4
<1> QED BY <1>1, <1>2, <1>3, <1>5 DEF KeptWell

LEMMA TakenBack ==
    ASSUME NEW c, NEW s, NEW o, NEW v, KeptWell(c, s, o, v), NEW id \in o
    PROVE  /\ KeptWell(c, s, o \ {id}, v)
           /\ Cardinality(o \ {id}) = Cardinality(o) - 1
           /\ KeptWell(c, Append(s, id), o \ {id}, v)
<1>1. /\ c \in Nat /\ v \in Nat /\ s \in Seq(1 .. c) /\ o \in SUBSET (1 .. c)
      /\ id \in 1 .. c /\ id \notin ToSet(s)
    BY PoolAssumption DEF KeptWell
<1>2. /\ Append(s, id) \in Seq(1 .. c) /\ Len(Append(s, id)) = Len(s) + 1
      /\ ToSet(Append(s, id)) = ToSet(s) \cup {id} /\ IsInjective(Append(s, id))
    BY <1>1, Pushed DEF KeptWell
<1>3. /\ Cardinality(o \ {id}) = Cardinality(o) - 1
      /\ Cardinality(o) \in Nat /\ Len(s) \in Nat
    BY <1>1, Counted, FS_RemoveElement, LenProperties
<1>4. /\ Len(s) + Cardinality(o \ {id}) <= PoolSize + v
      /\ Len(Append(s, id)) + Cardinality(o \ {id}) <= PoolSize + v
    BY <1>1, <1>2, <1>3, PoolAssumption DEF KeptWell
<1>5. KeptWell(c, s, o \ {id}, v)
    BY <1>1, <1>4 DEF KeptWell
<1>6. KeptWell(c, Append(s, id), o \ {id}, v)
    BY <1>1, <1>2, <1>4 DEF KeptWell
<1> QED BY <1>3, <1>5, <1>6

LEMMA Dropped ==
    ASSUME NEW c, NEW s, NEW o, NEW v, KeptWell(c, s, o, v), s # <<>>
    PROVE  KeptWell(c, Tail(s), o, v)
<1>1. c \in Nat /\ v \in Nat /\ s \in Seq(1 .. c) /\ o \in SUBSET (1 .. c)
    BY PoolAssumption DEF KeptWell
<1>2. /\ Tail(s) \in Seq(1 .. c) /\ Len(Tail(s)) = Len(s) - 1
      /\ ToSet(s) = ToSet(Tail(s)) \cup {Head(s)} /\ IsInjective(Tail(s))
    BY <1>1, Shifted DEF KeptWell
<1>3. Len(s) \in Nat /\ Cardinality(o) \in Nat
    BY <1>1, Counted, LenProperties
<1>4. Len(Tail(s)) + Cardinality(o) <= PoolSize + v
    BY <1>1, <1>2, <1>3, PoolAssumption DEF KeptWell
<1> QED BY <1>1, <1>2, <1>4 DEF KeptWell
-----------------------------------------------------------------------------
(* A step of the owner of one pool leaves the others alone.                 *)
Moved(p, c, s, o, v) ==
    /\ counter' = [counter EXCEPT ![p] = c]
    /\ available' = [available EXCEPT ![p] = s]
    /\ acquired' = [acquired EXCEPT ![p] = o]
    /\ overdue' = [overdue EXCEPT ![p] = v]

(* No process of another pool is started, and those of this pool are       *)
(* known to it.                                                            *)
ProcessesMoved(p, s, o) ==
    /\ ProcessesType' /\ orphans \subseteq orphans'
    /\ \A w \in alive' :
          \/ w \in orphans'
          \/ w[1] = p /\ w[2] \in ToSet(s) \cup o
          \/ w \in alive /\ w[1] # p

LEMMA PoolStep ==
    ASSUME PoolsKept, ProcessesKnown, NEW p \in Owners,
           NEW c, NEW s, NEW o, NEW v,
           Moved(p, c, s, o, v), KeptWell(c, s, o, v), ProcessesMoved(p, s, o),
           \A q \in Owners \ {p} : pc'[q] = pc[q],
           pc'[p] \in {"New", "Warm"} => WarmingUp(c, s, o)
    PROVE  PoolsKept' /\ ProcessesKnown'
<1>1. /\ counter' = [counter EXCEPT ![p] = c]
      /\ available' = [available EXCEPT ![p] = s]
      /\ acquired' = [acquired EXCEPT ![p] = o]
      /\ overdue' = [overdue EXCEPT ![p] = v]
    BY DEF Moved
<1>2. /\ counter \in [Owners -> Nat] /\ overdue \in [Owners -> Nat]
      /\ available \in [Owners -> Seq(Ids)] /\ acquired \in [Owners -> SUBSET Ids]
    BY DEF PoolsKept
<1>3. c \in Nat /\ v \in Nat /\ s \in Seq(Ids) /\ o \in SUBSET Ids
    <2>1. c \in Nat /\ v \in Nat /\ c <= MaxIds
        BY PoolAssumption DEF KeptWell
    <2>2. 1 .. c \subseteq Ids
        BY <2>1, PoolAssumption DEF Ids
    <2>3. s \in Seq(1 .. c) /\ o \in SUBSET (1 .. c)
        BY DEF KeptWell
    <2>4. s \in Seq(Ids)
        BY <2>2, <2>3, SeqMonotonic
    <2> QED BY <2>1, <2>2, <2>3, <2>4
<1>4. /\ counter' \in [Owners -> Nat] /\ overdue' \in [Owners -> Nat]
      /\ available' \in [Owners -> Seq(Ids)] /\ acquired' \in [Owners -> SUBSET Ids]
    BY <1>1, <1>2, <1>3
<1>5. /\ counter'[p] = c /\ available'[p] = s /\ acquired'[p] = o /\ overdue'[p] = v
      /\ \A q \in Owners \ {p} :
            /\ counter'[q] = counter[q] /\ available'[q] = available[q]
            /\ acquired'[q] = acquired[q] /\ overdue'[q] = overdue[q]
    BY <1>1, <1>2
<1>6. ASSUME NEW q \in Owners
      PROVE  /\ KeptWell(counter[q], available[q], acquired[q], overdue[q])'
             /\ (pc[q] \in {"New", "Warm"}
                  => WarmingUp(counter[q], available[q], acquired[q]))'
    <2>1. CASE q = p
        BY <1>5, <2>1
    <2>2. CASE q # p
        <3>1. /\ KeptWell(counter[q], available[q], acquired[q], overdue[q])
              /\ pc[q] \in {"New", "Warm"}
                    => WarmingUp(counter[q], available[q], acquired[q])
            BY DEF PoolsKept
        <3>2. /\ counter'[q] = counter[q] /\ available'[q] = available[q] /\ pc'[q] = pc[q]
              /\ acquired'[q] = acquired[q] /\ overdue'[q] = overdue[q]
            BY <1>5, <2>2
        <3> QED BY <3>1, <3>2
    <2> QED BY <2>1, <2>2
<1>7. ASSUME NEW w \in alive'
      PROVE  w[2] \in Owned(w[1])' \/ w \in orphans'
    <2>1. CASE w[1] = p /\ w[2] \in ToSet(s) \cup o
        BY <1>5, <2>1 DEF Owned
    <2>2. CASE w \in alive /\ w[1] # p
        <3>1. w[1] \in Owners
            BY <1>7 DEF ProcessesMoved, ProcessesType
        <3>2. w[2] \in Owned(w[1]) \/ w \in orphans
            BY <2>2 DEF ProcessesKnown
        <3>3. Owned(w[1])' = Owned(w[1])
            BY <1>5, <2>2, <3>1 DEF Owned
        <3> QED BY <3>2, <3>3 DEF ProcessesMoved
    <2> QED BY <2>1, <2>2, <1>7 DEF ProcessesMoved
<1> QED BY <1>4, <1>6, <1>7 DEF PoolsKept, ProcessesKnown

(* What an attempt to make a VM does to the processes.                      *)
LEMMA Attempted ==
    ASSUME PoolsKept, ProcessesType, NEW p \in Owners, NEW outcome \in Outcomes,
           Created(p, outcome)
    PROVE  /\ ProcessesType' /\ orphans \subseteq orphans'
           /\ outcome # "running" => alive' \subseteq alive \cup orphans'
           /\ \/ /\ counter[p] < MaxIds
                 /\ counter' = [counter EXCEPT ![p] = counter[p] + 1]
                 /\ alive' \subseteq alive \cup {<<p, counter[p] + 1>>}
              \/ /\ outcome = "early" /\ counter' = counter /\ alive' = alive
<1>1. CASE HostIsFull(p, outcome)
    BY <1>1 DEF HostIsFull, ProcessesType
<1>2. CASE ~HostIsFull(p, outcome)
    <2> DEFINE id == counter[p] + 1
    <2>1. id \in Ids
        BY <1>2, PoolAssumption DEF Created, PoolsKept, Ids
    <2>2. /\ counter[p] < MaxIds /\ counter' = [counter EXCEPT ![p] = id]
          /\ socket' = CASE outcome = "early" -> socket
                         [] outcome = "exited" -> [socket EXCEPT ![id] = NoOwner]
                         [] OTHER -> [socket EXCEPT ![id] = p]
          /\ alive' = IF outcome \in {"orphan", "running"} THEN alive \cup {<<p, id>>}
                      ELSE alive
          /\ orphans' = IF outcome = "orphan" THEN orphans \cup {<<p, id>>} ELSE orphans
        BY <1>2 DEF Created
    <2> HIDE DEF id
    <2>3. socket' \in [Ids -> Owners \cup {NoOwner}]
        BY <2>1, <2>2 DEF ProcessesType, Outcomes
    <2>4. /\ alive' \subseteq Owners \X Ids /\ orphans' \subseteq Owners \X Ids
          /\ orphans \subseteq orphans' /\ alive' \subseteq alive \cup {<<p, id>>}
          /\ outcome # "running" => alive' \subseteq alive \cup orphans'
        BY <2>1, <2>2 DEF ProcessesType, Outcomes
    <2> QED BY <2>2, <2>3, <2>4 DEF ProcessesType, id
<1> QED BY <1>1, <1>2
-----------------------------------------------------------------------------
(* The operations of a pool.                                               *)
Sound == PoolsKept /\ ProcessesType /\ ProcessesKnown

(* After an attempt the pool knows the new process, unless it is orphaned.  *)
LEMMA AttemptKnown ==
    ASSUME ProcessesKnown, ProcessesType', orphans \subseteq orphans',
           NEW p \in Owners, NEW n, NEW s, NEW o,
           alive' \subseteq alive \cup {<<p, n>>},
           n \in ToSet(s) \cup o \/ alive' \subseteq alive \cup orphans',
           Owned(p) \subseteq ToSet(s) \cup o
    PROVE  ProcessesMoved(p, s, o)
<1>1. ASSUME NEW w \in alive'
      PROVE  \/ w \in orphans'
             \/ w[1] = p /\ w[2] \in ToSet(s) \cup o
             \/ w \in alive /\ w[1] # p
    <2>1. CASE w \in alive /\ w[1] = p
        BY <2>1 DEF ProcessesKnown
    <2>2. CASE w \notin alive
        <3>1. w = <<p, n>>
            BY <2>2
        <3>2. w[1] = p /\ w[2] = n
            BY <3>1
        <3> QED BY <2>2, <3>2
    <2> QED BY <2>1, <2>2
<1> QED BY <1>1 DEF ProcessesMoved

(* What a pool knows, and what PoolsKept says of it.                        *)
LEMMA PoolFacts ==
    ASSUME PoolsKept, NEW p \in Owners
    PROVE  /\ KeptWell(counter[p], available[p], acquired[p], overdue[p])
           /\ counter[p] \in Nat /\ overdue[p] \in Nat
           /\ available[p] \in Seq(Ids) /\ acquired[p] \in SUBSET Ids
           /\ Len(available[p]) \in Nat /\ Cardinality(acquired[p]) \in Nat
<1>1. /\ KeptWell(counter[p], available[p], acquired[p], overdue[p])
      /\ counter[p] \in Nat /\ overdue[p] \in Nat
      /\ available[p] \in Seq(Ids) /\ acquired[p] \in SUBSET Ids
    BY DEF PoolsKept
<1>2. Len(available[p]) \in Nat
    BY <1>1, LenProperties
<1>3. Cardinality(acquired[p]) \in Nat
    BY <1>1, Counted DEF KeptWell
<1> QED BY <1>1, <1>2, <1>3

LEMMA WarmUpKept ==
    ASSUME Sound, RunKept, NEW p \in Owners, WarmUp(p)
    PROVE  Sound'
<1> USE DEF Sound
<1> DEFINE c == counter[p]  s == available[p]  o == acquired[p]  v == overdue[p]
<1>1. PICK outcome \in Outcomes :
          /\ Created(p, outcome)
          /\ available' = IF outcome = "running"
                          THEN [available EXCEPT ![p] = Append(@, c + 1)] ELSE available
          /\ UNCHANGED <<acquired, overdue>>
    BY DEF WarmUp, Prewarm
<1>2. /\ KeptWell(c, s, o, v) /\ c \in Nat /\ Len(s) \in Nat /\ Cardinality(o) \in Nat
      /\ v \in Nat
    BY PoolFacts
<1>3. WarmingUp(c, s, o)
    BY DEF WarmUp, PoolsKept
<1>4. /\ pc'[p] \in {"New", "Warm"} => c + 1 < PoolSize
      /\ \A q \in Owners \ {p} : pc'[q] = pc[q]
    BY <1>2, PoolAssumption DEF WarmUp, RunKept, RunType
<1>5. /\ ProcessesType' /\ orphans \subseteq orphans'
      /\ outcome # "running" => alive' \subseteq alive \cup orphans'
      /\ \/ /\ c < MaxIds /\ counter' = [counter EXCEPT ![p] = c + 1]
            /\ alive' \subseteq alive \cup {<<p, c + 1>>}
         \/ /\ outcome = "early" /\ counter' = counter /\ alive' = alive
    BY <1>1, Attempted
<1>6. CASE outcome = "running"
    <2>1. c < MaxIds /\ counter' = [counter EXCEPT ![p] = c + 1]
          /\ alive' \subseteq alive \cup {<<p, c + 1>>}
        BY <1>5, <1>6
    <2>2. Len(s) + Cardinality(o) < PoolSize + v
        BY <1>2, <1>3, PoolAssumption DEF WarmingUp
    <2>3. /\ KeptWell(c + 1, Append(s, c + 1), o, v)
          /\ Len(Append(s, c + 1)) = Len(s) + 1
        BY <1>2, <2>1, <2>2, NewPushed
    <2>4. ToSet(Append(s, c + 1)) = ToSet(s) \cup {c + 1}
        <3>1. s \in Seq(1 .. c + 1) /\ c + 1 \in 1 .. c + 1
            BY <1>2, <2>1, NewNumber
        <3> QED BY <3>1, Pushed
    <2>5. ProcessesMoved(p, Append(s, c + 1), o)
        BY <1>5, <2>1, <2>4, AttemptKnown DEF Owned
    <2>6. Moved(p, c + 1, Append(s, c + 1), o, v)
        BY <1>1, <1>6, <2>1 DEF Moved, PoolsKept
    <2>7. pc'[p] \in {"New", "Warm"} => WarmingUp(c + 1, Append(s, c + 1), o)
        BY <1>2, <1>3, <1>4, <2>3 DEF WarmingUp
    <2> QED BY <1>4, <2>3, <2>5, <2>6, <2>7, PoolStep DEF ProcessesMoved
<1>7. CASE outcome # "running" /\ c < MaxIds /\ counter' = [counter EXCEPT ![p] = c + 1]
           /\ alive' \subseteq alive \cup {<<p, c + 1>>}
    <2>1. KeptWell(c + 1, s, o, v)
        BY <1>2, <1>7, GivenUp
    <2>2. ProcessesMoved(p, s, o)
        BY <1>5, <1>7, AttemptKnown DEF Owned
    <2>3. Moved(p, c + 1, s, o, v)
        BY <1>1, <1>7 DEF Moved, PoolsKept
    <2>4. pc'[p] \in {"New", "Warm"} => WarmingUp(c + 1, s, o)
        BY <1>2, <1>3, <1>4 DEF WarmingUp
    <2> QED BY <1>4, <2>1, <2>2, <2>3, <2>4, PoolStep DEF ProcessesMoved
<1>8. CASE outcome = "early" /\ counter' = counter /\ alive' = alive
    <2>1. ProcessesMoved(p, s, o)
        BY <1>5, <1>8, AttemptKnown DEF Owned
    <2>2. Moved(p, c, s, o, v)
        BY <1>1, <1>8 DEF Moved, PoolsKept
    <2> QED BY <1>2, <1>3, <1>4, <2>1, <2>2, PoolStep DEF ProcessesMoved
<1> QED BY <1>5, <1>6, <1>7, <1>8

(* A step of the owner p, which has its pool made already.                  *)
Settled(p) ==
    /\ pc'[p] \notin {"New", "Warm"}
    /\ \A q \in Owners \ {p} : pc'[q] = pc[q]

LEMMA PopKept ==
    ASSUME Sound, NEW p \in Owners, Settled(p), Pop(p)
    PROVE  Sound'
<1> USE DEF Sound
<1> DEFINE c == counter[p]  s == available[p]  o == acquired[p]  v == overdue[p]
<1>1. /\ s # <<>> /\ available' = [available EXCEPT ![p] = Front(s)]
      /\ acquired' = [acquired EXCEPT ![p] = o \cup {Last(s)}]
      /\ UNCHANGED <<overdue, counter, alive, socket, orphans>>
    BY DEF Pop, NothingCreated
<1>2. KeptWell(c, s, o, v) /\ s \in Seq(Ids)
    BY PoolFacts
<1>3. KeptWell(c, Front(s), o \cup {Last(s)}, v)
    BY <1>1, <1>2, Handed
<1>4. ToSet(s) = ToSet(Front(s)) \cup {Last(s)}
    BY <1>1, <1>2, Popped
<1>5. ProcessesType'
    BY <1>1 DEF ProcessesType
<1>6. ProcessesMoved(p, Front(s), o \cup {Last(s)})
    <2>1. /\ alive' \subseteq alive \cup {<<p, 0>>} /\ alive' \subseteq alive \cup orphans'
          /\ orphans \subseteq orphans'
          /\ Owned(p) \subseteq ToSet(Front(s)) \cup (o \cup {Last(s)})
        BY <1>1, <1>4 DEF Owned
    <2> HIDE DEF s, o
    <2> QED BY <1>5, <2>1, AttemptKnown
<1>7. Moved(p, c, Front(s), o \cup {Last(s)}, v)
    BY <1>1 DEF Moved, PoolsKept
<1> QED BY <1>3, <1>5, <1>6, <1>7, PoolStep DEF Settled

(* OnDemand and LastDitch make a VM for the caller.                         *)
LEMMA TakeKept ==
    ASSUME Sound, NEW p \in Owners, Settled(p), NEW outcome \in Outcomes,
           OnDemand(p, outcome) \/ LastDitch(p, outcome)
    PROVE  Sound'
<1> USE DEF Sound
<1> DEFINE c == counter[p]  s == available[p]  o == acquired[p]  v == overdue[p]
<1>1. /\ Created(p, outcome) /\ UNCHANGED available
      /\ acquired' = IF outcome = "running"
                     THEN [acquired EXCEPT ![p] = o \cup {c + 1}] ELSE acquired
    BY DEF OnDemand, LastDitch
<1>2. /\ KeptWell(c, s, o, v) /\ c \in Nat /\ Cardinality(o) \in Nat /\ v \in Nat
      /\ Len(s) \in Nat
    BY PoolFacts
<1>3. /\ ProcessesType' /\ orphans \subseteq orphans'
      /\ outcome # "running" => alive' \subseteq alive \cup orphans'
      /\ \/ /\ c < MaxIds /\ counter' = [counter EXCEPT ![p] = c + 1]
            /\ alive' \subseteq alive \cup {<<p, c + 1>>}
         \/ /\ outcome = "early" /\ counter' = counter /\ alive' = alive
    BY <1>1, Attempted
<1>4. CASE outcome = "running"
    <2>1. /\ c < MaxIds /\ counter' = [counter EXCEPT ![p] = c + 1]
          /\ alive' \subseteq alive \cup {<<p, c + 1>>}
        BY <1>3, <1>4
    <2>2. PICK w \in {v, v + 1} :
              /\ overdue' = [overdue EXCEPT ![p] = w]
              /\ KeptWell(c + 1, s, o \cup {c + 1}, w)
        <3>1. CASE OnDemand(p, outcome)
            <4>1. Len(s) = 0 /\ Cardinality(o) < PoolSize /\ overdue' = overdue
                BY <3>1, EmptySeq DEF OnDemand
            <4>2. Len(s) + Cardinality(o) < PoolSize + v
                BY <1>2, <4>1, PoolAssumption
            <4>3. overdue' = [overdue EXCEPT ![p] = v]
                BY <4>1 DEF PoolsKept
            <4> QED BY <1>2, <2>1, <4>2, <4>3, NewTaken
        <3>2. CASE LastDitch(p, outcome)
            <4>1. overdue' = [overdue EXCEPT ![p] = v + 1]
                BY <1>4, <3>2 DEF LastDitch
            <4> QED BY <1>2, <2>1, <4>1, NewTaken
        <3> QED BY <3>1, <3>2
    <2>3. ProcessesMoved(p, s, o \cup {c + 1})
        BY <1>3, <2>1, AttemptKnown DEF Owned
    <2>4. Moved(p, c + 1, s, o \cup {c + 1}, w)
        BY <1>1, <1>4, <2>1, <2>2 DEF Moved, PoolsKept
    <2> QED BY <2>2, <2>3, <2>4, PoolStep DEF ProcessesMoved, Settled
<1>5. CASE outcome # "running"
    <2>1. UNCHANGED <<overdue, acquired>>
        BY <1>1, <1>5 DEF OnDemand, LastDitch, PoolsKept
    <2>2. CASE c < MaxIds /\ counter' = [counter EXCEPT ![p] = c + 1]
               /\ alive' \subseteq alive \cup {<<p, c + 1>>}
        <3>1. KeptWell(c + 1, s, o, v)
            BY <1>2, <2>2, GivenUp
        <3>2. ProcessesMoved(p, s, o)
            BY <1>3, <1>5, <2>2, AttemptKnown DEF Owned
        <3>3. Moved(p, c + 1, s, o, v)
            BY <1>1, <2>1, <2>2 DEF Moved, PoolsKept
        <3> QED BY <3>1, <3>2, <3>3, PoolStep DEF ProcessesMoved, Settled
    <2>3. CASE counter' = counter /\ alive' = alive
        <3>1. ProcessesMoved(p, s, o)
            BY <1>3, <2>3, AttemptKnown DEF Owned
        <3>2. Moved(p, c, s, o, v)
            BY <1>1, <2>1, <2>3 DEF Moved, PoolsKept
        <3> QED BY <1>2, <3>1, <3>2, PoolStep DEF ProcessesMoved, Settled
    <2> QED BY <1>3, <2>2, <2>3
<1> QED BY <1>4, <1>5

LEMMA ReturnKept ==
    ASSUME Sound, NEW p \in Owners, Settled(p), NEW id \in acquired[p], Return(p, id)
    PROVE  Sound'
<1> USE DEF Sound
<1> DEFINE c == counter[p]  s == available[p]  o == acquired[p]  v == overdue[p]
<1>1. /\ available' = [available EXCEPT ![p] = Append(s, id)]
      /\ acquired' = [acquired EXCEPT ![p] = o \ {id}]
      /\ UNCHANGED <<overdue, counter, alive, socket, orphans>>
    BY DEF Return
<1>2. KeptWell(c, s, o, v) /\ s \in Seq(Ids) /\ id \in Ids
    BY PoolFacts
<1>3. KeptWell(c, Append(s, id), o \ {id}, v)
    BY <1>2, TakenBack
<1>4. ToSet(Append(s, id)) = ToSet(s) \cup {id}
    BY <1>2, Pushed
<1>5. ProcessesType'
    BY <1>1 DEF ProcessesType
<1>6. ProcessesMoved(p, Append(s, id), o \ {id})
    <2>1. /\ alive' \subseteq alive \cup {<<p, 0>>} /\ alive' \subseteq alive \cup orphans'
          /\ orphans \subseteq orphans'
          /\ Owned(p) \subseteq ToSet(Append(s, id)) \cup (o \ {id})
        BY <1>1, <1>4 DEF Owned
    <2> HIDE DEF s, o
    <2> QED BY <1>5, <2>1, AttemptKnown
<1>7. Moved(p, c, Append(s, id), o \ {id}, v)
    BY <1>1 DEF Moved, PoolsKept
<1> QED BY <1>3, <1>5, <1>6, <1>7, PoolStep DEF Settled

(* The process of the VM id is gone, so the pool may forget it.             *)
LEMMA ForgottenKnown ==
    ASSUME ProcessesKnown, ProcessesType', orphans \subseteq orphans',
           NEW p \in Owners, NEW id, NEW n, NEW s, NEW o,
           alive' \subseteq (alive \ {<<p, id>>}) \cup {<<p, n>>},
           n \in ToSet(s) \cup o \/ alive' \subseteq alive \cup orphans',
           Owned(p) \subseteq ToSet(s) \cup o \cup {id}, alive \subseteq Owners \X Ids,
           n # id
    PROVE  ProcessesMoved(p, s, o)
<1>1. ASSUME NEW w \in alive'
      PROVE  \/ w \in orphans'
             \/ w[1] = p /\ w[2] \in ToSet(s) \cup o
             \/ w \in alive /\ w[1] # p
    <2>1. CASE w \in alive /\ w[1] = p
        <3>1. w = <<w[1], w[2]>>
            BY <2>1
        <3>2. w # <<p, id>>
            <4>1. <<p, id>> # <<p, n>>
                BY DEF ProcessesMoved
            <4> QED BY <4>1
        <3>3. w[2] # id
            BY <2>1, <3>1, <3>2
        <3>4. w[2] \in Owned(p) \/ w \in orphans
            BY <2>1 DEF ProcessesKnown
        <3> QED BY <2>1, <3>3, <3>4
    <2>2. CASE w \notin alive
        <3>1. w = <<p, n>>
            BY <2>2
        <3>2. w[1] = p /\ w[2] = n
            BY <3>1
        <3> QED BY <2>2, <3>2
    <2> QED BY <2>1, <2>2
<1> QED BY <1>1 DEF ProcessesMoved

LEMMA ReplaceKept ==
    ASSUME Sound, NEW p \in Owners, Settled(p), NEW id \in acquired[p],
           NEW outcome \in Outcomes, Replace(p, id, outcome)
    PROVE  Sound'
<1> USE DEF Sound
<1> DEFINE c == counter[p]  s == available[p]  o == acquired[p]  v == overdue[p]
           new == c + 1
<1>1. /\ new \in Ids
      /\ counter' = [counter EXCEPT ![p] = new]
      /\ acquired' = [acquired EXCEPT ![p] = o \ {id}]
      /\ available' = IF outcome = "running"
                      THEN [available EXCEPT ![p] = Append(@, new)] ELSE available
      /\ alive' = (alive \ {<<p, id>>})
                     \cup (IF outcome \in {"orphan", "running"} THEN {<<p, new>>} ELSE {})
      /\ socket' = [socket EXCEPT
             ![id] = NoOwner,
             ![new] = CASE outcome = "early" -> @
                        [] outcome = "exited" -> NoOwner
                        [] OTHER -> p]
      /\ orphans' = IF outcome = "orphan" THEN orphans \cup {<<p, new>>} ELSE orphans
      /\ UNCHANGED overdue
    BY DEF Replace
<1>2. /\ KeptWell(c, s, o, v) /\ c \in Nat /\ Cardinality(o) \in Nat /\ v \in Nat
      /\ Len(s) \in Nat /\ id \in Ids /\ id <= c
    <2>1. /\ KeptWell(c, s, o, v) /\ c \in Nat /\ Cardinality(o) \in Nat /\ v \in Nat
          /\ Len(s) \in Nat /\ id \in Ids
        BY PoolFacts
    <2>2. id \in 1 .. c
        BY <2>1 DEF KeptWell
    <2> QED BY <2>1, <2>2
<1>3. c < MaxIds /\ new # id
    BY <1>1, <1>2, PoolAssumption DEF Ids
<1>4. /\ KeptWell(c, s, o \ {id}, v)
      /\ Cardinality(o \ {id}) = Cardinality(o) - 1
    BY <1>2, TakenBack
<1>5. Len(s) + Cardinality(o \ {id}) < PoolSize + v
    BY <1>2, <1>4, PoolAssumption DEF KeptWell
<1>6. ProcessesType' /\ orphans \subseteq orphans'
    <2>1. socket' \in [Ids -> Owners \cup {NoOwner}]
        <3>1. socket \in [Ids -> Owners \cup {NoOwner}]
            BY DEF ProcessesType
        <3>2. DOMAIN socket' = Ids
            BY <1>1, <3>1
        <3>3. ASSUME NEW k \in Ids PROVE socket'[k] \in Owners \cup {NoOwner}
            BY <1>1, <1>2, <3>1 DEF Outcomes
        <3> QED BY <1>1, <3>1, <3>2, <3>3
    <2>2. alive' \subseteq Owners \X Ids
        BY <1>1 DEF ProcessesType
    <2>3. orphans' \subseteq Owners \X Ids /\ orphans \subseteq orphans'
        BY <1>1 DEF ProcessesType
    <2> QED BY <2>1, <2>2, <2>3 DEF ProcessesType
<1>7. /\ alive' \subseteq (alive \ {<<p, id>>}) \cup {<<p, new>>}
      /\ outcome # "running" => alive' \subseteq alive \cup orphans'
    BY <1>1 DEF Outcomes
<1>8. CASE outcome = "running"
    <2>1. KeptWell(new, Append(s, new), o \ {id}, v)
        BY <1>3, <1>4, <1>5, NewPushed
    <2>2. ToSet(Append(s, new)) = ToSet(s) \cup {new}
        <3>1. s \in Seq(1 .. new) /\ new \in 1 .. new
            BY <1>2, <1>3, NewNumber
        <3> QED BY <3>1, Pushed
    <2>3. ProcessesMoved(p, Append(s, new), o \ {id})
        <3>1. /\ new \in ToSet(Append(s, new)) \cup (o \ {id})
              /\ Owned(p) \subseteq ToSet(Append(s, new)) \cup (o \ {id}) \cup {id}
            BY <2>2 DEF Owned
        <3>2. alive \subseteq Owners \X Ids
            BY DEF ProcessesType
        <3> HIDE DEF new, s, o
        <3> QED BY <1>3, <1>6, <1>7, <3>1, <3>2, ForgottenKnown
    <2>4. Moved(p, new, Append(s, new), o \ {id}, v)
        BY <1>1, <1>8 DEF Moved, PoolsKept
    <2> QED BY <2>1, <2>3, <2>4, PoolStep DEF ProcessesMoved, Settled
<1>9. CASE outcome # "running"
    <2>1. KeptWell(new, s, o \ {id}, v)
        BY <1>3, <1>4, GivenUp
    <2>2. ProcessesMoved(p, s, o \ {id})
        <3>1. Owned(p) \subseteq ToSet(s) \cup (o \ {id}) \cup {id}
            BY DEF Owned
        <3>2. alive \subseteq Owners \X Ids
            BY DEF ProcessesType
        <3> HIDE DEF new, s, o
        <3> QED BY <1>3, <1>6, <1>7, <1>9, <3>1, <3>2, ForgottenKnown
    <2>3. Moved(p, new, s, o \ {id}, v)
        BY <1>1, <1>9 DEF Moved, PoolsKept
    <2> QED BY <2>1, <2>2, <2>3, PoolStep DEF ProcessesMoved, Settled
<1> QED BY <1>8, <1>9

LEMMA DeleteKept ==
    ASSUME Sound, NEW p \in Owners, Settled(p), NEW obeyed \in BOOLEAN,
           DeleteOne(p, obeyed)
    PROVE  Sound'
<1> USE DEF Sound
<1> DEFINE c == counter[p]  s == available[p]  o == acquired[p]  v == overdue[p]
<1>1. /\ KeptWell(c, s, o, v) /\ s \in Seq(Ids) /\ o \subseteq Ids
      /\ UNCHANGED <<counter, overdue, orphans>>
    BY PoolFacts DEF DeleteOne
<1>2. ASSUME NEW id \in Ids, Deleted(p, id, obeyed)
      PROVE  ProcessesType' /\ alive' \subseteq alive \ {<<p, id>>}
    BY <1>1, <1>2 DEF Deleted, ProcessesType
<1>3. ASSUME NEW id \in Ids, Deleted(p, id, obeyed), NEW s1, NEW o1,
             Owned(p) \subseteq ToSet(s1) \cup o1 \cup {id}
      PROVE  ProcessesMoved(p, s1, o1)
    <2>1. /\ alive' \subseteq (alive \ {<<p, id>>}) \cup {<<p, 0>>}
          /\ alive' \subseteq alive \cup orphans' /\ orphans \subseteq orphans'
          /\ ProcessesType' /\ alive \subseteq Owners \X Ids
        BY <1>1, <1>2, <1>3 DEF ProcessesType
    <2>2. 0 # id
        BY PoolAssumption DEF Ids
    <2> QED BY <1>3, <2>1, <2>2, ForgottenKnown
<1>4. CASE /\ s # <<>> /\ Deleted(p, Head(s), obeyed)
           /\ available' = [available EXCEPT ![p] = Tail(s)] /\ UNCHANGED acquired
    <2>1. KeptWell(c, Tail(s), o, v)
        BY <1>1, <1>4, Dropped
    <2>2. ToSet(s) = ToSet(Tail(s)) \cup {Head(s)} /\ Head(s) \in Ids
        BY <1>1, <1>4, Shifted
    <2>3. ProcessesMoved(p, Tail(s), o)
        BY <1>3, <1>4, <2>2 DEF Owned
    <2>4. Moved(p, c, Tail(s), o, v)
        BY <1>1, <1>4 DEF Moved, PoolsKept
    <2> QED BY <2>1, <2>3, <2>4, PoolStep DEF ProcessesMoved, Settled
<1>5. ASSUME NEW id \in o, Deleted(p, id, obeyed), UNCHANGED available,
             acquired' = [acquired EXCEPT ![p] = o \ {id}]
      PROVE  Sound'
    <2>1. KeptWell(c, s, o \ {id}, v)
        BY <1>1, TakenBack
    <2>2. ProcessesMoved(p, s, o \ {id})
        BY <1>1, <1>3, <1>5 DEF Owned
    <2>3. Moved(p, c, s, o \ {id}, v)
        BY <1>1, <1>5 DEF Moved, PoolsKept
    <2> QED BY <2>1, <2>2, <2>3, PoolStep DEF ProcessesMoved, Settled
<1> QED BY <1>4, <1>5 DEF DeleteOne

(* The owner does something else, or a process ends.                        *)
LEMMA IdleKept ==
    ASSUME Sound, UNCHANGED <<counter, available, acquired, socket, overdue, orphans>>,
           alive' \subseteq alive,
           \A q \in Owners : pc'[q] \in {"New", "Warm"}
                => pc[q] \in {"New", "Warm"} \/ WarmingUp(counter[q], available[q], acquired[q])
    PROVE  Sound'
<1> USE DEF Sound
<1>1. PoolsKept'
    BY DEF PoolsKept
<1>2. ProcessesType'
    BY DEF ProcessesType
<1>3. ProcessesKnown'
    BY DEF ProcessesKnown, Owned
<1> QED BY <1>1, <1>2, <1>3
-----------------------------------------------------------------------------
(* The runs: a step of one owner changes its own program counter, job and   *)
(* child.                                                                  *)
LEMMA RunStep ==
    ASSUME RunKept, NEW p \in Owners, NEW to \in PCs, NEW j \in Jobs \cup {NoJob},
           NEW c \in Children,
           tier' \in [Owners -> {"subprocess", "gvisor", "firecracker"}],
           pc' = [pc EXCEPT ![p] = to], job' = [job EXCEPT ![p] = j],
           child' = [child EXCEPT ![p] = c],
           p \in Executors => ChildWell(to, j, c)
    PROVE  RunKept'
<1>1. RunType'
    BY DEF RunKept, RunType
<1>2. ASSUME NEW e \in Executors PROVE ChildWell(pc[e], job[e], child[e])'
    <2>1. e \in Owners /\ ChildWell(pc[e], job[e], child[e])
        BY SandboxAssumption DEF RunKept
    <2>2. CASE e = p
        <3>1. pc'[e] = to /\ job'[e] = j /\ child'[e] = c
            BY <2>1, <2>2 DEF RunKept, RunType
        <3> QED BY <2>2, <3>1
    <2>3. CASE e # p
        <3>1. pc'[e] = pc[e] /\ job'[e] = job[e] /\ child'[e] = child[e]
            BY <2>1, <2>3 DEF RunKept, RunType
        <3> QED BY <2>1, <3>1
    <2> QED BY <2>2, <2>3
<1> QED BY <1>1, <1>2 DEF RunKept

LEMMA RunFacts ==
    ASSUME RunKept, NEW p \in Owners
    PROVE  /\ pc[p] \in PCs /\ job[p] \in Jobs \cup {NoJob} /\ child[p] \in Children
           /\ p \in Executors => ChildWell(pc[p], job[p], child[p])
           /\ pc = [pc EXCEPT ![p] = pc[p]] /\ job = [job EXCEPT ![p] = job[p]]
           /\ child = [child EXCEPT ![p] = child[p]]
BY DEF RunKept, RunType

(* A step that moves on with the same job and child.                        *)
LEMMA MovedOn ==
    ASSUME RunKept, NEW p \in Owners, NEW to \in PCs, UNCHANGED <<job, child>>,
           tier' \in [Owners -> {"subprocess", "gvisor", "firecracker"}],
           pc' = [pc EXCEPT ![p] = to],
           p \in Executors => (to \in Busy => pc[p] \in Busy)
                              /\ (to \notin {"Feed", "Poll"} =>
                                    pc[p] \notin {"Feed", "Poll"} \/ child[p].exited)
    PROVE  RunKept'
<1>1. p \in Executors => ChildWell(to, job[p], child[p])
    BY RunFacts DEF ChildWell
<1>2. job' = [job EXCEPT ![p] = job[p]] /\ child' = [child EXCEPT ![p] = child[p]]
    BY RunFacts
<1>3. job[p] \in Jobs \cup {NoJob} /\ child[p] \in Children
    BY RunFacts
<1> DEFINE j == job[p]  c == child[p]
<1> HIDE DEF j, c
<1>4. /\ p \in Executors => ChildWell(to, j, c)
      /\ job' = [job EXCEPT ![p] = j] /\ child' = [child EXCEPT ![p] = c]
      /\ j \in Jobs \cup {NoJob} /\ c \in Children
    BY <1>1, <1>2, <1>3 DEF j, c
<1> QED BY ONLY <1>4, RunStep, RunKept, to \in PCs, p \in Owners,
                tier' \in [Owners -> {"subprocess", "gvisor", "firecracker"}],
                pc' = [pc EXCEPT ![p] = to]

(* The end of execute().                                                    *)
LEMMA Answered ==
    ASSUME RunKept, NEW e \in Executors, NEW c, c.exited = TRUE, Answer(e, c),
           UNCHANGED tier
    PROVE  RunKept'
<1> DEFINE n == [NewChild EXCEPT !.exited = c.exited]
<1>1. n \in Children
    BY DEF NewChild, Children
<1>2. ChildWell("Idle", NoJob, n)
    BY SandboxAssumption DEF ChildWell, NewChild, Busy
<1>3. e \in Owners
    BY SandboxAssumption
<1>4. "Idle" \in PCs
    BY DEF PCs
<1>5. /\ pc' = [pc EXCEPT ![e] = "Idle"] /\ job' = [job EXCEPT ![e] = NoJob]
      /\ child' = [child EXCEPT ![e] = n]
    BY DEF Answer
<1>6. tier' \in [Owners -> {"subprocess", "gvisor", "firecracker"}]
    BY DEF RunKept, RunType
<1> HIDE DEF n
<1> QED BY <1>1, <1>2, <1>3, <1>4, <1>5, <1>6, RunStep

(* A step of the child alone.                                               *)
LEMMA ChildMoved ==
    ASSUME RunKept, NEW e \in Executors, NEW c \in Children,
           child' = [child EXCEPT ![e] = c], UNCHANGED <<pc, tier, job>>,
           ChildWell(pc[e], job[e], c)
    PROVE  RunKept'
<1>1. e \in Owners
    BY SandboxAssumption
<1>2. tier' \in [Owners -> {"subprocess", "gvisor", "firecracker"}]
    BY DEF RunKept, RunType
<1> QED BY <1>1, <1>2, RunFacts, RunStep
-----------------------------------------------------------------------------
(* The invariant is inductive.                                              *)
LEMMA InitKept == Init => IInv
<1> SUFFICES ASSUME Init PROVE IInv
    OBVIOUS
<1>1. /\ counter = [p \in Owners |-> 0] /\ available = [p \in Owners |-> <<>>]
      /\ acquired = [p \in Owners |-> {}] /\ alive = {} /\ orphans = {}
      /\ socket = [id \in Ids |-> NoOwner] /\ overdue = [p \in Owners |-> 0]
    BY DEF Init, PoolInit
<1>2. PoolsKept
    <2>1. Cardinality({}) = 0 /\ Len(<<>>) = 0
        BY FS_EmptySet
    <2>2. <<>> \in Seq(1 .. 0) /\ <<>> \in Seq(Ids)
        OBVIOUS
    <2>3. ToSet(<<>>) = {} /\ IsInjective(<<>>)
        BY DEF ToSet, IsInjective
    <2>4. KeptWell(0, <<>>, {}, 0)
        BY <2>1, <2>2, <2>3, PoolAssumption DEF KeptWell
    <2>5. WarmingUp(0, <<>>, {})
        BY <2>1, PoolAssumption DEF WarmingUp
    <2> QED BY <1>1, <2>2, <2>4, <2>5 DEF PoolsKept
<1>3. ProcessesType /\ ProcessesKnown
    BY <1>1 DEF ProcessesType, ProcessesKnown
<1>4. RunKept
    <2>1. /\ pc = [p \in Owners |-> IF p \in Executors THEN "New" ELSE "Warm"]
          /\ tier = [p \in Owners |-> IF p \in Executors THEN "subprocess" ELSE "firecracker"]
          /\ job = [p \in Owners |-> NoJob]
          /\ child = [p \in Owners |-> [NewChild EXCEPT !.exited = TRUE]]
        BY DEF Init
    <2>2. [NewChild EXCEPT !.exited = TRUE] \in Children
        BY DEF NewChild, Children
    <2>3. RunType
        BY <2>1, <2>2 DEF RunType, PCs
    <2>4. ChildWell("New", NoJob, [NewChild EXCEPT !.exited = TRUE])
        BY SandboxAssumption DEF ChildWell, NewChild, Busy
    <2> QED BY <2>1, <2>3, <2>4, SandboxAssumption DEF RunKept
<1> QED BY <1>2, <1>3, <1>4 DEF IInv

(* What the executors and the users do with their pools.                    *)
LEMMA PoolActions ==
    ASSUME IInv, NEW p \in Owners, Acquire(p) \/ Deadline(p)
    PROVE  IInv'
<1> USE DEF IInv
<1>1. PICK to \in {"Acquire", "Holding", "Launch", "Idle"} :
          /\ pc' = [pc EXCEPT ![p] = to]
          /\ to = "Idle" => p \notin Executors
    BY DEF Acquire, Deadline, Goto, PCs, RunKept, RunType
<1>2. Settled(p)
    <2>1. pc \in [Owners -> PCs]
        BY DEF RunKept, RunType
    <2>2. pc'[p] = to /\ \A q \in Owners \ {p} : pc'[q] = pc[q]
        BY <1>1, <2>1
    <2>3. to \notin {"New", "Warm"}
        BY <1>1
    <2> QED BY <2>2, <2>3 DEF Settled
<1>3. Sound'
    <2>1. CASE Pop(p)
        BY <1>2, <2>1, PopKept DEF Sound
    <2>2. ASSUME NEW outcome \in Outcomes, OnDemand(p, outcome) \/ LastDitch(p, outcome)
          PROVE  Sound'
        BY <1>2, <2>2, TakeKept DEF Sound
    <2> QED BY <2>1, <2>2 DEF Acquire, Deadline
<1>4. RunKept'
    <2>1. /\ pc[p] = "Acquire" /\ UNCHANGED <<job, child>>
          /\ tier' \in [Owners -> {"subprocess", "gvisor", "firecracker"}]
        BY DEF Acquire, Deadline, RunKept, RunType
    <2>2. /\ to \in PCs /\ to \notin {"Feed", "Poll"} /\ pc' = [pc EXCEPT ![p] = to]
          /\ pc[p] \in Busy /\ pc[p] \notin {"Feed", "Poll"}
        BY <1>1, <2>1 DEF Busy, PCs
    <2> QED BY <2>1, <2>2, MovedOn
<1> QED BY <1>3, <1>4 DEF Sound

LEMMA UserActions ==
    ASSUME IInv, NEW u \in Users, UserAcquires(u) \/ UserReleases(u) \/ UserShutsDown(u)
    PROVE  IInv'
<1> USE DEF IInv
<1>0. u \in Owners /\ u \notin Executors
    BY SandboxAssumption
<1>1. PICK to \in PCs \ {"New", "Warm"} : pc' = [pc EXCEPT ![u] = to]
    BY <1>0 DEF UserAcquires, UserReleases, UserShutsDown, Goto, PCs
<1>2. Settled(u)
    BY <1>0, <1>1 DEF Settled, RunKept, RunType
<1>3. Sound'
    <2>1. CASE UNCHANGED poolVars
        <3>1. \A q \in Owners : pc'[q] \in {"New", "Warm"} => pc[q] \in {"New", "Warm"}
            BY <1>2 DEF Settled
        <3> QED BY <2>1, <3>1, IdleKept DEF Sound, poolVars
    <2>2. ASSUME NEW id \in acquired[u], Return(u, id) PROVE Sound'
        BY <1>0, <1>2, <2>2, ReturnKept DEF Sound
    <2>3. ASSUME NEW id \in acquired[u], NEW outcome \in Outcomes, Replace(u, id, outcome)
          PROVE  Sound'
        BY <1>0, <1>2, <2>3, ReplaceKept DEF Sound
    <2>4. ASSUME NEW obeyed \in BOOLEAN, DeleteOne(u, obeyed) PROVE Sound'
        BY <1>0, <1>2, <2>4, DeleteKept DEF Sound
    <2> QED BY <2>1, <2>2, <2>3, <2>4 DEF UserAcquires, UserReleases, UserShutsDown
<1>4. RunKept'
    <2>1. /\ UNCHANGED <<job, child>>
          /\ tier' \in [Owners -> {"subprocess", "gvisor", "firecracker"}]
        BY DEF UserAcquires, UserReleases, UserShutsDown, RunKept, RunType
    <2> QED BY <1>0, <1>1, <2>1, MovedOn
<1> QED BY <1>3, <1>4 DEF Sound

LEMMA WarmUpAction ==
    ASSUME IInv, NEW p \in Owners, WarmUp(p)
    PROVE  IInv'
<1> USE DEF IInv
<1>1. Sound'
    BY WarmUpKept DEF Sound
<1>2. PICK to \in {"Idle", "Warm"} : pc' = [pc EXCEPT ![p] = to]
    BY DEF WarmUp
<1>3. /\ pc[p] = "Warm" /\ UNCHANGED <<job, child>>
      /\ tier' \in [Owners -> {"subprocess", "gvisor", "firecracker"}]
    BY DEF WarmUp, RunKept, RunType
<1>4. RunKept'
    BY <1>2, <1>3, MovedOn DEF Busy, PCs
<1> QED BY <1>1, <1>4 DEF Sound

(* A step that leaves the pools alone.                                      *)
LEMMA PoolsUntouched ==
    ASSUME IInv, UNCHANGED poolVars, RunKept', NEW p \in Owners, NEW to,
           pc' = [pc EXCEPT ![p] = to],
           to \in {"New", "Warm"} => pc[p] \in {"New", "Warm"}
    PROVE  IInv'
<1>1. \A q \in Owners : pc'[q] \in {"New", "Warm"} => pc[q] \in {"New", "Warm"}
    BY DEF IInv, RunKept, RunType
<1>2. Sound'
    BY <1>1, IdleKept DEF IInv, Sound, poolVars
<1> QED BY <1>2 DEF Sound, IInv

LEMMA ExecutorActions ==
    ASSUME IInv, NEW e \in Executors,
           \/ Construct(e) \/ Compile(e) \/ RunInVM(e) \/ Launch(e) \/ Feed(e)
           \/ PollExit(e) \/ TimeOut(e) \/ Collect(e)
           \/ \E j \in Programs : Execute(e, j)
    PROVE  IInv'
<1>1. /\ e \in Owners /\ RunKept /\ UNCHANGED poolVars
      /\ tier' \in [Owners -> {"subprocess", "gvisor", "firecracker"}]
    <2>1. e \in Owners /\ RunKept
        BY SandboxAssumption DEF IInv
    <2>2. CASE UNCHANGED tier
        BY <2>1, <2>2 DEF RunKept, RunType, Construct, Compile, RunInVM, Launch, Feed,
                          PollExit, TimeOut, Collect, Execute
    <2>3. CASE Construct(e)
        <3>1. PICK request \in Requests, healthy \in BOOLEAN :
                  /\ tier' = [tier EXCEPT ![e] = ChosenTier(request, healthy)]
                  /\ UNCHANGED poolVars
            BY <2>3 DEF Construct
        <3>2. ChosenTier(request, healthy) \in {"subprocess", "gvisor", "firecracker"}
            BY SandboxAssumption DEF ChosenTier
        <3> QED BY <2>1, <3>1, <3>2 DEF RunKept, RunType
    <2> QED BY <2>2, <2>3 DEF Compile, RunInVM, Launch, Feed, PollExit, TimeOut, Collect, Execute
<1>2. /\ pc[e] \in PCs /\ job[e] \in Jobs \cup {NoJob} /\ child[e] \in Children
      /\ ChildWell(pc[e], job[e], child[e])
      /\ pc = [pc EXCEPT ![e] = pc[e]] /\ job = [job EXCEPT ![e] = job[e]]
      /\ child = [child EXCEPT ![e] = child[e]]
    BY <1>1, RunFacts
<1>3. child[e].exited \in BOOLEAN /\ (pc[e] \notin {"Feed", "Poll"} => child[e].exited = TRUE)
    BY <1>2 DEF Children, ChildWell
<1>4. ASSUME NEW c, c.exited = TRUE, Answer(e, c), UNCHANGED tier PROVE IInv'
    <2>1. RunKept'
        BY <1>1, <1>4, Answered
    <2> QED BY <1>1, <1>4, <2>1, PoolsUntouched DEF Answer
<1>5. ASSUME NEW to \in PCs, pc' = [pc EXCEPT ![e] = to], UNCHANGED <<job, child>>,
             to \in Busy => pc[e] \in Busy,
             to \in {"New", "Warm"} => pc[e] \in {"New", "Warm"},
             to \notin {"Feed", "Poll"} => pc[e] \notin {"Feed", "Poll"} \/ child[e].exited
      PROVE  IInv'
    <2>1. RunKept'
        BY <1>1, <1>5, MovedOn
    <2> QED BY <1>1, <1>5, <2>1, PoolsUntouched
<1>6. ASSUME NEW to \in PCs, pc' = [pc EXCEPT ![e] = to],
             NEW j \in Jobs, job' = [job EXCEPT ![e] = j],
             NEW c \in Children, child' = [child EXCEPT ![e] = c],
             ChildWell(to, j, c), to \notin {"New", "Warm"}
      PROVE  IInv'
    <2>1. RunKept'
        BY <1>1, <1>6, RunStep
    <2> QED BY <1>1, <1>6, <2>1, PoolsUntouched
<1>7. CASE Construct(e)
    <2>1. PICK to \in {"Refused", "Warm", "Idle"} :
              /\ pc[e] = "New" /\ pc' = [pc EXCEPT ![e] = to] /\ UNCHANGED <<job, child>>
        BY <1>7 DEF Construct, Goto
    <2>2. to \in PCs /\ to \notin Busy /\ to \notin {"Feed", "Poll"}
        BY DEF PCs, Busy
    <2> QED BY <1>5, <2>1, <2>2
<1>8. CASE Compile(e)
    <2>1. CASE Answer(e, child[e])
        <3>1. child[e].exited = TRUE /\ UNCHANGED tier
            BY <1>3, <1>8 DEF Compile
        <3> QED BY <1>4, <2>1, <3>1
    <2>2. CASE ~Answer(e, child[e])
        <3>1. PICK to \in {"Acquire", "Launch"} :
                 /\ pc[e] = "Compile" /\ pc' = [pc EXCEPT ![e] = to]
                 /\ UNCHANGED <<job, child>>
            BY <1>8, <2>2 DEF Compile
        <3>2. to \in PCs /\ to \notin {"New", "Warm"} /\ pc[e] \in Busy
              /\ pc[e] \notin {"Feed", "Poll"}
            BY <3>1 DEF PCs, Busy
        <3> QED BY <1>5, <3>1, <3>2
    <2> QED BY <2>1, <2>2
<1>9. CASE RunInVM(e) \/ PollExit(e)
    <2>1. PICK to \in {"Launch", "Collect"} :
              /\ pc[e] \in Busy /\ pc' = [pc EXCEPT ![e] = to] /\ UNCHANGED <<job, child>>
              /\ pc[e] \notin {"Feed", "Poll"} \/ child[e].exited
        BY <1>9 DEF RunInVM, PollExit, Goto, Busy
    <2>2. to \in PCs /\ to \notin {"New", "Warm"}
        BY <2>1 DEF PCs
    <2> QED BY <1>5, <2>1, <2>2
<1>10. CASE Launch(e)
    <2>1. CASE Answer(e, child[e])
        <3>1. child[e].exited = TRUE /\ UNCHANGED tier
            BY <1>3, <1>10 DEF Launch
        <3> QED BY <1>4, <2>1, <3>1
    <2>2. CASE ~Answer(e, child[e])
        <3>1. /\ pc[e] = "Launch" /\ pc' = [pc EXCEPT ![e] = "Feed"]
              /\ child' = [child EXCEPT ![e] = NewChild] /\ job' = job
            BY <1>10, <2>2 DEF Launch, Goto
        <3>2. NewChild \in Children /\ "Feed" \in PCs
            BY DEF NewChild, Children, PCs
        <3>3. job[e] \in Jobs /\ job' = [job EXCEPT ![e] = job[e]]
            BY <1>2, <3>1 DEF ChildWell, Busy
        <3>4. ChildWell("Feed", job[e], NewChild)
            BY <3>3, SandboxAssumption DEF ChildWell, NewChild
        <3> QED BY <1>6, <3>1, <3>2, <3>3, <3>4
    <2> QED BY <2>1, <2>2
<1>11. CASE Feed(e)
    <2>1. pc[e] = "Feed" /\ job' = job /\ pc[e] \in Busy
        BY <1>11 DEF Feed, Busy
    <2>2. job[e] \in Jobs /\ job' = [job EXCEPT ![e] = job[e]]
        BY <1>2, <2>1 DEF ChildWell
    <2>3. CASE child[e].exited \/ child[e].fed = job[e].stdin
        <3> DEFINE c == [child[e] EXCEPT !.eof = TRUE]
        <3>1. pc' = [pc EXCEPT ![e] = "Poll"] /\ child' = [child EXCEPT ![e] = c]
            BY <1>11, <2>3 DEF Feed
        <3>2. c \in Children /\ "Poll" \in PCs
            BY <1>2 DEF Children, PCs
        <3>3. ChildWell("Poll", job[e], c)
            BY <1>2, <2>2 DEF ChildWell, Children
        <3> HIDE DEF c
        <3> QED BY <1>6, <2>2, <3>1, <3>2, <3>3
    <2>4. CASE ~(child[e].exited \/ child[e].fed = job[e].stdin)
        <3> DEFINE c == [child[e] EXCEPT !.fed = @ + 1]
        <3>1. /\ pc' = [pc EXCEPT ![e] = "Feed"] /\ child' = [child EXCEPT ![e] = c]
              /\ child[e].fed - child[e].read < PipeSize
            BY <1>2, <1>11, <2>1, <2>4 DEF Feed
        <3>2. c \in Children /\ "Feed" \in PCs
            BY <1>2 DEF Children, PCs
        <3>3. ChildWell("Feed", job[e], c)
            BY <1>2, <2>2, <3>1, SandboxAssumption DEF ChildWell, Children
        <3> HIDE DEF c
        <3> QED BY <1>6, <2>2, <3>1, <3>2, <3>3
    <2> QED BY <2>3, <2>4
<1>12. CASE TimeOut(e)
    <2>1. Killed(e).exited = TRUE
        BY <1>2 DEF Killed, Children
    <2> QED BY <1>4, <1>12, <2>1 DEF TimeOut
<1>13. CASE Collect(e)
    <2>1. pc[e] = "Collect" /\ pc[e] \in Busy /\ UNCHANGED tier
        BY <1>13 DEF Collect, Busy
    <2>2. CASE child[e].drained < child[e].wrote
        <3> DEFINE c == [child[e] EXCEPT !.drained = @ + 1]
        <3>1. pc' = [pc EXCEPT ![e] = "Collect"] /\ child' = [child EXCEPT ![e] = c]
              /\ job' = [job EXCEPT ![e] = job[e]] /\ job[e] \in Jobs
            BY <1>2, <1>13, <2>1, <2>2 DEF Collect, ChildWell
        <3>2. c \in Children /\ "Collect" \in PCs
            BY <1>2 DEF Children, PCs
        <3>3. ChildWell("Collect", job[e], c)
            BY <1>2, <2>1, <2>2, <3>1, SandboxAssumption DEF ChildWell, Children
        <3> HIDE DEF c
        <3> QED BY <1>6, <3>1, <3>2, <3>3
    <2>3. CASE Answer(e, child[e])
        <3>1. child[e].exited = TRUE
            BY <1>3, <2>1
        <3> QED BY <1>4, <2>1, <2>3, <3>1
    <2> QED BY <1>13, <2>2, <2>3 DEF Collect
<1>14. ASSUME NEW j \in Programs, Execute(e, j) PROVE IInv'
    <2>1. PICK to \in {"Compile", "Acquire", "Launch"} :
              /\ pc[e] = "Idle" /\ pc' = [pc EXCEPT ![e] = to]
              /\ job' = [job EXCEPT ![e] = j] /\ child' = child
        BY <1>14 DEF Execute, Goto
    <2>2. j \in Jobs /\ to \in PCs /\ to \notin {"New", "Warm"}
        BY SandboxAssumption DEF PCs
    <2>3. ChildWell(to, j, child[e])
        BY <1>2, <2>1, <2>2 DEF ChildWell
    <2>4. child' = [child EXCEPT ![e] = child[e]]
        BY <1>2, <2>1
    <2> QED BY <1>2, <1>6, <2>1, <2>2, <2>3, <2>4
<1> QED BY <1>7, <1>8, <1>9, <1>10, <1>11, <1>12, <1>13, <1>14

(* The program and what it leaves behind.                                   *)
LEMMA ChildActions ==
    ASSUME IInv, NEW e \in Executors, ChildStep(e) \/ HolderEnds(e)
    PROVE  IInv'
<1>1. /\ e \in Owners /\ RunKept /\ UNCHANGED <<poolVars, pc, tier, job>>
      /\ pc = [pc EXCEPT ![e] = pc[e]]
    BY SandboxAssumption DEF IInv, ChildStep, HolderEnds, RunKept, RunType
<1>2. child[e] \in Children /\ ChildWell(pc[e], job[e], child[e])
    BY <1>1, RunFacts
<1>3. ASSUME NEW c \in Children, child' = [child EXCEPT ![e] = c],
             ChildWell(pc[e], job[e], c)
      PROVE  IInv'
    <2>1. RunKept'
        BY <1>1, <1>3, ChildMoved
    <2>2. pc' = [pc EXCEPT ![e] = pc[e]]
        BY <1>1
    <2> QED BY <1>1, <2>1, <2>2, PoolsUntouched
<1>4. CASE HolderEnds(e)
    <2> DEFINE c == [child[e] EXCEPT !.holder = FALSE]
    <2>1. c \in Children /\ child' = [child EXCEPT ![e] = c] /\ ChildWell(pc[e], job[e], c)
        BY <1>2, <1>4 DEF HolderEnds, Children, ChildWell
    <2> HIDE DEF c
    <2> QED BY <1>3, <2>1
<1>5. CASE ChildStep(e)
    <2>1. pc[e] \in {"Feed", "Poll"} /\ job[e] \in Jobs
        BY <1>2, <1>5 DEF ChildStep, Running, ChildWell, Busy
    <2>2. CASE child[e].read < child[e].fed /\ child' = [child EXCEPT ![e].read = @ + 1]
        <3> DEFINE c == [child[e] EXCEPT !.read = @ + 1]
        <3>1. c \in Children /\ child' = [child EXCEPT ![e] = c]
            BY <1>2, <2>2 DEF Children
        <3>2. ChildWell(pc[e], job[e], c)
            BY <1>2, <2>2, SandboxAssumption DEF Children, ChildWell
        <3> HIDE DEF c
        <3> QED BY <1>3, <3>1, <3>2
    <2>3. CASE /\ child[e].wrote - child[e].drained < PipeSize
               /\ child' = [child EXCEPT ![e].wrote = @ + 1]
        <3> DEFINE c == [child[e] EXCEPT !.wrote = @ + 1]
        <3>1. c \in Children /\ child' = [child EXCEPT ![e] = c]
            BY <1>2, <2>3 DEF Children
        <3>2. ChildWell(pc[e], job[e], c)
            BY <1>2, <2>3, SandboxAssumption DEF Children, ChildWell
        <3> HIDE DEF c
        <3> QED BY <1>3, <3>1, <3>2
    <2>4. CASE child' = [child EXCEPT ![e] = Killed(e)]
        <3>1. Killed(e) \in Children /\ ChildWell(pc[e], job[e], Killed(e))
            BY <1>2, <2>1 DEF Children, ChildWell, Killed, Jobs
        <3> QED BY <1>3, <2>4, <3>1
    <2> QED BY <1>5, <2>2, <2>3, <2>4 DEF ChildStep
<1> QED BY <1>4, <1>5

LEMMA Inductive == IInv /\ [Next]_vars => IInv'
<1> SUFFICES ASSUME IInv, [Next]_vars PROVE IInv'
    OBVIOUS
<1>1. ASSUME NEW p \in Owners, Acting(p) PROVE IInv'
    BY <1>1, WarmUpAction, PoolActions, ExecutorActions DEF Acting
<1>2. ASSUME NEW e \in Executors,
             ChildStep(e) \/ HolderEnds(e) \/ \E j \in Programs : Execute(e, j)
      PROVE  IInv'
    BY <1>2, ChildActions, ExecutorActions
<1>3. ASSUME NEW u \in Users, UserAcquires(u) \/ UserReleases(u) \/ UserShutsDown(u)
      PROVE  IInv'
    BY <1>3, UserActions
<1>4. ASSUME UNCHANGED runVars,
             UNCHANGED <<counter, available, acquired, socket, overdue, orphans>>,
             alive' \subseteq alive
      PROVE  IInv'
    <2>1. Sound'
        BY <1>4, IdleKept DEF IInv, Sound, runVars
    <2>2. RunKept'
        BY <1>4 DEF IInv, RunKept, RunType, runVars
    <2> QED BY <2>1, <2>2 DEF Sound, IInv
<1>5. CASE Crash /\ UNCHANGED runVars
    <2>1. alive' \subseteq alive
        BY <1>5 DEF Crash
    <2> QED BY <1>4, <1>5, <2>1 DEF Crash
<1>6. CASE UNCHANGED vars
    BY <1>4, <1>6 DEF vars, poolVars
<1> QED BY <1>1, <1>2, <1>3, <1>5, <1>6 DEF Next

LEMMA InvariantHolds == Spec => []IInv
BY InitKept, Inductive, PTL DEF Spec

(***************************************************************************)
(* No VM is handed out twice, a pool holds no more VMs than its size and   *)
(* those made after a deadline, every firecracker process is known to its  *)
(* pool or was orphaned when it was made, and no program outlives the      *)
(* execute() that started it (engines/firecracker_vm.py, sandbox.py): for  *)
(* any executors and users, pool size, pipe and programs.                  *)
(***************************************************************************)
THEOREM SandboxLeaksNothing == Spec => []NothingLeaks
<1>1. IInv => NothingLeaks
    <2> SUFFICES ASSUME IInv PROVE NothingLeaks
        OBVIOUS
    <2>1. TypeOK
        <3>1. \A p \in Owners : counter[p] \in 0 .. MaxIds /\ overdue[p] \in 0 .. MaxIds
            <4>1. TAKE p \in Owners
            <4>2. /\ counter[p] \in 0 .. MaxIds /\ overdue[p] \in 0 .. counter[p]
                  /\ counter[p] \in Nat /\ overdue[p] \in Nat
                BY DEF IInv, PoolsKept, KeptWell
            <4> QED BY <4>2, PoolAssumption
        <3>2. \A e \in Executors :
                  /\ child[e].read <= child[e].fed /\ child[e].drained <= child[e].wrote
                  /\ child[e].fed - child[e].read <= PipeSize
                  /\ child[e].wrote - child[e].drained <= PipeSize
            BY DEF IInv, RunKept, ChildWell
        <3>3. /\ counter \in [Owners -> 0 .. MaxIds] /\ overdue \in [Owners -> 0 .. MaxIds]
            BY <3>1 DEF IInv, PoolsKept
        <3> QED BY <3>2, <3>3 DEF IInv, PoolsKept, ProcessesType, RunKept, RunType, TypeOK
    <2>2. HandedOutOnce
        BY DEF IInv, PoolsKept, KeptWell, HandedOutOnce
    <2>3. PoolAccounted
        BY DEF IInv, PoolsKept, KeptWell, PoolAccounted
    <2>4. NoChildLeft
        BY DEF IInv, RunKept, ChildWell, NoChildLeft
    <2> QED BY <2>1, <2>2, <2>3, <2>4 DEF IInv, NothingLeaks, PoolSound
<1> QED BY <1>1, InvariantHolds, PTL
=============================================================================
