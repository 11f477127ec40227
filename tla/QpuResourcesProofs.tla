------------------------- MODULE QpuResourcesProofs -------------------------
(***************************************************************************)
(* Proofs about the qubits of a QPU: every mapped qubit belongs to a task, *)
(* and a task whose pair failed can be tried again at once.                *)
(*                                                                         *)
(* Both rest on one inductive invariant, ResInv.  It says of the task that *)
(* is executed that it is a root of the graph, that none of the qubits of  *)
(* its pairs is one a finished task has left (the check before the task    *)
(* refuses mapped qubits, and no other task runs meanwhile), and that what *)
(* the check found free is still free but for the qubit it has just taken. *)
(***************************************************************************)
EXTENDS QpuResources, TLAPS

IsQpuTask(t) ==
    /\ t.pid \in Pids
    /\ t.blk \in DOMAIN Work[t.pid]
    /\ t.name \in QuantumTasks(Block(t))
    /\ t # NoTask

Mapped(p) == {v \in VirtIds : Mem!IsMapped(p, v)}

TypeOK ==
    /\ mapping \in [Pids -> [VirtIds -> PhysIds \cup {None}]]
    /\ handed \in [Pids -> Nat]
    /\ kept \in [Pids -> SUBSET VirtIds]
    /\ \A t \in queue : IsQpuTask(t)
    /\ core \in {"choosing", "busy", "waiting", "crashed"}
    /\ stage \in {"allocate", "execute"}

\* The task that is executed is a root of the graph, at one of its pairs.
CurrentIsRoot ==
    /\ core = "busy" => current \in RootTasks
    /\ core \in {"choosing", "waiting"} => current = NoTask
    /\ core = "busy" /\ IsPair(current) => pair \in DOMAIN PairQubits(current)

\* No finished task was to leave a qubit that the current request generates.
PairsAreFresh ==
    core = "busy" /\ IsPair(current) => kept[current.pid] \cap Touched(current) = {}

\* A request that holds at most the qubit of one pair has disturbed nothing
\* else since it passed the check.
TakenBack == IF stage = "execute" THEN {mapping[current.pid][PairQubits(current)[pair]]} ELSE {}
CanRetry(v) ==
    /\ v \in UnitModule[current.pid]
    /\ Mem!PhysOfKind(current.pid, v) \cap (Mem!FreePhys \cup TakenBack) # {}
    /\ Mem!IsMapped(current.pid, v) => stage = "execute" /\ v = PairQubits(current)[pair]
CheckStillHolds ==
    core = "busy" /\ IsPair(current) /\ (pair = 1 \/ Block(current).measure)
        => \A i \in DOMAIN PairQubits(current) : CanRetry(PairQubits(current)[i])


\* What a task holds at its k-th pair, before and after allocating for it.
HeldBy(t, k, s) ==
    IF ~ IsPair(t) THEN IF s = "execute" THEN Touched(t) ELSE {}
    ELSE {PairQubits(t)[i] : i \in (IF Block(t).measure THEN k ELSE 1)
                                   ..(IF s = "execute" THEN k ELSE k - 1)}
Now(p) ==
    IF core = "busy" /\ current # NoTask /\ current.pid = p
    THEN HeldBy(current, pair, stage) ELSE {}

\* A qubit that a task of p leaves behind when its request fails.
LeftOf(t, p, v) ==
    /\ t.pid = p /\ t.name = Multi /\ ~ Block(t).measure
    /\ \E i \in 1..(Len(PairQubits(t)) - 1) : v = PairQubits(t)[i]

\* QubitsAccountedFor, qubit by qubit.
Accounted(p, v) ==
    /\ v \in Mapped(p) => \/ v \in kept[p] \cup Now(p)
                          \/ \E t \in queue : t # current /\ LeftOf(t, p, v)
    /\ v \in kept[p] \cup Now(p) => v \in Mapped(p)
EachAccountedFor == core # "crashed" => \A p \in Pids : \A v \in VirtIds : Accounted(p, v)

ResInv ==
    /\ TypeOK
    /\ CurrentIsRoot
    /\ PairsAreFresh
    /\ CheckStillHolds
    /\ EachAccountedFor

------------------------------------------------------------------------------
(* The tasks of the QPU.                                                      *)

\* The tasks of a block that generate pairs.
LEMMA NamesOfPairTasks ==
    ASSUME NEW b \in QuantumBlocks, NEW n \in QuantumTasks(b), n[1] \in EprKinds
    PROVE  b.typ = "QC" /\ (n = Multi \/ \E i \in 1..b.pairs : n = Pair(i))
<1>1. \/ n = Routine
      \/ b.typ = "QC" /\ (n = Multi \/ n = MultiCb)
      \/ b.typ = "QC" /\ \E i \in 1..b.pairs : n = Pair(i) \/ n = PairCb(i)
  BY DEF QuantumTasks, QuantumBlocks
<1>2. ~ (n = Routine \/ n = MultiCb \/ \E i \in 1..b.pairs : n = PairCb(i))
  BY DEF EprKinds, Routine, MultiCb, PairCb
<1> QED
  BY <1>1, <1>2

LEMMA BlockOfTask ==
    ASSUME NEW t, IsQpuTask(t)
    PROVE  /\ Block(t) \in QuantumBlocks
           /\ t.name \in QuantumTasks(Block(t))
           /\ \A k \in DOMAIN Block(t).use : Block(t).use[k] \in UnitModule[t.pid]
           /\ Block(t).typ = "QC" => Block(t).pairs > 0 /\ Len(Block(t).virts) = Block(t).pairs
  BY ResourcesAssumption DEF IsQpuTask, Block

\* A request generates at least one pair, and a task of its own exactly one.
LEMMA PairQubitsType ==
    ASSUME NEW t, IsQpuTask(t), IsPair(t)
    PROVE  /\ PairQubits(t) \in Seq(VirtIds)
           /\ Len(PairQubits(t)) \in Nat \ {0}
           /\ t.name # Multi => Len(PairQubits(t)) = 1
<1>1. /\ Block(t) \in QuantumBlocks
      /\ Len(Block(t).virts) = Block(t).pairs /\ Block(t).pairs > 0
      /\ t.name = Multi \/ \E i \in 1..Block(t).pairs : t.name = Pair(i)
  BY BlockOfTask, NamesOfPairTasks DEF IsPair
<1>2. Block(t).virts \in Seq(VirtIds) /\ Block(t).pairs \in Nat
  BY <1>1 DEF QuantumBlocks
<1>3. CASE t.name = Multi
  BY <1>1, <1>2, <1>3 DEF PairQubits
<1>4. CASE t.name # Multi
  <2>1. PICK i \in 1..Block(t).pairs : t.name = Pair(i)
    BY <1>1, <1>4
  <2>2. t.name[2] \in 1..Len(Block(t).virts)
    BY <1>1, <1>2, <2>1 DEF Pair
  <2>3. PairQubits(t) = <<Block(t).virts[t.name[2]]>>
    BY <1>4 DEF PairQubits
  <2> QED
    BY <1>2, <1>4, <2>2, <2>3
<1> QED
  BY <1>3, <1>4

LEMMA TouchedType ==
    ASSUME NEW t, IsQpuTask(t)
    PROVE  Touched(t) \subseteq VirtIds
<1>1. CASE IsPair(t)
  BY <1>1, PairQubitsType DEF Touched
<1>2. CASE ~ IsPair(t)
  <2>1. Block(t).use \in Seq(VirtIds)
    BY BlockOfTask DEF QuantumBlocks
  <2> QED
    BY <1>2, <2>1 DEF Touched
<1> QED
  BY <1>1, <1>2

------------------------------------------------------------------------------
(* What a task holds as it goes through its pairs.                            *)

LEMMA HeldByRoutine ==
    ASSUME NEW t, ~ IsPair(t), NEW k
    PROVE  HeldBy(t, k, "allocate") = {} /\ HeldBy(t, k, "execute") = Touched(t)
  BY DEF HeldBy

LEMMA HeldByMeasured ==
    ASSUME NEW t, IsPair(t), Block(t).measure, NEW k \in Nat
    PROVE  /\ HeldBy(t, k, "allocate") = {}
           /\ HeldBy(t, k, "execute") = {PairQubits(t)[k]}
<1>1. k..(k - 1) = {} /\ k..k = {k}
  OBVIOUS
<1> QED
  BY <1>1 DEF HeldBy

LEMMA HeldByKept ==
    ASSUME NEW t, IsPair(t), ~ Block(t).measure, NEW k \in Nat \ {0}
    PROVE  /\ HeldBy(t, 1, "allocate") = {}
           /\ HeldBy(t, k, "execute") = HeldBy(t, k, "allocate") \cup {PairQubits(t)[k]}
           /\ HeldBy(t, k + 1, "allocate") = HeldBy(t, k, "execute")
<1>1. 1..(1 - 1) = {} /\ 1..k = (1..(k - 1)) \cup {k} /\ (k + 1) - 1 = k
  OBVIOUS
<1> QED
  BY <1>1 DEF HeldBy

\* A kept request holds a part of what it touches, in the end all of it; if it
\* fails, the qubits of earlier pairs are left.
LEMMA HeldByRequest ==
    ASSUME NEW t, IsQpuTask(t), IsPair(t), ~ Block(t).measure,
           NEW k \in DOMAIN PairQubits(t)
    PROVE  /\ HeldBy(t, k, "execute") \subseteq Touched(t)
           /\ k = Len(PairQubits(t)) => HeldBy(t, k, "execute") = Touched(t)
           /\ \A v \in HeldBy(t, k, "allocate") : LeftOf(t, t.pid, v)
<1>1. /\ Len(PairQubits(t)) \in Nat \ {0}
      /\ DOMAIN PairQubits(t) = 1..Len(PairQubits(t))
      /\ t.name # Multi => Len(PairQubits(t)) = 1
  BY PairQubitsType
<1>2. /\ HeldBy(t, k, "execute") = {PairQubits(t)[i] : i \in 1..k}
      /\ HeldBy(t, k, "allocate") = {PairQubits(t)[i] : i \in 1..(k - 1)}
  BY DEF HeldBy
<1>3. Touched(t) = {PairQubits(t)[i] : i \in DOMAIN PairQubits(t)}
  BY DEF Touched
<1>4. k \in Nat /\ 1 <= k /\ k <= Len(PairQubits(t))
  BY <1>1
<1>5. HeldBy(t, k, "execute") \subseteq Touched(t)
  BY <1>1, <1>2, <1>3, <1>4
<1>6. k = Len(PairQubits(t)) => HeldBy(t, k, "execute") = Touched(t)
  BY <1>1, <1>2, <1>3
<1>7. ASSUME NEW v \in HeldBy(t, k, "allocate")
      PROVE  LeftOf(t, t.pid, v)
  <2>1. PICK i \in 1..(k - 1) : v = PairQubits(t)[i]
    BY <1>2, <1>7
  <2>2. i \in 1..(Len(PairQubits(t)) - 1) /\ Len(PairQubits(t)) # 1
    BY <1>1, <1>4, <2>1
  <2> QED
    BY <1>1, <2>1, <2>2 DEF LeftOf
<1> QED
  BY <1>5, <1>6, <1>7

------------------------------------------------------------------------------
(* The memory.                                                                *)

\* A task for pairs passes the check only if none of its qubits is mapped, and
\* each could be backed by a free one.
LEMMA AvailableMeans ==
    ASSUME NEW t, IsPair(t), Available(t), NEW i \in DOMAIN PairQubits(t)
    PROVE  /\ PairQubits(t)[i] \in UnitModule[t.pid]
           /\ Mem!PhysOfKind(t.pid, PairQubits(t)[i]) \cap Mem!FreePhys # {}
           /\ ~ Mem!IsMapped(t.pid, PairQubits(t)[i])
<1>1. Trials(t) = PairQubits(t)
  <2>1. t.name # Routine
    BY DEF IsPair, EprKinds, Routine
  <2> QED
    BY <2>1 DEF Trials
<1>2. ~ Mem!AllocateRefused(t.pid, PairQubits(t)[i])
  BY <1>1 DEF Available
<1> QED
  BY <1>2 DEF Mem!AllocateRefused, Mem!Candidates

Dictionary == [Pids -> [VirtIds -> PhysIds \cup {None}]]

\* free unmaps these virtual qubits and no other, and what backed them is free.
LEMMA FreeMaps ==
    ASSUME mapping \in Dictionary, NEW p \in Pids, NEW virts, FreeQubits(p, virts)
    PROVE  /\ mapping' \in Dictionary
           /\ \A r \in Pids : \A v \in VirtIds :
                 mapping'[r][v] = IF r = p /\ v \in virts THEN None ELSE mapping[r][v]
           /\ Mem!FreePhys \subseteq Mem!FreePhys'
           /\ \A v \in virts : mapping[p][v] \in PhysIds => mapping[p][v] \in Mem!FreePhys'
<1>1. mapping' = [mapping EXCEPT ![p] = [v \in VirtIds |->
                      IF v \in virts THEN None ELSE mapping[p][v]]]
  BY DEF FreeQubits, Dictionary
<1>2. physical' = [q \in PhysIds |->
                      IF \E v \in virts : mapping[p][v] = q THEN None ELSE physical[q]]
  BY DEF FreeQubits
<1>3. mapping' \in Dictionary
  BY <1>1 DEF Dictionary
<1>4. \A r \in Pids : \A v \in VirtIds :
         mapping'[r][v] = IF r = p /\ v \in virts THEN None ELSE mapping[r][v]
  BY <1>1 DEF Dictionary
<1>5. /\ Mem!FreePhys = {q \in PhysIds : physical[q] = None}
      /\ Mem!FreePhys' = {q \in PhysIds : physical'[q] = None}
  BY DEF Mem!FreePhys
<1> QED
  BY <1>2, <1>3, <1>4, <1>5

\* Allocation maps the qubits that are needed, and takes only what backs them.
LEMMA AllocateMaps ==
    ASSUME mapping \in Dictionary, NEW p \in Pids, NEW virts, NEW a \in Assignments(p, virts),
           virts \subseteq VirtIds, AllocateQubits(p, virts, a)
    PROVE  /\ mapping' \in Dictionary
           /\ \A v \in virts : mapping'[p][v] \in PhysIds /\ mapping'[p][v] # None
           /\ \A r \in Pids : \A v \in VirtIds :
                 ~ (r = p /\ v \in virts) => mapping'[r][v] = mapping[r][v]
           /\ \A q \in Mem!FreePhys :
                 q \in Mem!FreePhys' \/ \E v \in virts : q = mapping'[p][v]
<1>1. mapping' = [mapping EXCEPT ![p] = [v \in VirtIds |->
                      IF v \in virts THEN a[v] ELSE mapping[p][v]]]
  BY DEF Dictionary, AllocateQubits
<1>2. a \in [virts -> PhysIds]
  BY DEF Assignments
<1>3. mapping' \in Dictionary
  BY <1>1, <1>2 DEF Dictionary
<1>4. \A v \in virts : mapping'[p][v] = a[v]
  BY <1>1, <1>2 DEF Dictionary
<1>5. \A v \in virts : mapping'[p][v] \in PhysIds /\ mapping'[p][v] # None
  BY <1>2, <1>4, ResourcesAssumption
<1>6. \A r \in Pids : \A v \in VirtIds :
         ~ (r = p /\ v \in virts) => mapping'[r][v] = mapping[r][v]
  BY <1>1 DEF Dictionary
<1>7. ASSUME NEW q \in Mem!FreePhys, ~ \E v \in virts : q = mapping'[p][v]
      PROVE  q \in Mem!FreePhys'
  <2>1. q \in PhysIds /\ physical[q] = None
    BY <1>7 DEF Mem!FreePhys
  <2>2. ~ \E v \in virts : a[v] = q
    BY <1>4, <1>7
  <2>3. physical'[q] = physical[q]
    BY <2>1, <2>2 DEF AllocateQubits
  <2> QED
    BY <2>1, <2>3 DEF Mem!FreePhys
<1> QED
  BY <1>3, <1>5, <1>6, <1>7

------------------------------------------------------------------------------
(* The invariant holds at first and is preserved.                             *)

LEMMA InitInv == Init => ResInv
<1> SUFFICES ASSUME Init PROVE ResInv
  OBVIOUS
<1>1. TypeOK /\ CurrentIsRoot /\ PairsAreFresh /\ CheckStillHolds
  BY DEF Init, TypeOK, CurrentIsRoot, PairsAreFresh, CheckStillHolds
<1>2. ASSUME NEW p \in Pids, NEW v \in VirtIds
      PROVE  Accounted(p, v)
  BY DEF Init, Accounted, Mapped, Now, Mem!IsMapped
<1> QED
  BY <1>1, <1>2 DEF ResInv, EachAccountedFor

LEMMA HandOutStep ==
    ASSUME ResInv, NEW p \in Pids, HandOut(p)
    PROVE  ResInv'
<1>1. /\ core # "crashed" /\ (core' = core \/ (core = "waiting" /\ core' = "choosing"))
      /\ mapping' = mapping /\ physical' = physical /\ kept' = kept
      /\ current' = current /\ pair' = pair /\ stage' = stage
      /\ handed' = [handed EXCEPT ![p] = @ + 1]
      /\ handed[p] < Len(Work[p]) /\ \A t \in queue : t.pid # p
      /\ queue' = queue \cup [pid : {p}, blk : {handed[p] + 1},
                              name : QuantumTasks(Work[p][handed[p] + 1])]
  BY DEF HandOut, WokenByTasks, memVars
<1>2. handed[p] \in Nat /\ handed[p] + 1 \in DOMAIN Work[p]
  BY <1>1, ResourcesAssumption DEF ResInv, TypeOK
<1>3. ASSUME NEW t \in queue' \ queue
      PROVE  IsQpuTask(t) /\ t.pid = p
  <2>1. /\ t.pid = p /\ t.blk = handed[p] + 1
        /\ t.name \in QuantumTasks(Work[p][handed[p] + 1])
        /\ t \in [pid : {p}, blk : {handed[p] + 1}, name : QuantumTasks(Work[p][handed[p] + 1])]
    BY <1>1, <1>3
  <2>2. t # NoTask
    BY <1>2, <2>1, ResourcesAssumption
  <2> QED
    BY <1>2, <2>1, <2>2 DEF IsQpuTask, Block
<1>4. TypeOK'
  <2>1. handed' \in [Pids -> Nat]
    BY <1>1, <1>2 DEF ResInv, TypeOK
  <2> QED
    BY <1>1, <1>3, <2>1 DEF ResInv, TypeOK
<1>5. CurrentIsRoot'
  <2>1. ASSUME core = "busy" PROVE current \in RootTasks'
    <3>1. current \in RootTasks /\ current \in queue /\ current.pid # p
      BY <1>1, <2>1 DEF ResInv, CurrentIsRoot, RootTasks
    <3> QED
      BY <1>1, <1>3, <3>1 DEF RootTasks
  <2> QED
    BY <1>1, <2>1 DEF ResInv, CurrentIsRoot
<1>6. PairsAreFresh'
  BY <1>1 DEF ResInv, PairsAreFresh
<1>7. CheckStillHolds'
  BY <1>1 DEF ResInv, CheckStillHolds, CanRetry, TakenBack, Mem!FreePhys, Mem!IsMapped,
              Mem!PhysOfKind
<1>8. ASSUME NEW r \in Pids, NEW v \in VirtIds
      PROVE  Accounted(r, v)'
  <2>1. Accounted(r, v)
    BY <1>1 DEF ResInv, EachAccountedFor
  <2>2. Now(r)' = Now(r) /\ (v \in Mapped(r)' <=> v \in Mapped(r))
    BY <1>1 DEF Now, Mapped, Mem!IsMapped
  <2>3. queue \subseteq queue'
    BY <1>1
  <2> QED
    BY <1>1, <2>1, <2>2, <2>3 DEF Accounted
<1> QED
  BY <1>4, <1>5, <1>6, <1>7, <1>8 DEF ResInv, EachAccountedFor

LEMMA StartTaskStep ==
    ASSUME ResInv, StartTask
    PROVE  ResInv'
<1>1. PICK t \in Choices : current' = t
  BY DEF StartTask
<1>2. /\ core = "choosing" /\ core' = "busy" /\ pair' = 1 /\ stage' = "allocate"
      /\ mapping' = mapping /\ physical' = physical /\ kept' = kept
      /\ queue' = queue /\ handed' = handed
  BY DEF StartTask, memVars, taskVars
<1>3. t \in RootTasks /\ t \in queue /\ Available(t)
  BY DEF Choices, ReadyTasks, RootTasks
<1>4. IsQpuTask(t) /\ current = NoTask /\ t # NoTask /\ t.pid \in Pids
  BY <1>2, <1>3 DEF ResInv, TypeOK, CurrentIsRoot, IsQpuTask
<1>5. ASSUME IsPair(t), NEW i \in DOMAIN PairQubits(t)
      PROVE  /\ PairQubits(t)[i] \in VirtIds
             /\ PairQubits(t)[i] \notin Mapped(t.pid)
             /\ PairQubits(t)[i] \notin kept[t.pid]
  <2>1. PairQubits(t)[i] \in VirtIds
    BY <1>4, <1>5, PairQubitsType
  <2>2. PairQubits(t)[i] \notin Mapped(t.pid)
    BY <1>3, <1>5, AvailableMeans DEF Mapped
  <2> QED
    BY <1>2, <1>4, <2>1, <2>2 DEF ResInv, EachAccountedFor, Accounted
<1>6. TypeOK'
  BY <1>2 DEF ResInv, TypeOK
<1>7. CurrentIsRoot'
  <2>1. IsPair(t) => 1 \in DOMAIN PairQubits(t)
    BY <1>4, PairQubitsType
  <2>2. RootTasks' = RootTasks
    BY <1>2 DEF RootTasks
  <2> QED
    BY <1>1, <1>2, <1>3, <2>1, <2>2 DEF CurrentIsRoot
<1>8. PairsAreFresh'
  BY <1>1, <1>2, <1>5 DEF PairsAreFresh, Touched
<1>9. CheckStillHolds'
  <2>1. ASSUME IsPair(t), NEW i \in DOMAIN PairQubits(t)
        PROVE  CanRetry(PairQubits(t)[i])'
    BY <1>1, <1>2, <1>3, <2>1, AvailableMeans
       DEF CanRetry, TakenBack, Mem!FreePhys, Mem!IsMapped, Mem!PhysOfKind
  <2> QED
    BY <1>1, <2>1 DEF CheckStillHolds
<1>10. ASSUME NEW r \in Pids, NEW v \in VirtIds
       PROVE  Accounted(r, v)'
  <2>1. Accounted(r, v) /\ Now(r) = {}
    BY <1>2 DEF ResInv, EachAccountedFor, Now
  <2>2. HeldBy(t, 1, "allocate") = {}
    <3>1. 1 \in Nat /\ 1 \in Nat \ {0}
      OBVIOUS
    <3> QED
      BY <3>1, HeldByRoutine, HeldByMeasured, HeldByKept
  <2>3. Now(r)' = {} /\ (v \in Mapped(r)' <=> v \in Mapped(r))
    BY <1>1, <1>2, <2>2 DEF Now, Mapped, Mem!IsMapped
  <2>4. ~ (v \in Mapped(r) /\ LeftOf(t, r, v))
    <3>1. ASSUME LeftOf(t, r, v)
          PROVE  v \notin Mapped(r)
      <4>1. IsPair(t) /\ r = t.pid
        BY <3>1 DEF LeftOf, IsPair, EprKinds, Multi
      <4>2. PICK i \in 1..(Len(PairQubits(t)) - 1) : v = PairQubits(t)[i]
        BY <3>1 DEF LeftOf
      <4>3. i \in DOMAIN PairQubits(t)
        BY <1>4, <4>1, <4>2, PairQubitsType
      <4> QED
        BY <1>5, <4>1, <4>2, <4>3
    <3> QED
      BY <3>1
  <2> QED
    BY <1>1, <1>2, <1>4, <2>1, <2>3, <2>4 DEF Accounted
<1> QED
  BY <1>6, <1>7, <1>8, <1>9, <1>10 DEF ResInv, EachAccountedFor

\* Falling asleep and the delivery of a signal leave tasks and memory alone.
LEMMA SleepStep ==
    ASSUME ResInv, FallAsleep \/ FreedDelivered
    PROVE  ResInv'
<1>1. /\ \/ core' = core
         \/ core \in {"choosing", "waiting"} /\ core' \in {"choosing", "waiting"}
      /\ mapping' = mapping /\ physical' = physical /\ kept' = kept
      /\ queue' = queue /\ handed' = handed
      /\ current' = current /\ pair' = pair /\ stage' = stage
  BY DEF FallAsleep, FreedDelivered, memVars, taskVars
<1>2. TypeOK'
  BY <1>1 DEF ResInv, TypeOK
<1>3. CurrentIsRoot'
  <2>1. RootTasks' = RootTasks
    BY <1>1 DEF RootTasks
  <2> QED
    BY <1>1, <2>1 DEF ResInv, CurrentIsRoot
<1>4. PairsAreFresh'
  BY <1>1 DEF ResInv, PairsAreFresh
<1>5. CheckStillHolds'
  BY <1>1 DEF ResInv, CheckStillHolds, CanRetry, TakenBack, Mem!FreePhys, Mem!IsMapped,
              Mem!PhysOfKind
<1>6. ASSUME NEW r \in Pids, NEW v \in VirtIds, core' # "crashed"
      PROVE  Accounted(r, v)'
  <2>1. Accounted(r, v)
    BY <1>1, <1>6 DEF ResInv, EachAccountedFor
  <2>2. Now(r)' = Now(r) /\ (v \in Mapped(r)' <=> v \in Mapped(r))
    BY <1>1 DEF Now, Mapped, Mem!IsMapped
  <2> QED
    BY <1>1, <2>1, <2>2 DEF Accounted
<1> QED
  BY <1>2, <1>3, <1>4, <1>5, <1>6 DEF ResInv, EachAccountedFor

\* Of the task that is executed: what the invariant says, the task being named.
LEMMA BusyFacts ==
    ASSUME ResInv, core = "busy", NEW t, t = current
    PROVE  /\ t \in queue /\ IsQpuTask(t) /\ t # NoTask /\ t.pid \in Pids
           /\ mapping \in Dictionary
           /\ Touched(t) \subseteq VirtIds
           /\ IsPair(t) => /\ pair \in DOMAIN PairQubits(t)
                           /\ pair \in Nat \ {0}
                           /\ PairQubits(t)[pair] \in Touched(t)
                           /\ kept[t.pid] \cap Touched(t) = {}
           /\ \A p \in Pids : \A v \in VirtIds : Accounted(p, v)
           /\ \A p \in Pids : Now(p) = IF p = t.pid THEN HeldBy(t, pair, stage) ELSE {}
<1>1. t \in queue /\ IsQpuTask(t) /\ mapping \in Dictionary
  BY DEF ResInv, TypeOK, CurrentIsRoot, RootTasks, Dictionary
<1>2. t # NoTask /\ t.pid \in Pids
  BY <1>1 DEF IsQpuTask
<1>3. Touched(t) \subseteq VirtIds
  BY <1>1, TouchedType
<1>4. ASSUME IsPair(t)
      PROVE  /\ pair \in DOMAIN PairQubits(t)
             /\ pair \in Nat \ {0}
             /\ PairQubits(t)[pair] \in Touched(t)
             /\ kept[t.pid] \cap Touched(t) = {}
  <2>1. pair \in DOMAIN PairQubits(t) /\ kept[t.pid] \cap Touched(t) = {}
    BY <1>4 DEF ResInv, CurrentIsRoot, PairsAreFresh
  <2>2. pair \in 1..Len(PairQubits(t)) /\ Len(PairQubits(t)) \in Nat
    BY <1>1, <1>4, <2>1, PairQubitsType
  <2> QED
    BY <1>4, <2>1, <2>2 DEF Touched
<1>5. \A p \in Pids : \A v \in VirtIds : Accounted(p, v)
  BY DEF ResInv, EachAccountedFor
<1>6. \A p \in Pids : Now(p) = IF p = t.pid THEN HeldBy(t, pair, stage) ELSE {}
  BY <1>2 DEF Now
<1> QED
  BY <1>1, <1>2, <1>3, <1>4, <1>5, <1>6

LEMMA AllocateStep ==
    ASSUME ResInv, AllocateForTask
    PROVE  ResInv'
<1>1. PICK t, virts : t = current /\ virts = Needed(current)
  OBVIOUS
<1>2. /\ core = "busy" /\ stage = "allocate"
      /\ kept' = kept /\ queue' = queue /\ handed' = handed
      /\ current' = t /\ pair' = pair
  BY <1>1 DEF AllocateForTask, taskVars
<1>3. \/ /\ core' = "crashed" /\ mapping' = mapping /\ physical' = physical
         /\ stage' = stage
      \/ /\ core' = core /\ stage' = "execute"
         /\ \E a \in Assignments(t.pid, virts) : AllocateQubits(t.pid, virts, a)
  BY <1>1 DEF AllocateForTask, memVars
<1>4. CASE core' = "crashed"
  <2>1. mapping' = mapping /\ stage' = stage
    BY <1>2, <1>3, <1>4
  <2> QED
    BY <1>2, <1>4, <2>1 DEF ResInv, TypeOK, CurrentIsRoot, PairsAreFresh, CheckStillHolds,
                            EachAccountedFor
<1>5. CASE core' # "crashed"
  <2>1. /\ t \in queue /\ IsQpuTask(t) /\ t # NoTask /\ t.pid \in Pids
        /\ mapping \in Dictionary
        /\ Touched(t) \subseteq VirtIds
        /\ \A p \in Pids : \A v \in VirtIds : Accounted(p, v)
        /\ \A p \in Pids : Now(p) = IF p = t.pid THEN HeldBy(t, pair, stage) ELSE {}
    BY <1>1, <1>2, BusyFacts
  <2>2. IsPair(t) => /\ pair \in DOMAIN PairQubits(t)
                     /\ pair \in Nat \ {0}
                     /\ PairQubits(t)[pair] \in Touched(t)
                     /\ kept[t.pid] \cap Touched(t) = {}
    BY <1>1, <1>2, BusyFacts
  <2>3. core' = "busy" /\ stage' = "execute"
    BY <1>2, <1>3, <1>5
  <2>4. /\ IsPair(t) => virts = {PairQubits(t)[pair]}
        /\ ~ IsPair(t) => virts = Touched(t) \ Mapped(t.pid)
    BY <1>1, <2>1 DEF Needed, Touched, Mapped
  <2>5. virts \subseteq VirtIds
    BY <2>1, <2>2, <2>4
  <2>6. /\ mapping' \in Dictionary
        /\ \A v \in virts : mapping'[t.pid][v] \in PhysIds /\ mapping'[t.pid][v] # None
        /\ \A r \in Pids : \A v \in VirtIds :
              ~ (r = t.pid /\ v \in virts) => mapping'[r][v] = mapping[r][v]
        /\ \A q \in Mem!FreePhys :
              q \in Mem!FreePhys' \/ \E v \in virts : q = mapping'[t.pid][v]
    BY <1>3, <1>5, <2>1, <2>5, AllocateMaps
  <2>7. TypeOK'
    BY <1>2, <2>3, <2>6 DEF ResInv, TypeOK, Dictionary
  <2>8. CurrentIsRoot'
    <3>1. RootTasks' = RootTasks
      BY <1>2 DEF RootTasks
    <3> QED
      BY <1>1, <1>2, <2>3, <3>1 DEF ResInv, CurrentIsRoot
  <2>9. PairsAreFresh'
    BY <1>1, <1>2 DEF ResInv, PairsAreFresh
  <2>10. CheckStillHolds'
    <3>1. ASSUME IsPair(t), pair = 1 \/ Block(t).measure, NEW i \in DOMAIN PairQubits(t)
          PROVE  CanRetry(PairQubits(t)[i])'
      <4>1. PICK v : v = PairQubits(t)[i]
        OBVIOUS
      <4>2. CanRetry(v)
        BY <1>1, <1>2, <3>1, <4>1 DEF ResInv, CheckStillHolds
      <4>3. /\ v \in UnitModule[t.pid]
            /\ Mem!PhysOfKind(t.pid, v) \cap Mem!FreePhys # {}
            /\ mapping[t.pid][v] = None
        BY <1>1, <1>2, <4>2 DEF CanRetry, TakenBack, Mem!IsMapped
      <4>4. TakenBack' = {mapping'[t.pid][PairQubits(t)[pair]]}
        BY <1>2, <2>3 DEF TakenBack
      <4>5. Mem!FreePhys \subseteq Mem!FreePhys' \cup TakenBack'
        BY <2>4, <2>6, <3>1, <4>4
      <4>6. v \in VirtIds
        BY <2>1, <3>1, <4>1 DEF Touched
      <4>7. mapping'[t.pid][v] # None => v = PairQubits(t)[pair]
        BY <2>1, <2>4, <2>6, <3>1, <4>3, <4>6
      <4> QED
        BY <1>2, <2>3, <4>1, <4>3, <4>5, <4>7 DEF CanRetry, Mem!IsMapped, Mem!PhysOfKind
    <3> QED
      BY <1>2, <3>1 DEF CheckStillHolds
  <2>11. ASSUME NEW r \in Pids, NEW v \in VirtIds
         PROVE  Accounted(r, v)'
    <3>1. Now(r)' = IF r = t.pid THEN HeldBy(t, pair, "execute") ELSE {}
      BY <1>2, <2>1, <2>3 DEF Now
    <3>2. Accounted(r, v) /\ Now(r) = IF r = t.pid THEN HeldBy(t, pair, "allocate") ELSE {}
      BY <1>2, <2>1
    <3>3. v \in Mapped(r)' <=> v \in Mapped(r) \/ (r = t.pid /\ v \in virts)
      BY <2>1, <2>6 DEF Mapped, Mem!IsMapped
    <3>4. CASE IsPair(t)
      <4>1. HeldBy(t, pair, "execute") = HeldBy(t, pair, "allocate") \cup virts
        BY <2>2, <2>4, <3>4, HeldByMeasured, HeldByKept
      <4> QED
        BY <1>1, <1>2, <3>1, <3>2, <3>3, <4>1 DEF Accounted
    <3>5. CASE ~ IsPair(t)
      <4>1. HeldBy(t, pair, "execute") = Touched(t) /\ HeldBy(t, pair, "allocate") = {}
        BY <3>5, HeldByRoutine
      <4> QED
        BY <1>1, <1>2, <2>4, <3>1, <3>2, <3>3, <3>5, <4>1 DEF Accounted
    <3> QED
      BY <3>4, <3>5
  <2> QED
    BY <2>7, <2>8, <2>9, <2>10, <2>11 DEF ResInv, EachAccountedFor
<1> QED
  BY <1>4, <1>5

\* When a task ends, on either way: the processor is free again, so that the
\* invariant speaks of its tasks and its qubits only.
LEMMA EndOfTask ==
    ASSUME ResInv, core = "busy",
           core' = "choosing", current' = NoTask, stage' = "allocate",
           queue' \subseteq queue, handed' = handed,
           kept' \in [Pids -> SUBSET VirtIds], mapping' \in Dictionary,
           \A p \in Pids : \A v \in VirtIds :
              /\ mapping'[p][v] # None => \/ v \in kept'[p]
                                          \/ \E u \in queue' : LeftOf(u, p, v)
              /\ v \in kept'[p] => mapping'[p][v] # None
    PROVE  ResInv'
<1>1. TypeOK' /\ CurrentIsRoot' /\ PairsAreFresh' /\ CheckStillHolds'
  BY DEF ResInv, TypeOK, CurrentIsRoot, PairsAreFresh, CheckStillHolds, Dictionary
<1>2. ASSUME NEW p \in Pids, NEW v \in VirtIds
      PROVE  Accounted(p, v)'
  <2>1. Now(p)' = {} /\ (v \in Mapped(p)' <=> mapping'[p][v] # None)
    BY DEF Now, Mapped, Mem!IsMapped
  <2>2. \A u \in queue' : u # current'
    BY DEF ResInv, TypeOK, IsQpuTask
  <2> QED
    BY <2>1, <2>2 DEF Accounted
<1> QED
  BY <1>1, <1>2 DEF ResInv, EachAccountedFor

LEMMA PairFailedStep ==
    ASSUME ResInv, PairFailed
    PROVE  ResInv'
<1>1. PICK t, virt : t = current /\ virt = PairQubits(current)[pair]
  OBVIOUS
<1>2. /\ core = "busy" /\ stage = "execute" /\ IsPair(t)
      /\ FreeQubits(t.pid, {virt})
      /\ core' = "choosing" /\ current' = NoTask /\ stage' = "allocate"
      /\ kept' = kept /\ queue' = queue /\ handed' = handed
  BY <1>1 DEF PairFailed, Executes, FreedAfterPair, taskVars
<1>3. /\ t \in queue /\ IsQpuTask(t) /\ t # NoTask /\ t.pid \in Pids
      /\ mapping \in Dictionary
      /\ Touched(t) \subseteq VirtIds
      /\ \A p \in Pids : \A v \in VirtIds : Accounted(p, v)
      /\ \A p \in Pids : Now(p) = IF p = t.pid THEN HeldBy(t, pair, "execute") ELSE {}
      /\ pair \in DOMAIN PairQubits(t) /\ pair \in Nat \ {0}
      /\ virt \in Touched(t)
      /\ kept[t.pid] \cap Touched(t) = {}
  BY <1>1, <1>2, BusyFacts
<1>4. /\ mapping' \in Dictionary
      /\ \A r \in Pids : \A v \in VirtIds :
            mapping'[r][v] = IF r = t.pid /\ v \in {virt} THEN None ELSE mapping[r][v]
  BY <1>2, <1>3, FreeMaps
<1>5. ASSUME NEW p \in Pids, NEW v \in VirtIds
      PROVE  /\ mapping'[p][v] # None => \/ v \in kept'[p]
                                         \/ \E u \in queue' : LeftOf(u, p, v)
             /\ v \in kept'[p] => mapping'[p][v] # None
  <2>1. Accounted(p, v) /\ (v \in Mapped(p) <=> mapping[p][v] # None)
    BY <1>3 DEF Mapped, Mem!IsMapped
  <2>2. /\ \A w \in HeldBy(t, pair, "execute") : w = virt \/ LeftOf(t, t.pid, w)
        /\ virt \in HeldBy(t, pair, "execute")
    <3>1. CASE Block(t).measure
      BY <1>1, <1>2, <1>3, <3>1, HeldByMeasured
    <3>2. CASE ~ Block(t).measure
      BY <1>1, <1>2, <1>3, <3>2, HeldByKept, HeldByRequest
    <3> QED
      BY <3>1, <3>2
  <2>3. ASSUME mapping'[p][v] # None
        PROVE  v \in kept'[p] \/ \E u \in queue' : LeftOf(u, p, v)
    <3>1. mapping[p][v] # None /\ ~ (p = t.pid /\ v = virt)
      BY <1>4, <2>3
    <3> QED
      BY <1>2, <1>3, <2>1, <2>2, <3>1 DEF Accounted
  <2>4. ASSUME v \in kept'[p]
        PROVE  mapping'[p][v] # None
    <3>1. ~ (p = t.pid /\ v = virt)
      BY <1>2, <1>3, <2>4
    <3> QED
      BY <1>2, <1>4, <2>1, <2>4, <3>1 DEF Accounted
  <2> QED
    BY <2>3, <2>4
<1>6. kept' \in [Pids -> SUBSET VirtIds]
  BY <1>2 DEF ResInv, TypeOK
<1> QED
  BY <1>2, <1>4, <1>5, <1>6, EndOfTask

\* A task that has finished leaves what it is to keep.
LEMMA DoneStep ==
    ASSUME ResInv, core = "busy", stage = "execute", TaskDone,
           stage' = "allocate", handed' = handed,
           NEW t, t = current, NEW virts,
           FreeQubits(t.pid, virts), virts \subseteq Touched(t),
           HeldBy(t, pair, "execute") \ virts = Leaves(t),
           (Touched(t) \ Leaves(t)) \cap Mapped(t.pid) \subseteq virts,
           virts \cap Leaves(t) = {}, Leaves(t) \subseteq Touched(t)
    PROVE  ResInv'
<1>1. /\ t \in queue /\ IsQpuTask(t) /\ t # NoTask /\ t.pid \in Pids
      /\ mapping \in Dictionary
      /\ Touched(t) \subseteq VirtIds
      /\ \A p \in Pids : \A v \in VirtIds : Accounted(p, v)
      /\ \A p \in Pids : Now(p) = IF p = t.pid THEN HeldBy(t, pair, "execute") ELSE {}
  BY BusyFacts
<1>2. /\ queue' = queue \ {t}
      /\ kept' = [kept EXCEPT ![t.pid] = (kept[t.pid] \ Touched(t)) \cup Leaves(t)]
      /\ core' = "choosing" /\ current' = NoTask
  BY <1>1 DEF TaskDone
<1>3. kept \in [Pids -> SUBSET VirtIds]
  BY DEF ResInv, TypeOK
<1>4. /\ kept' \in [Pids -> SUBSET VirtIds]
      /\ kept'[t.pid] = (kept[t.pid] \ Touched(t)) \cup Leaves(t)
      /\ \A p \in Pids \ {t.pid} : kept'[p] = kept[p]
  BY <1>1, <1>2, <1>3
<1>5. /\ mapping' \in Dictionary
      /\ \A r \in Pids : \A v \in VirtIds :
            mapping'[r][v] = IF r = t.pid /\ v \in virts THEN None ELSE mapping[r][v]
  BY <1>1, FreeMaps
<1>6. ASSUME NEW p \in Pids, NEW v \in VirtIds
      PROVE  /\ mapping'[p][v] # None => \/ v \in kept'[p]
                                         \/ \E u \in queue' : LeftOf(u, p, v)
             /\ v \in kept'[p] => mapping'[p][v] # None
  <2>1. Accounted(p, v) /\ (v \in Mapped(p) <=> mapping[p][v] # None)
    BY <1>1 DEF Mapped, Mem!IsMapped
  <2>2. \A u \in queue : u # current => u \in queue'
    BY <1>2
  <2>3. CASE p # t.pid
    BY <1>1, <1>4, <1>5, <2>1, <2>2, <2>3 DEF Accounted
  <2>4. CASE p = t.pid
    <3>1. ASSUME mapping'[p][v] # None
          PROVE  v \in kept'[p] \/ \E u \in queue' : LeftOf(u, p, v)
      <4>1. mapping[p][v] # None /\ v \notin virts
        BY <1>5, <2>4, <3>1
      <4>2. CASE v \in Touched(t)
        BY <1>4, <2>1, <2>4, <4>1, <4>2
      <4>3. CASE v \notin Touched(t)
        <5>1. v \notin HeldBy(t, pair, "execute")
          BY <4>1, <4>3
        <5> QED
          BY <1>1, <1>4, <2>1, <2>2, <2>4, <4>1, <4>3, <5>1 DEF Accounted
      <4> QED
        BY <4>2, <4>3
    <3>2. ASSUME v \in kept'[p]
          PROVE  mapping'[p][v] # None
      <4>1. v \notin virts
        BY <1>4, <2>4, <3>2
      <4>2. v \in kept[p] \cup HeldBy(t, pair, "execute")
        BY <1>4, <2>4, <3>2
      <4>3. mapping[p][v] # None
        BY <1>1, <2>1, <2>4, <4>2 DEF Accounted
      <4> QED
        BY <1>5, <4>1, <4>3
    <3> QED
      BY <3>1, <3>2
  <2> QED
    BY <2>3, <2>4
<1> QED
  BY <1>2, <1>4, <1>5, <1>6, EndOfTask

LEMMA RoutineDoneStep ==
    ASSUME ResInv, RoutineDone
    PROVE  ResInv'
<1>1. PICK t : t = current
  OBVIOUS
<1>2. /\ core = "busy" /\ stage = "execute" /\ ~ IsPair(t)
      /\ FreeQubits(t.pid, FreedAfterRoutine(t)) /\ TaskDone
      /\ stage' = "allocate" /\ handed' = handed
  BY <1>1 DEF RoutineDone, Executes
<1>3. HeldBy(t, pair, "execute") = Touched(t)
  BY <1>2, HeldByRoutine
<1>4. /\ FreedAfterRoutine(t) = Touched(t) \ Block(t).keep
      /\ Leaves(t) = Touched(t) \cap Block(t).keep
  BY <1>2 DEF FreedAfterRoutine, Leaves
<1> QED
  BY <1>1, <1>2, <1>3, <1>4, DoneStep

LEMMA PairGeneratedStep ==
    ASSUME ResInv, PairGenerated
    PROVE  ResInv'
<1>1. PICK t, k, virt : t = current /\ k = pair /\ virt = PairQubits(current)[pair]
  OBVIOUS
<1>2. /\ core = "busy" /\ stage = "execute" /\ IsPair(t)
      /\ FreeQubits(t.pid, IF Block(t).measure THEN {virt} ELSE {})
      /\ stage' = "allocate" /\ handed' = handed
  BY <1>1 DEF PairGenerated, Executes, FreedAfterPair
<1>3. /\ t \in queue /\ IsQpuTask(t) /\ t # NoTask /\ t.pid \in Pids
      /\ mapping \in Dictionary
      /\ Touched(t) \subseteq VirtIds
      /\ \A p \in Pids : \A v \in VirtIds : Accounted(p, v)
      /\ \A p \in Pids : Now(p) = IF p = t.pid THEN HeldBy(t, k, "execute") ELSE {}
      /\ k \in DOMAIN PairQubits(t) /\ k \in Nat \ {0}
      /\ virt \in Touched(t)
      /\ kept[t.pid] \cap Touched(t) = {}
  BY <1>1, <1>2, BusyFacts
<1>4. /\ Len(PairQubits(t)) \in Nat /\ DOMAIN PairQubits(t) = 1..Len(PairQubits(t))
      /\ Touched(t) = {PairQubits(t)[i] : i \in DOMAIN PairQubits(t)}
  BY <1>2, <1>3, PairQubitsType DEF Touched
<1>5. ASSUME Block(t).measure, NEW i \in DOMAIN PairQubits(t)
      PROVE  CanRetry(PairQubits(t)[i])
  BY <1>1, <1>2, <1>5 DEF ResInv, CheckStillHolds
<1>6. CASE k < Len(PairQubits(t))
  <2>1. /\ pair' = k + 1 /\ kept' = kept /\ queue' = queue
        /\ core' = "busy" /\ current' = t
    BY <1>1, <1>2, <1>6 DEF PairGenerated
  <2>2. \A virts : FreeQubits(t.pid, virts) =>
           /\ mapping' \in Dictionary
           /\ \A r \in Pids : \A v \in VirtIds :
                 mapping'[r][v] = IF r = t.pid /\ v \in virts THEN None ELSE mapping[r][v]
           /\ Mem!FreePhys \subseteq Mem!FreePhys'
           /\ \A v \in virts :
                 mapping[t.pid][v] \in PhysIds => mapping[t.pid][v] \in Mem!FreePhys'
    BY <1>3, FreeMaps
  <2>3. TypeOK'
    BY <1>2, <2>1, <2>2 DEF ResInv, TypeOK, Dictionary
  <2>4. CurrentIsRoot'
    <3>1. RootTasks' = RootTasks
      BY <2>1 DEF RootTasks
    <3>2. k + 1 \in DOMAIN PairQubits(t)
      BY <1>3, <1>4, <1>6
    <3> QED
      BY <1>1, <1>2, <2>1, <3>1, <3>2 DEF ResInv, CurrentIsRoot
  <2>5. PairsAreFresh'
    BY <1>3, <2>1 DEF PairsAreFresh
  <2>6. CheckStillHolds'
    <3>1. k + 1 # 1
      BY <1>3
    <3>2. ASSUME Block(t).measure, NEW i \in DOMAIN PairQubits(t)
          PROVE  CanRetry(PairQubits(t)[i])'
      <4>1. PICK v : v = PairQubits(t)[i]
        OBVIOUS
      <4>2. /\ v \in UnitModule[t.pid] /\ v \in VirtIds
            /\ Mem!PhysOfKind(t.pid, v) \cap (Mem!FreePhys \cup {mapping[t.pid][virt]}) # {}
            /\ mapping[t.pid][v] # None => v = virt
        BY <1>1, <1>2, <1>3, <1>4, <1>5, <3>2, <4>1 DEF CanRetry, TakenBack, Mem!IsMapped
      <4>3. Mem!PhysOfKind(t.pid, v) \subseteq PhysIds
        BY ResourcesAssumption DEF Mem!PhysOfKind
      <4>4. /\ Mem!FreePhys \subseteq Mem!FreePhys'
            /\ mapping[t.pid][virt] \in PhysIds => mapping[t.pid][virt] \in Mem!FreePhys'
            /\ mapping'[t.pid][v] = None
        BY <1>2, <1>3, <2>2, <3>2, <4>2
      <4> QED
        BY <1>2, <2>1, <4>1, <4>2, <4>3, <4>4 DEF CanRetry, Mem!IsMapped, Mem!PhysOfKind
    <3> QED
      BY <2>1, <3>1, <3>2 DEF CheckStillHolds
  <2>7. ASSUME NEW r \in Pids, NEW v \in VirtIds
        PROVE  Accounted(r, v)'
    <3>1. /\ Accounted(r, v)
          /\ Now(r) = IF r = t.pid THEN HeldBy(t, k, "execute") ELSE {}
          /\ Now(r)' = IF r = t.pid THEN HeldBy(t, k + 1, "allocate") ELSE {}
      BY <1>2, <1>3, <2>1 DEF Now
    <3>2. CASE Block(t).measure
      <4>1. /\ HeldBy(t, k, "execute") = {virt}
            /\ HeldBy(t, k + 1, "allocate") = {}
        <5>1. k \in Nat /\ k + 1 \in Nat
          BY <1>3
        <5> QED
          BY <1>1, <1>2, <3>2, <5>1, HeldByMeasured
      <4>2. v \in Mapped(r)' <=> v \in Mapped(r) /\ ~ (r = t.pid /\ v = virt)
        BY <1>2, <2>2, <3>2 DEF Mapped, Mem!IsMapped
      <4>3. ~ (r = t.pid /\ v = virt /\ v \in kept[r])
        BY <1>3
      <4> QED
        BY <1>1, <2>1, <3>1, <4>1, <4>2, <4>3 DEF Accounted
    <3>3. CASE ~ Block(t).measure
      <4>1. HeldBy(t, k + 1, "allocate") = HeldBy(t, k, "execute")
        BY <1>2, <1>3, <3>3, HeldByKept
      <4>2. v \in Mapped(r)' <=> v \in Mapped(r)
        BY <1>2, <2>2, <3>3 DEF Mapped, Mem!IsMapped
      <4> QED
        BY <1>1, <2>1, <3>1, <4>1, <4>2 DEF Accounted
    <3> QED
      BY <3>2, <3>3
  <2> QED
    BY <2>3, <2>4, <2>5, <2>6, <2>7 DEF ResInv, EachAccountedFor
<1>7. CASE ~ (k < Len(PairQubits(t)))
  <2>1. TaskDone /\ k = Len(PairQubits(t))
    BY <1>1, <1>3, <1>4, <1>7 DEF PairGenerated
  <2>2. CASE Block(t).measure
    <3>1. HeldBy(t, k, "execute") = {virt} /\ Leaves(t) = {}
      BY <1>1, <1>2, <1>3, <2>2, HeldByMeasured DEF Leaves
    <3>2. Touched(t) \cap Mapped(t.pid) \subseteq {virt}
      <4>1. ASSUME NEW i \in DOMAIN PairQubits(t), PairQubits(t)[i] \in Mapped(t.pid)
            PROVE  PairQubits(t)[i] = virt
        BY <1>1, <1>5, <2>2, <4>1 DEF CanRetry, Mapped
      <4> QED
        BY <1>4, <4>1
    <3> QED
      BY <1>1, <1>2, <1>3, <2>1, <2>2, <3>1, <3>2, DoneStep
  <2>3. CASE ~ Block(t).measure
    <3>1. HeldBy(t, k, "execute") = Touched(t) /\ Leaves(t) = Touched(t)
      BY <1>2, <1>3, <2>1, <2>3, HeldByRequest DEF Leaves
    <3> QED
      BY <1>1, <1>2, <2>1, <2>3, <3>1, DoneStep
  <2> QED
    BY <2>2, <2>3
<1> QED
  BY <1>6, <1>7

------------------------------------------------------------------------------
(* The theorems.                                                              *)

LEMMA StepInv == ResInv /\ [Next]_vars => ResInv'
<1> SUFFICES ASSUME ResInv, [Next]_vars PROVE ResInv'
  OBVIOUS
<1>1. ASSUME NEW p \in Pids, HandOut(p) PROVE ResInv'
  BY <1>1, HandOutStep
<1>2. CASE StartTask
  BY <1>2, StartTaskStep
<1>3. CASE FallAsleep \/ FreedDelivered
  BY <1>3, SleepStep
<1>4. CASE AllocateForTask
  BY <1>4, AllocateStep
<1>5. CASE PairGenerated
  BY <1>5, PairGeneratedStep
<1>6. CASE PairFailed
  BY <1>6, PairFailedStep
<1>7. CASE RoutineDone
  BY <1>7, RoutineDoneStep
<1>8. CASE UNCHANGED vars
  <2>1. /\ mapping' = mapping /\ physical' = physical /\ kept' = kept
        /\ queue' = queue /\ handed' = handed /\ core' = core
        /\ current' = current /\ pair' = pair /\ stage' = stage
    BY <1>8 DEF vars, memVars, taskVars
  <2> QED
    BY <2>1 DEF ResInv, TypeOK, CurrentIsRoot, RootTasks, PairsAreFresh, CheckStillHolds,
                CanRetry, TakenBack, Mem!FreePhys, Mem!IsMapped, Mem!PhysOfKind,
                EachAccountedFor, Accounted, Now, Mapped
<1> QED
  BY <1>1, <1>2, <1>3, <1>4, <1>5, <1>6, <1>7, <1>8 DEF Next

\* The invariant holds in every reachable state.
THEOREM ResInvInvariant == Spec => []ResInv
<1>1. Init => ResInv
  BY InitInv
<1>2. ResInv /\ [Next]_vars => ResInv'
  BY StepInv
<1> QED
  BY <1>1, <1>2, PTL DEF Spec

LEMMA EachAccountedForMeans == ResInv => QubitsAccountedFor
<1> SUFFICES ASSUME ResInv, core # "crashed", NEW p \in Pids
             PROVE  LET mapped == {v \in VirtIds : Mem!IsMapped(p, v)}
                        now == IF current # NoTask /\ current.pid = p THEN HeldNow ELSE {}
                    IN  /\ mapped \subseteq kept[p] \cup now \cup LeftByFailure(p)
                        /\ kept[p] \cup now \subseteq mapped
  BY DEF QubitsAccountedFor
<1>1. (IF current # NoTask /\ current.pid = p THEN HeldNow ELSE {}) = Now(p)
  BY DEF HeldNow, HeldBy, Now
<1>2. ASSUME NEW v, NEW t \in queue, t # current, LeftOf(t, p, v)
      PROVE  v \in LeftByFailure(p)
  BY <1>2 DEF LeftByFailure, LeftOf
<1>3. kept[p] \subseteq VirtIds
  BY DEF ResInv, TypeOK
<1>4. Now(p) \subseteq VirtIds
  <2>1. CASE core = "busy" /\ current # NoTask /\ current.pid = p
    <3>1. PICK t : t = current
      OBVIOUS
    <3>2. IsQpuTask(t) /\ Touched(t) \subseteq VirtIds
      BY <2>1, <3>1, BusyFacts
    <3>3. CASE IsPair(t)
      <4>1. pair \in DOMAIN PairQubits(t) /\ pair \in Nat \ {0}
        BY <2>1, <3>1, <3>3, BusyFacts
      <4>2. PairQubits(t)[pair] \in Touched(t)
        BY <3>3, <4>1 DEF Touched
      <4>3. HeldBy(t, pair, "allocate") \subseteq Touched(t)
            /\ HeldBy(t, pair, "execute") \subseteq Touched(t)
        BY <3>2, <3>3, <4>1, <4>2, HeldByMeasured, HeldByKept, HeldByRequest
      <4> QED
        BY <2>1, <3>1, <3>2, <4>3 DEF Now, ResInv, TypeOK
    <3>4. CASE ~ IsPair(t)
      BY <2>1, <3>1, <3>2, <3>4, HeldByRoutine DEF Now, ResInv, TypeOK
    <3> QED
      BY <3>3, <3>4
  <2>2. CASE ~ (core = "busy" /\ current # NoTask /\ current.pid = p)
    BY <2>2 DEF Now
  <2> QED
    BY <2>1, <2>2
<1>5. \A v \in VirtIds : Accounted(p, v)
  BY DEF ResInv, EachAccountedFor
<1>6. Mapped(p) \subseteq kept[p] \cup Now(p) \cup LeftByFailure(p)
  BY <1>2, <1>5 DEF Accounted, Mapped
<1>7. kept[p] \cup Now(p) \subseteq Mapped(p)
  BY <1>3, <1>4, <1>5 DEF Accounted
<1> QED
  BY <1>1, <1>6, <1>7 DEF Mapped

\* Every mapped qubit belongs to a finished task that was to keep it, to the
\* task that is executed, or to a failed request, and none of the first two is
\* missing.
THEOREM NoQubitIsLost == Spec => []QubitsAccountedFor
<1>1. ResInv => QubitsAccountedFor
  BY EachAccountedForMeans
<1> QED
  BY <1>1, ResInvInvariant, PTL

\* A task whose pair failed passes the check for qubits again at once.
THEOREM FailureGivesBack == Spec => FailedTaskIsAvailable
<1>1. ASSUME ResInv, [Next]_vars,
             core = "busy", core' = "choosing", queue' = queue,
             pair = 1 \/ Block(current).measure
      PROVE  current \in ReadyTasks'
  <2>1. PICK t, virt : t = current /\ virt = PairQubits(current)[pair]
    OBVIOUS
  <2>2. t \in RootTasks /\ t \in queue
    BY <1>1, <2>1 DEF ResInv, CurrentIsRoot, RootTasks
  <2>3. PairFailed
    <3>1. ~ TaskDone
      BY <1>1, <2>1, <2>2 DEF TaskDone
    <3> QED
      BY <1>1, <3>1 DEF Next, vars, HandOut, WokenByTasks, StartTask, FallAsleep,
                        FreedDelivered, AllocateForTask, PairGenerated, RoutineDone
  <2>4. IsPair(t) /\ stage = "execute" /\ FreeQubits(t.pid, {virt})
    BY <2>1, <2>3 DEF PairFailed, Executes, FreedAfterPair
  <2>5. t.pid \in Pids /\ mapping \in Dictionary /\ Touched(t) \subseteq VirtIds
    BY <1>1, <2>1, BusyFacts
  <2>6. /\ \A v \in VirtIds :
              mapping'[t.pid][v] = IF v = virt THEN None ELSE mapping[t.pid][v]
        /\ Mem!FreePhys \subseteq Mem!FreePhys'
        /\ mapping[t.pid][virt] \in PhysIds => mapping[t.pid][virt] \in Mem!FreePhys'
    BY <2>4, <2>5, FreeMaps
  <2>7. ASSUME NEW i \in DOMAIN PairQubits(t)
        PROVE  ~ Mem!AllocateRefused(t.pid, PairQubits(t)[i])'
    <3>1. PICK v : v = PairQubits(t)[i]
      OBVIOUS
    <3>2. CanRetry(v)
      BY <1>1, <2>1, <2>4, <2>7, <3>1 DEF ResInv, CheckStillHolds
    <3>3. /\ v \in UnitModule[t.pid] /\ v \in VirtIds
          /\ Mem!PhysOfKind(t.pid, v) \cap (Mem!FreePhys \cup {mapping[t.pid][virt]}) # {}
          /\ mapping[t.pid][v] # None => v = virt
      BY <2>1, <2>4, <2>5, <2>7, <3>1, <3>2 DEF CanRetry, TakenBack, Mem!IsMapped, Touched
    <3>4. Mem!PhysOfKind(t.pid, v) \subseteq PhysIds
      BY ResourcesAssumption DEF Mem!PhysOfKind
    <3>5. Mem!PhysOfKind(t.pid, v) \cap Mem!FreePhys' # {} /\ mapping'[t.pid][v] = None
      BY <2>6, <3>3, <3>4
    <3> QED
      BY <3>1, <3>3, <3>5
         DEF Mem!AllocateRefused, Mem!Candidates, Mem!IsMapped, Mem!PhysOfKind
  <2>8. Available(t)'
    <3>1. t.name # Routine
      BY <2>4 DEF IsPair, EprKinds, Routine
    <3>2. Trials(t)' = PairQubits(t)
      BY <2>4, <3>1 DEF Trials
    <3> QED
      BY <2>7, <3>2 DEF Available
  <2>9. RootTasks' = RootTasks
    BY <1>1 DEF RootTasks
  <2> QED
    BY <2>1, <2>2, <2>8, <2>9 DEF ReadyTasks
<1>2. ResInv /\ [Next]_vars =>
         [core = "busy" /\ core' = "choosing" /\ queue' = queue
             /\ (pair = 1 \/ Block(current).measure)
          => current \in ReadyTasks']_vars
  BY <1>1
<1> QED
  BY <1>2, ResInvInvariant, PTL DEF Spec, FailedTaskIsAvailable
=============================================================================
