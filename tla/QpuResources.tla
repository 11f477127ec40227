---------------------------- MODULE QpuResources ----------------------------
(***************************************************************************)
(* The QPU of one node and the qubits its tasks need: the QPU scheduler    *)
(* (qoala/sim/scheduler.py) asks the memory manager whether a task could   *)
(* have its qubits, the QPU driver and the network stack (driver.py,       *)
(* netstackprocessor.py) allocate and free them while the task runs, and   *)
(* the memory manager announces each freed qubit.  The blocks of a program *)
(* come one at a time (NodeScheduler's OneBlockInFlight), and the answer   *)
(* to a request for a pair comes from the entanglement distributor.        *)
(*                                                                         *)
(* Only tasks of this processor allocate or free, and it executes one at a *)
(* time.  An AllocError during a task is caught nowhere: it ends the run.  *)
(***************************************************************************)
EXTENDS TaskGraph, Sequences

CONSTANTS
    Pids, VirtIds, PhysIds, CommPhys, UnitModule, CommVirt, None,
    Work,               \* pid -> its sequence of quantum blocks
    MaxPairs,           \* no request has more pairs
    NoTask

(***************************************************************************)
(* A block has, besides the fields of TaskGraph, the virtual qubits of its *)
(* pairs (virts), whether they are measured at once (measure), and what    *)
(* its local routine or callback uses and keeps (use, a sequence; keep).   *)
(***************************************************************************)
QuantumBlocks ==
    [typ : {"QL", "QC"}, pairs : Nat, virts : Seq(VirtIds), measure : BOOLEAN,
     sequential : BOOLEAN, callback : BOOLEAN, use : Seq(VirtIds), keep : SUBSET VirtIds]

\* A request is for one pair or more.
ASSUME ResourcesAssumption ==
    /\ CommPhys \subseteq PhysIds /\ None \notin PhysIds
    /\ UnitModule \in [Pids -> SUBSET VirtIds]
    /\ Work \in [Pids -> Seq(QuantumBlocks)]
    /\ \A p \in Pids : \A i \in DOMAIN Work[p] :
        LET b == Work[p][i]
        IN  /\ \A k \in DOMAIN b.use : b.use[k] \in UnitModule[p]
            /\ IF b.typ = "QC" THEN b.pairs > 0 /\ Len(b.virts) = b.pairs
                               ELSE Len(b.virts) = 0
            /\ Len(b.virts) <= MaxPairs
            /\ b.measure => ~ b.sequential
            /\ NoTask \notin [pid : {p}, blk : {i}, name : QuantumTasks(b)]

VARIABLES
    mapping, physical,  \* the memory manager's two dictionaries
    handed,             \* pid -> number of blocks handed out
    queue,              \* the tasks in the QPU's _task_graph
    core,               \* "choosing", "busy", "waiting", or "crashed"
    current,            \* the task that is executed
    pair,               \* the pair of the request it is at
    stage,              \* "allocate", "execute"
    awaitsFreed,        \* the sleeping run loop waits for MEMORY_FREED
    freed,              \* a MEMORY_FREED signal is undelivered
    kept                \* pid -> qubits its finished tasks should have left (history)

memVars == <<mapping, physical>>
taskVars == <<handed, queue, kept>>
vars == <<memVars, taskVars, core, current, pair, stage, awaitsFreed, freed>>

Mem == INSTANCE MemoryManager WITH processes <- Pids, result <- "none"

Block(t) == Work[t.pid][t.blk]
IsPair(t) == t.name[1] \in EprKinds

\* The virtual qubits of the pairs a task generates, in order.
PairQubits(t) == IF t.name = Multi THEN Block(t).virts ELSE <<Block(t).virts[t.name[2]]>>

Init ==
    /\ mapping = [p \in Pids |-> [v \in VirtIds |-> None]]
    /\ physical = [q \in PhysIds |-> None]
    /\ handed = [p \in Pids |-> 0]
    /\ queue = {}
    /\ core = "choosing" /\ current = NoTask /\ pair = 0 /\ stage = "allocate"
    /\ awaitsFreed = FALSE /\ freed = FALSE
    /\ kept = [p \in Pids |-> {}]

------------------------------------------------------------------------------
(* Hand-out of blocks.                                                        *)

\* Simulated time moves on only when everything due now has happened.
NothingDue == ~ freed /\ core # "choosing" /\ ~ (core = "busy" /\ stage = "allocate")

\* Fault: new tasks do not wake the QPU.
NotWoken == core

WokenByTasks == IF core = "waiting" THEN "choosing" ELSE core

\* The next block of a program, once its PreCall is done: its quantum tasks can
\* start as far as the CPU is concerned, and the QPU is told.
HandOut(p) ==
    /\ NothingDue
    /\ core # "crashed"
    /\ \A t \in queue : t.pid # p
    /\ handed[p] < Len(Work[p])
    /\ handed' = [handed EXCEPT ![p] = @ + 1]
    /\ queue' = queue \cup [pid : {p}, blk : {handed[p] + 1},
                            name : QuantumTasks(Work[p][handed[p] + 1])]
    /\ core' = WokenByTasks
    /\ UNCHANGED <<memVars, kept, current, pair, stage, awaitsFreed, freed>>

------------------------------------------------------------------------------
(* are_resources_available: each virtual qubit is allocated and freed again,  *)
(* one after the other, until one is refused.  Nothing stays allocated, but   *)
(* each free announces itself.                                                *)

RootTasks == {t \in queue : \A u \in queue :
                 ~ (u.pid = t.pid /\ u.name \in PredsOf(Block(t), t.name))}

\* The qubits that are tried for a task; none for a callback.
Trials(t) ==
    CASE IsPair(t) -> PairQubits(t)
      [] t.name = Routine -> SelectSeq(Block(t).use, LAMBDA v : ~ Mem!IsMapped(t.pid, v))
      [] OTHER -> <<>>

Available(t) == \A i \in DOMAIN Trials(t) : ~ Mem!AllocateRefused(t.pid, Trials(t)[i])

\* Fault: every qubit that is tried is announced as freed.
TriesFree(t) == Trials(t) # <<>>

\* The trial gets as far as freeing a qubit: whether or not a later one fails.
TrialFrees(t) == Trials(t) # <<>> /\ ~ Mem!AllocateRefused(t.pid, Trials(t)[1])

------------------------------------------------------------------------------
(* The run loop.                                                              *)

ReadyTasks == {t \in RootTasks : Available(t)}
Choices == LET epr == {t \in ReadyTasks : IsPair(t)}
           IN  IF epr # {} THEN epr ELSE ReadyTasks

StartTask ==
    /\ core = "choosing"
    /\ \E t \in Choices : current' = t
    /\ core' = "busy" /\ pair' = 1 /\ stage' = "allocate"
    /\ freed' = (freed \/ \E t \in RootTasks : TrialFrees(t))
    /\ UNCHANGED <<memVars, taskVars, awaitsFreed>>

FallAsleep ==
    /\ core = "choosing"
    /\ ReadyTasks = {}
    /\ core' = "waiting"
    /\ awaitsFreed' = (RootTasks # {})
    /\ freed' = (freed \/ \E t \in RootTasks : TrialFrees(t))
    /\ UNCHANGED <<memVars, taskVars, current, pair, stage>>

\* The signal is delivered, to whoever waits for it.
FreedDelivered ==
    /\ freed
    /\ core = "waiting" \/ (core = "busy" /\ stage = "execute")
    /\ freed' = FALSE
    /\ core' = IF core = "waiting" /\ awaitsFreed THEN "choosing" ELSE core
    /\ UNCHANGED <<memVars, taskVars, current, pair, stage, awaitsFreed>>

------------------------------------------------------------------------------
(* The execution of a task.                                                   *)

\* What a task allocates before its next yield: one qubit for a pair, all that
\* are missing for a routine or callback.
Needed(t) ==
    IF IsPair(t) THEN {PairQubits(t)[pair]}
    ELSE {v \in {Block(t).use[i] : i \in DOMAIN Block(t).use} : ~ Mem!IsMapped(t.pid, v)}

\* The ways to back these virtual qubits at once.
Assignments(p, virts) ==
    {a \in [virts -> PhysIds] :
        /\ \A v \in virts : ~ Mem!AllocateRefused(p, v) /\ a[v] \in Mem!Candidates(p, v)
        /\ \A v, w \in virts : v # w => a[v] # a[w]}

\* allocate of several virtual qubits, none of them mapped.
AllocateQubits(p, virts, a) ==
    /\ mapping' = [mapping EXCEPT ![p] = [v \in VirtIds |->
                      IF v \in virts THEN a[v] ELSE @[v]]]
    /\ physical' = [q \in PhysIds |->
                      IF \E v \in virts : a[v] = q
                      THEN <<p, CHOOSE v \in virts : a[v] = q>> ELSE physical[q]]

AllocateForTask ==
    /\ core = "busy" /\ stage = "allocate"
    /\ LET p == current.pid
           virts == Needed(current)
       IN  \/ /\ \E a \in Assignments(p, virts) : AllocateQubits(p, virts, a)
              /\ stage' = "execute"
              /\ UNCHANGED core
           \/ /\ Assignments(p, virts) = {}
              /\ core' = "crashed"
              /\ UNCHANGED <<memVars, stage>>
    /\ UNCHANGED <<taskVars, current, pair, awaitsFreed, freed>>

\* free of several virtual qubits, all of them mapped.
FreeQubits(p, virts) ==
    /\ mapping' = [mapping EXCEPT ![p] = [v \in VirtIds |->
                      IF v \in virts THEN None ELSE @[v]]]
    /\ physical' = [q \in PhysIds |->
                      IF \E v \in virts : mapping[p][v] = q THEN None ELSE physical[q]]
    /\ freed' = (freed \/ virts # {})

Executes == core = "busy" /\ stage = "execute" /\ ~ freed

\* Fault: the qubit of a failed pair stays allocated.
FreedOnlyIfMeasured(t, ok) == IF Block(t).measure THEN {PairQubits(t)[pair]} ELSE {}

\* What is freed when the answer for a pair is there: the qubit of a failed
\* pair, and one that has been measured.  Earlier pairs of the request stay.
FreedAfterPair(t, ok) ==
    IF ok /\ ~ Block(t).measure THEN {} ELSE {PairQubits(t)[pair]}

\* What a task that finished leaves allocated, of the qubits it touched.
Touched(t) == IF IsPair(t) THEN {PairQubits(t)[i] : i \in DOMAIN PairQubits(t)}
                           ELSE {Block(t).use[i] : i \in DOMAIN Block(t).use}
Leaves(t) == IF IsPair(t) THEN IF Block(t).measure THEN {} ELSE Touched(t)
                          ELSE Touched(t) \cap Block(t).keep

TaskDone ==
    /\ queue' = queue \ {current}
    /\ kept' = [kept EXCEPT ![current.pid] = (@ \ Touched(current)) \cup Leaves(current)]
    /\ core' = "choosing" /\ current' = NoTask

\* A pair was generated; the next one of the request follows at once.
PairGenerated ==
    /\ Executes /\ IsPair(current)
    /\ FreeQubits(current.pid, FreedAfterPair(current, TRUE))
    /\ IF pair < Len(PairQubits(current))
       THEN pair' = pair + 1 /\ UNCHANGED <<queue, kept, core, current>>
       ELSE TaskDone /\ UNCHANGED pair
    /\ stage' = "allocate"
    /\ UNCHANGED <<handed, awaitsFreed>>

\* It was not: the task fails and stays in the graph.
PairFailed ==
    /\ Executes /\ IsPair(current)
    /\ FreeQubits(current.pid, FreedAfterPair(current, FALSE))
    /\ core' = "choosing" /\ current' = NoTask /\ stage' = "allocate"
    /\ UNCHANGED <<taskVars, pair, awaitsFreed>>

\* Fault: every qubit of the routine is freed.
FreedEvenIfKept(t) == Touched(t)

FreedAfterRoutine(t) == Touched(t) \ Block(t).keep

\* A local routine or a callback has run.
RoutineDone ==
    /\ Executes /\ ~ IsPair(current)
    /\ FreeQubits(current.pid, FreedAfterRoutine(current))
    /\ TaskDone
    /\ stage' = "allocate"
    /\ UNCHANGED <<handed, pair, awaitsFreed>>

Next ==
    \/ \E p \in Pids : HandOut(p)
    \/ StartTask \/ FallAsleep \/ FreedDelivered
    \/ AllocateForTask \/ PairGenerated \/ PairFailed \/ RoutineDone

\* The simulator runs what is due; each pair of a request that is tried for
\* ever is generated at last.
PairAt(p, k) == PairGenerated /\ current.pid = p /\ pair = k

Fairness ==
    /\ \A p \in Pids : WF_vars(HandOut(p))
    /\ WF_vars(StartTask) /\ WF_vars(FallAsleep) /\ WF_vars(FreedDelivered)
    /\ WF_vars(AllocateForTask) /\ WF_vars(RoutineDone)
    /\ \A p \in Pids : \A k \in 1..MaxPairs : SF_vars(PairAt(p, k))

Spec == Init /\ [][Next]_vars
FairSpec == Spec /\ Fairness

------------------------------------------------------------------------------
(* Properties.                                                                *)

\* The qubits the current task holds at the moment, beside kept ones.
HeldNow ==
    IF core # "busy" THEN {}
    ELSE IF ~ IsPair(current) THEN IF stage = "execute" THEN Touched(current) ELSE {}
    ELSE LET last == IF stage = "execute" THEN pair ELSE pair - 1
             from == IF Block(current).measure THEN pair ELSE 1
         IN  {PairQubits(current)[i] : i \in from..last}

\* What a failed create-and-keep request leaves behind: earlier pairs of it.
LeftByFailure(p) ==
    UNION {{PairQubits(t)[i] : i \in 1..(Len(PairQubits(t)) - 1)} :
              t \in {u \in queue : u.pid = p /\ u.name = Multi
                                   /\ ~ Block(u).measure /\ u # current}}

\* Every qubit that a process has mapped is one that its finished tasks were to
\* keep, or one its current task has taken, or an earlier pair of a failed
\* request; and none of the first two is missing.
QubitsAccountedFor ==
    core # "crashed" =>
    \A p \in Pids :
        LET mapped == {v \in VirtIds : Mem!IsMapped(p, v)}
            now == IF current # NoTask /\ current.pid = p THEN HeldNow ELSE {}
        IN  /\ mapped \subseteq kept[p] \cup now \cup LeftByFailure(p)
            /\ kept[p] \cup now \subseteq mapped

\* A task whose pair failed can be tried again at once: the failure gave back
\* what it had taken.  A create-and-keep request past its first pair cannot.
FailedTaskIsAvailable ==
    [][core = "busy" /\ core' = "choosing" /\ queue' = queue
          /\ (pair = 1 \/ Block(current).measure)
       => current \in ReadyTasks']_vars

\* Tasks are given up only for want of qubits that programs keep, or that an
\* earlier pair of a failed request has taken: each is eventually executed, in
\* spite of failures, or it comes to stand still with nothing else allocated.
AllDone == queue = {} /\ \A p \in Pids : handed[p] = Len(Work[p])
AllKept ==
    \A p \in Pids : {v \in VirtIds : Mem!IsMapped(p, v)} \subseteq kept[p] \cup LeftByFailure(p)
OnlyKeptQubitsBlock ==
    <>[](AllDone \/ core = "crashed"
         \/ (queue # {} /\ AllKept /\ \A t \in RootTasks : ~ Available(t)))

\* A task of which the trial gets some qubits, so that it frees them, and is
\* refused another: the MEMORY_FREED that it sends is the one the scheduler goes
\* on to wait for.
WakesItself ==
    \E t \in RootTasks : ~ Available(t) /\ ~ Mem!AllocateRefused(t.pid, Trials(t)[1])

\* The processor does not wake itself up for ever at one instant of simulated time,
\* in which nobody else gets to run, be it by the signals of its trials or of what
\* its tasks free: the only exception is a task that gets some of its qubits.
TimeGoesOn == []<>(NothingDue \/ core = "crashed") \/ <>[]WakesItself

\* scheduler.py: to check whether qubits are available is to try to allocate
\* them.  A task that passed the check gets its qubits.
CheckIsEnough == core # "crashed"
==============================================================================
