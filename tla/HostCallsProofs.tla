-------------------------- MODULE HostCallsProofs --------------------------
(***************************************************************************)
(* Proofs about calls of routines and their results, for any number of     *)
(* processes and all programs: a callback finds the call that it belongs   *)
(* to, what a task has written is never touched by another, and no access  *)
(* is refused but for a mistake that the program itself makes.             *)
(***************************************************************************)
EXTENDS HostCalls, FiniteSetTheorems, WellFoundedInduction, TLAPS

Graph(p) == Shape(Current(p))

\* The tasks of the current block are done in the order of its graph, and none are
\* done of a program that has ended.
DoneInOrder ==
    \A p \in Pids :
        IF Ended(p) THEN done[p] = {}
        ELSE \A t \in done[p] : t \in TasksOf(Graph(p)) /\ PredsOf(Graph(p), t) \subseteq done[p]

\* What a processor executes is a task of its process's block, which was ready.
IsExecuted(core) ==
    core.doing # "nothing" =>
        /\ core.pid \in Pids /\ ~ Ended(core.pid)
        /\ core.task \in TasksOf(Graph(core.pid)) \ done[core.pid]
        /\ PredsOf(Graph(core.pid), core.task) \subseteq done[core.pid]

CpuOK ==
    /\ IsExecuted(cpu)
    /\ cpu.doing \in {"nothing", "code", "waiting"}
    /\ cpu.doing = "code" => cpu.task = Local /\ cpu.pc \in Nat \ {0}
    /\ cpu.doing = "waiting" => cpu.task \in {Pre, Post}

QpuOK ==
    /\ IsExecuted(qpu)
    /\ qpu.doing \in {"nothing", "code", "pair"}
    /\ qpu.doing = "pair" => qpu.task[1] \in EprKinds
    /\ qpu.doing = "code" => qpu.task = Routine \/ IsCallback(qpu.task)

\* A routine that runs has nothing but its two addresses.
IsLocalRun(run) == run = [NotRunning EXCEPT !.input = run.input, !.result = run.result]

TypeOK ==
    /\ block \in [Pids -> Nat \ {0}] /\ ptr \in [Pids -> Nat] /\ jumps \in [Pids -> Nat]
    /\ DOMAIN done = Pids /\ DOMAIN localRun = Pids /\ DOMAIN requestRun = Pids
    /\ \A p \in Pids : DOMAIN requestRun[p] = RequestNames /\ DOMAIN localRun[p] = RoutineNames
    /\ \A p \in Pids : \A n \in RoutineNames : IsLocalRun(localRun[p][n])

\* Once a pair task of a block has begun, its call is the running request of its name.
RequestIsCurrent ==
    \A p \in Pids : \A t :
        /\ t[1] \in EprKinds
        /\ t \in done[p] \/ (qpu.doing # "nothing" /\ qpu.pid = p /\ qpu.task = t)
        => requestRun[p][Current(p).routine] = CallOf(p)

\* The routine that is interpreted is that of the task, with the addresses of its call.
CallbackIndex(t) == IF t = MultiCb THEN 1 ELSE t[2]
RunOf(input, result) == [NotRunning EXCEPT !.input = input, !.result = result]
CodeIsCurrent ==
    qpu.doing = "code" =>
        LET p == qpu.pid
            i == CallbackIndex(qpu.task)
        IN  /\ qpu.routine \in RoutineNames
            /\ Running = IF IsCallback(qpu.task) THEN RunOf(CallOf(p).cbIn[i], CallOf(p).cbOut[i])
                         ELSE RunOf(CallOf(p).input, CallOf(p).result)

\* A PreCall leaves a call.
PreBegun(p) == Pre \in done[p] \/ (cpu.doing = "waiting" /\ cpu.pid = p /\ cpu.task = Pre)
CallIsLeft == \A p \in Pids : PreBegun(p) => <<p, ptr[p]>> \in DOMAIN calls

\* The inductive invariant about tasks and tables of routines.
CallInv ==
    /\ TypeOK /\ DoneInOrder /\ CpuOK /\ QpuOK /\ CallIsLeft
    /\ RequestIsCurrent /\ CodeIsCurrent

------------------------------------------------------------------------------
(* Tasks and blocks.                                                          *)

\* A block, its graph and the routine it calls.
LEMMA BlockFacts ==
    ASSUME TypeOK, NEW p \in Pids, ~ Ended(p)
    PROVE  /\ block[p] \in DOMAIN Program[p] /\ block[p] \in Nat \ {0}
           /\ Current(p) = Program[p][block[p]]
           /\ Current(p).typ \in {"CL", "QL", "QC"} /\ Graph(p).typ = Current(p).typ
           /\ Current(p).typ = "QL" => Current(p).routine \in RoutineNames
           /\ Current(p).typ = "QC" =>
                 /\ Current(p).routine \in RequestNames
                 /\ Graph(p).pairs = Request(p).pairs /\ Request(p).pairs \in Nat
                 /\ Graph(p).sequential = Request(p).sequential
                 /\ Graph(p).callback <=> Request(p).callback # NoRoutine
                 /\ Request(p).callback \in RoutineNames \cup {NoRoutine}
  <1>1. Len(Program[p]) \in Nat /\ DOMAIN Program[p] = 1..Len(Program[p])
    BY HostAssumption DEF IsSequence
  <1>2. block[p] \in Nat \ {0} /\ block[p] <= Len(Program[p])
    BY <1>1 DEF TypeOK, Ended
  <1>3. block[p] \in DOMAIN Program[p]
    BY <1>1, <1>2
  <1> DEFINE b == Program[p][block[p]]
  <1>4. /\ b.typ \in {"CL", "QL", "QC"}
        /\ b.typ = "QL" => b.routine \in RoutineNames
        /\ b.typ = "QC" => b.routine \in RequestNames
    BY <1>3, HostAssumption
  <1>5. Current(p) = b
    BY DEF Current
  <1> HIDE DEF b
  <1>6. Graph(p).typ = Current(p).typ
    BY <1>4, <1>5 DEF Graph, Shape
  <1>7. ASSUME b.typ = "QC"
        PROVE  /\ Graph(p).pairs = Request(p).pairs /\ Request(p).pairs \in Nat
               /\ Graph(p).sequential = Request(p).sequential
               /\ Graph(p).callback <=> Request(p).callback # NoRoutine
               /\ Request(p).callback \in RoutineNames \cup {NoRoutine}
    BY <1>4, <1>5, <1>7, HostAssumption DEF Graph, Shape, Request
  <1> QED BY <1>2, <1>3, <1>4, <1>5, <1>6, <1>7 DEF b

\* The kinds of task are told apart by their names.
LEMMA TaskNames ==
    /\ \A t \in {Local, Event, Pre, Post} :
          t[1] \in CpuKinds /\ t[1] \notin EprKinds /\ ~ IsCallback(t) /\ t # Routine
    /\ Routine[1] \notin CpuKinds \cup EprKinds /\ ~ IsCallback(Routine)
    /\ Multi[1] \in EprKinds /\ ~ IsCallback(Multi) /\ Multi # Routine
    /\ IsCallback(MultiCb) /\ MultiCb # Routine /\ CallbackOf(MultiCb) = Multi
    /\ \A i : /\ Pair(i)[1] \in EprKinds /\ ~ IsCallback(Pair(i)) /\ Pair(i) # Routine
              /\ IsCallback(PairCb(i)) /\ PairCb(i) # Routine /\ PairCb(i) # MultiCb
              /\ CallbackOf(PairCb(i)) = Pair(i) /\ PairCb(i)[2] = i
    /\ \A t : IsCallback(t) => t[1] \notin CpuKinds \cup EprKinds
    /\ \A t : t[1] \in EprKinds => t[1] \notin CpuKinds /\ ~ IsCallback(t)
    /\ Local # Pre /\ Local # Post /\ Pre # Post
  BY DEF CpuKinds, EprKinds, Local, Event, Pre, Post, Routine, Multi, MultiCb, Pair, PairCb,
         IsCallback, CallbackOf

\* What each type of block is made of.
LEMMA TasksByType ==
    ASSUME NEW b, b.typ \in {"CL", "QL", "QC"}, NEW t \in TasksOf(b)
    PROVE  /\ b.typ = "CL" <=> t = Local
           /\ t = Routine => b.typ = "QL"
           /\ t[1] \in EprKinds => b.typ = "QC" /\ PredsOf(b, t) = {Pre}
           /\ t = Routine => PredsOf(b, t) = {Pre}
           /\ IsCallback(t) => /\ b.typ = "QC" /\ b.callback
                               /\ PredsOf(b, t) = {CallbackOf(t)}
                               /\ CallbackOf(t) \in TasksOf(b) /\ CallbackOf(t)[1] \in EprKinds
           /\ t \in {Local, Pre, Post, Routine} \/ t[1] \in EprKinds \/ IsCallback(t)
  <1>1. CASE b.typ = "CL"
    <2>1. t = Local
      BY <1>1 DEF TasksOf
    <2> QED BY <1>1, <2>1, TaskNames
  <1>2. CASE b.typ = "QL"
    <2>1. QuantumTasks(b) = {Routine} /\ TasksOf(b) = {Pre, Post, Routine}
      BY <1>2 DEF QuantumTasks, TasksOf
    <2>2. PredsOf(b, Routine) = {Pre}
      BY <2>1, TaskNames DEF PredsOf
    <2> QED BY <1>2, <2>1, <2>2, TaskNames
  <1>3. CASE b.typ = "QC"
    <2>1. TasksOf(b) = {Pre, Post} \cup QuantumTasks(b)
      BY <1>3 DEF TasksOf
    <2>2. CASE t \in {Pre, Post}
      BY <1>3, <2>2, TaskNames
    <2>3. CASE t \in QuantumTasks(b)
      <3>1. \/ t[1] \in EprKinds /\ ~ IsCallback(t) /\ t # Routine /\ t # Local
            \/ /\ IsCallback(t) /\ b.callback /\ t # Routine /\ t # Local
               /\ CallbackOf(t) \in QuantumTasks(b) /\ CallbackOf(t)[1] \in EprKinds
        BY <1>3, <2>3, TaskNames DEF QuantumTasks
      <3>2. IsCallback(t) => PredsOf(b, t) = {CallbackOf(t)}
        BY <3>1, TaskNames DEF PredsOf
      <3>3. ~ IsCallback(t) => PredsOf(b, t) = {Pre}
        BY <2>3, <3>1, TaskNames DEF PredsOf
      <3> QED BY <1>3, <2>1, <3>1, <3>2, <3>3, TaskNames
    <2> QED BY <2>1, <2>2, <2>3
  <1> QED BY <1>1, <1>2, <1>3

\* Nothing of a block runs on the QPU before its PreCall is done.
LEMMA PreComesFirst ==
    ASSUME TypeOK, DoneInOrder, NEW p \in Pids, ~ Ended(p), NEW t \in TasksOf(Graph(p)),
           t = Routine \/ t[1] \in EprKinds \/ IsCallback(t),
           PredsOf(Graph(p), t) \subseteq done[p]
    PROVE  Pre \in done[p]
  <1>1. Graph(p).typ \in {"CL", "QL", "QC"}
    BY BlockFacts
  <1>2. CASE ~ IsCallback(t)
    BY <1>1, <1>2, TasksByType
  <1>3. CASE IsCallback(t)
    <2>1. CallbackOf(t) \in done[p] /\ CallbackOf(t) \in TasksOf(Graph(p)) /\ CallbackOf(t)[1] \in EprKinds
      BY <1>1, <1>3, TasksByType
    <2>2. PredsOf(Graph(p), CallbackOf(t)) \subseteq done[p]
      BY <2>1 DEF DoneInOrder
    <2> QED BY <1>1, <2>1, <2>2, TasksByType
  <1> QED BY <1>2, <1>3

------------------------------------------------------------------------------
(* What the kinds of step do to the invariant.                                *)

LEMMA SameBlock ==
    ASSUME block' = block
    PROVE  \A p : /\ Ended(p)' <=> Ended(p)
                  /\ Current(p)' = Current(p) /\ Graph(p)' = Graph(p) /\ Request(p)' = Request(p)
  BY DEF Ended, Current, Graph, Request

LEMMA SameCalls ==
    ASSUME calls' = calls, ptr' = ptr
    PROVE  \A p : CallOf(p)' = CallOf(p)
  BY DEF CallOf

\* The type of a block tells which processor has its tasks.
LEMMA ExecutedFacts ==
    ASSUME CallInv
    PROVE  /\ cpu.doing # "nothing" => cpu.task[1] \in CpuKinds
           /\ qpu.doing # "nothing" => /\ qpu.task[1] \notin CpuKinds /\ Pre \in done[qpu.pid]
  <1>1. cpu.doing # "nothing" => cpu.task[1] \in CpuKinds
    BY TaskNames DEF CallInv, CpuOK
  <1>2. ASSUME qpu.doing # "nothing"
        PROVE  qpu.task[1] \notin CpuKinds /\ Pre \in done[qpu.pid]
    <2>1. qpu.task = Routine \/ qpu.task[1] \in EprKinds \/ IsCallback(qpu.task)
      BY <1>2 DEF CallInv, QpuOK
    <2>2. qpu.task[1] \notin CpuKinds
      BY <2>1, TaskNames
    <2>3. /\ qpu.pid \in Pids /\ ~ Ended(qpu.pid) /\ qpu.task \in TasksOf(Graph(qpu.pid))
          /\ PredsOf(Graph(qpu.pid), qpu.task) \subseteq done[qpu.pid]
      BY <1>2 DEF CallInv, QpuOK, IsExecuted
    <2> QED BY <2>1, <2>2, <2>3, PreComesFirst DEF CallInv
  <1> QED BY <1>1, <1>2

\* A step within a task.
LEMMA WithinTask ==
    ASSUME CallInv, UNCHANGED <<block, done, ptr, runs, calls>>,
           jumps' \in [Pids -> Nat],
           cpu'.doing = cpu.doing, cpu'.pid = cpu.pid, cpu'.task = cpu.task,
           cpu.doing = "code" => cpu'.pc \in Nat \ {0},
           qpu'.doing = qpu.doing, qpu'.pid = qpu.pid, qpu'.task = qpu.task,
           qpu'.routine = qpu.routine
    PROVE  CallInv'
  <1>1. localRun' = localRun /\ requestRun' = requestRun
    BY DEF runs
  <1>2. TypeOK'
    BY <1>1 DEF CallInv, TypeOK, IsLocalRun
  <1>3. DoneInOrder'
    BY SameBlock DEF CallInv, DoneInOrder
  <1>4. CpuOK' /\ QpuOK'
    BY SameBlock DEF CallInv, CpuOK, QpuOK, IsExecuted
  <1>5. RequestIsCurrent'
    BY <1>1, SameBlock, SameCalls DEF CallInv, RequestIsCurrent
  <1>6. CodeIsCurrent'
    <2>1. qpu.doing = "code" => Running' = Running
      BY <1>1 DEF Running
    <2> QED BY <1>1, <2>1, SameCalls DEF CallInv, CodeIsCurrent
  <1>7. CallIsLeft'
    BY DEF CallInv, CallIsLeft, PreBegun
  <1> QED BY <1>2, <1>3, <1>4, <1>5, <1>6, <1>7 DEF CallInv

\* The end of a task leaves the tasks done in order, and those of others executed.
LEMMA FinishKeepsOrder ==
    ASSUME CallInv, NEW w, IsExecuted(w), w.doing # "nothing", Finish(w.pid, w.task), block' = block
    PROVE  /\ DOMAIN done' = Pids
           /\ \A p \in Pids : done'[p] = IF p = w.pid THEN done[p] \cup {w.task} ELSE done[p]
           /\ DoneInOrder'
           /\ \A x : IsExecuted(x) /\ x.task # w.task => IsExecuted(x)'
  <1>1. /\ DOMAIN done' = Pids
        /\ \A p \in Pids : done'[p] = IF p = w.pid THEN done[p] \cup {w.task} ELSE done[p]
    BY DEF CallInv, TypeOK, Finish
  <1>2. /\ w.pid \in Pids /\ ~ Ended(w.pid) /\ w.task \in TasksOf(Graph(w.pid))
        /\ PredsOf(Graph(w.pid), w.task) \subseteq done[w.pid]
    BY DEF IsExecuted
  <1>3. DoneInOrder'
    <2> SUFFICES ASSUME NEW p \in Pids
                 PROVE  (IF Ended(p) THEN done[p] = {}
                         ELSE \A t \in done[p] : /\ t \in TasksOf(Graph(p))
                                                 /\ PredsOf(Graph(p), t) \subseteq done[p])'
      BY DEF DoneInOrder
    <2>1. IF Ended(p) THEN done[p] = {}
          ELSE \A t \in done[p] : t \in TasksOf(Graph(p)) /\ PredsOf(Graph(p), t) \subseteq done[p]
      BY DEF CallInv, DoneInOrder
    <2>2. CASE p = w.pid
      BY <1>1, <1>2, <2>1, <2>2, SameBlock
    <2>3. CASE p # w.pid
      BY <1>1, <2>1, <2>3, SameBlock
    <2> QED BY <2>2, <2>3
  <1>4. ASSUME NEW x, IsExecuted(x), x.task # w.task PROVE IsExecuted(x)'
    BY <1>1, <1>4, SameBlock DEF IsExecuted
  <1> QED BY <1>1, <1>3, <1>4

\* The CPU ends a task.
LEMMA CpuFinishes ==
    ASSUME CallInv, cpu.doing # "nothing", Finish(cpu.pid, cpu.task), cpu' = Idle,
           UNCHANGED <<block, ptr, jumps, runs, calls, qpu>>
    PROVE  CallInv'
  <1>1. localRun' = localRun /\ requestRun' = requestRun
    BY DEF runs
  <1>2. IsExecuted(cpu) /\ cpu.task[1] \in CpuKinds
    BY ExecutedFacts DEF CallInv, CpuOK
  <1>3. /\ DOMAIN done' = Pids
        /\ \A p \in Pids : done'[p] = IF p = cpu.pid THEN done[p] \cup {cpu.task} ELSE done[p]
        /\ DoneInOrder'
        /\ \A x : IsExecuted(x) /\ x.task # cpu.task => IsExecuted(x)'
    BY <1>2, FinishKeepsOrder
  <1>4. TypeOK'
    BY <1>1, <1>3 DEF CallInv, TypeOK, IsLocalRun
  <1>5. CpuOK'
    BY DEF CpuOK, IsExecuted, Idle
  <1>6. QpuOK'
    <2>1. qpu.doing # "nothing" => qpu.task # cpu.task
      BY <1>2, ExecutedFacts
    <2>2. IsExecuted(qpu)'
      <3>1. CASE qpu.doing = "nothing"
        BY <3>1 DEF IsExecuted
      <3>2. CASE qpu.doing # "nothing"
        <4>1. PICK q : q = qpu
          OBVIOUS
        <4>2. IsExecuted(q)'
          BY <1>3, <2>1, <3>2, <4>1 DEF CallInv, QpuOK
        <4> QED BY <4>1, <4>2 DEF IsExecuted
      <3> QED BY <3>1, <3>2
    <2> QED BY <2>2 DEF CallInv, QpuOK
  <1>7. RequestIsCurrent'
    <2> SUFFICES ASSUME NEW p \in Pids, NEW t, t[1] \in EprKinds,
                        t \in done'[p] \/ (qpu'.doing # "nothing" /\ qpu'.pid = p /\ qpu'.task = t)
                 PROVE  requestRun'[p][Current(p)'.routine] = CallOf(p)'
      BY DEF RequestIsCurrent
    <2>1. t # cpu.task
      BY <1>2, TaskNames
    <2> QED BY <1>1, <1>3, <2>1, SameBlock, SameCalls DEF CallInv, RequestIsCurrent
  <1>8. CodeIsCurrent'
    BY <1>1, SameCalls DEF CallInv, CodeIsCurrent, Running
  <1>9. CallIsLeft'
    <2>1. cpu.task = Pre => cpu.doing = "waiting"
      BY TaskNames DEF CallInv, CpuOK
    <2> QED BY <1>3, <2>1 DEF CallInv, CallIsLeft, PreBegun, Idle
  <1> QED BY <1>3, <1>4, <1>5, <1>6, <1>7, <1>8, <1>9 DEF CallInv

\* The QPU ends a task.
LEMMA QpuFinishes ==
    ASSUME CallInv, qpu.doing # "nothing", Finish(qpu.pid, qpu.task), qpu' = Idle,
           UNCHANGED <<block, ptr, jumps, runs, calls, cpu>>
    PROVE  CallInv'
  <1>1. localRun' = localRun /\ requestRun' = requestRun
    BY DEF runs
  <1>2. IsExecuted(qpu) /\ qpu.task[1] \notin CpuKinds
    BY ExecutedFacts DEF CallInv, QpuOK
  <1>3. /\ DOMAIN done' = Pids
        /\ \A p \in Pids : done'[p] = IF p = qpu.pid THEN done[p] \cup {qpu.task} ELSE done[p]
        /\ DoneInOrder'
        /\ \A x : IsExecuted(x) /\ x.task # qpu.task => IsExecuted(x)'
    BY <1>2, FinishKeepsOrder
  <1>4. TypeOK'
    BY <1>1, <1>3 DEF CallInv, TypeOK, IsLocalRun
  <1>5. QpuOK' /\ CodeIsCurrent'
    BY DEF QpuOK, IsExecuted, CodeIsCurrent, Idle
  <1>6. CpuOK'
    <2>1. cpu.doing # "nothing" => cpu.task # qpu.task
      BY <1>2, ExecutedFacts
    <2>2. IsExecuted(cpu)'
      <3>1. CASE cpu.doing = "nothing"
        BY <3>1 DEF IsExecuted
      <3>2. CASE cpu.doing # "nothing"
        <4>1. PICK q : q = cpu
          OBVIOUS
        <4>2. IsExecuted(q)'
          BY <1>3, <2>1, <3>2, <4>1 DEF CallInv, CpuOK
        <4> QED BY <4>1, <4>2 DEF IsExecuted
      <3> QED BY <3>1, <3>2
    <2> QED BY <2>2 DEF CallInv, CpuOK
  <1>7. RequestIsCurrent'
    <2> SUFFICES ASSUME NEW p \in Pids, NEW t, t[1] \in EprKinds, t \in done'[p]
                 PROVE  requestRun'[p][Current(p)'.routine] = CallOf(p)'
      BY DEF RequestIsCurrent, Idle
    <2> QED BY <1>1, <1>3, SameBlock, SameCalls DEF CallInv, RequestIsCurrent
  <1>8. CallIsLeft'
    <2>1. qpu.task # Pre
      BY <1>2, TaskNames
    <2> QED BY <1>3, <2>1 DEF CallInv, CallIsLeft, PreBegun
  <1> QED BY <1>3, <1>4, <1>5, <1>6, <1>7, <1>8 DEF CallInv

\* The QPU gives up a task, which stays to be done.
LEMMA QpuGivesUp ==
    ASSUME CallInv, qpu' = Idle, UNCHANGED <<block, done, ptr, jumps, runs, calls, cpu>>
    PROVE  CallInv'
  <1>1. localRun' = localRun /\ requestRun' = requestRun
    BY DEF runs
  <1>2. TypeOK' /\ DoneInOrder'
    BY <1>1, SameBlock DEF CallInv, TypeOK, IsLocalRun, DoneInOrder
  <1>3. CpuOK' /\ QpuOK' /\ CodeIsCurrent'
    BY SameBlock DEF CallInv, CpuOK, QpuOK, IsExecuted, CodeIsCurrent, Idle
  <1>4. RequestIsCurrent'
    BY <1>1, SameBlock, SameCalls DEF CallInv, RequestIsCurrent, Idle
  <1>5. CallIsLeft'
    BY DEF CallInv, CallIsLeft, PreBegun
  <1> QED BY <1>2, <1>3, <1>4, <1>5 DEF CallInv

\* The call of the current block is added.
LeavesCall(p) == \E call : calls' = Extended(calls, <<p, ptr[p]>>, call)

\* The CPU starts a task; a PreCall leaves the call of its block.
LEMMA CpuStarts ==
    ASSUME CallInv, NEW p \in Pids, NEW t \in {Local, Pre, Post}, CpuMayStart(p, t),
           cpu'.pid = p, cpu'.task = t, cpu'.doing = IF t = Local THEN "code" ELSE "waiting",
           t = Local => cpu'.pc = 1,
           \/ t # Pre /\ calls' = calls
           \/ t = Pre /\ LeavesCall(p),
           UNCHANGED <<block, done, ptr, jumps, runs, qpu>>
    PROVE  CallInv'
  <1>1. localRun' = localRun /\ requestRun' = requestRun
    BY DEF runs
  <1>2. ~ Ended(p) /\ t \in TasksOf(Graph(p)) \ done[p] /\ PredsOf(Graph(p), t) \subseteq done[p]
    BY DEF CpuMayStart, Ready, Graph
  <1>3. TypeOK' /\ DoneInOrder'
    <2>1. TypeOK'
      BY <1>1 DEF CallInv, TypeOK, IsLocalRun
    <2>2. DoneInOrder'
      BY SameBlock DEF CallInv, DoneInOrder
    <2> QED BY <2>1, <2>2
  <1>4. CpuOK'
    <2>1. IsExecuted(cpu)'
      BY <1>2, SameBlock DEF IsExecuted
    <2> QED BY <2>1, TaskNames DEF CpuOK
  <1>5. QpuOK'
    BY SameBlock DEF CallInv, QpuOK, IsExecuted
  <1>6. ASSUME NEW q \in Pids, Pre \in done[q]
        PROVE  CallOf(q)' = CallOf(q)
    <2>1. t = Pre => q # p
      BY <1>2, <1>6
    <2>2. <<q, ptr[q]>> = <<p, ptr[p]>> => q = p
      OBVIOUS
    <2>3. <<q, ptr[q]>> \in DOMAIN calls
      BY <1>6 DEF CallInv, CallIsLeft, PreBegun
    <2> QED BY <2>1, <2>2, <2>3 DEF CallOf, Extended, LeavesCall
  <1>7. RequestIsCurrent'
    <2> SUFFICES ASSUME NEW q \in Pids, NEW u, u[1] \in EprKinds,
                        u \in done[q] \/ (qpu.doing # "nothing" /\ qpu.pid = q /\ qpu.task = u)
                 PROVE  requestRun[q][Current(q).routine] = CallOf(q)'
      BY <1>1, SameBlock DEF RequestIsCurrent
    <2>1. Pre \in done[q]
      <3>1. CASE u \in done[q]
        <4>1. ~ Ended(q) /\ u \in TasksOf(Graph(q)) /\ PredsOf(Graph(q), u) \subseteq done[q]
          BY <3>1 DEF CallInv, DoneInOrder
        <4> QED BY <4>1, PreComesFirst DEF CallInv
      <3>2. CASE qpu.doing # "nothing" /\ qpu.pid = q /\ qpu.task = u
        BY <3>2, ExecutedFacts
      <3> QED BY <3>1, <3>2
    <2> QED BY <1>6, <2>1 DEF CallInv, RequestIsCurrent
  <1>8. CodeIsCurrent'
    <2> SUFFICES ASSUME qpu.doing = "code" PROVE CodeIsCurrent'
      BY DEF CodeIsCurrent
    <2>1. CallOf(qpu.pid)' = CallOf(qpu.pid)
      <3>1. PICK q : q = qpu.pid
        OBVIOUS
      <3>2. q \in Pids /\ Pre \in done[q]
        BY <3>1, ExecutedFacts DEF CallInv, QpuOK, IsExecuted
      <3>3. CallOf(q)' = CallOf(q)
        BY <1>6, <3>2
      <3> QED BY <3>1, <3>3 DEF CallOf
    <2>2. Running' = Running
      BY <1>1 DEF Running
    <2> QED BY <2>1, <2>2 DEF CallInv, CodeIsCurrent
  <1>9. CallIsLeft'
    <2>1. DOMAIN calls \subseteq DOMAIN calls' /\ (t = Pre => <<p, ptr[p]>> \in DOMAIN calls')
      BY DEF Extended, LeavesCall
    <2> QED BY <2>1, TaskNames DEF CallInv, CallIsLeft, PreBegun
  <1> QED BY <1>3, <1>4, <1>5, <1>7, <1>8, <1>9 DEF CallInv

\* The next block begins with nothing done.
LEMMA NextBlockCall ==
    ASSUME CallInv, NEW p \in Pids, NextBlock(p)
    PROVE  CallInv'
  <1>1. /\ block' = [block EXCEPT ![p] = IF jumps[p] # NoJump THEN jumps[p] ELSE @ + 1]
        /\ jumps' = [jumps EXCEPT ![p] = NoJump] /\ ptr' = [ptr EXCEPT ![p] = @ + 1]
        /\ done' = [done EXCEPT ![p] = {}]
        /\ localRun' = localRun /\ requestRun' = requestRun
        /\ calls' = calls /\ cpu' = cpu /\ qpu' = qpu
    BY DEF NextBlock, runs
  <1>2. /\ block'[p] \in Nat \ {0} /\ \A q \in Pids \ {p} : block'[q] = block[q]
        /\ DOMAIN done' = Pids
        /\ done'[p] = {} /\ \A q \in Pids \ {p} : done'[q] = done[q] /\ ptr'[q] = ptr[q]
    BY <1>1 DEF CallInv, TypeOK, NoJump
  <1>3. TypeOK'
    <2>1. block' \in [Pids -> Nat \ {0}]
      BY <1>1, <1>2 DEF CallInv, TypeOK
    <2>2. ptr' \in [Pids -> Nat] /\ jumps' \in [Pids -> Nat]
      BY <1>1 DEF CallInv, TypeOK, NoJump
    <2>3. \A q \in Pids : \A n \in RoutineNames : IsLocalRun(localRun'[q][n])
      BY <1>1 DEF CallInv, TypeOK
    <2> QED BY <1>1, <1>2, <2>1, <2>2, <2>3 DEF CallInv, TypeOK, IsLocalRun
  <1>4. \A q \in Pids \ {p} : /\ Ended(q)' <=> Ended(q)
                              /\ Current(q)' = Current(q) /\ Graph(q)' = Graph(q)
                              /\ CallOf(q)' = CallOf(q)
    BY <1>1, <1>2 DEF Ended, Current, Graph, CallOf
  <1>5. DoneInOrder'
    <2> SUFFICES ASSUME NEW q \in Pids
                 PROVE  (IF Ended(q) THEN done[q] = {}
                         ELSE \A t \in done[q] : /\ t \in TasksOf(Graph(q))
                                                 /\ PredsOf(Graph(q), t) \subseteq done[q])'
      BY DEF DoneInOrder
    <2>1. CASE q = p
      BY <1>2, <2>1
    <2>2. CASE q # p
      BY <1>2, <1>4, <2>2 DEF CallInv, DoneInOrder
    <2> QED BY <2>1, <2>2
  \* No processor executes a task of the program.
  <1>6. /\ cpu.doing # "nothing" => cpu.pid \in Pids \ {p}
        /\ qpu.doing # "nothing" => qpu.pid \in Pids \ {p}
    <2>1. TasksOf(Graph(p)) = done[p]
      BY DEF NextBlock, Graph
    <2> QED BY <2>1 DEF CallInv, CpuOK, QpuOK, IsExecuted
  <1>7. CpuOK' /\ QpuOK'
    <2>1. IsExecuted(cpu)'
      BY <1>1, <1>2, <1>4, <1>6 DEF CallInv, CpuOK, IsExecuted
    <2>2. IsExecuted(qpu)'
      BY <1>1, <1>2, <1>4, <1>6 DEF CallInv, QpuOK, IsExecuted
    <2> QED BY <1>1, <2>1, <2>2 DEF CallInv, CpuOK, QpuOK
  <1>8. RequestIsCurrent'
    <2> SUFFICES ASSUME NEW q \in Pids, NEW t, t[1] \in EprKinds,
                        t \in done'[q] \/ (qpu.doing # "nothing" /\ qpu.pid = q /\ qpu.task = t)
                 PROVE  requestRun[q][Current(q)'.routine] = CallOf(q)'
      BY <1>1 DEF RequestIsCurrent
    <2>1. q # p
      BY <1>2, <1>6
    <2> QED BY <1>2, <1>4, <2>1 DEF CallInv, RequestIsCurrent
  <1>9. CodeIsCurrent'
    <2>1. qpu.doing = "code" => CallOf(qpu.pid)' = CallOf(qpu.pid) /\ Running' = Running
      BY <1>1, <1>2, <1>6 DEF CallOf, Running
    <2> QED BY <1>1, <2>1 DEF CallInv, CodeIsCurrent
  <1>10. CallIsLeft'
    <2> SUFFICES ASSUME NEW q \in Pids,
                        Pre \in done'[q] \/ (cpu.doing = "waiting" /\ cpu.pid = q /\ cpu.task = Pre)
                 PROVE  <<q, ptr'[q]>> \in DOMAIN calls
      BY <1>1 DEF CallIsLeft, PreBegun
    <2>1. q # p
      BY <1>2, <1>6
    <2> QED BY <1>2, <2>1 DEF CallInv, CallIsLeft, PreBegun
  <1> QED BY <1>3, <1>5, <1>7, <1>8, <1>9, <1>10 DEF CallInv

\* A routine begins, with the addresses of the call of its task.
LEMMA CodeStarts ==
    ASSUME CallInv, NEW p \in Pids, NEW t, t = Routine \/ IsCallback(t), QpuMayStart(p, t),
           NEW name \in RoutineNames, NEW input, NEW result, RunCode(p, t, name, input, result),
           IF IsCallback(t)
           THEN input = CallOf(p).cbIn[CallbackIndex(t)] /\ result = CallOf(p).cbOut[CallbackIndex(t)]
           ELSE input = CallOf(p).input /\ result = CallOf(p).result
    PROVE  CallInv'
  <1>1. /\ localRun' = [localRun EXCEPT ![p][name].input = input, ![p][name].result = result]
        /\ qpu'.pid = p /\ qpu'.task = t /\ qpu'.doing = "code" /\ qpu'.routine = name
        /\ UNCHANGED <<block, ptr, jumps, done, requestRun, calls, cpu>>
    BY DEF RunCode, control, Idle
  <1>2. /\ DOMAIN localRun' = Pids
        /\ \A q \in Pids : /\ DOMAIN localRun'[q] = RoutineNames
                           /\ \A n \in RoutineNames :
                                localRun'[q][n] = IF q = p /\ n = name THEN RunOf(input, result)
                                                  ELSE localRun[q][n]
    <2>1. localRun[p][name] = [NotRunning EXCEPT !.input = localRun[p][name].input,
                                                 !.result = localRun[p][name].result]
      BY DEF CallInv, TypeOK, IsLocalRun
    <2>2. [[localRun[p][name] EXCEPT !.input = input] EXCEPT !.result = result] = RunOf(input, result)
      BY <2>1 DEF RunOf, NotRunning
    <2> QED BY <1>1, <2>2 DEF CallInv, TypeOK
  <1>3. TypeOK'
    <2>1. IsLocalRun(RunOf(input, result))
      BY DEF IsLocalRun, RunOf, NotRunning
    <2>2. \A q \in Pids : \A n \in RoutineNames : IsLocalRun(localRun'[q][n])
      BY <1>2, <2>1 DEF CallInv, TypeOK
    <2>3. \A run : IsLocalRun(run)' <=> IsLocalRun(run)
      BY DEF IsLocalRun
    <2> QED BY <1>1, <1>2, <2>2 DEF CallInv, TypeOK, IsLocalRun
  <1>4. DoneInOrder' /\ CpuOK'
    BY <1>1, SameBlock DEF CallInv, DoneInOrder, CpuOK, IsExecuted
  <1>5. QpuOK'
    <2>1. IsExecuted(qpu)'
      BY <1>1, SameBlock DEF QpuMayStart, Ready, Graph, IsExecuted
    <2> QED BY <1>1, <2>1 DEF QpuOK
  <1>6. RequestIsCurrent'
    <2> SUFFICES ASSUME NEW q \in Pids, NEW u, u[1] \in EprKinds, u \in done[q]
                 PROVE  requestRun[q][Current(q).routine] = CallOf(q)
      BY <1>1, SameBlock, SameCalls, TaskNames DEF RequestIsCurrent
    <2> QED BY DEF CallInv, RequestIsCurrent
  <1>7. CodeIsCurrent'
    <2>1. Running' = RunOf(input, result)
      <3>1. Running' = localRun'[p][name]
        BY <1>1 DEF Running
      <3> QED BY ONLY <3>1, <1>2, p \in Pids, name \in RoutineNames
    <2>2. CallOf(p)' = CallOf(p)
      BY <1>1 DEF CallOf
    <2>3. /\ qpu'.pid = p /\ qpu'.task = t /\ qpu'.routine \in RoutineNames
          /\ CallbackIndex(qpu.task)' = CallbackIndex(t)
      BY <1>1
    <2>4. Running' = IF IsCallback(t)
                     THEN RunOf(CallOf(p).cbIn[CallbackIndex(t)], CallOf(p).cbOut[CallbackIndex(t)])
                     ELSE RunOf(CallOf(p).input, CallOf(p).result)
      BY <2>1
    <2> QED BY <2>2, <2>3, <2>4 DEF CodeIsCurrent
  <1>8. CallIsLeft'
    BY <1>1 DEF CallInv, CallIsLeft, PreBegun
  <1> QED BY <1>3, <1>4, <1>5, <1>6, <1>7, <1>8 DEF CallInv

\* A callback is ready when its pair is done: the running request is its call.
LEMMA CallbackStarts ==
    ASSUME CallInv, NEW p \in Pids, NEW t, NEW index, index = CallbackIndex(t), StartCallback(p, t, index)
    PROVE  CallInv'
  <1> DEFINE run == requestRun[p][Current(p).routine]
             name == Request(p).callback
  <1>1. QpuMayStart(p, t) /\ IsCallback(t) /\ RunCode(p, t, name, run.cbIn[index], run.cbOut[index])
    BY DEF StartCallback
  <1>2. ~ Ended(p) /\ t \in TasksOf(Graph(p)) /\ PredsOf(Graph(p), t) \subseteq done[p]
    BY <1>1 DEF QpuMayStart, Ready, Graph
  <1>3. /\ Graph(p).typ = "QC" /\ Graph(p).callback
        /\ CallbackOf(t) \in done[p] /\ CallbackOf(t)[1] \in EprKinds
    BY <1>1, <1>2, BlockFacts, TasksByType DEF CallInv
  <1>4. name \in RoutineNames
    BY <1>2, <1>3, BlockFacts DEF CallInv
  <1>5. run = CallOf(p)
    BY <1>3 DEF CallInv, RequestIsCurrent
  <1> HIDE DEF run, name
  <1> QED BY <1>1, <1>4, <1>5, CodeStarts

\* A pair task begins by making its call the running request.
LEMMA PairsStart ==
    ASSUME CallInv, NEW p \in Pids, NEW t, NEW indices, StartPairs(p, t, indices)
    PROVE  CallInv'
  <1> DEFINE name == Current(p).routine
  <1>1. /\ QpuMayStart(p, t) /\ t[1] \in EprKinds
        /\ requestRun' = [requestRun EXCEPT ![p][name] = CallOf(p)]
        /\ qpu'.pid = p /\ qpu'.task = t /\ qpu'.doing = "pair"
        /\ UNCHANGED <<block, ptr, jumps, done, localRun, calls, cpu>>
    BY DEF StartPairs, InstantiateRoutine, control, Idle
  <1>2. ~ Ended(p) /\ t \in TasksOf(Graph(p)) \ done[p] /\ PredsOf(Graph(p), t) \subseteq done[p]
    BY <1>1 DEF QpuMayStart, Ready, Graph
  <1>3. name \in RequestNames
    BY <1>1, <1>2, BlockFacts, TasksByType DEF CallInv
  <1>4. /\ DOMAIN requestRun' = Pids
        /\ \A q \in Pids : /\ DOMAIN requestRun'[q] = RequestNames
                           /\ q # p => requestRun'[q] = requestRun[q]
        /\ requestRun'[p][name] = CallOf(p)
    BY <1>1, <1>3 DEF CallInv, TypeOK
  <1> HIDE DEF name
  <1>5. TypeOK'
    <2>1. localRun' = localRun /\ block' = block /\ ptr' = ptr /\ jumps' = jumps /\ done' = done
      BY <1>1
    <2>2. \A q \in Pids : DOMAIN requestRun'[q] = RequestNames
      BY <1>4
    <2> QED BY <1>4, <2>1, <2>2 DEF CallInv, TypeOK, IsLocalRun
  <1>6. DoneInOrder' /\ CpuOK'
    BY <1>1, SameBlock DEF CallInv, DoneInOrder, CpuOK, IsExecuted
  <1>7. QpuOK' /\ CodeIsCurrent'
    <2>1. IsExecuted(qpu)'
      BY <1>1, <1>2, SameBlock DEF IsExecuted
    <2> QED BY <1>1, <2>1 DEF QpuOK, CodeIsCurrent
  <1>8. RequestIsCurrent'
    <2> SUFFICES ASSUME NEW q \in Pids, NEW u, u[1] \in EprKinds,
                        u \in done[q] \/ (p = q /\ t = u)
                 PROVE  requestRun'[q][Current(q).routine] = CallOf(q)
      BY <1>1, SameBlock, SameCalls DEF RequestIsCurrent
    <2>1. CASE q = p
      BY <1>4, <2>1 DEF name
    <2>2. CASE q # p
      BY <1>4, <2>2 DEF CallInv, RequestIsCurrent
    <2> QED BY <2>1, <2>2
  <1>9. CallIsLeft'
    BY <1>1 DEF CallInv, CallIsLeft, PreBegun
  <1> QED BY <1>5, <1>6, <1>7, <1>8, <1>9 DEF CallInv

\* An instruction of the host may leave a jump to a block that there is.
LEMMA HostStepCall ==
    ASSUME CallInv, HostStep
    PROVE  CallInv'
  <1> DEFINE p == cpu.pid
  <1>1. PICK op \in {"assign", "add", "mulc", "bcondmulc", "return", "branch", "jump"} :
            HostExecutes(op)
    BY DEF HostStep, AssignCValue, AddCValue, MultiplyConstantCValue,
           BitConditionalMultiplyConstantCValue, ReturnResult, BranchIf, Jump
  <1>2. /\ cpu.doing = "code" /\ ~ HostCodeDone /\ HostInstr.op = op
        /\ cpu' = [cpu EXCEPT !.pc = @ + 1]
        /\ UNCHANGED <<block, ptr, done, runs, calls, qpu>>
    BY <1>1 DEF HostExecutes
  <1>3. /\ p \in Pids /\ ~ Ended(p) /\ cpu.task = Local /\ Local \in TasksOf(Graph(p))
        /\ cpu.pc \in Nat \ {0}
    BY <1>2 DEF CallInv, CpuOK, IsExecuted
  <1>4. op \in {"branch", "jump"} => HostInstr.target \in Nat
    <2>1. /\ Current(p).typ = "CL" /\ block[p] \in DOMAIN Program[p]
          /\ Current(p) = Program[p][block[p]]
      BY <1>3, BlockFacts, TasksByType DEF CallInv
    <2>2. IsSequence(Current(p).code)
      BY <1>3, <2>1, HostAssumption
    <2>3. cpu.pc \in DOMAIN Current(p).code /\ HostInstr = Current(p).code[cpu.pc]
      BY <1>2, <1>3, <2>1, <2>2 DEF HostCodeDone, HostInstr, IsSequence
    <2>4. op \in {"branch", "jump"} => HostInstr.target \in DOMAIN Program[p]
      BY <1>2, <1>3, <2>1, <2>3, HostAssumption
    <2> QED BY <1>3, <2>4, HostAssumption DEF IsSequence
  <1>5. PICK target \in Nat : jumps' = [jumps EXCEPT ![cpu.pid] = target]
    <2>1. CASE op \in {"assign", "add", "mulc", "bcondmulc", "return"}
      <3>1. jumps' = [jumps EXCEPT ![cpu.pid] = NoJump]
        BY <1>2, <2>1 DEF HostStep, AssignCValue, AddCValue, MultiplyConstantCValue, BranchIf, Jump,
               BitConditionalMultiplyConstantCValue, ReturnResult, HostWrite, HostExecutes
      <3> QED BY <3>1 DEF NoJump
    <2>2. CASE op \in {"branch", "jump"}
      <3>1. \/ jumps' = [jumps EXCEPT ![cpu.pid] = HostInstr.target]
            \/ jumps' = [jumps EXCEPT ![cpu.pid] = NoJump]
        BY <1>2, <2>2 DEF HostStep, AssignCValue, AddCValue, MultiplyConstantCValue, BranchIf, Jump,
               BitConditionalMultiplyConstantCValue, ReturnResult, HostExecutes
      <3> QED BY <1>4, <2>2, <3>1 DEF NoJump
    <2> QED BY <2>1, <2>2
  <1>6. jumps' \in [Pids -> Nat]
    BY <1>3, <1>5 DEF CallInv, TypeOK
  <1>7. /\ cpu'.doing = cpu.doing /\ cpu'.pid = cpu.pid /\ cpu'.task = cpu.task
        /\ cpu.doing = "code" => cpu'.pc \in Nat \ {0}
    BY <1>2, <1>3
  <1> QED BY <1>2, <1>6, <1>7, WithinTask

\* An instruction of Qnos changes none of the tables.
LEMMA QnosStepCall ==
    ASSUME CallInv, QnosStep
    PROVE  CallInv'
  <1>1. /\ UNCHANGED <<control, done, runs, calls, cpu>>
        /\ \E pc : qpu' = [qpu EXCEPT !.pc = pc]
    BY DEF QnosStep, Set, Store, Load, Compute, Branch, InitQubit, Gate, Measure, Executes, NextInstr
  <1>2. /\ qpu'.doing = qpu.doing /\ qpu'.pid = qpu.pid /\ qpu'.task = qpu.task
        /\ qpu'.routine = qpu.routine
    BY <1>1
  <1>3. jumps' \in [Pids -> Nat] /\ UNCHANGED <<block, ptr>>
    BY <1>1 DEF CallInv, TypeOK, control
  <1>4. cpu.doing = "code" => cpu'.pc \in Nat \ {0}
    BY <1>1 DEF CallInv, CpuOK
  <1> QED BY <1>1, <1>2, <1>3, <1>4, WithinTask

\* A pair ends its task, or the next pair of the request is begun.
LEMMA PairCall ==
    ASSUME CallInv, KeepPair \/ MeasurePair
    PROVE  CallInv'
  <1>1. UNCHANGED <<control, runs, calls, cpu>> /\ qpu.doing = "pair"
    BY DEF KeepPair, MeasurePair, WaitsForPair
  <1>2. \/ Finish(qpu.pid, qpu.task) /\ qpu' = Idle
        \/ \E pc, outcomes : done' = done /\ qpu' = [qpu EXCEPT !.pc = pc, !.outcomes = outcomes]
    BY DEF KeepPair, MeasurePair, NextPair
  <1>3. CASE Finish(qpu.pid, qpu.task) /\ qpu' = Idle
    BY <1>1, <1>3, QpuFinishes DEF control
  <1>4. CASE \E pc, outcomes : done' = done /\ qpu' = [qpu EXCEPT !.pc = pc, !.outcomes = outcomes]
    <2>1. /\ qpu'.doing = qpu.doing /\ qpu'.pid = qpu.pid /\ qpu'.task = qpu.task
          /\ qpu'.routine = qpu.routine
      BY <1>4
    <2>2. jumps' \in [Pids -> Nat] /\ UNCHANGED <<block, ptr>>
      BY <1>1 DEF CallInv, TypeOK, control
    <2>3. cpu.doing = "code" => cpu'.pc \in Nat \ {0}
      BY <1>1 DEF CallInv, CpuOK
    <2> QED BY <1>1, <1>4, <2>1, <2>2, <2>3, WithinTask
  <1> QED BY <1>2, <1>3, <1>4

\* A task of the CPU begins.
LEMMA CpuStartCall ==
    ASSUME CallInv, NEW p \in Pids,
           StartHostLocal(p) \/ PrepareLrCall(p) \/ PrepareRrCall(p) \/ PostCall(p)
    PROVE  CallInv'
  <1>1. CASE StartHostLocal(p)
    <2>1. /\ CpuMayStart(p, Local) /\ cpu'.pid = p /\ cpu'.task = Local /\ cpu'.doing = "code"
          /\ cpu'.pc = 1 /\ UNCHANGED <<block, done, ptr, jumps, runs, qpu, calls>>
      BY <1>1 DEF StartHostLocal, control, Idle
    <2> QED BY <2>1, CpuStarts, TaskNames
  <1>2. CASE PostCall(p)
    <2>1. /\ CpuMayStart(p, Post) /\ cpu'.pid = p /\ cpu'.task = Post /\ cpu'.doing = "waiting"
          /\ UNCHANGED <<block, done, ptr, jumps, runs, qpu, calls>>
      BY <1>2 DEF PostCall, control, Idle
    <2> QED BY <2>1, CpuStarts, TaskNames
  <1>3. ASSUME NEW call, NEW arrays, PreCall(p, call, arrays) PROVE CallInv'
    <2>1. /\ CpuMayStart(p, Pre) /\ cpu'.pid = p /\ cpu'.task = Pre /\ cpu'.doing = "waiting"
          /\ UNCHANGED <<block, done, ptr, jumps, runs, qpu>>
          /\ calls' = Extended(calls, <<p, ptr[p]>>, call)
      BY <1>3 DEF PreCall, control, Idle
    <2>2. LeavesCall(p)
      BY <2>1 DEF LeavesCall
    <2>3. Pre # Local
      BY TaskNames
    <2> QED BY <2>1, <2>2, <2>3, CpuStarts
  <1> QED BY <1>1, <1>2, <1>3 DEF PrepareLrCall, PrepareRrCall

LEMMA CallInvInductive ==
    /\ Init => CallInv
    /\ CallInv /\ [Next]_vars => CallInv'
  <1>1. ASSUME Init PROVE CallInv
    <2>1. /\ block = [p \in Pids |-> 1] /\ done = [p \in Pids |-> {}]
          /\ ptr = [p \in Pids |-> 1] /\ jumps = [p \in Pids |-> NoJump]
          /\ localRun = [p \in Pids |-> [n \in RoutineNames |-> NotRunning]]
          /\ requestRun = [p \in Pids |-> [n \in RequestNames |-> NotRunning]]
          /\ cpu = Idle /\ qpu = Idle
      BY <1>1 DEF Init
    <2>2. cpu.doing = "nothing" /\ qpu.doing = "nothing"
      BY <2>1 DEF Idle
    <2>3. IsLocalRun(NotRunning)
      BY DEF IsLocalRun, NotRunning
    <2>4. TypeOK
      <3>1. \A p \in Pids : \A n \in RoutineNames : localRun[p][n] = NotRunning
        BY <2>1
      <3>2. \A p \in Pids : \A n \in RoutineNames : IsLocalRun(localRun[p][n])
        BY <2>3, <3>1
      <3> QED BY <2>1, <3>2 DEF TypeOK, NoJump
    <2>5. DoneInOrder /\ CpuOK /\ QpuOK /\ CallIsLeft /\ RequestIsCurrent /\ CodeIsCurrent
      BY <2>1, <2>2 DEF DoneInOrder, CpuOK, QpuOK, IsExecuted, CallIsLeft, PreBegun, RequestIsCurrent, CodeIsCurrent
    <2> QED BY <2>4, <2>5 DEF CallInv
  <1>2. ASSUME CallInv, [Next]_vars PROVE CallInv'
    <2>1. CASE HostStep
      BY <1>2, <2>1, HostStepCall
    <2>2. CASE EndHostLocal \/ EndCall
      <3>1. /\ cpu.doing # "nothing" /\ Finish(cpu.pid, cpu.task) /\ cpu' = Idle
            /\ UNCHANGED <<block, ptr, jumps, runs, calls, qpu>>
        BY <2>2 DEF EndHostLocal, EndCall, control
      <3> QED BY <1>2, <3>1, CpuFinishes
    <2>3. CASE QnosStep
      BY <1>2, <2>3, QnosStepCall
    <2>4. CASE EndRoutine
      <3>1. /\ qpu.doing # "nothing" /\ Finish(qpu.pid, qpu.task) /\ qpu' = Idle
            /\ UNCHANGED <<block, ptr, jumps, runs, calls, cpu>>
        BY <2>4 DEF EndRoutine, control
      <3> QED BY <1>2, <3>1, QpuFinishes
    <2>5. CASE KeepPair \/ MeasurePair
      BY <1>2, <2>5, PairCall
    <2>6. CASE PairFails
      <3>1. qpu' = Idle /\ UNCHANGED <<block, done, ptr, jumps, runs, calls, cpu>>
        BY <2>6 DEF PairFails, control
      <3> QED BY <1>2, <3>1, QpuGivesUp
    <2>7. ASSUME NEW p \in Pids,
                 StartHostLocal(p) \/ PrepareLrCall(p) \/ PrepareRrCall(p) \/ PostCall(p)
          PROVE  CallInv'
      BY <1>2, <2>7, CpuStartCall
    <2>8. ASSUME NEW p \in Pids, NextBlock(p) PROVE CallInv'
      BY <1>2, <2>8, NextBlockCall
    <2>9. ASSUME NEW p \in Pids, StartLocalRoutine(p) PROVE CallInv'
      <3> DEFINE name == Current(p).routine
      <3>1. /\ QpuMayStart(p, Routine)
            /\ RunCode(p, Routine, name, CallOf(p).input, CallOf(p).result)
        BY <2>9 DEF StartLocalRoutine
      <3>2. ~ Ended(p) /\ Routine \in TasksOf(Graph(p))
        BY <3>1 DEF QpuMayStart, Ready, Graph
      <3>3. name \in RoutineNames
        BY <1>2, <3>2, BlockFacts, TasksByType DEF CallInv
      <3> HIDE DEF name
      <3> QED BY <1>2, <3>1, <3>3, CodeStarts, TaskNames
    <2>10. ASSUME NEW p \in Pids, NEW t, NEW indices, StartPairs(p, t, indices) PROVE CallInv'
      BY <1>2, <2>10, PairsStart
    <2>11. ASSUME NEW p \in Pids, StartCallback(p, MultiCb, 1) PROVE CallInv'
      BY <1>2, <2>11, CallbackStarts DEF CallbackIndex
    <2>12. ASSUME NEW p \in Pids, NEW i, StartCallback(p, PairCb(i), i) PROVE CallInv'
      <3>1. CallbackIndex(PairCb(i)) = i
        BY TaskNames DEF CallbackIndex
      <3> QED BY <1>2, <2>12, <3>1, CallbackStarts
    <2>13. CASE UNCHANGED vars
      <3>1. UNCHANGED <<block, done, ptr, jumps, runs, calls, cpu, qpu>>
        BY <2>13 DEF vars, runs
      <3>2. jumps' \in [Pids -> Nat] /\ (cpu.doing = "code" => cpu'.pc \in Nat \ {0})
        BY <1>2, <3>1 DEF CallInv, TypeOK, CpuOK
      <3> QED BY <1>2, <3>1, <3>2, WithinTask
    <2> QED BY <1>2, <2>1, <2>2, <2>3, <2>4, <2>5, <2>6, <2>7, <2>8, <2>9, <2>10, <2>11, <2>12, <2>13
            DEF Next, StartMultiPair, StartSinglePair
  <1> QED BY <1>1, <1>2

THEOREM CallInvInvariant == Spec => []CallInv
  BY CallInvInductive, PTL DEF Spec

\* A callback never works with the addresses of an earlier call of the same
\* routine, though the tables of running routines are keyed by name and are never
\* cleaned (instantiate_routine, handle_pair_callback).
THEOREM CallbacksFindTheirCall == Spec => []CallbackFindsItsCall
  <1>1. ASSUME CallInv PROVE CallbackFindsItsCall
    <2> SUFFICES ASSUME qpu.doing = "code", IsCallback(qpu.task)
                 PROVE  LET p == qpu.pid
                            index == IF qpu.task = MultiCb THEN 1 ELSE qpu.task[2]
                        IN  /\ requestRun[p][Current(p).routine] = CallOf(p)
                            /\ Running = [NotRunning EXCEPT !.input = CallOf(p).cbIn[index],
                                                            !.result = CallOf(p).cbOut[index]]
      BY DEF CallbackFindsItsCall
    <2> DEFINE p == qpu.pid
    <2>1. /\ p \in Pids /\ ~ Ended(p) /\ qpu.task \in TasksOf(Graph(p))
          /\ PredsOf(Graph(p), qpu.task) \subseteq done[p]
      BY <1>1 DEF CallInv, QpuOK, IsExecuted
    <2>2. CallbackOf(qpu.task) \in done[p] /\ CallbackOf(qpu.task)[1] \in EprKinds
      BY <1>1, <2>1, BlockFacts, TasksByType DEF CallInv
    <2>3. requestRun[p][Current(p).routine] = CallOf(p)
      BY <1>1, <2>1, <2>2 DEF CallInv, RequestIsCurrent
    <2> QED BY <1>1, <2>3 DEF CallInv, CodeIsCurrent, CallbackIndex, RunOf
  <1> QED BY <1>1, CallInvInvariant, PTL

------------------------------------------------------------------------------
(* Who writes to which array.                                                 *)

\* The addresses of a call are different, and between its first and its last.
WellPlaced(call) ==
    /\ call.input \in Nat \ {0} /\ call.result \in Nat /\ call.input < call.result
    /\ \A i \in DOMAIN call.cbIn :
          call.cbIn[i] \in Nat /\ call.input < call.cbIn[i] /\ call.cbIn[i] < call.result
    /\ \A i \in DOMAIN call.cbOut :
          call.cbOut[i] \in Nat /\ call.input < call.cbOut[i] /\ call.cbOut[i] < call.result
    /\ \A i \in DOMAIN call.cbIn, j \in DOMAIN call.cbOut : call.cbIn[i] # call.cbOut[j]
    /\ \A i, j \in DOMAIN call.cbOut : call.cbOut[i] = call.cbOut[j] => i = j

Made(p, k) == <<p, k>> \in DOMAIN calls
CallAt(p, k) == calls[<<p, k>>]

\* Later calls have later addresses, and every address has been allocated.
CallsArePlaced ==
    \A p \in Pids : \A k :
        Made(p, k) =>
            /\ k \in Nat /\ k <= ptr[p]
            /\ WellPlaced(CallAt(p, k)) /\ CallAt(p, k).result <= Len(shared[p])
            /\ \A l : Made(p, l) /\ l < k => CallAt(p, l).result < CallAt(p, k).input

MemoryGrows == DOMAIN shared = Pids /\ \A p \in Pids : \E S : shared[p] \in Seq(S)

\* A request's call has an array for each of its callbacks.
CallFits ==
    \A p \in Pids :
        ~ Ended(p) /\ Current(p).typ = "QC" /\ PreBegun(p)
        => DOMAIN CallOf(p).cbOut = 1..CallbackCount(Request(p))

PlaceInv == CallInv /\ MemoryGrows /\ CallsArePlaced /\ CallFits

\* What a task of the k-th block of p has written, or what was written for it, is
\* changed by no step but of that task: no other task, later call or other program
\* reaches the same array.
IsAt(p, k, tasks) == qpu.doing # "nothing" /\ qpu.pid = p /\ k = ptr[p] /\ qpu.task \in tasks
Changes(p, a) == shared'[p][a] # shared[p][a]
StaysButForItsTask ==
    \A p \in Pids : \A k : Made(p, k) =>
        LET call == CallAt(p, k)
        IN  /\ ~ Changes(p, call.input)
            /\ \A i \in DOMAIN call.cbIn : ~ Changes(p, call.cbIn[i])
            /\ Changes(p, call.result) => IsAt(p, k, {Routine, Multi})
            /\ \A i \in DOMAIN call.cbOut :
                  Changes(p, call.cbOut[i]) => IsAt(p, k, {MultiCb, PairCb(i)})

ResultsStay == [][StaysButForItsTask]_vars

\* Sequences.
LEMMA Concatenated ==
    ASSUME NEW S, NEW s \in Seq(S), NEW T, NEW t \in Seq(T)
    PROVE  /\ s \o t \in Seq(S \cup T) /\ Len(s \o t) = Len(s) + Len(t)
           /\ Len(s) \in Nat /\ Len(t) \in Nat
           /\ \A i \in 1..Len(s) : (s \o t)[i] = s[i]
  <1>1. s \in Seq(S \cup T) /\ t \in Seq(S \cup T)
    OBVIOUS
  <1> QED BY <1>1

LEMMA Framed ==
    ASSUME NEW T, NEW middle \in Seq(T), NEW first, NEW last
    PROVE  /\ Len(<<first>> \o middle \o <<last>>) = Len(middle) + 2
           /\ \E all : <<first>> \o middle \o <<last>> \in Seq(all)
  <1>1. PICK one, end : one = <<first>> /\ end = <<last>>
    OBVIOUS
  <1>2. /\ one \in Seq({first}) /\ Len(one) = 1
        /\ end \in Seq({last}) /\ Len(end) = 1
    BY <1>1
  <1>3. PICK A, B : one \in Seq(A) /\ end \in Seq(B)
    BY <1>2
  <1>4. one \o middle \in Seq(A \cup T) /\ Len(one \o middle) = Len(one) + Len(middle)
    BY <1>3, Concatenated
  <1>5. PICK C : one \o middle \in Seq(C)
    BY <1>4
  <1>6. /\ (one \o middle) \o end \in Seq(C \cup B)
        /\ Len((one \o middle) \o end) = Len(one \o middle) + Len(end)
    BY <1>3, <1>5, Concatenated
  <1>7. Len(middle) \in Nat
    OBVIOUS
  <1>8. Len((one \o middle) \o end) = Len(middle) + 2
    BY <1>2, <1>4, <1>6, <1>7
  <1> QED BY <1>1, <1>6, <1>8

LEMMA FunctionIsSequence ==
    ASSUME NEW n \in Nat, NEW f, f = [k \in 1..n |-> f[k]]
    PROVE  Len(f) = n /\ \E T : f \in Seq(T)
  <1> DEFINE T == {f[k] : k \in 1..n}
  <1>1. f \in [1..n -> T]
    OBVIOUS
  <1> HIDE DEF T
  <1>2. f \in Seq(T) /\ Len(f) = n
    BY <1>1
  <1> QED BY <1>2

\* Writing changes one array.
LEMMA WriteIsLocal ==
    ASSUME NEW S, NEW mem \in Seq(S), NEW a, NEW offset, NEW values
    PROVE  /\ Len(Write(mem, a, offset, values)) = Len(mem)
           /\ \E T : Write(mem, a, offset, values) \in Seq(T)
           /\ \A b \in 1..Len(mem) : b # a => Write(mem, a, offset, values)[b] = mem[b]
  <1> DEFINE w == Write(mem, a, offset, values)
  <1>1. Len(mem) \in Nat /\ DOMAIN mem = 1..Len(mem)
    OBVIOUS
  <1>2. w = [k \in 1..Len(mem) |-> w[k]] /\ \A b \in 1..Len(mem) : b # a => w[b] = mem[b]
    BY <1>1 DEF Write
  <1> HIDE DEF w
  <1>3. Len(w) = Len(mem) /\ \E T : w \in Seq(T)
    BY <1>1, <1>2, FunctionIsSequence
  <1> QED BY <1>2, <1>3 DEF w

\* A request has one array for the callback on all its pairs, or one for each.
LEMMA CallbackHasSlot ==
    ASSUME CallInv, NEW p \in Pids, ~ Ended(p), Current(p).typ = "QC"
    PROVE  /\ CallbackCount(Request(p)) \in Nat
           /\ \A t \in TasksOf(Graph(p)) : IsCallback(t) =>
                 /\ CallbackIndex(t) \in 1..CallbackCount(Request(p))
                 /\ t \in {MultiCb, PairCb(CallbackIndex(t))}
  <1> DEFINE b == Graph(p)
             r == Request(p)
  <1>1. /\ b.typ = "QC" /\ b.pairs = r.pairs /\ r.pairs \in Nat /\ b.sequential = r.sequential
        /\ b.callback <=> r.callback # NoRoutine
    BY BlockFacts DEF CallInv
  <1> HIDE DEF b, r
  <1>2. CallbackCount(r) \in Nat
    BY <1>1 DEF CallbackCount
  <1>3. ASSUME NEW t \in TasksOf(b), IsCallback(t)
        PROVE  CallbackIndex(t) \in 1..CallbackCount(r) /\ t \in {MultiCb, PairCb(CallbackIndex(t))}
    <2>1. b.callback /\ t \in QuantumTasks(b)
      <3>1. TasksOf(b) = {Pre, Post} \cup QuantumTasks(b)
        BY <1>1 DEF TasksOf
      <3> QED BY <1>1, <1>3, <3>1, TasksByType, TaskNames
    <2>2. CASE b.sequential
      <3>1. PICK i \in 1..b.pairs : t = PairCb(i)
        BY <1>1, <1>3, <2>1, <2>2, TaskNames DEF QuantumTasks
      <3>2. CallbackIndex(t) = i /\ CallbackCount(r) = r.pairs
        BY <1>1, <2>1, <2>2, <3>1, TaskNames DEF CallbackIndex, CallbackCount
      <3> QED BY <1>1, <3>1, <3>2
    <2>3. CASE ~ b.sequential
      <3>1. t = MultiCb
        BY <1>1, <1>3, <2>1, <2>3, TaskNames DEF QuantumTasks
      <3>2. CallbackIndex(t) = 1 /\ CallbackCount(r) = 1
        BY <1>1, <2>1, <2>3, <3>1 DEF CallbackIndex, CallbackCount
      <3> QED BY <3>1, <3>2
    <2> QED BY <2>2, <2>3
  <1> QED BY <1>2, <1>3 DEF b, r

\* The arrays of a call take the next addresses, up to that of its result.
FitsAfter(call, arrays, n) ==
    /\ WellPlaced(call) /\ call.input = n + 1 /\ call.result = n + Len(arrays)
    /\ \E T : arrays \in Seq(T)

LEMMA LrCallPlaced ==
    ASSUME NEW p, Len(shared[p]) \in Nat
    PROVE  FitsAfter(LrCall(p), LrArrays(p), Len(shared[p]))
  <1> DEFINE n == Len(shared[p])
  <1>1. /\ LrCall(p).input = n + 1 /\ LrCall(p).result = n + 1 + 1
        /\ LrCall(p).cbIn = << >> /\ LrCall(p).cbOut = << >>
    BY DEF LrCall
  <1>2. Len(LrArrays(p)) = 2 /\ \E T : LrArrays(p) \in Seq(T)
    <2>1. ASSUME NEW x, NEW y PROVE Len(<<x, y>>) = 2 /\ \E T : <<x, y>> \in Seq(T)
      <3>1. <<x, y>> \in Seq({x, y})
        OBVIOUS
      <3> QED BY <3>1
    <2> QED BY <2>1 DEF LrArrays
  <1>3. DOMAIN LrCall(p).cbIn = {} /\ DOMAIN LrCall(p).cbOut = {}
    BY <1>1
  <1> QED BY <1>1, <1>2, <1>3 DEF FitsAfter, WellPlaced

LEMMA RrCallPlaced ==
    ASSUME NEW p, Len(shared[p]) \in Nat, CallbackCount(Request(p)) \in Nat
    PROVE  /\ FitsAfter(RrCall(p), RrArrays(p), Len(shared[p]))
           /\ DOMAIN RrCall(p).cbOut = 1..CallbackCount(Request(p))
  <1> DEFINE n == CallbackCount(Request(p))
             in == Len(shared[p]) + 1
             call == RrCall(p)
  <1>1. /\ call.input = in /\ call.result = in + 2 * n + 1
        /\ DOMAIN call.cbIn = 1..n /\ DOMAIN call.cbOut = 1..n
        /\ \A i \in 1..n : call.cbIn[i] = in + 2 * i - 1 /\ call.cbOut[i] = in + 2 * i
    BY DEF RrCall
  <1>2. Len(RrArrays(p)) = 2 * n + 2 /\ \E T : RrArrays(p) \in Seq(T)
    <2> DEFINE r == Request(p)
               first == FilledArray("RR_in", ArgValues(p, Current(p).args))
               middle == [k \in 1..(2 * n) |->
                   IF k % 2 = 1 THEN Array("CR_in", LocalRoutine[r.callback].args)
                                ELSE Array("LR_out", CallbackReturns(r))]
               last == Array("RR_out", r.returns)
    <2>1. RrArrays(p) = <<first>> \o middle \o <<last>>
      BY DEF RrArrays
    <2>2. middle = [k \in 1..(2 * n) |-> middle[k]] /\ 2 * n \in Nat
      OBVIOUS
    <2> HIDE DEF first, middle, last, n
    <2>3. Len(middle) = 2 * n /\ \E T : middle \in Seq(T)
      BY <2>2, FunctionIsSequence
    <2>4. PICK T : middle \in Seq(T)
      BY <2>3
    <2>5. /\ Len(<<first>> \o middle \o <<last>>) = Len(middle) + 2
          /\ \E all : <<first>> \o middle \o <<last>> \in Seq(all)
      BY <2>4, Framed
    <2> QED BY <2>1, <2>3, <2>5
  <1> HIDE DEF n, in, call
  <1>4. n \in Nat /\ in \in Nat \ {0}
    BY DEF n, in
  <1>5. WellPlaced(call)
    <2>1. call.input \in Nat \ {0} /\ call.result \in Nat /\ call.input < call.result
      BY <1>1, <1>4
    <2>2. ASSUME NEW i \in 1..n
          PROVE  /\ call.cbIn[i] \in Nat /\ in < call.cbIn[i] /\ call.cbIn[i] < call.result
                 /\ call.cbOut[i] \in Nat /\ in < call.cbOut[i] /\ call.cbOut[i] < call.result
      <3>1. i \in Nat /\ 1 <= i /\ i <= n /\ i \in 1..n
        BY <1>4
      <3>2. /\ in + 2 * i - 1 \in Nat /\ in < in + 2 * i - 1 /\ in + 2 * i - 1 < in + 2 * n + 1
            /\ in + 2 * i \in Nat /\ in < in + 2 * i /\ in + 2 * i < in + 2 * n + 1
        BY <1>4, <3>1
      <3> QED BY <1>1, <3>1, <3>2
    <2>3. \A i, j \in 1..n : call.cbIn[i] # call.cbOut[j]
      BY <1>1, <1>4
    <2>4. \A i, j \in 1..n : call.cbOut[i] = call.cbOut[j] => i = j
      BY <1>1, <1>4
    <2> QED BY <1>1, <2>1, <2>2, <2>3, <2>4 DEF WellPlaced
  <1> QED BY <1>1, <1>2, <1>4, <1>5 DEF FitsAfter, n, in, call

\* A step that allocates nothing and makes no call.
LEMMA NothingMade ==
    ASSUME PlaceInv, CallInv', calls' = calls,
           DOMAIN shared' = Pids,
           \A p \in Pids : Len(shared'[p]) = Len(shared[p]) /\ \E S : shared'[p] \in Seq(S),
           \A p \in Pids : ptr'[p] >= ptr[p],
           \A p \in Pids : PreBegun(p)' => PreBegun(p) /\ block'[p] = block[p] /\ ptr'[p] = ptr[p]
    PROVE  PlaceInv'
  <1>1. MemoryGrows'
    BY DEF MemoryGrows
  <1>2. CallsArePlaced'
    <2>1. \A p, k : (Made(p, k)' <=> Made(p, k)) /\ CallAt(p, k)' = CallAt(p, k)
      BY DEF Made, CallAt
    <2>2. ASSUME NEW p \in Pids, NEW k, Made(p, k)
          PROVE  /\ k \in Nat /\ k <= ptr'[p]
                 /\ WellPlaced(CallAt(p, k)) /\ CallAt(p, k).result <= Len(shared'[p])
                 /\ \A l : Made(p, l) /\ l < k => CallAt(p, l).result < CallAt(p, k).input
      <3>1. ptr[p] \in Nat /\ ptr'[p] \in Nat
        BY DEF PlaceInv, CallInv, TypeOK
      <3> QED BY <2>2, <3>1 DEF PlaceInv, CallsArePlaced
    <2>3. \A p, k : WellPlaced(CallAt(p, k))' <=> WellPlaced(CallAt(p, k))
      BY <2>1 DEF WellPlaced
    <2> QED BY <2>1, <2>2, <2>3 DEF CallsArePlaced
  <1>3. CallFits'
    <2> SUFFICES ASSUME NEW p \in Pids, (~ Ended(p) /\ Current(p).typ = "QC")', PreBegun(p)'
                 PROVE  (DOMAIN CallOf(p).cbOut = 1..CallbackCount(Request(p)))'
      BY DEF CallFits
    <2>1. block'[p] = block[p] /\ ptr'[p] = ptr[p]
      OBVIOUS
    <2>2. /\ Ended(p)' <=> Ended(p)
          /\ Current(p)' = Current(p) /\ Request(p)' = Request(p) /\ CallOf(p)' = CallOf(p)
      BY <2>1 DEF Ended, Current, Request, CallOf
    <2>3. DOMAIN CallOf(p).cbOut = 1..CallbackCount(Request(p))
      BY <2>2 DEF PlaceInv, CallFits
    <2> QED BY <2>2, <2>3 DEF CallbackCount
  <1> QED BY <1>1, <1>2, <1>3 DEF PlaceInv

\* The addresses of calls are allocated; those of other calls of the program lie
\* before or after them.
Addresses(call) ==
    {call.input, call.result}
        \cup {call.cbIn[i] : i \in DOMAIN call.cbIn} \cup {call.cbOut[i] : i \in DOMAIN call.cbOut}

LEMMA AddressesOfCalls ==
    ASSUME PlaceInv, NEW p \in Pids, NEW k, Made(p, k)
    PROVE  /\ Addresses(CallAt(p, k)) \subseteq 1..Len(shared[p])
           /\ \A l : Made(p, l) /\ l # k => Addresses(CallAt(p, k)) \cap Addresses(CallAt(p, l)) = {}
  <1>1. ASSUME NEW call, WellPlaced(call)
        PROVE  \A a \in Addresses(call) : a \in Nat /\ call.input <= a /\ a <= call.result
    BY <1>1 DEF WellPlaced, Addresses
  <1>2. \A l : Made(p, l) => /\ WellPlaced(CallAt(p, l)) /\ CallAt(p, l).result <= Len(shared[p])
                             /\ l \in Nat
                             /\ \A m : Made(p, m) /\ m < l => CallAt(p, m).result < CallAt(p, l).input
    BY DEF PlaceInv, CallsArePlaced
  <1>3. Len(shared[p]) \in Nat
    BY DEF PlaceInv, MemoryGrows
  <1>4. Addresses(CallAt(p, k)) \subseteq 1..Len(shared[p])
    <2>1. CallAt(p, k).input \in Nat \ {0} /\ CallAt(p, k).result \in Nat
      BY <1>2 DEF WellPlaced
    <2> QED BY <1>1, <1>2, <1>3, <2>1
  <1>5. ASSUME NEW l, NEW m, Made(p, l), Made(p, m), l < m
        PROVE  Addresses(CallAt(p, l)) \cap Addresses(CallAt(p, m)) = {}
    <2>1. CallAt(p, l).result < CallAt(p, m).input
      BY <1>2, <1>5
    <2>2. CallAt(p, l).result \in Nat /\ CallAt(p, m).input \in Nat
      BY <1>2, <1>5 DEF WellPlaced
    <2>3. ASSUME NEW a \in Addresses(CallAt(p, l)), a \in Addresses(CallAt(p, m)) PROVE FALSE
      <3>1. a \in Nat /\ a <= CallAt(p, l).result
        BY <1>1, <1>2, <1>5
      <3>2. CallAt(p, m).input <= a
        BY <1>1, <1>2, <1>5, <2>3
      <3> QED BY <2>1, <2>2, <3>1, <3>2
    <2> QED BY <2>3
  <1>6. \A l : Made(p, l) /\ l # k => l < k \/ k < l
    BY <1>2
  <1> QED BY <1>4, <1>5, <1>6

\* A step that changes no array that there was.
LEMMA NothingChanged ==
    ASSUME PlaceInv, \A p \in Pids : \A a \in 1..Len(shared[p]) : ~ Changes(p, a)
    PROVE  StaysButForItsTask
  <1> SUFFICES ASSUME NEW p \in Pids, NEW k, Made(p, k)
               PROVE  LET call == CallAt(p, k)
                      IN  \A a \in Addresses(call) : ~ Changes(p, a)
    BY DEF StaysButForItsTask, Addresses
  <1> QED BY AddressesOfCalls

\* A step of a task that changes one array, for the results of that task.
LEMMA OwnResult ==
    ASSUME PlaceInv, NEW q \in Pids, Made(q, ptr[q]), NEW a,
           \A p \in Pids : \A b \in 1..Len(shared[p]) : p # q \/ b # a => ~ Changes(p, b),
           \/ a = CallOf(q).result /\ IsAt(q, ptr[q], {Routine, Multi})
           \/ \E i \in DOMAIN CallOf(q).cbOut :
                 a = CallOf(q).cbOut[i] /\ IsAt(q, ptr[q], {MultiCb, PairCb(i)})
    PROVE  StaysButForItsTask
  <1>1. CallAt(q, ptr[q]) = CallOf(q) /\ WellPlaced(CallOf(q)) /\ a \in Addresses(CallOf(q))
    BY DEF PlaceInv, CallsArePlaced, CallAt, CallOf, Addresses
  <1> SUFFICES ASSUME NEW p \in Pids, NEW k, Made(p, k)
               PROVE  LET call == CallAt(p, k)
                      IN  /\ ~ Changes(p, call.input)
                          /\ \A i \in DOMAIN call.cbIn : ~ Changes(p, call.cbIn[i])
                          /\ Changes(p, call.result) => IsAt(p, k, {Routine, Multi})
                          /\ \A i \in DOMAIN call.cbOut :
                                Changes(p, call.cbOut[i]) => IsAt(p, k, {MultiCb, PairCb(i)})
    BY DEF StaysButForItsTask
  <1>2. \A b \in Addresses(CallAt(p, k)) : p # q \/ b # a => ~ Changes(p, b)
    BY AddressesOfCalls
  <1>3. CASE p # q \/ k # ptr[q]
    <2>1. \A b \in Addresses(CallAt(p, k)) : p # q \/ b # a
      BY <1>1, <1>3, AddressesOfCalls
    <2>2. \A b \in Addresses(CallAt(p, k)) : ~ Changes(p, b)
      BY <1>2, <2>1
    <2> QED BY <2>2 DEF Addresses
  <1>4. CASE p = q /\ k = ptr[q]
    <2> DEFINE call == CallOf(q)
    <2>1. /\ call.input # a /\ \A i \in DOMAIN call.cbIn : call.cbIn[i] # a
          /\ call.result = a => IsAt(q, k, {Routine, Multi})
          /\ \A i \in DOMAIN call.cbOut : call.cbOut[i] = a => IsAt(q, k, {MultiCb, PairCb(i)})
      <3>1. CASE a = call.result /\ IsAt(q, ptr[q], {Routine, Multi})
        BY <1>1, <1>4, <3>1 DEF WellPlaced
      <3>2. CASE \E j \in DOMAIN call.cbOut :
                    a = call.cbOut[j] /\ IsAt(q, ptr[q], {MultiCb, PairCb(j)})
        <4>1. PICK j \in DOMAIN call.cbOut : a = call.cbOut[j] /\ IsAt(q, ptr[q], {MultiCb, PairCb(j)})
          BY <3>2
        <4>2. /\ call.input < a /\ a < call.result /\ call.input \in Nat /\ a \in Nat
              /\ call.result \in Nat
              /\ \A i \in DOMAIN call.cbIn : call.cbIn[i] # a
              /\ \A i \in DOMAIN call.cbOut : call.cbOut[i] = a => i = j
          BY <1>1, <4>1 DEF WellPlaced
        <4>3. call.input # a /\ call.result # a
          BY <4>2
        <4> QED BY <1>4, <4>1, <4>2, <4>3
      <3> QED BY <3>1, <3>2
    <2>2. /\ call.input \in Addresses(call) /\ call.result \in Addresses(call)
          /\ \A i \in DOMAIN call.cbIn : call.cbIn[i] \in Addresses(call)
          /\ \A i \in DOMAIN call.cbOut : call.cbOut[i] \in Addresses(call)
      BY DEF Addresses
    <2>3. \A b \in Addresses(call) : b # a => ~ Changes(q, b)
      BY <1>1, <1>2, <1>4
    <2> HIDE DEF call
    <2>4. CallAt(p, k) = call
      BY <1>1, <1>4 DEF call
    <2> QED BY <1>4, <2>1, <2>2, <2>3, <2>4
  <1> QED BY <1>3, <1>4

\* A call takes new arrays at the end of the memory.
LEMMA CallIsPlaced ==
    ASSUME PlaceInv, CallInv', NEW p \in Pids, NEW call, NEW arrays, PreCall(p, call, arrays),
           FitsAfter(call, arrays, Len(shared[p])),
           Current(p).typ = "QC" => DOMAIN call.cbOut = 1..CallbackCount(Request(p))
    PROVE  PlaceInv' /\ StaysButForItsTask
  <1>1. /\ shared' = [shared EXCEPT ![p] = shared[p] \o arrays]
        /\ calls' = Extended(calls, <<p, ptr[p]>>, call)
        /\ CpuMayStart(p, Pre) /\ UNCHANGED <<block, ptr, done>>
        /\ cpu'.pid = p /\ cpu'.task = Pre /\ cpu'.doing = "waiting"
    BY DEF PreCall, control, Idle
  <1>2. /\ DOMAIN shared' = Pids /\ shared'[p] = shared[p] \o arrays
        /\ \A q \in Pids \ {p} : shared'[q] = shared[q]
    BY <1>1 DEF PlaceInv, MemoryGrows
  <1>3. /\ \E S : shared[p] \o arrays \in Seq(S)
        /\ Len(shared[p] \o arrays) = Len(shared[p]) + Len(arrays)
        /\ Len(shared[p]) \in Nat /\ Len(arrays) \in Nat
        /\ \A i \in 1..Len(shared[p]) : (shared[p] \o arrays)[i] = shared[p][i]
    <2>1. PICK S : shared[p] \in Seq(S)
      BY DEF PlaceInv, MemoryGrows
    <2>2. PICK T : arrays \in Seq(T)
      BY DEF FitsAfter
    <2>3. /\ shared[p] \o arrays \in Seq(S \cup T)
          /\ Len(shared[p] \o arrays) = Len(shared[p]) + Len(arrays)
          /\ Len(shared[p]) \in Nat /\ Len(arrays) \in Nat
          /\ \A i \in 1..Len(shared[p]) : (shared[p] \o arrays)[i] = shared[p][i]
      BY <2>1, <2>2, Concatenated
    <2> QED BY <2>3
  <1>4. MemoryGrows'
    BY <1>2, <1>3 DEF PlaceInv, MemoryGrows
  <1>5. \A q \in Pids : Len(shared[q]) \in Nat /\ Len(shared'[q]) \in Nat /\ Len(shared[q]) <= Len(shared'[q])
    <2>1. \A q \in Pids : Len(shared[q]) \in Nat
      BY DEF PlaceInv, MemoryGrows
    <2> QED BY <1>2, <1>3, <2>1
  <1>6. ASSUME NEW q \in Pids, NEW k
        PROVE  IF q = p /\ k = ptr[p]
               THEN Made(q, k)' /\ CallAt(q, k)' = call
               ELSE (Made(q, k)' <=> Made(q, k)) /\ (Made(q, k) => CallAt(q, k)' = CallAt(q, k))
    <2>1. <<q, k>> = <<p, ptr[p]>> <=> q = p /\ k = ptr[p]
      OBVIOUS
    <2>2. PICK key, own : key = <<q, k>> /\ own = <<p, ptr[p]>>
      OBVIOUS
    <2>3. calls' = Extended(calls, own, call) /\ (Made(q, k) <=> key \in DOMAIN calls)
          /\ (Made(q, k)' <=> key \in DOMAIN calls')
          /\ CallAt(q, k) = calls[key] /\ CallAt(q, k)' = calls'[key]
      BY <1>1, <2>2 DEF Made, CallAt
    <2> QED BY <2>1, <2>2, <2>3 DEF Extended
  <1>7. CallsArePlaced'
    <2> SUFFICES ASSUME NEW q \in Pids, NEW k, Made(q, k)'
                 PROVE  /\ k \in Nat /\ k <= ptr[q]
                        /\ WellPlaced(CallAt(q, k)') /\ (CallAt(q, k)').result <= Len(shared'[q])
                        /\ \A l : Made(q, l)' /\ l < k => (CallAt(q, l)').result < (CallAt(q, k)').input
      BY <1>1 DEF CallsArePlaced, WellPlaced
    <2>1. ptr[q] \in Nat
      BY DEF PlaceInv, CallInv, TypeOK
    <2>2. \A l : Made(q, l) => /\ l \in Nat /\ l <= ptr[q]
                               /\ WellPlaced(CallAt(q, l)) /\ CallAt(q, l).result <= Len(shared[q])
      BY DEF PlaceInv, CallsArePlaced
    <2>3. CASE q = p /\ k = ptr[p]
      <3>1. CallAt(q, k)' = call
        BY <1>6, <2>3
      <3>2. /\ WellPlaced(call) /\ call.input = Len(shared[p]) + 1
            /\ call.result = Len(shared[p]) + Len(arrays)
        BY DEF FitsAfter
      <3>3. call.result <= Len(shared'[p])
        BY <1>2, <1>3, <3>2
      <3>4. ASSUME NEW l, Made(p, l)', l < k PROVE (CallAt(p, l)').result < call.input
        <4>1. l # k
          BY <2>1, <2>3, <3>4
        <4>2. Made(p, l) /\ CallAt(p, l)' = CallAt(p, l)
          BY <1>6, <2>3, <3>4, <4>1
        <4>3. CallAt(p, l).result \in Nat /\ CallAt(p, l).result <= Len(shared[p])
          BY <2>2, <2>3, <4>2 DEF WellPlaced
        <4> QED BY <1>3, <3>2, <4>2, <4>3
      <3> QED BY <2>1, <2>3, <3>1, <3>2, <3>3, <3>4
    <2>4. CASE ~ (q = p /\ k = ptr[p])
      <3>1. Made(q, k) /\ CallAt(q, k)' = CallAt(q, k)
        BY <1>6, <2>4
      <3>2. CallAt(q, k).result <= Len(shared'[q])
        <4>1. CallAt(q, k).result \in Nat /\ CallAt(q, k).result <= Len(shared[q])
          BY <2>2, <3>1 DEF WellPlaced
        <4> QED BY <1>5, <4>1
      <3>3. ASSUME NEW l, Made(q, l)', l < k PROVE (CallAt(q, l)').result < CallAt(q, k).input
        <4>1. ~ (q = p /\ l = ptr[p])
          BY <2>1, <2>2, <3>1, <3>3
        <4>2. Made(q, l) /\ CallAt(q, l)' = CallAt(q, l)
          BY <1>6, <3>3, <4>1
        <4> QED BY <3>1, <3>3, <4>2 DEF PlaceInv, CallsArePlaced
      <3> QED BY <2>2, <3>1, <3>2, <3>3
    <2> QED BY <2>3, <2>4
  <1>8. CallFits'
    <2> SUFFICES ASSUME NEW q \in Pids, ~ Ended(q), Current(q).typ = "QC", PreBegun(q)'
                 PROVE  DOMAIN (CallOf(q)').cbOut = 1..CallbackCount(Request(q))
      BY <1>1, SameBlock DEF CallFits, CallbackCount
    <2>1. CASE q = p
      <3>1. CallOf(p)' = call
        BY <1>1, <1>6 DEF CallOf, CallAt
      <3> QED BY <2>1, <3>1
    <2>2. CASE q # p
      <3>1. PreBegun(q)
        BY <1>1, <2>2 DEF PreBegun
      <3>2. Made(q, ptr[q])
        BY <3>1 DEF PlaceInv, CallInv, CallIsLeft, Made
      <3>3. CallOf(q)' = CallOf(q)
        BY <1>1, <1>6, <2>2, <3>2 DEF CallOf, CallAt
      <3> QED BY <3>1, <3>3 DEF PlaceInv, CallFits
    <2> QED BY <2>1, <2>2
  <1>9. StaysButForItsTask
    <2>1. \A q \in Pids : \A a \in 1..Len(shared[q]) : ~ Changes(q, a)
      BY <1>2, <1>3 DEF Changes
    <2> QED BY <2>1, NothingChanged
  <1> QED BY <1>4, <1>7, <1>8, <1>9 DEF PlaceInv

LEMMA PreCallPlaced ==
    ASSUME PlaceInv, CallInv', NEW p \in Pids, PrepareLrCall(p) \/ PrepareRrCall(p)
    PROVE  PlaceInv' /\ StaysButForItsTask
  <1>1. Len(shared[p]) \in Nat
    BY DEF PlaceInv, MemoryGrows
  <1>2. CASE PrepareLrCall(p)
    <2>1. PreCall(p, LrCall(p), LrArrays(p)) /\ Current(p).typ = "QL"
      BY <1>2 DEF PrepareLrCall
    <2> QED BY <1>1, <2>1, LrCallPlaced, CallIsPlaced
  <1>3. CASE PrepareRrCall(p)
    <2>1. PreCall(p, RrCall(p), RrArrays(p)) /\ Current(p).typ = "QC" /\ ~ Ended(p)
      BY <1>3 DEF PrepareRrCall
    <2>2. CallbackCount(Request(p)) \in Nat
      BY <2>1, CallbackHasSlot DEF PlaceInv
    <2> QED BY <1>1, <2>1, <2>2, RrCallPlaced, CallIsPlaced
  <1> QED BY <1>2, <1>3

\* A task writes to one array, for the results of its call.
LEMMA TaskWrites ==
    ASSUME PlaceInv, NEW q \in Pids, Made(q, ptr[q]), NEW a, NEW offset, NEW values,
           \/ shared' = shared
           \/ shared' = [shared EXCEPT ![q] = Write(shared[q], a, offset, values)],
           \/ a = CallOf(q).result /\ IsAt(q, ptr[q], {Routine, Multi})
           \/ \E i \in DOMAIN CallOf(q).cbOut :
                 a = CallOf(q).cbOut[i] /\ IsAt(q, ptr[q], {MultiCb, PairCb(i)})
    PROVE  /\ StaysButForItsTask /\ DOMAIN shared' = Pids
           /\ \A p \in Pids : Len(shared'[p]) = Len(shared[p]) /\ \E S : shared'[p] \in Seq(S)
  <1>1. CASE shared' = shared
    BY <1>1, NothingChanged DEF PlaceInv, MemoryGrows, Changes
  <1>2. CASE shared' = [shared EXCEPT ![q] = Write(shared[q], a, offset, values)]
    <2> DEFINE w == Write(shared[q], a, offset, values)
    <2>1. PICK S : shared[q] \in Seq(S)
      BY DEF PlaceInv, MemoryGrows
    <2>2. /\ Len(w) = Len(shared[q]) /\ \E T : w \in Seq(T)
          /\ \A b \in 1..Len(shared[q]) : b # a => w[b] = shared[q][b]
      BY <2>1, WriteIsLocal
    <2> HIDE DEF w
    <2>3. DOMAIN shared' = Pids /\ shared'[q] = w /\ \A p \in Pids \ {q} : shared'[p] = shared[p]
      BY <1>2 DEF PlaceInv, MemoryGrows, w
    <2>4. \A p \in Pids : \A b \in 1..Len(shared[p]) : p # q \/ b # a => ~ Changes(p, b)
      BY <2>2, <2>3 DEF Changes
    <2>5. StaysButForItsTask
      BY <2>4, OwnResult
    <2>6. \A p \in Pids : Len(shared'[p]) = Len(shared[p]) /\ \E T : shared'[p] \in Seq(T)
      BY <2>2, <2>3 DEF PlaceInv, MemoryGrows
    <2> QED BY <2>3, <2>5, <2>6
  <1> QED BY <1>1, <1>2

\* A step that allocates nothing, makes no call, begins no PreCall and writes at
\* most to the results of the task that is executed.
Quiet ==
    /\ calls' = calls /\ \A p \in Pids : ptr'[p] >= ptr[p]
    /\ \A p \in Pids : PreBegun(p)' => PreBegun(p) /\ block'[p] = block[p] /\ ptr'[p] = ptr[p]

LEMMA QuietStep ==
    ASSUME PlaceInv, CallInv', Quiet, shared' = shared
    PROVE  PlaceInv' /\ StaysButForItsTask
  <1>1. /\ DOMAIN shared' = Pids
        /\ \A p \in Pids : Len(shared'[p]) = Len(shared[p]) /\ \E S : shared'[p] \in Seq(S)
    BY DEF PlaceInv, MemoryGrows
  <1>2. PlaceInv'
    BY <1>1, NothingMade DEF Quiet
  <1>3. StaysButForItsTask
    BY NothingChanged DEF Changes
  <1> QED BY <1>2, <1>3

\* Steps of the QPU that begin or end no PreCall.
LEMMA QpuIsQuiet ==
    ASSUME PlaceInv, UNCHANGED <<block, ptr, calls, cpu>>,
           done' = done \/ (qpu.doing # "nothing" /\ Finish(qpu.pid, qpu.task))
    PROVE  Quiet
  <1>1. \A p \in Pids : ptr'[p] >= ptr[p]
    BY DEF PlaceInv, CallInv, TypeOK
  <1>2. \A p \in Pids : Pre \in done'[p] => Pre \in done[p]
    <2>1. CASE done' = done
      BY <2>1
    <2>2. CASE qpu.doing # "nothing" /\ Finish(qpu.pid, qpu.task)
      <3>1. qpu.task # Pre
        BY <2>2, ExecutedFacts, TaskNames DEF PlaceInv
      <3> QED BY <2>2, <3>1 DEF Finish, PlaceInv, CallInv, TypeOK
    <2> QED BY <2>1, <2>2
  <1> QED BY <1>1, <1>2 DEF Quiet, PreBegun

\* An instruction that stores writes to the results of the routine that runs.
LEMMA StorePlaced ==
    ASSUME PlaceInv, CallInv', Store
    PROVE  PlaceInv' /\ StaysButForItsTask
  <1> DEFINE q == qpu.pid
  <1>1. /\ qpu.doing = "code" /\ UNCHANGED <<block, ptr, calls, cpu, done>>
        /\ \/ shared' = shared
           \/ \E offset, values :
                 shared' = [shared EXCEPT ![q] = Write(shared[q], Running.result, offset, values)]
    BY DEF Store, Executes, control
  <1>2. /\ q \in Pids /\ ~ Ended(q) /\ qpu.task \in TasksOf(Graph(q)) /\ Pre \in done[q]
        /\ qpu.task = Routine \/ IsCallback(qpu.task)
    BY <1>1, ExecutedFacts DEF PlaceInv, CallInv, QpuOK, IsExecuted
  <1>3. Made(q, ptr[q])
    BY <1>2 DEF PlaceInv, CallInv, CallIsLeft, PreBegun, Made
  <1>4. \/ Running.result = CallOf(q).result /\ IsAt(q, ptr[q], {Routine, Multi})
        \/ \E i \in DOMAIN CallOf(q).cbOut :
              Running.result = CallOf(q).cbOut[i] /\ IsAt(q, ptr[q], {MultiCb, PairCb(i)})
    <2>1. CASE qpu.task = Routine /\ ~ IsCallback(qpu.task)
      <3>1. Running.result = CallOf(q).result
        BY <1>1, <2>1 DEF PlaceInv, CallInv, CodeIsCurrent, RunOf, NotRunning
      <3> QED BY <1>1, <2>1, <3>1 DEF IsAt
    <2>2. CASE IsCallback(qpu.task)
      <3> DEFINE i == CallbackIndex(qpu.task)
      <3>1. Current(q).typ = "QC"
        BY <1>2, <2>2, BlockFacts, TasksByType DEF PlaceInv, CallInv
      <3>2. i \in 1..CallbackCount(Request(q)) /\ qpu.task \in {MultiCb, PairCb(i)}
        BY <1>2, <2>2, <3>1, CallbackHasSlot DEF PlaceInv
      <3>3. DOMAIN CallOf(q).cbOut = 1..CallbackCount(Request(q))
        BY <1>2, <3>1 DEF PlaceInv, CallFits, PreBegun
      <3>4. Running.result = CallOf(q).cbOut[i]
        BY <1>1, <2>2 DEF PlaceInv, CallInv, CodeIsCurrent, RunOf, NotRunning
      <3>5. IsAt(q, ptr[q], {MultiCb, PairCb(i)})
        BY <1>1, <3>2 DEF IsAt
      <3> QED BY <3>2, <3>3, <3>4, <3>5
    <2> QED BY <1>2, <2>1, <2>2
  <1>5. PICK offset, values :
          \/ shared' = shared
          \/ shared' = [shared EXCEPT ![q] = Write(shared[q], Running.result, offset, values)]
    BY <1>1
  <1>6. Quiet
    BY <1>1, QpuIsQuiet
  <1>7. PICK a : a = Running.result
    OBVIOUS
  <1> HIDE DEF q
  <1>8. /\ StaysButForItsTask /\ DOMAIN shared' = Pids
        /\ \A p \in Pids : Len(shared'[p]) = Len(shared[p]) /\ \E S : shared'[p] \in Seq(S)
    BY <1>2, <1>3, <1>4, <1>5, <1>7, TaskWrites
  <1> QED BY <1>6, <1>8, NothingMade DEF Quiet

\* The outcomes of a request are written to the results of its call.
LEMMA MeasurePairPlaced ==
    ASSUME PlaceInv, CallInv', MeasurePair
    PROVE  PlaceInv' /\ StaysButForItsTask
  <1> DEFINE q == qpu.pid
             result == requestRun[q][Current(q).routine].result
  <1>1. /\ qpu.doing = "pair" /\ qpu.task = Multi /\ UNCHANGED <<block, ptr, calls, cpu>>
        /\ \/ shared' = shared
           \/ \E offset, values :
                 shared' = [shared EXCEPT ![q] = Write(shared[q], result, offset, values)]
    BY DEF MeasurePair, WaitsForPair, MeasuredDirectly, control
  <1>2. done' = done \/ Finish(qpu.pid, qpu.task)
    BY DEF MeasurePair
  <1>3. q \in Pids /\ Pre \in done[q] /\ Multi[1] \in EprKinds
    BY <1>1, ExecutedFacts DEF PlaceInv, CallInv, QpuOK, IsExecuted
  <1>4. Made(q, ptr[q])
    BY <1>3 DEF PlaceInv, CallInv, CallIsLeft, PreBegun, Made
  <1>5. result = CallOf(q).result
    BY <1>1, <1>3 DEF PlaceInv, CallInv, RequestIsCurrent
  <1>6. IsAt(q, ptr[q], {Routine, Multi})
    BY <1>1 DEF IsAt
  <1> HIDE DEF q, result
  <1>7. PICK offset, values :
          \/ shared' = shared
          \/ shared' = [shared EXCEPT ![q] = Write(shared[q], result, offset, values)]
    BY <1>1
  <1>8. Quiet
    BY <1>1, <1>2, QpuIsQuiet
  <1>9. /\ StaysButForItsTask /\ DOMAIN shared' = Pids
        /\ \A p \in Pids : Len(shared'[p]) = Len(shared[p]) /\ \E S : shared'[p] \in Seq(S)
    BY <1>3, <1>4, <1>5, <1>6, <1>7, TaskWrites
  <1> QED BY <1>8, <1>9, NothingMade DEF Quiet

\* Steps of the CPU, and of the node scheduler, that write nothing.
LEMMA CpuIsQuiet ==
    ASSUME PlaceInv,
           \/ HostStep \/ EndHostLocal \/ EndCall
           \/ \E p \in Pids : StartHostLocal(p) \/ PostCall(p) \/ NextBlock(p)
    PROVE  Quiet /\ shared' = shared
  <1>1. \A p \in Pids : ptr[p] \in Nat
    BY DEF PlaceInv, CallInv, TypeOK
  <1>2. CASE HostStep
    <2>1. /\ UNCHANGED <<block, ptr, done, calls, shared>> /\ cpu' = [cpu EXCEPT !.pc = @ + 1]
      BY <1>2 DEF HostStep, AssignCValue, AddCValue, MultiplyConstantCValue, ReturnResult,
             BitConditionalMultiplyConstantCValue, BranchIf, Jump, HostExecutes
    <2>2. cpu'.doing = cpu.doing /\ cpu'.pid = cpu.pid /\ cpu'.task = cpu.task
      BY <2>1
    <2> QED BY <1>1, <2>1, <2>2 DEF Quiet, PreBegun
  <1>3. CASE EndHostLocal \/ EndCall
    <2>1. /\ UNCHANGED <<block, ptr, calls, shared>> /\ cpu'.doing = "nothing"
          /\ Finish(cpu.pid, cpu.task)
          /\ cpu.doing = "waiting" \/ cpu.task # Pre
      BY <1>3, TaskNames DEF EndHostLocal, EndCall, control, Idle, PlaceInv, CallInv, CpuOK
    <2>2. \A p \in Pids : Pre \in done'[p] =>
              Pre \in done[p] \/ (cpu.doing = "waiting" /\ cpu.pid = p /\ cpu.task = Pre)
      BY <2>1 DEF Finish, PlaceInv, CallInv, TypeOK
    <2> QED BY <1>1, <2>1, <2>2 DEF Quiet, PreBegun
  <1>4. ASSUME NEW p \in Pids, StartHostLocal(p) \/ PostCall(p)
        PROVE  Quiet /\ shared' = shared
    <2>1. /\ UNCHANGED <<block, ptr, done, calls, shared>>
          /\ cpu'.doing = "code" \/ cpu'.task # Pre
      BY <1>4, TaskNames DEF StartHostLocal, PostCall, control, Idle
    <2> QED BY <1>1, <2>1 DEF Quiet, PreBegun
  <1>5. ASSUME NEW p \in Pids, NextBlock(p)
        PROVE  Quiet /\ shared' = shared
    <2>1. /\ block' = [block EXCEPT ![p] = IF jumps[p] # NoJump THEN jumps[p] ELSE @ + 1]
          /\ ptr' = [ptr EXCEPT ![p] = @ + 1] /\ done' = [done EXCEPT ![p] = {}]
          /\ calls' = calls /\ cpu' = cpu /\ shared' = shared
          /\ TasksOf(Graph(p)) = done[p]
      BY <1>5 DEF NextBlock, Graph
    <2>2. /\ \A q \in Pids \ {p} : block'[q] = block[q] /\ done'[q] = done[q] /\ ptr'[q] = ptr[q]
          /\ done'[p] = {} /\ ptr'[p] = ptr[p] + 1
      BY <2>1 DEF PlaceInv, CallInv, TypeOK
    <2>3. ~ (cpu.doing = "waiting" /\ cpu.pid = p)
      BY <2>1 DEF PlaceInv, CallInv, CpuOK, IsExecuted
    <2>4. \A q \in Pids : ptr'[q] >= ptr[q]
      BY <1>1, <2>2
    <2>5. \A q \in Pids : PreBegun(q)' => q # p
      BY <2>1, <2>2, <2>3 DEF PreBegun
    <2> QED BY <2>1, <2>2, <2>4, <2>5 DEF Quiet, PreBegun
  <1> QED BY <1>2, <1>3, <1>4, <1>5

LEMMA PlaceInvInductive ==
    /\ Init => PlaceInv
    /\ PlaceInv /\ [Next]_vars => PlaceInv' /\ StaysButForItsTask
  <1>1. ASSUME Init PROVE PlaceInv
    <2>1. CallInv
      BY <1>1, CallInvInductive
    <2>2. MemoryGrows
      <3>1. << >> \in Seq({})
        OBVIOUS
      <3> QED BY <1>1, <3>1 DEF Init, MemoryGrows, NoArrays
    <2>3. CallsArePlaced
      BY <1>1 DEF Init, CallsArePlaced, Made
    <2>4. CallFits
      <3>1. \A p \in Pids : ~ PreBegun(p)
        BY <1>1 DEF Init, PreBegun, Idle
      <3> QED BY <3>1 DEF CallFits
    <2> QED BY <2>1, <2>2, <2>3, <2>4 DEF PlaceInv
  <1>2. ASSUME PlaceInv, [Next]_vars PROVE PlaceInv' /\ StaysButForItsTask
    <2>1. CallInv'
      BY <1>2, CallInvInductive DEF PlaceInv
    <2>2. CASE \/ HostStep \/ EndHostLocal \/ EndCall
               \/ \E p \in Pids : StartHostLocal(p) \/ PostCall(p) \/ NextBlock(p)
      BY <1>2, <2>1, <2>2, CpuIsQuiet, QuietStep
    <2>3. ASSUME NEW p \in Pids, PrepareLrCall(p) \/ PrepareRrCall(p)
          PROVE  PlaceInv' /\ StaysButForItsTask
      BY <1>2, <2>1, <2>3, PreCallPlaced
    <2>4. CASE Store
      BY <1>2, <2>1, <2>4, StorePlaced
    <2>5. CASE MeasurePair
      BY <1>2, <2>1, <2>5, MeasurePairPlaced
    <2>6. CASE Set \/ Load \/ Compute \/ Branch \/ InitQubit \/ Gate \/ Measure
      <3>1. UNCHANGED <<block, ptr, calls, cpu, done, shared>>
        BY <2>6 DEF Set, Load, Compute, Branch, InitQubit, Gate, Measure, Executes, control
      <3> QED BY <1>2, <2>1, <3>1, QpuIsQuiet, QuietStep
    <2>7. CASE EndRoutine \/ KeepPair \/ PairFails
      <3>1. UNCHANGED <<block, ptr, calls, cpu, shared>>
        BY <2>7 DEF EndRoutine, KeepPair, PairFails, control
      <3>2. done' = done \/ (qpu.doing # "nothing" /\ Finish(qpu.pid, qpu.task))
        BY <2>7 DEF EndRoutine, KeepPair, PairFails, WaitsForPair
      <3> QED BY <1>2, <2>1, <3>1, <3>2, QpuIsQuiet, QuietStep
    <2>8. ASSUME NEW p \in Pids, NEW t, NEW index, NEW indices,
                 StartLocalRoutine(p) \/ StartCallback(p, t, index) \/ StartPairs(p, t, indices)
          PROVE  PlaceInv' /\ StaysButForItsTask
      <3>1. UNCHANGED <<block, ptr, calls, cpu, done, shared>>
        BY <2>8 DEF StartLocalRoutine, StartCallback, StartPairs, RunCode, control
      <3> QED BY <1>2, <2>1, <3>1, QpuIsQuiet, QuietStep
    <2>9. CASE UNCHANGED vars
      <3>1. UNCHANGED <<block, ptr, calls, cpu, done, shared>>
        BY <2>9 DEF vars
      <3> QED BY <1>2, <2>1, <3>1, QpuIsQuiet, QuietStep
    <2> QED BY <1>2, <2>2, <2>3, <2>4, <2>5, <2>6, <2>7, <2>8, <2>9
            DEF Next, QnosStep, StartMultiPair, StartSinglePair
  <1> QED BY <1>1, <1>2

THEOREM PlaceInvInvariant == Spec => []PlaceInv
  BY PlaceInvInductive, PTL DEF Spec

\* What the host writes for a task, and what the task leaves for the host, is out
\* of reach of every other task, call and program, though addresses are handed
\* around in tables keyed by name (allocate, instantiate_routine, prepare_rr_call).
THEOREM TaskResultsStay == Spec => ResultsStay
  <1>1. PlaceInv /\ [Next]_vars => [StaysButForItsTask]_vars
    BY PlaceInvInductive
  <1> QED BY <1>1, PlaceInvInvariant, PTL DEF Spec, ResultsStay
------------------------------------------------------------------------------
(* Exceptions, and who is to blame.                                           *)

\* How many arguments a routine gets: a name that occurs twice counts once.
Firsts(args) == {i \in DOMAIN args : \A j \in 1..(i - 1) : args[j] # args[i]}
ArgCount(args) == Cardinality(Firsts(args))

\* The mistakes that a program can make, each by an instruction or a declaration of
\* its own: an operand that was never written ...
ReadsMissing ==
    /\ HostStep
    /\ \/ HostInstr.op \in {"add", "mulc", "bcondmulc", "branch"} /\ ~ Exists(HostInstr.a)
       \/ HostInstr.op \in {"add", "bcondmulc", "branch"} /\ ~ Exists(HostInstr.b)
       \/ HostInstr.op = "return" /\ host[cpu.pid][HostInstr.from] = NoVar

\* ... a call with an argument that was never written, or that expects another
\* number of results than the routine returns ...
Miscalls(p) ==
    /\ PrepareLrCall(p) \/ PrepareRrCall(p)
    /\ \/ ResultSize(Current(p)) # ReturnSize(p)
       \/ \E i \in DOMAIN Current(p).args : host[p][Current(p).args[i]] = NoVar

\* ... a request that declares a result per pair but does not measure them at once,
\* or measures without declaring them, or keeps two pairs at one qubit ...
WellDeclared(r) ==
    /\ r.returns = IF r.measure /\ ~ r.sequential THEN r.pairs ELSE 0
    /\ r.measure \/ r.sequential \/ \A i, j \in 1..r.pairs : r.virts[i] = r.virts[j] => i = j

\* ... a routine that ended before it had stored all its results ...
Written(x) == \A i \in DOMAIN x.data : x.data[i] # Unset
LeavesOut(p) ==
    \/ Current(p).typ = "QL" /\ ~ Written(shared[p][CallOf(p).result])
    \/ Current(p).typ = "QC" /\ \E i \in DOMAIN CallOf(p).cbOut :
                                    ~ Written(shared[p][CallOf(p).cbOut[i]])

\* ... or an instruction of Qnos for a result or an argument that the routine does
\* not have (a callback has none that it can load: the code gives it an array of
\* region CR_in, which nobody fills), for a qubit that it does not use, or that
\* divides by zero.
QnosErrs ==
    /\ QnosStep
    /\ LET routine == LocalRoutine[qpu.routine]
           has(q) == Reg(q) \in routine.uses \cap VirtIds
       IN  \/ Instr.op = "store" /\ Reg(Instr.index) \notin 0..(routine.returns - 1)
           \/ Instr.op = "load" /\ IsCallback(qpu.task)
           \/ Instr.op = "load" /\ Reg(Instr.index) \notin 0..(ArgCount(Current(qpu.pid).args) - 1)
           \/ Instr.op = "compute" /\ Instr.f \in {"div", "rem"} /\ Reg(Instr.b) = 0
           \/ Instr.op = "compute" /\ Instr.f \in {"addm", "subm"} /\ Reg(Instr.mod) < 1
           \/ Instr.op \in {"init", "meas"} /\ ~ has(Instr.q)
           \/ Instr.op = "gate" /\ \E q \in Instr.qs : ~ has(q)

OwnMistake ==
    \/ ReadsMissing \/ QnosErrs
    \/ \E p \in Pids : Miscalls(p) \/ (PostCall(p) /\ LeavesOut(p))
    \/ \E p \in Pids : PostCall(p) /\ Current(p).typ = "QC" /\ ~ WellDeclared(Request(p))
    \/ (KeepPair \/ MeasurePair) /\ ~ WellDeclared(Request(qpu.pid))

\* A routine that stores to a result that it has stored.
StoresAgain == Store /\ shared[qpu.pid][Running.result].data[Reg(Instr.index) + 1] # Unset

\* Values are integers, and an array has a slot for each of its own.
IsArray(x) ==
    x = [region |-> x.region, data |-> x.data] /\ x.data \in [DOMAIN x.data -> Int \cup {Unset}]
ValuesOK ==
    /\ host \in [Pids -> [Vars -> Seq(Int)]]
    /\ regs \in [Pids -> [Regs -> Int]]
    /\ qubits \in [Pids -> [VirtIds -> Int]]
    /\ \A p \in Pids : \A a \in 1..Len(shared[p]) : IsArray(shared[p][a])

\* The arrays of the call of a block are of the region and size that those expect
\* who are handed their addresses.
IsOf(x, region, size) == x.region = region /\ DOMAIN x.data = 1..size
ArraysFit ==
    \A p \in Pids : ~ Ended(p) /\ PreBegun(p) =>
        LET b == Current(p)
            call == CallOf(p)
        IN  /\ b.typ # "CL" /\ ResultSize(b) = ReturnSize(p)
            /\ b.typ = "QL" =>
                  /\ IsOf(shared[p][call.input], "LR_in", ArgCount(b.args))
                  /\ Written(shared[p][call.input])
                  /\ IsOf(shared[p][call.result], "LR_out", ReturnSize(p))
            /\ b.typ = "QC" =>
                  /\ IsOf(shared[p][call.result], "RR_out", Request(p).returns)
                  /\ \A i \in 1..CallbackCount(Request(p)) :
                        IsOf(shared[p][call.cbOut[i]], "LR_out", CallbackReturns(Request(p)))

\* The routine that runs is the one of its task, and has the qubits that it uses.
RoutineOf(p, t) == IF IsCallback(t) THEN Request(p).callback ELSE Current(p).routine
RoutineHasQubits ==
    qpu.doing = "code" =>
        /\ qpu.routine = RoutineOf(qpu.pid, qpu.task)
        /\ \A v \in LocalRoutine[qpu.routine].uses \cap VirtIds : qubits[qpu.pid][v] # Free

\* While a request's pairs are generated one after the other, the qubits of those to
\* come are free, and there is an outcome of each that was measured.
PairsInTurn ==
    qpu.doing = "pair" =>
        LET r == Request(qpu.pid)
            free(j) == qubits[qpu.pid][r.virts[j]] = Free
        IN  /\ DOMAIN qpu = DOMAIN Idle /\ qpu.pc \in 1..r.pairs
            /\ qpu.task = Multi =>
                  IF r.measure
                  THEN /\ qpu.outcomes \in Seq({0, 1}) /\ Len(qpu.outcomes) = qpu.pc - 1
                       /\ \A j \in 1..r.pairs : r.virts[j] = r.virts[qpu.pc] \/ free(j)
                  ELSE WellDeclared(r) => \A j \in (qpu.pc + 1)..r.pairs : free(j)

\* The outcomes of pairs that are measured are there when the task is done.
OutcomesWritten ==
    \A p \in Pids :
        ~ Ended(p) /\ Current(p).typ = "QC" /\ Multi \in done[p]
            /\ Request(p).measure /\ WellDeclared(Request(p))
        => Written(shared[p][CallOf(p).result])

\* Nothing is written for a task before it begins, nor for measured pairs until all
\* of them are.
Blank(x) == \A i \in DOMAIN x.data : x.data[i] = Unset
Begun(p, t) == t \in done[p] \/ (qpu.doing # "nothing" /\ qpu.pid = p /\ qpu.task = t)
UnbegunIsBlank ==
    \A p \in Pids : ~ Ended(p) /\ PreBegun(p) =>
        LET call == CallOf(p)
        IN  /\ Current(p).typ = "QL" /\ ~ Begun(p, Routine) => Blank(shared[p][call.result])
            /\ Current(p).typ = "QC" =>
                  /\ Multi \notin done[p] => Blank(shared[p][call.result])
                  /\ \A i \in DOMAIN call.cbOut :
                        ~ Begun(p, MultiCb) /\ ~ Begun(p, PairCb(i)) => Blank(shared[p][call.cbOut[i]])

\* The inductive invariant about accesses.
NoFault == ~ fault
AccessInv ==
    /\ NoFault /\ ValuesOK /\ ArraysFit /\ RoutineHasQubits /\ PairsInTurn
    /\ OutcomesWritten /\ UnbegunIsBlank

------------------------------------------------------------------------------
(* What instructions and calls name.                                          *)

\* The host's instruction, and that of Qnos.
LEMMA HostNames ==
    ASSUME CallInv, cpu.doing = "code", ~ HostCodeDone
    PROVE  cpu.pid \in Pids /\ NamesVars(HostInstr)
  <1> DEFINE p == cpu.pid
  <1>1. /\ p \in Pids /\ ~ Ended(p) /\ cpu.task = Local /\ Local \in TasksOf(Graph(p))
        /\ cpu.pc \in Nat \ {0}
    BY DEF CallInv, CpuOK, IsExecuted
  <1>2. /\ Current(p).typ = "CL" /\ block[p] \in DOMAIN Program[p]
        /\ Current(p) = Program[p][block[p]]
    BY <1>1, BlockFacts, TasksByType DEF CallInv
  <1>3. IsSequence(Current(p).code)
    BY <1>1, <1>2, HostAssumption, NamesAssumption
  <1>4. cpu.pc \in DOMAIN Current(p).code /\ HostInstr = Current(p).code[cpu.pc]
    BY <1>1, <1>2, <1>3 DEF HostCodeDone, HostInstr, IsSequence
  <1> QED BY <1>1, <1>2, <1>4, NamesAssumption

\* The instruction of the routine that runs.
LEMMA QnosNames ==
    ASSUME CallInv, qpu.doing = "code", qpu.pc \in DOMAIN Code
    PROVE  qpu.pid \in Pids /\ qpu.routine \in RoutineNames /\ NamesRegs(Instr)
  <1>1. qpu.pid \in Pids /\ qpu.routine \in RoutineNames
    BY DEF CallInv, QpuOK, IsExecuted, CodeIsCurrent
  <1> QED BY <1>1, NamesAssumption DEF Code, Instr

\* A block that calls, and what it calls.
LEMMA CallNames ==
    ASSUME CallInv, NEW p \in Pids, ~ Ended(p), Current(p).typ # "CL"
    PROVE  /\ IsSequence(Current(p).args) /\ IsSequence(Current(p).results)
           /\ \A j \in DOMAIN Current(p).args : Current(p).args[j] \in Vars
           /\ Current(p).typ = "QL" => LocalRoutine[Current(p).routine].returns \in Nat
           /\ Current(p).typ = "QC" =>
                 /\ Request(p).pairs \in Nat \ {0} /\ Request(p).returns \in Nat
                 /\ \A i \in 1..Request(p).pairs : Request(p).virts[i] \in VirtIds
                 /\ CallbackReturns(Request(p)) \in Nat /\ CallbackCount(Request(p)) \in Nat
           /\ ReturnSize(p) \in Nat
  <1>1. /\ block[p] \in DOMAIN Program[p] /\ Current(p) = Program[p][block[p]]
        /\ Current(p).typ \in {"CL", "QL", "QC"}
        /\ Current(p).typ = "QL" => Current(p).routine \in RoutineNames
        /\ Current(p).typ = "QC" => Current(p).routine \in RequestNames
    BY BlockFacts DEF CallInv
  <1>2. /\ IsSequence(Current(p).args) /\ IsSequence(Current(p).results)
        /\ \A j \in DOMAIN Current(p).args : Current(p).args[j] \in Vars
    BY <1>1, HostAssumption, NamesAssumption
  <1>3. Current(p).typ = "QL" => LocalRoutine[Current(p).routine].returns \in Nat
    BY <1>1, HostAssumption, NamesAssumption
  <1>4. ASSUME Current(p).typ = "QC"
        PROVE  /\ Request(p).pairs \in Nat \ {0} /\ Request(p).returns \in Nat
               /\ \A i \in 1..Request(p).pairs : Request(p).virts[i] \in VirtIds
               /\ Request(p).callback \in RoutineNames \cup {NoRoutine}
    BY <1>1, <1>4, HostAssumption, NamesAssumption DEF Request
  <1>5. ASSUME Current(p).typ = "QC"
        PROVE  CallbackReturns(Request(p)) \in Nat /\ CallbackCount(Request(p)) \in Nat
    BY <1>4, <1>5, HostAssumption, NamesAssumption DEF CallbackReturns, CallbackCount
  <1>6. ReturnSize(p) \in Nat
    <2>1. CASE Current(p).typ = "QL"
      BY <1>3, <2>1 DEF ReturnSize
    <2>2. CASE Current(p).typ = "QC"
      <3>1. /\ Request(p).returns \in Nat /\ CallbackReturns(Request(p)) \in Nat
            /\ CallbackCount(Request(p)) \in Nat
        BY <1>4, <1>5, <2>2
      <3>2. CallbackCount(Request(p)) * CallbackReturns(Request(p)) \in Nat
        BY <3>1
      <3> QED BY <2>2, <3>1, <3>2 DEF ReturnSize
    <2> QED BY <1>1, <2>1, <2>2
  <1> QED BY <1>2, <1>3, <1>4, <1>5, <1>6

------------------------------------------------------------------------------
(* The arguments of a call.                                                   *)

\* The elements of a set of numbers can be counted off.
LEMMA NthOfSet ==
    ASSUME NEW n \in Nat, NEW S \in SUBSET (1..n), NEW k \in 1..Cardinality(S)
    PROVE  \E i \in S : Cardinality({j \in S : j <= i}) = k
  <1> DEFINE upTo(m) == {j \in S : j <= m}
             reach == {m \in Nat : Cardinality(upTo(m)) >= k}
  <1>1. IsFiniteSet(S) /\ Cardinality(S) \in Nat /\ k \in Nat \ {0} /\ k <= Cardinality(S)
    <2>1. IsFiniteSet(1..n)
      BY FS_Interval
    <2>2. IsFiniteSet(S)
      BY <2>1, FS_Subset
    <2>3. Cardinality(S) \in Nat
      BY <2>2, FS_CardinalityType
    <2> QED BY <2>2, <2>3
  <1>2. \A m : IsFiniteSet(upTo(m)) /\ Cardinality(upTo(m)) \in Nat
    <2> TAKE m
    <2>1. upTo(m) \in SUBSET S
      OBVIOUS
    <2>2. IsFiniteSet(upTo(m))
      BY <1>1, <2>1, FS_Subset
    <2> QED BY <2>2, FS_CardinalityType
  <1>3. reach \subseteq Nat /\ n \in reach
    <2>1. \A j \in S : j <= n
      OBVIOUS
    <2>2. upTo(n) = S
      BY <2>1
    <2> QED BY <1>1, <2>2
  <1>4. PICK m \in reach : \A l \in reach : ~ (<<l, m>> \in OpToRel(<, Nat))
    <2>1. IsWellFoundedOn(OpToRel(<, Nat), Nat)
      BY NatLessThanWellFounded
    <2> HIDE DEF reach
    <2> QED BY <1>3, <2>1, WFMin
  <1>5. m \in Nat /\ Cardinality(upTo(m)) >= k
    OBVIOUS
  <1>6. \A l \in Nat : l < m => ~ (Cardinality(upTo(l)) >= k)
    <2> SUFFICES ASSUME NEW l \in Nat, l < m, Cardinality(upTo(l)) >= k PROVE FALSE
      OBVIOUS
    <2>1. l \in reach
      OBVIOUS
    <2>2. <<l, m>> \in OpToRel(<, Nat)
      BY <1>5 DEF OpToRel
    <2> QED BY <1>4, <2>1, <2>2
  <1>7. m # 0
    <2>1. upTo(0) = {}
      <3>1. \A j \in S : j \in Nat /\ j >= 1
        OBVIOUS
      <3>2. \A j \in S : ~ (j <= 0)
        BY <3>1
      <3> QED BY <3>2
    <2>2. Cardinality(upTo(0)) = 0
      BY <2>1, FS_EmptySet
    <2> HIDE DEF upTo
    <2> QED BY <1>1, <1>5, <2>2
  <1>8. m - 1 \in Nat /\ Cardinality(upTo(m - 1)) < k
    <2>1. m - 1 \in Nat /\ m - 1 < m
      BY <1>5, <1>7
    <2>2. ~ (Cardinality(upTo(m - 1)) >= k) /\ Cardinality(upTo(m - 1)) \in Nat
      BY <1>2, <1>6, <2>1
    <2> HIDE DEF upTo
    <2> QED BY <1>1, <2>1, <2>2
  <1>9. m \in S
    <2>1. CASE m \in S
      BY <2>1
    <2>2. CASE m \notin S
      <3>1. upTo(m) = upTo(m - 1)
        <4>1. \A j \in S : j \in Nat /\ j # m
          BY <2>2
        <4>2. \A j \in S : j <= m <=> j <= m - 1
          BY <1>5, <4>1
        <4> QED BY <4>2
      <3> HIDE DEF upTo
      <3> QED BY <1>1, <1>2, <1>5, <1>8, <3>1
    <2> QED BY <2>1, <2>2
  <1>10. Cardinality(upTo(m)) <= Cardinality(upTo(m - 1)) + 1
    <2>1. upTo(m) = upTo(m - 1) \cup {m}
      <3>1. \A j \in S : j \in Nat
        OBVIOUS
      <3>2. \A j \in S : j <= m <=> j <= m - 1 \/ j = m
        BY <1>5, <3>1
      <3> QED BY <1>9, <3>2
    <2>2. IsFiniteSet(upTo(m - 1)) /\ Cardinality(upTo(m - 1)) \in Nat
      BY <1>2
    <2>3. Cardinality(upTo(m - 1) \cup {m}) =
              IF m \in upTo(m - 1) THEN Cardinality(upTo(m - 1)) ELSE Cardinality(upTo(m - 1)) + 1
      <3> HIDE DEF upTo
      <3> QED BY <2>2, FS_AddElement
    <2> HIDE DEF upTo
    <2> QED BY <2>1, <2>2, <2>3
  <1>11. Cardinality(upTo(m)) = k
    <2>1. Cardinality(upTo(m)) \in Nat /\ Cardinality(upTo(m - 1)) \in Nat
      BY <1>2
    <2> HIDE DEF upTo
    <2> QED BY <1>1, <1>5, <1>8, <1>10, <2>1
  <1> QED BY <1>9, <1>11

\* A call is handed one integer per argument.
LEMMA Arguments ==
    ASSUME NEW p \in Pids, host \in [Pids -> [Vars -> Seq(Int)]],
           NEW args, IsSequence(args), \A j \in DOMAIN args : args[j] \in Vars
    PROVE  ArgCount(args) \in Nat /\ ArgValues(p, args) \in [1..ArgCount(args) -> Int]
  <1> DEFINE n == Len(args)
             nth(k) == CHOOSE i \in Firsts(args) : Cardinality({j \in Firsts(args) : j <= i}) = k
  <1>1. n \in Nat /\ DOMAIN args = 1..n
    BY DEF IsSequence
  <1>2. Firsts(args) \in SUBSET (1..n)
    BY <1>1 DEF Firsts
  <1>3. ArgCount(args) \in Nat
    <2>1. IsFiniteSet(1..n)
      BY <1>1, FS_Interval
    <2> QED BY <1>2, <2>1, FS_Subset, FS_CardinalityType DEF ArgCount
  <1>4. ASSUME NEW k \in 1..ArgCount(args)
        PROVE  nth(k) \in DOMAIN args
    <2>1. \E i \in Firsts(args) : Cardinality({j \in Firsts(args) : j <= i}) = k
      BY <1>1, <1>2, NthOfSet DEF ArgCount
    <2>2. nth(k) \in Firsts(args)
      BY <2>1
    <2> HIDE DEF nth
    <2> QED BY <1>1, <1>2, <2>2
  <1>5. ArgValues(p, args) = [k \in 1..ArgCount(args) |->
            IF host[p][args[nth(k)]] = NoVar THEN 0 ELSE host[p][args[nth(k)]][1]]
    BY DEF ArgValues, ArgCount, Firsts
  <1> HIDE DEF nth
  <1>6. ASSUME NEW k \in 1..ArgCount(args)
        PROVE  (IF host[p][args[nth(k)]] = NoVar THEN 0 ELSE host[p][args[nth(k)]][1]) \in Int
    <2>1. host[p][args[nth(k)]] \in Seq(Int)
      BY <1>4
    <2>2. ASSUME NEW s \in Seq(Int), s # << >> PROVE s[1] \in Int
      BY <2>2
    <2> QED BY <2>1, <2>2 DEF NoVar
  <1> QED BY <1>3, <1>5, <1>6

------------------------------------------------------------------------------
(* What steps do to the arrays.                                               *)

\* An array keeps its region and its slots, and what is in them is not taken away.
Keeps(x, y) ==
    /\ y.region = x.region /\ DOMAIN y.data = DOMAIN x.data
    /\ \A i \in DOMAIN x.data : x.data[i] # Unset => y.data[i] # Unset
AllKept(old, new) == \A b \in 1..Len(old) : IsArray(new[b]) /\ Keeps(old[b], new[b])

\* What is in an array after a write at an index that is not negative.
Holds(y, x, offset, values) ==
    \A i \in DOMAIN x.data :
        y.data[i] = IF i \in (offset + 1)..(offset + Len(values))
                    THEN values[i - offset] ELSE x.data[i]

\* Such an index does not count from the end.
LEMMA IndexFromStart ==
    ASSUME NEW n \in Nat, NEW i \in 1..n, NEW offset \in Nat, NEW m \in Nat
    PROVE  /\ i - offset \in 1..m <=> i \in (offset + 1)..(offset + m)
           /\ i - n - offset \notin 1..m
  OBVIOUS

\* A write of integers that fits keeps every array, and puts the integers in one.
LEMMA WriteKeeps ==
    ASSUME NEW S, NEW mem \in Seq(S), \A b \in 1..Len(mem) : IsArray(mem[b]),
           NEW a \in 1..Len(mem), NEW size \in Nat, DOMAIN mem[a].data = 1..size,
           NEW offset \in Nat, NEW values \in Seq(Int)
    PROVE  /\ AllKept(mem, Write(mem, a, offset, values))
           /\ Holds(Write(mem, a, offset, values)[a], mem[a], offset, values)
  <1> DEFINE w == Write(mem, a, offset, values)
             old == mem[a]
             data == [i \in DOMAIN old.data |->
                        IF i \in (offset + 1)..(offset + Len(values)) THEN values[i - offset]
                        ELSE old.data[i]]
  <1>1. Len(mem) \in Nat /\ DOMAIN mem = 1..Len(mem)
    OBVIOUS
  <1>3. IsArray(old)
    OBVIOUS
  <1>2. w = [mem EXCEPT ![a] = [mem[a] EXCEPT !.data = data]]
    <2> DEFINE n == Len(old.data)
               there(i) == i - offset \in DOMAIN values
               behind(i) == i - n - offset \in DOMAIN values
               raw == [i \in DOMAIN old.data |->
                          CASE there(i) -> values[i - offset]
                            [] ~ there(i) /\ behind(i) -> values[i - n - offset]
                            [] OTHER -> old.data[i]]
    <2>1. w = [mem EXCEPT ![a] = [mem[a] EXCEPT !.data = raw]]
      BY DEF Write
    <2>2. n = size /\ DOMAIN old.data = 1..n
      <3>1. PICK d : d = old.data /\ d \in [1..size -> Int \cup {Unset}]
        BY <1>3 DEF IsArray
      <3>2. Len(d) = size
        BY <3>1
      <3> QED BY <3>1, <3>2
    <2>3. Len(values) \in Nat /\ DOMAIN values = 1..Len(values)
      OBVIOUS
    <2>4. ASSUME NEW i \in DOMAIN old.data
          PROVE  /\ there(i) <=> i \in (offset + 1)..(offset + Len(values))
                 /\ ~ behind(i)
      BY <2>2, <2>3, IndexFromStart
    <2> HIDE DEF there, behind, n, old
    <2>5. raw = data
      BY <2>4
    <2> QED BY <2>1, <2>5 DEF old
  <1>4. w[a] = [region |-> old.region, data |-> data]
    <2>1. w[a] = [old EXCEPT !.data = data]
      BY <1>1, <1>2
    <2>2. old = [region |-> old.region, data |-> old.data]
      BY <1>3 DEF IsArray
    <2> HIDE DEF old, data, w
    <2> QED BY <2>1, <2>2
  <1>5. \A i \in DOMAIN old.data : data[i] \in Int \cup {Unset} /\ (old.data[i] # Unset => data[i] # Unset)
    <2> TAKE i \in DOMAIN old.data
    <2>1. CASE i \in (offset + 1)..(offset + Len(values))
      <3>1. Len(values) \in Nat /\ i - offset \in 1..Len(values)
        BY <2>1
      <3>2. values[i - offset] \in Int
        BY <3>1
      <3> QED BY <2>1, <3>2, NamesAssumption
    <2>2. CASE i \notin (offset + 1)..(offset + Len(values))
      BY <1>3, <2>2 DEF IsArray
    <2> QED BY <2>1, <2>2
  <1>6. IsArray(w[a]) /\ Keeps(old, w[a])
    <2>1. DOMAIN data = DOMAIN old.data /\ data \in [DOMAIN old.data -> Int \cup {Unset}]
      BY <1>5
    <2> HIDE DEF data, old, w
    <2>2. w[a].region = old.region /\ w[a].data = data
      BY <1>4
    <2>3. IsArray(w[a])
      BY <1>4, <2>1, <2>2 DEF IsArray
    <2> QED BY <1>5, <2>1, <2>2, <2>3 DEF Keeps
  <1>7. \A b \in 1..Len(mem) : b # a => w[b] = mem[b]
    BY <1>1, <1>2
  <1>8. \A b \in 1..Len(mem) : Keeps(mem[b], mem[b])
    BY DEF Keeps
  <1>9. \A i \in DOMAIN old.data : w[a].data[i] = data[i]
    BY <1>4
  <1>10. Holds(w[a], old, offset, values)
    BY <1>9 DEF Holds
  <1> HIDE DEF w, old
  <1>11. AllKept(mem, w)
    <2> SUFFICES ASSUME NEW b \in 1..Len(mem) PROVE IsArray(w[b]) /\ Keeps(mem[b], w[b])
      BY DEF AllKept
    <2>1. CASE b = a
      BY <1>6, <2>1 DEF old
    <2>2. CASE b # a
      <3>1. w[b] = mem[b]
        BY <1>7, <2>2
      <3> QED BY <1>8, <3>1
    <2> QED BY <2>1, <2>2
  <1> QED BY <1>10, <1>11 DEF w, old

\* The new arrays of a call.
LEMMA NewArrays ==
    /\ \A region : \A n : LET x == Array(region, n)
                          IN  IsArray(x) /\ Blank(x) /\ IsOf(x, region, n)
    /\ \A region : \A n \in Nat : \A data \in [1..n -> Int] :
          LET x == FilledArray(region, data)
          IN  IsArray(x) /\ Written(x) /\ IsOf(x, region, n)
  <1>1. ASSUME NEW region, NEW n
        PROVE  LET x == Array(region, n) IN IsArray(x) /\ Blank(x) /\ IsOf(x, region, n)
    <2> DEFINE data == [i \in 1..n |-> Unset]
               x == Array(region, n)
    <2>1. x = [region |-> region, data |-> data]
      BY DEF Array
    <2>2. DOMAIN data = 1..n /\ data \in [1..n -> Int \cup {Unset}] /\ \A i \in 1..n : data[i] = Unset
      OBVIOUS
    <2> HIDE DEF data, x
    <2>3. x.region = region /\ x.data = data
      BY <2>1
    <2>4. IsArray(x) /\ Blank(x) /\ IsOf(x, region, n)
      BY <2>1, <2>2, <2>3 DEF IsArray, Blank, IsOf
    <2> QED BY <2>4 DEF x
  <1>2. ASSUME NEW region, NEW n \in Nat, NEW data \in [1..n -> Int]
        PROVE  LET x == FilledArray(region, data) IN IsArray(x) /\ Written(x) /\ IsOf(x, region, n)
    <2> DEFINE x == FilledArray(region, data)
    <2>1. x = [region |-> region, data |-> data]
      BY DEF FilledArray
    <2>2. DOMAIN data = 1..n /\ data \in [1..n -> Int \cup {Unset}] /\ \A i \in 1..n : data[i] # Unset
      BY NamesAssumption
    <2> HIDE DEF x
    <2>3. x.region = region /\ x.data = data
      BY <2>1
    <2>4. IsArray(x) /\ Written(x) /\ IsOf(x, region, n)
      BY <2>1, <2>2, <2>3 DEF IsArray, Written, IsOf
    <2> QED BY <2>4 DEF x
  <1> QED BY <1>1, <1>2

\* The second of two sequences one after the other.
LEMMA SecondPart ==
    ASSUME NEW S, NEW s \in Seq(S), NEW T, NEW t \in Seq(T)
    PROVE  \A i \in 1..Len(t) : (s \o t)[Len(s) + i] = t[i]
  <1>1. s \in Seq(S \cup T) /\ t \in Seq(S \cup T) /\ Len(s) \in Nat /\ Len(t) \in Nat
    OBVIOUS
  <1> QED BY <1>1

\* A sequence with an element before and one behind it.
LEMMA FramedAt ==
    ASSUME NEW n \in Nat, NEW middle, middle = [k \in 1..n |-> middle[k]], NEW first, NEW last
    PROVE  LET all == <<first>> \o middle \o <<last>>
           IN  /\ Len(all) = n + 2 /\ all[1] = first /\ all[n + 2] = last
               /\ \A k \in 1..n : all[k + 1] = middle[k]
  <1>1. PICK one, end : one = <<first>> /\ end = <<last>>
    OBVIOUS
  <1>2. one \in Seq({first}) /\ Len(one) = 1 /\ one[1] = first
    BY <1>1
  <1>3. end \in Seq({last}) /\ Len(end) = 1 /\ end[1] = last
    BY <1>1
  <1>4. PICK T : middle \in Seq(T) /\ Len(middle) = n
    <2>1. Len(middle) = n /\ \E T : middle \in Seq(T)
      BY FunctionIsSequence
    <2> QED BY <2>1
  <1>5. PICK A, B : one \in Seq(A) /\ end \in Seq(B)
    BY <1>2, <1>3
  <1>6. /\ one \o middle \in Seq(A \cup T) /\ Len(one \o middle) = n + 1
        /\ (one \o middle)[1] = first /\ \A k \in 1..n : (one \o middle)[k + 1] = middle[k]
    <2>1. /\ one \o middle \in Seq(A \cup T) /\ Len(one \o middle) = Len(one) + Len(middle)
          /\ \A i \in 1..Len(one) : (one \o middle)[i] = one[i]
      BY <1>4, <1>5, Concatenated
    <2>2. \A i \in 1..Len(middle) : (one \o middle)[Len(one) + i] = middle[i]
      BY <1>4, <1>5, SecondPart
    <2>3. \A k \in 1..n : 1 + k = k + 1
      OBVIOUS
    <2> QED BY <1>2, <1>4, <2>1, <2>2, <2>3
  <1>7. PICK front : front = one \o middle
    OBVIOUS
  <1>8. PICK C : front \in Seq(C)
    BY <1>6, <1>7
  <1>9. /\ Len(front \o end) = Len(front) + Len(end)
        /\ \A i \in 1..Len(front) : (front \o end)[i] = front[i]
    BY <1>5, <1>8, Concatenated
  <1>10. \A i \in 1..Len(end) : (front \o end)[Len(front) + i] = end[i]
    BY <1>5, <1>8, SecondPart
  <1>11. Len(front) = n + 1 /\ front[1] = first /\ \A k \in 1..n : front[k + 1] = middle[k]
    BY <1>6, <1>7
  <1>12. /\ Len(front \o end) = n + 2 /\ (front \o end)[1] = first /\ (front \o end)[n + 2] = last
         /\ \A k \in 1..n : (front \o end)[k + 1] = middle[k]
    <2>1. 1 \in 1..(n + 1) /\ (n + 1) + 1 = n + 2 /\ \A k \in 1..n : k + 1 \in 1..(n + 1)
      OBVIOUS
    <2> QED BY <1>3, <1>9, <1>10, <1>11, <2>1
  <1> QED BY <1>1, <1>7, <1>12

\* The arrays that the host allocates for a call are what its tasks expect.
LEMMA LrArraysFit ==
    ASSUME CallInv, ValuesOK, NEW p \in Pids, ~ Ended(p), Current(p).typ = "QL"
    PROVE  LET arrays == LrArrays(p)
           IN  /\ Len(arrays) = 2 /\ (\E T : arrays \in Seq(T))
               /\ \A j \in 1..2 : IsArray(arrays[j])
               /\ IsOf(arrays[1], "LR_in", ArgCount(Current(p).args)) /\ Written(arrays[1])
               /\ IsOf(arrays[2], "LR_out", ResultSize(Current(p))) /\ Blank(arrays[2])
  <1>1. PICK in, out : /\ in = FilledArray("LR_in", ArgValues(p, Current(p).args))
                       /\ out = Array("LR_out", ResultSize(Current(p)))
    OBVIOUS
  <1>2. LrArrays(p) = <<in, out>>
    BY <1>1 DEF LrArrays
  <1>3. /\ ArgCount(Current(p).args) \in Nat
        /\ ArgValues(p, Current(p).args) \in [1..ArgCount(Current(p).args) -> Int]
    BY CallNames, Arguments DEF ValuesOK
  <1>4. IsArray(in) /\ Written(in) /\ IsOf(in, "LR_in", ArgCount(Current(p).args))
    BY <1>1, <1>3, NewArrays
  <1>5. IsArray(out) /\ Blank(out) /\ IsOf(out, "LR_out", ResultSize(Current(p)))
    BY <1>1, NewArrays
  <1>6. <<in, out>> \in Seq({in, out}) /\ Len(<<in, out>>) = 2 /\ <<in, out>>[1] = in /\ <<in, out>>[2] = out
    OBVIOUS
  <1>7. \E T : <<in, out>> \in Seq(T)
    BY <1>6
  <1>8. \A j \in 1..2 : IsArray(<<in, out>>[j])
    <2>1. \A j \in 1..2 : j = 1 \/ j = 2
      OBVIOUS
    <2> QED BY <1>4, <1>5, <1>6, <2>1
  <1> QED BY <1>2, <1>4, <1>5, <1>6, <1>7, <1>8

\* ... for a request, an array per callback and result between the two of its own.
LEMMA RrArraysFit ==
    ASSUME CallInv, ValuesOK, NEW p \in Pids, ~ Ended(p), Current(p).typ = "QC"
    PROVE  LET arrays == RrArrays(p)
               n == CallbackCount(Request(p))
           IN  /\ n \in Nat /\ Len(arrays) = 2 * n + 2
               /\ \A j \in 1..(2 * n + 2) : IsArray(arrays[j])
               /\ IsOf(arrays[2 * n + 2], "RR_out", Request(p).returns) /\ Blank(arrays[2 * n + 2])
               /\ \A i \in 1..n : /\ IsOf(arrays[2 * i + 1], "LR_out", CallbackReturns(Request(p)))
                                  /\ Blank(arrays[2 * i + 1])
  <1> DEFINE r == Request(p)
             n == CallbackCount(r)
             first == FilledArray("RR_in", ArgValues(p, Current(p).args))
             middle == [k \in 1..(2 * n) |->
                 IF k % 2 = 1 THEN Array("CR_in", LocalRoutine[r.callback].args)
                              ELSE Array("LR_out", CallbackReturns(r))]
             last == Array("RR_out", r.returns)
             all == <<first>> \o middle \o <<last>>
  <1>1. RrArrays(p) = all
    BY DEF RrArrays
  <1>2. n \in Nat
    BY CallNames
  <1>3. IsArray(first)
    <2>1. /\ ArgCount(Current(p).args) \in Nat
          /\ ArgValues(p, Current(p).args) \in [1..ArgCount(Current(p).args) -> Int]
      BY CallNames, Arguments DEF ValuesOK
    <2> QED BY <2>1, NewArrays
  <1>4. IsArray(last) /\ Blank(last) /\ IsOf(last, "RR_out", r.returns)
    BY NewArrays
  <1>5. \A k \in 1..(2 * n) : /\ IsArray(middle[k])
                              /\ k % 2 # 1 => /\ Blank(middle[k])
                                              /\ IsOf(middle[k], "LR_out", CallbackReturns(r))
    <2>1. /\ IsArray(Array("CR_in", LocalRoutine[r.callback].args))
          /\ IsArray(Array("LR_out", CallbackReturns(r))) /\ Blank(Array("LR_out", CallbackReturns(r)))
          /\ IsOf(Array("LR_out", CallbackReturns(r)), "LR_out", CallbackReturns(r))
      BY NewArrays
    <2> QED BY <2>1
  <1>6. middle = [k \in 1..(2 * n) |-> middle[k]]
    OBVIOUS
  <1> HIDE DEF first, middle, last, n, r
  <1>7. 2 * n \in Nat
    BY <1>2
  <1>8. /\ Len(all) = 2 * n + 2 /\ all[1] = first /\ all[2 * n + 2] = last
        /\ \A k \in 1..(2 * n) : all[k + 1] = middle[k]
    BY <1>6, <1>7, FramedAt
  <1> HIDE DEF all
  <1>9. \A j \in 1..(2 * n + 2) : IsArray(all[j])
    <2> TAKE j \in 1..(2 * n + 2)
    <2>1. j = 1 \/ j = 2 * n + 2 \/ (j - 1 \in 1..(2 * n) /\ (j - 1) + 1 = j)
      BY <1>7
    <2> QED BY <1>3, <1>4, <1>5, <1>8, <2>1
  <1>10. \A i \in 1..n : IsOf(all[2 * i + 1], "LR_out", CallbackReturns(r)) /\ Blank(all[2 * i + 1])
    <2> TAKE i \in 1..n
    <2>1. 2 * i \in 1..(2 * n) /\ (2 * i) % 2 # 1
      BY <1>2
    <2> QED BY <1>5, <1>8, <2>1
  <1>11. RrArrays(p) = all /\ CallbackCount(Request(p)) = n
    BY <1>1 DEF n, r
  <1> QED BY <1>2, <1>4, <1>8, <1>9, <1>10, <1>11 DEF r

\* The memory after a step.
MemoryKept ==
    \A p \in Pids :
        /\ \A a \in 1..Len(shared'[p]) : IsArray(shared'[p][a])
        /\ \A a \in 1..Len(shared[p]) : Keeps(shared[p][a], shared'[p][a])

\* A call appends its arrays.
LEMMA CallAppends ==
    ASSUME PlaceInv, ValuesOK, NEW p \in Pids, NEW call, NEW arrays, PreCall(p, call, arrays),
           \E T : arrays \in Seq(T), \A j \in 1..Len(arrays) : IsArray(arrays[j])
    PROVE  /\ MemoryKept
           /\ \A q \in Pids : \A a \in 1..Len(shared[q]) : shared'[q][a] = shared[q][a]
           /\ \A j \in 1..Len(arrays) : shared'[p][Len(shared[p]) + j] = arrays[j]
  <1>1. shared' = [shared EXCEPT ![p] = shared[p] \o arrays]
    BY DEF PreCall
  <1>2. DOMAIN shared' = Pids /\ shared'[p] = shared[p] \o arrays /\ \A q \in Pids \ {p} : shared'[q] = shared[q]
    BY <1>1 DEF PlaceInv, MemoryGrows
  <1>3. PICK S, T : shared[p] \in Seq(S) /\ arrays \in Seq(T)
    BY DEF PlaceInv, MemoryGrows
  <1>4. PICK s : s = shared[p]
    OBVIOUS
  <1>5. /\ Len(s \o arrays) = Len(s) + Len(arrays) /\ Len(s) \in Nat /\ Len(arrays) \in Nat
        /\ \A i \in 1..Len(s) : (s \o arrays)[i] = s[i]
    BY <1>3, <1>4, Concatenated
  <1>6. \A i \in 1..Len(arrays) : (s \o arrays)[Len(s) + i] = arrays[i]
    BY <1>3, <1>4, SecondPart
  <1>7. \A i \in 1..Len(s \o arrays) : IsArray((s \o arrays)[i])
    <2> TAKE i \in 1..Len(s \o arrays)
    <2>1. i \in 1..Len(s) \/ (i - Len(s) \in 1..Len(arrays) /\ Len(s) + (i - Len(s)) = i)
      BY <1>5
    <2>2. \A b \in 1..Len(s) : IsArray(s[b])
      BY <1>4 DEF ValuesOK
    <2> QED BY <1>5, <1>6, <2>1, <2>2
  <1>8. \A q \in Pids : \A a \in 1..Len(shared[q]) : shared'[q][a] = shared[q][a]
    BY <1>2, <1>4, <1>5
  <1>9. MemoryKept
    BY <1>2, <1>4, <1>7, <1>8 DEF MemoryKept, ValuesOK, Keeps
  <1> QED BY <1>2, <1>4, <1>6, <1>8, <1>9

\* Other steps write integers to an array, or nothing.
LEMMA SameMemory ==
    ASSUME ValuesOK, shared' = shared
    PROVE  MemoryKept
  BY DEF MemoryKept, ValuesOK, Keeps

\* ... by a legal write to one array, of which it says what is in it.
LEMMA WrittenMemory ==
    ASSUME PlaceInv, ValuesOK, NEW q \in Pids, NEW a \in DOMAIN shared[q],
           NEW size \in Nat, DOMAIN shared[q][a].data = 1..size, NEW offset \in Nat,
           NEW values \in Seq(Int), shared' = [shared EXCEPT ![q] = Write(shared[q], a, offset, values)]
    PROVE  /\ MemoryKept
           /\ \A p \in Pids : \A b \in 1..Len(shared[p]) : p # q \/ b # a => shared'[p][b] = shared[p][b]
           /\ Holds(shared'[q][a], shared[q][a], offset, values)
  <1>1. PICK mem : mem = shared[q]
    OBVIOUS
  <1>2. PICK S : mem \in Seq(S)
    BY <1>1 DEF PlaceInv, MemoryGrows
  <1>3. PICK w : w = Write(mem, a, offset, values)
    OBVIOUS
  <1>4. Len(mem) \in Nat /\ DOMAIN mem = 1..Len(mem) /\ \A b \in 1..Len(mem) : IsArray(mem[b])
    BY <1>1, <1>2 DEF ValuesOK
  <1>5. a \in 1..Len(mem)
    BY <1>1, <1>4
  <1>6. AllKept(mem, w) /\ Holds(w[a], mem[a], offset, values)
    <2>2. DOMAIN mem[a].data = 1..size
      BY <1>1
    <2>1. AllKept(mem, Write(mem, a, offset, values))
          /\ Holds(Write(mem, a, offset, values)[a], mem[a], offset, values)
      BY ONLY <1>2, <1>4, <1>5, <2>2, WriteKeeps
    <2> QED BY ONLY <1>3, <2>1
  <1>7. Len(w) = Len(mem) /\ \A b \in 1..Len(mem) : b # a => w[b] = mem[b]
    BY <1>2, <1>3, WriteIsLocal
  <1>8. shared'[q] = w /\ \A p \in Pids \ {q} : shared'[p] = shared[p]
    BY <1>1, <1>3 DEF PlaceInv, MemoryGrows
  <1>9. MemoryKept
    <2> SUFFICES ASSUME NEW p \in Pids
                 PROVE  /\ \A b \in 1..Len(shared'[p]) : IsArray(shared'[p][b])
                        /\ \A b \in 1..Len(shared[p]) : Keeps(shared[p][b], shared'[p][b])
      BY DEF MemoryKept
    <2>1. CASE p = q
      <3>1. Len(w) = Len(mem) /\ shared'[p] = w /\ shared[p] = mem
        BY <1>1, <1>7, <1>8, <2>1
      <3> QED BY <1>6, <3>1 DEF AllKept
    <2>2. CASE p # q
      <3>1. shared'[p] = shared[p]
        BY <1>8, <2>2
      <3> QED BY <3>1 DEF ValuesOK, Keeps
    <2> QED BY <2>1, <2>2
  <1>10. \A p \in Pids : \A b \in 1..Len(shared[p]) : p # q \/ b # a => shared'[p][b] = shared[p][b]
    BY <1>1, <1>7, <1>8
  <1>11. Holds(shared'[q][a], shared[q][a], offset, values)
    BY <1>1, <1>6, <1>8
  <1> QED BY <1>9, <1>10, <1>11

------------------------------------------------------------------------------
(* The host: what it reads, calls and collects.                               *)

\* An operand that exists is an integer.
LEMMA OperandValue ==
    ASSUME host \in [Pids -> [Vars -> Seq(Int)]], cpu.pid \in Pids, NEW arg, IsOperand(arg)
    PROVE  Value(arg) \in Int
  <1>1. PICK s : s = host[cpu.pid][arg.name]
    OBVIOUS
  <1>2. s \in Seq(Int) /\ arg.index \in Nat \ {0}
    BY <1>1 DEF IsOperand
  <1>3. ASSUME NEW i \in Nat \ {0}, Len(s) >= i PROVE s[i] \in Int
    BY <1>2, <1>3
  <1>4. CASE Exists(arg)
    BY <1>1, <1>2, <1>3, <1>4 DEF Value, Exists
  <1>5. CASE ~ Exists(arg)
    BY <1>5 DEF Value
  <1> QED BY <1>4, <1>5

\* An instruction writes an integer, and raises only if an operand does not exist.
LEMMA HostStepValues ==
    ASSUME CallInv, ValuesOK, ~ fault, HostStep
    PROVE  /\ host' \in [Pids -> [Vars -> Seq(Int)]]
           /\ fault' => ReadsMissing
           /\ UNCHANGED <<block, ptr, done, calls, shared, regs, qubits, qpu>>
           /\ cpu'.doing = cpu.doing /\ cpu'.pid = cpu.pid /\ cpu'.task = cpu.task
  <1> DEFINE p == cpu.pid
  <1>1. PICK op \in {"assign", "add", "mulc", "bcondmulc", "return", "branch", "jump"} :
            HostExecutes(op)
    BY DEF HostStep, AssignCValue, AddCValue, MultiplyConstantCValue,
           BitConditionalMultiplyConstantCValue, ReturnResult, BranchIf, Jump
  <1>2. /\ cpu.doing = "code" /\ ~ HostCodeDone /\ HostInstr.op = op
        /\ cpu' = [cpu EXCEPT !.pc = @ + 1]
        /\ UNCHANGED <<block, ptr, done, calls, shared, regs, qubits, qpu>>
    BY <1>1 DEF HostExecutes
  <1>3. /\ cpu'.doing = cpu.doing /\ cpu'.pid = cpu.pid /\ cpu'.task = cpu.task
        /\ p \in Pids /\ NamesVars(HostInstr)
    BY <1>2, HostNames
  <1>4. ASSUME NEW value \in Int, NEW args, HostWrite(value, args)
        PROVE  host' \in [Pids -> [Vars -> Seq(Int)]] /\ (fault' <=> \E a \in args : ~ Exists(a))
    <2>1. host' = [host EXCEPT ![cpu.pid][HostInstr.to] = <<value>>] /\ <<value>> \in Seq(Int)
      BY <1>4 DEF HostWrite
    <2>2. host' \in [Pids -> [Vars -> Seq(Int)]]
      BY <2>1 DEF ValuesOK
    <2> QED BY <1>4, <2>2 DEF HostWrite
  <1>5. CASE op = "assign"
    <2>1. HostWrite(HostInstr.const, {}) /\ HostInstr.const \in Int
      BY <1>2, <1>3, <1>5 DEF HostStep, AssignCValue, AddCValue, MultiplyConstantCValue, BranchIf, Jump,
             BitConditionalMultiplyConstantCValue, ReturnResult, HostExecutes, NamesVars
    <2> QED BY <1>2, <1>3, <1>4, <2>1
  <1>6. CASE op = "add"
    <2>1. /\ HostWrite(Value(HostInstr.a) + Value(HostInstr.b), {HostInstr.a, HostInstr.b})
          /\ IsOperand(HostInstr.a) /\ IsOperand(HostInstr.b)
      BY <1>2, <1>3, <1>6 DEF HostStep, AssignCValue, AddCValue, MultiplyConstantCValue, BranchIf, Jump,
             BitConditionalMultiplyConstantCValue, ReturnResult, HostExecutes, NamesVars
    <2>2. Value(HostInstr.a) \in Int /\ Value(HostInstr.b) \in Int
      BY <1>3, <2>1, OperandValue DEF ValuesOK
    <2>3. Value(HostInstr.a) + Value(HostInstr.b) \in Int
      BY <2>2
    <2> QED BY <1>2, <1>3, <1>4, <1>6, <2>1, <2>3 DEF ReadsMissing
  <1>7. CASE op = "mulc"
    <2>1. /\ HostWrite(Value(HostInstr.a) * HostInstr.const, {HostInstr.a})
          /\ IsOperand(HostInstr.a) /\ HostInstr.const \in Int
      BY <1>2, <1>3, <1>7 DEF HostStep, AssignCValue, AddCValue, MultiplyConstantCValue, BranchIf, Jump,
             BitConditionalMultiplyConstantCValue, ReturnResult, HostExecutes, NamesVars
    <2>2. Value(HostInstr.a) \in Int
      BY <1>3, <2>1, OperandValue DEF ValuesOK
    <2>3. Value(HostInstr.a) * HostInstr.const \in Int
      BY <2>1, <2>2
    <2> QED BY <1>2, <1>3, <1>4, <1>7, <2>1, <2>3 DEF ReadsMissing
  <1>8. CASE op = "bcondmulc"
    <2>1. /\ HostWrite(IF Value(HostInstr.b) = 1 THEN Value(HostInstr.a) * HostInstr.const
                       ELSE Value(HostInstr.a), {HostInstr.a, HostInstr.b})
          /\ IsOperand(HostInstr.a) /\ IsOperand(HostInstr.b) /\ HostInstr.const \in Int
      BY <1>2, <1>3, <1>8 DEF HostStep, AssignCValue, AddCValue, MultiplyConstantCValue, BranchIf, Jump,
             BitConditionalMultiplyConstantCValue, ReturnResult, HostExecutes, NamesVars
    <2>2. Value(HostInstr.a) \in Int /\ Value(HostInstr.b) \in Int
      BY <1>3, <2>1, OperandValue DEF ValuesOK
    <2>3. (IF Value(HostInstr.b) = 1 THEN Value(HostInstr.a) * HostInstr.const
           ELSE Value(HostInstr.a)) \in Int
      BY <2>1, <2>2
    <2> QED BY <1>2, <1>3, <1>4, <1>8, <2>1, <2>3 DEF ReadsMissing
  <1>9. CASE op = "return"
    <2>1. host' = host /\ fault' = (host[cpu.pid][HostInstr.from] = NoVar)
      BY <1>2, <1>9 DEF HostStep, AssignCValue, AddCValue, MultiplyConstantCValue, BranchIf, Jump,
             BitConditionalMultiplyConstantCValue, ReturnResult, HostExecutes
    <2> QED BY <1>2, <1>3, <1>9, <2>1 DEF ReadsMissing, ValuesOK
  <1>10. CASE op = "branch"
    <2>1. host' = host /\ fault' = ~ (Exists(HostInstr.a) /\ Exists(HostInstr.b))
      BY <1>2, <1>10 DEF HostStep, AssignCValue, AddCValue, MultiplyConstantCValue, BranchIf, Jump,
             BitConditionalMultiplyConstantCValue, ReturnResult, HostExecutes, hostVars
    <2> QED BY <1>2, <1>3, <1>10, <2>1 DEF ReadsMissing, ValuesOK
  <1>11. CASE op = "jump"
    <2>1. host' = host /\ fault' = fault
      BY <1>2, <1>11 DEF HostStep, AssignCValue, AddCValue, MultiplyConstantCValue, BranchIf, Jump,
             BitConditionalMultiplyConstantCValue, ReturnResult, HostExecutes, hostVars
    <2> QED BY <1>2, <1>3, <2>1 DEF ValuesOK
  <1> QED BY <1>5, <1>6, <1>7, <1>8, <1>9, <1>10, <1>11

\* When a PostCall is ready, the call was made and its pairs are done.
LEMMA PostFacts ==
    ASSUME CallInv, NEW p \in Pids, ~ Ended(p), Post \in TasksOf(Graph(p)),
           PredsOf(Graph(p), Post) \subseteq done[p]
    PROVE  /\ Current(p).typ # "CL" /\ Pre \in done[p]
           /\ Current(p).typ = "QC" /\ ~ Request(p).sequential => Multi \in done[p]
  <1> DEFINE b == Graph(p)
  <1>1. /\ b.typ = Current(p).typ /\ b.typ \in {"CL", "QL", "QC"}
        /\ b.typ = "QC" => /\ b.pairs = Request(p).pairs /\ b.sequential = Request(p).sequential
    BY BlockFacts DEF CallInv
  <1>2. b.typ # "CL"
    BY <1>1, TasksByType, TaskNames
  <1>3. b.typ = "QC" => b.pairs \in Nat \ {0}
    BY <1>1, CallNames
  <1>4. \A t \in done[p] : t \in TasksOf(b) /\ PredsOf(b, t) \subseteq done[p]
    BY DEF CallInv, DoneInOrder
  <1>5. \A t \in done[p] : t = Routine \/ t[1] \in EprKinds \/ IsCallback(t) => Pre \in done[p]
    BY <1>4, PreComesFirst DEF CallInv
  <1> HIDE DEF b
  <1>6. Post \notin QuantumTasks(b) /\ ~ IsCallback(Post)
    BY TaskNames DEF QuantumTasks, Pair, PairCb, Post, Multi, MultiCb, Routine
  <1>7. PredsOf(b, Post) = IF b.typ = "QC" /\ b.callback
                           THEN {q \in QuantumTasks(b) : IsCallback(q)} ELSE QuantumTasks(b)
    BY <1>6 DEF PredsOf
  <1>8. PredsOf(b, Post) \subseteq done[p]
    BY DEF b
  <1>9. CASE b.typ = "QL"
    <2>1. Routine \in done[p]
      BY <1>7, <1>8, <1>9 DEF QuantumTasks
    <2> QED BY <1>1, <1>5, <1>9, <2>1
  <1>10. CASE b.typ = "QC" /\ b.sequential
    <2>1. 1 \in 1..b.pairs
      BY <1>3, <1>10
    <2>2. Pair(1) \in done[p] \/ PairCb(1) \in done[p]
      BY <1>7, <1>8, <1>10, <2>1, TaskNames DEF QuantumTasks
    <2> QED BY <1>1, <1>5, <1>10, <2>2, TaskNames
  <1>11. CASE b.typ = "QC" /\ ~ b.sequential
    <2>1. Multi \in done[p] \/ MultiCb \in done[p]
      BY <1>7, <1>8, <1>11, TaskNames DEF QuantumTasks
    <2>2. MultiCb \in done[p] => Multi \in done[p]
      <3>1. PredsOf(b, MultiCb) = {Multi}
        BY TaskNames DEF PredsOf
      <3> QED BY <1>4, <3>1
    <2> QED BY <1>1, <1>5, <1>11, <2>1, <2>2, TaskNames
  <1> QED BY <1>1, <1>2, <1>9, <1>10, <1>11

\* A slice from an index that is not negative is not counted from the end.
LEMMA SliceFromStart ==
    ASSUME NEW mem, NEW a, mem[a].data \in Seq(Int \cup {Unset}),
           NEW offset \in Nat, NEW size \in Nat, offset + size <= Len(mem[a].data)
    PROVE  /\ Len(DataAt(mem, a, offset, size)) = size
           /\ DOMAIN DataAt(mem, a, offset, size) = 1..size
           /\ \A i \in 1..size : DataAt(mem, a, offset, size)[i] = mem[a].data[offset + i]
  <1>1. PICK d : d = mem[a].data
    OBVIOUS
  <1>2. PICK n \in Nat : d \in Seq(Int \cup {Unset}) /\ Len(d) = n /\ offset + size <= n
    BY <1>1
  <1>3. Bound(n, offset) = offset /\ Bound(n, offset + size) = offset + size
    BY DEF Bound
  <1>4. DataAt(mem, a, offset, size) = SubSeq(d, offset + 1, offset + size)
    BY <1>1, <1>2, <1>3 DEF DataAt
  <1>5. PICK s : s = SubSeq(d, offset + 1, offset + size)
    OBVIOUS
  <1>6. Len(s) = size /\ DOMAIN s = 1..size /\ \A i \in 1..size : s[i] = d[offset + i]
    <2>1. offset + 1 \in 1..(Len(d) + 1) /\ offset + size \in offset..Len(d)
      BY <1>2
    <2>2. /\ Len(s) = (offset + size) - (offset + 1) + 1 /\ DOMAIN s = 1..Len(s)
          /\ \A i \in 1..Len(s) : s[i] = d[(offset + 1) + i - 1]
      BY <1>2, <1>5, <2>1
    <2>3. (offset + size) - (offset + 1) + 1 = size
          /\ \A i \in 1..size : (offset + 1) + i - 1 = offset + i
      OBVIOUS
    <2> QED BY <2>2, <2>3
  <1> QED BY <1>1, <1>4, <1>5, <1>6

\* An array of the right region and size whose slots are all written can be read.
LEMMA ReadFits ==
    ASSUME NEW S, NEW mem \in Seq(S), NEW a \in 1..Len(mem), IsArray(mem[a]),
           NEW region, NEW n \in Nat, IsOf(mem[a], region, n)
    PROVE  /\ Len(mem[a].data) = n /\ a \in DOMAIN mem
           /\ Written(mem[a]) <=> LegalRead(mem, a, region, 0, n)
           /\ \A i \in 1..n : mem[a].data[i] # Unset => mem[a].data[i] \in Int
  <1>1. PICK d : d = mem[a].data
    OBVIOUS
  <1>2. d \in [1..n -> Int \cup {Unset}]
    BY <1>1 DEF IsArray, IsOf
  <1>3. Len(d) = n
    BY <1>2
  <1>4. a \in DOMAIN mem
    OBVIOUS
  <1>5. Written(mem[a]) <=> LegalRead(mem, a, region, 0, n)
    <2>1. 0 + n = n /\ \A i \in 1..n : 0 + i = i
      OBVIOUS
    <2>2. /\ DOMAIN DataAt(mem, a, 0, n) = 1..n
          /\ \A i \in 1..n : DataAt(mem, a, 0, n)[i] = mem[a].data[i]
      <3>1. PICK zero \in Nat : zero = 0 /\ zero + n <= n
        OBVIOUS
      <3>2. mem[a].data \in Seq(Int \cup {Unset}) /\ zero + n <= Len(mem[a].data)
        BY <1>1, <1>2, <1>3, <3>1
      <3>3. /\ Len(DataAt(mem, a, zero, n)) = n
            /\ DOMAIN DataAt(mem, a, zero, n) = 1..n
            /\ \A i \in 1..n : DataAt(mem, a, zero, n)[i] = mem[a].data[zero + i]
        BY ONLY n \in Nat, zero \in Nat, <3>2, SliceFromStart
      <3> QED BY <2>1, <3>1, <3>3
    <2>3. Legal(mem, a, region, 0, n) /\ DOMAIN mem[a].data = 1..n
      BY <1>1, <1>2, <1>3, <1>4, <2>1 DEF Legal, IsOf
    <2> QED BY <2>2, <2>3 DEF LegalRead, Written
  <1> QED BY <1>1, <1>2, <1>3, <1>4, <1>5

\* A sequence with an element before it.
LEMMA Prefixed ==
    ASSUME NEW n \in Nat, NEW rest, rest = [k \in 1..n |-> rest[k]], NEW first
    PROVE  LET all == <<first>> \o rest
           IN  /\ Len(all) = n + 1 /\ DOMAIN all = 1..(n + 1) /\ all[1] = first
               /\ \A k \in 1..n : all[k + 1] = rest[k]
  <1>1. PICK one : one = <<first>>
    OBVIOUS
  <1>2. one \in Seq({first}) /\ Len(one) = 1 /\ one[1] = first
    BY <1>1
  <1>3. PICK T : rest \in Seq(T) /\ Len(rest) = n
    <2>1. Len(rest) = n /\ \E T : rest \in Seq(T)
      BY FunctionIsSequence
    <2> QED BY <2>1
  <1>4. PICK A : one \in Seq(A)
    BY <1>2
  <1>5. /\ one \o rest \in Seq(A \cup T) /\ Len(one \o rest) = Len(one) + Len(rest)
        /\ \A i \in 1..Len(one) : (one \o rest)[i] = one[i]
    BY <1>3, <1>4, Concatenated
  <1>6. \A i \in 1..Len(rest) : (one \o rest)[Len(one) + i] = rest[i]
    BY <1>3, <1>4, SecondPart
  <1>7. DOMAIN (one \o rest) = 1..Len(one \o rest)
    BY <1>5
  <1>8. 1 + n = n + 1 /\ \A k \in 1..n : 1 + k = k + 1
    OBVIOUS
  <1> QED BY <1>1, <1>2, <1>3, <1>5, <1>6, <1>7, <1>8

\* The arrays that the host reads are those of the call.
LEMMA ResultArraysFit ==
    ASSUME PlaceInv, ValuesOK, ArraysFit, NEW p \in Pids, ~ Ended(p), Pre \in done[p]
    PROVE  /\ \A i \in DOMAIN ResultArrays(p) :
                 LET a == ResultArrays(p)[i]
                 IN  /\ a.at \in 1..Len(shared[p]) /\ a.size \in Nat
                     /\ IsOf(shared[p][a.at], a.region, a.size)
           /\ Current(p).typ = "QL" =>
                 /\ Len(ResultArrays(p)) = 1 /\ DOMAIN ResultArrays(p) = 1..1
                 /\ ResultArrays(p)[1] = [at |-> CallOf(p).result, region |-> "LR_out", size |-> ReturnSize(p)]
           /\ Current(p).typ = "QC" =>
                 LET n == CallbackCount(Request(p))
                 IN  /\ Len(ResultArrays(p)) = n + 1 /\ DOMAIN ResultArrays(p) = 1..(n + 1)
                     /\ ResultArrays(p)[1] =
                           [at |-> CallOf(p).result, region |-> "RR_out", size |-> Request(p).returns]
                     /\ \A i \in 1..n : ResultArrays(p)[i + 1] =
                           [at |-> CallOf(p).cbOut[i], region |-> "LR_out",
                            size |-> CallbackReturns(Request(p))]
  <1>1. PreBegun(p) /\ Made(p, ptr[p]) /\ CallAt(p, ptr[p]) = CallOf(p)
    BY DEF PlaceInv, CallInv, CallIsLeft, PreBegun, Made, CallAt, CallOf
  <1>2. Addresses(CallOf(p)) \subseteq 1..Len(shared[p])
    BY <1>1, AddressesOfCalls
  <1>3. CallInv /\ Current(p).typ # "CL" /\ Current(p).typ \in {"CL", "QL", "QC"}
    BY <1>1, BlockFacts DEF PlaceInv, CallInv, ArraysFit
  <1>4. CASE Current(p).typ = "QL"
    <2>1. PICK a : a = [at |-> CallOf(p).result, region |-> "LR_out", size |-> ReturnSize(p)]
      OBVIOUS
    <2>2. ResultArrays(p) = <<a>>
      BY <1>4, <2>1 DEF ResultArrays
    <2>3. Len(<<a>>) = 1 /\ DOMAIN <<a>> = 1..1 /\ <<a>>[1] = a
      OBVIOUS
    <2>4. /\ a.at = CallOf(p).result /\ a.region = "LR_out" /\ a.size = ReturnSize(p)
      BY <2>1
    <2>5. a.at \in 1..Len(shared[p]) /\ a.size \in Nat
      BY <1>2, <1>3, <2>4, CallNames DEF Addresses
    <2>6. IsOf(shared[p][a.at], a.region, a.size)
      BY <1>1, <1>4, <2>4 DEF ArraysFit
    <2>7. \A i \in DOMAIN ResultArrays(p) : ResultArrays(p)[i] = a
      BY <2>2, <2>3
    <2> QED BY <1>4, <2>1, <2>2, <2>3, <2>5, <2>6, <2>7
  <1>5. CASE Current(p).typ = "QC"
    <2> DEFINE n == CallbackCount(Request(p))
               rest == [i \in 1..n |-> [at |-> CallOf(p).cbOut[i], region |-> "LR_out",
                                        size |-> CallbackReturns(Request(p))]]
    <2>1. PICK a : a = [at |-> CallOf(p).result, region |-> "RR_out", size |-> Request(p).returns]
      OBVIOUS
    <2>2. ResultArrays(p) = <<a>> \o rest
      BY <1>5, <2>1 DEF ResultArrays
    <2>3. /\ n \in Nat /\ DOMAIN CallOf(p).cbOut = 1..n
          /\ Request(p).returns \in Nat /\ CallbackReturns(Request(p)) \in Nat
      BY <1>1, <1>3, <1>5, CallNames DEF PlaceInv, CallFits
    <2>4. rest = [k \in 1..n |-> rest[k]]
      OBVIOUS
    <2>5. \A i \in 1..n : rest[i] = [at |-> CallOf(p).cbOut[i], region |-> "LR_out",
                                     size |-> CallbackReturns(Request(p))]
      OBVIOUS
    <2>6. a.at = CallOf(p).result /\ a.region = "RR_out" /\ a.size = Request(p).returns
      BY <2>1
    <2>7. /\ a.at \in 1..Len(shared[p]) /\ a.size \in Nat
          /\ IsOf(shared[p][a.at], a.region, a.size)
      BY <1>1, <1>2, <1>5, <2>3, <2>6 DEF Addresses, ArraysFit
    <2>8. \A i \in 1..n : /\ rest[i].at \in 1..Len(shared[p]) /\ rest[i].size \in Nat
                          /\ IsOf(shared[p][rest[i].at], rest[i].region, rest[i].size)
      <3> TAKE i \in 1..n
      <3>1. /\ rest[i].at = CallOf(p).cbOut[i] /\ rest[i].region = "LR_out"
            /\ rest[i].size = CallbackReturns(Request(p))
        OBVIOUS
      <3>2. CallOf(p).cbOut[i] \in 1..Len(shared[p])
        BY <1>2, <2>3 DEF Addresses
      <3> HIDE DEF rest, n
      <3>3. IsOf(shared[p][CallOf(p).cbOut[i]], "LR_out", CallbackReturns(Request(p)))
        BY <1>1, <1>5 DEF ArraysFit, n
      <3> QED BY <2>3, <3>1, <3>2, <3>3
    <2> HIDE DEF rest
    <2>9. /\ Len(<<a>> \o rest) = n + 1 /\ DOMAIN (<<a>> \o rest) = 1..(n + 1)
          /\ (<<a>> \o rest)[1] = a /\ \A k \in 1..n : (<<a>> \o rest)[k + 1] = rest[k]
      <3> HIDE DEF n
      <3> QED BY <2>3, <2>4, Prefixed
    <2>10. PICK all : all = <<a>> \o rest
      OBVIOUS
    <2>11. \A i \in 1..(n + 1) : i = 1 \/ (i - 1 \in 1..n /\ (i - 1) + 1 = i)
      <3> HIDE DEF n
      <3> QED BY <2>3
    <2>12. \A i \in DOMAIN all : /\ all[i].at \in 1..Len(shared[p]) /\ all[i].size \in Nat
                                 /\ IsOf(shared[p][all[i].at], all[i].region, all[i].size)
      <3> TAKE i \in DOMAIN all
      <3>1. i = 1 \/ (i - 1 \in 1..n /\ (i - 1) + 1 = i)
        BY <2>9, <2>10, <2>11
      <3>2. all[i] = a \/ \E k \in 1..n : all[i] = rest[k]
        BY <2>9, <2>10, <3>1
      <3> HIDE DEF n
      <3> QED BY <2>7, <2>8, <3>2
    <2> QED BY <1>5, <2>1, <2>2, <2>5, <2>9, <2>10, <2>12
  <1> QED BY <1>3, <1>4, <1>5

\* The arrays that a PostCall finds are legal to read, but for a routine that left a
\* result out or a request that is declared wrongly.
LEMMA PostCallReads ==
    ASSUME PlaceInv, ValuesOK, ArraysFit, OutcomesWritten, NEW p \in Pids, ~ Ended(p),
           Post \in TasksOf(Graph(p)), PredsOf(Graph(p), Post) \subseteq done[p],
           ~ LeavesOut(p), Current(p).typ = "QC" => WellDeclared(Request(p)),
           NEW i \in DOMAIN ResultArrays(p)
    PROVE  LET a == ResultArrays(p)[i] IN LegalRead(shared[p], a.at, a.region, 0, a.size)
  <1> DEFINE a == ResultArrays(p)[i]
  <1>1. /\ Current(p).typ \in {"QL", "QC"} /\ Pre \in done[p]
        /\ Current(p).typ = "QC" /\ ~ Request(p).sequential => Multi \in done[p]
    BY PostFacts, BlockFacts DEF PlaceInv, CallInv
  <1>2. a.at \in 1..Len(shared[p]) /\ a.size \in Nat /\ IsOf(shared[p][a.at], a.region, a.size)
    BY <1>1, ResultArraysFit
  <1>3. Written(shared[p][a.at])
    <2>1. CASE Current(p).typ = "QL"
      <3>1. /\ DOMAIN ResultArrays(p) = 1..1
            /\ ResultArrays(p)[1] = [at |-> CallOf(p).result, region |-> "LR_out", size |-> ReturnSize(p)]
        BY <1>1, <2>1, ResultArraysFit
      <3>2. a = [at |-> CallOf(p).result, region |-> "LR_out", size |-> ReturnSize(p)]
        BY <3>1
      <3>3. a.at = CallOf(p).result
        BY <3>2
      <3> QED BY <2>1, <3>3 DEF LeavesOut
    <2>2. CASE Current(p).typ = "QC"
      <3> DEFINE n == CallbackCount(Request(p))
      <3>1. /\ DOMAIN ResultArrays(p) = 1..(n + 1) /\ n \in Nat
            /\ ResultArrays(p)[1] = [at |-> CallOf(p).result, region |-> "RR_out", size |-> Request(p).returns]
            /\ \A k \in 1..n : ResultArrays(p)[k + 1] =
                  [at |-> CallOf(p).cbOut[k], region |-> "LR_out", size |-> CallbackReturns(Request(p))]
        <4>1. n \in Nat
          BY <2>2, CallNames DEF PlaceInv
        <4> QED BY <1>1, <2>2, <4>1, ResultArraysFit
      <3>2. DOMAIN CallOf(p).cbOut = 1..n
        BY <1>1, <2>2 DEF PlaceInv, CallFits, PreBegun
      <3> HIDE DEF n
      <3>3. i = 1 \/ (i - 1 \in 1..n /\ (i - 1) + 1 = i)
        BY <3>1
      <3>4. CASE i = 1
        <4>1. a.at = CallOf(p).result /\ a.size = Request(p).returns
          <5>1. a = [at |-> CallOf(p).result, region |-> "RR_out", size |-> Request(p).returns]
            BY <3>1, <3>4
          <5> QED BY <5>1
        <4>2. CASE Request(p).measure /\ ~ Request(p).sequential
          BY <1>1, <2>2, <4>1, <4>2 DEF OutcomesWritten
        <4>3. CASE ~ (Request(p).measure /\ ~ Request(p).sequential)
          <5>1. a.size = 0
            BY <2>2, <4>1, <4>3 DEF WellDeclared
          <5>2. DOMAIN shared[p][a.at].data = 1..0
            BY <1>2, <5>1 DEF IsOf
          <5> HIDE DEF a
          <5> QED BY <5>2 DEF Written
        <4> QED BY <4>2, <4>3
      <3>5. CASE i - 1 \in 1..n /\ (i - 1) + 1 = i
        <4>1. /\ a = [at |-> CallOf(p).cbOut[i - 1], region |-> "LR_out", size |-> CallbackReturns(Request(p))]
              /\ i - 1 \in DOMAIN CallOf(p).cbOut
          BY <3>1, <3>2, <3>5
        <4> HIDE DEF a
        <4>2. a.at = CallOf(p).cbOut[i - 1]
          BY <4>1
        <4> QED BY <2>2, <4>1, <4>2 DEF LeavesOut
      <3> QED BY <3>3, <3>4, <3>5
    <2> QED BY <1>1, <2>1, <2>2
  <1>4. PICK S : shared[p] \in Seq(S)
    BY DEF PlaceInv, MemoryGrows
  <1>5. IsArray(shared[p][a.at])
    BY <1>2 DEF ValuesOK
  <1>6. PICK mem, at, region, size :
            mem = shared[p] /\ at = a.at /\ region = a.region /\ size = a.size
    OBVIOUS
  <1> HIDE DEF a
  <1>7. LegalRead(mem, at, region, 0, size)
    BY <1>2, <1>3, <1>4, <1>5, <1>6, ReadFits
  <1> QED BY <1>6, <1>7 DEF a

\* A position in n vectors of k values each is in one of them.
LEMMA SlotOf ==
    ASSUME NEW n \in Nat, NEW c \in Nat, NEW d \in Nat, d < n * c
    PROVE  n >= 1 /\ c >= 1 /\ d \div c \in 0..(n - 1) /\ (d % c) + 1 \in 1..c
  <1>1. c >= 1 /\ n >= 1
    <2>1. c # 0 /\ n # 0
      OBVIOUS
    <2> QED BY <2>1
  <1>2. PICK q, r : q = d \div c /\ r = d % c
    OBVIOUS
  <1>3. q \in Nat /\ r \in 0..(c - 1) /\ d = c * q + r
    BY <1>1, <1>2
  <1>4. q <= n - 1
    <2> SUFFICES ASSUME q >= n PROVE FALSE
      BY <1>1, <1>3
    <2>1. PICK more \in Nat : q = n + more
      <3>1. q - n \in Nat /\ q = n + (q - n)
        BY <1>3
      <3> QED BY <3>1
    <2>2. c * q = n * c + c * more
      BY <2>1
    <2>3. c * more \in Nat /\ n * c \in Nat
      BY <2>1
    <2> QED BY <1>3, <2>2, <2>3
  <1> QED BY <1>1, <1>2, <1>3, <1>4

\* What the host collects is integers.
LEMMA CollectedValues ==
    ASSUME PlaceInv, ValuesOK, ArraysFit, NEW p \in Pids, ~ Ended(p), Pre \in done[p],
           \A i \in DOMAIN ResultArrays(p) :
              LET a == ResultArrays(p)[i] IN LegalRead(shared[p], a.at, a.region, 0, a.size)
    PROVE  Collected(p) \in Seq(Int) /\ Collected(p) \in [1..ReturnSize(p) -> Int]
  <1> DEFINE arrays == ResultArrays(p)
             own == arrays[1].size
             each == IF Len(arrays) > 1 THEN arrays[2].size ELSE 1
             at(k) == IF k <= own THEN shared[p][arrays[1].at].data[k]
                      ELSE shared[p][arrays[2 + (k - own - 1) \div each].at].data[((k - own - 1) % each) + 1]
  <1>1. Current(p).typ \in {"QL", "QC"} /\ ReturnSize(p) \in Nat
    <2>1. PreBegun(p)
      BY DEF PreBegun
    <2>2. Current(p).typ # "CL"
      BY <2>1 DEF ArraysFit
    <2> QED BY <2>2, BlockFacts, CallNames DEF PlaceInv, CallInv
  <1>2. \A i \in DOMAIN arrays : \A j \in 1..arrays[i].size : shared[p][arrays[i].at].data[j] \in Int
    <2> SUFFICES ASSUME NEW i \in DOMAIN arrays, NEW j \in 1..arrays[i].size
                 PROVE  shared[p][arrays[i].at].data[j] \in Int
      OBVIOUS
    <2>1. PICK mem, adr, region, size :
              mem = shared[p] /\ adr = arrays[i].at /\ region = arrays[i].region /\ size = arrays[i].size
      OBVIOUS
    <2>2. adr \in 1..Len(mem) /\ size \in Nat /\ IsOf(mem[adr], region, size)
      BY <1>1, <2>1, ResultArraysFit
    <2>3. IsArray(mem[adr])
      BY <2>1, <2>2 DEF ValuesOK
    <2>4. PICK S : mem \in Seq(S)
      BY <2>1 DEF PlaceInv, MemoryGrows
    <2>5. \A k \in 1..size : mem[adr].data[k] # Unset => mem[adr].data[k] \in Int
      BY <2>2, <2>3, <2>4, ReadFits
    <2>6. LegalRead(mem, adr, region, 0, size)
      BY <2>1
    <2> HIDE DEF arrays
    <2>7. \A k \in 1..size : mem[adr].data[k] # Unset
      <3>1. Written(mem[adr])
        BY <2>2, <2>3, <2>4, <2>6, ReadFits
      <3> QED BY <2>2, <3>1 DEF Written, IsOf
    <2> QED BY <2>1, <2>5, <2>7
  <1>3. Collected(p) = [k \in 1..ReturnSize(p) |-> at(k)]
    BY DEF Collected
  <1>4. ASSUME NEW k \in 1..ReturnSize(p) PROVE at(k) \in Int
    <2>1. CASE Current(p).typ = "QL"
      <3>1. /\ DOMAIN arrays = 1..1
            /\ arrays[1] = [at |-> CallOf(p).result, region |-> "LR_out", size |-> ReturnSize(p)]
        BY <1>1, <2>1, ResultArraysFit
      <3>2. own = ReturnSize(p)
        BY <3>1
      <3> HIDE DEF arrays
      <3>3. k <= own /\ k \in 1..own /\ 1 \in DOMAIN arrays
        BY <1>1, <3>1, <3>2
      <3> QED BY <1>2, <3>3
    <2>2. CASE Current(p).typ = "QC"
      <3> DEFINE n == CallbackCount(Request(p))
                 c == CallbackReturns(Request(p))
      <3>1. /\ Len(arrays) = n + 1 /\ DOMAIN arrays = 1..(n + 1)
            /\ arrays[1] = [at |-> CallOf(p).result, region |-> "RR_out", size |-> Request(p).returns]
            /\ \A i \in 1..n : arrays[i + 1] =
                  [at |-> CallOf(p).cbOut[i], region |-> "LR_out", size |-> CallbackReturns(Request(p))]
        BY <1>1, <2>2, ResultArraysFit
      <3>2. n \in Nat /\ c \in Nat /\ Request(p).returns \in Nat /\ own = Request(p).returns
        <4>1. own = Request(p).returns
          BY <3>1
        <4> QED BY <2>2, <4>1, CallNames DEF PlaceInv
      <3>3. ReturnSize(p) = own + n * c
        BY <2>2, <3>2 DEF ReturnSize
      <3>4. ASSUME NEW i \in 1..n PROVE arrays[i + 1].size = c
        <4>1. arrays[i + 1] = [at |-> CallOf(p).cbOut[i], region |-> "LR_out",
                               size |-> CallbackReturns(Request(p))]
          BY <3>1
        <4> HIDE DEF arrays
        <4> QED BY <4>1
      <3>5. n >= 1 => each = c
        <4>1. ASSUME n >= 1 PROVE each = c
          <5>1. 1 \in 1..n /\ 1 + 1 = 2 /\ n + 1 > 1
            <6> HIDE DEF n
            <6> QED BY <3>2, <4>1
          <5>2. arrays[2].size = c /\ Len(arrays) > 1
            BY <3>1, <3>4, <5>1
          <5> QED BY <5>2
        <4> QED BY <4>1
      <3> HIDE DEF n, c, arrays, own, each
      <3>6. CASE k <= own
        <4>1. k \in 1..own /\ 1 \in DOMAIN arrays /\ own = arrays[1].size
          BY <1>1, <3>1, <3>2, <3>6 DEF own
        <4>2. shared[p][arrays[1].at].data[k] \in Int
          BY <1>2, <4>1
        <4> QED BY <3>6, <4>2
      <3>7. CASE ~ (k <= own)
        <4>1. n * c \in Nat
          BY <3>2
        <4>2. k - own - 1 \in Nat /\ k - own - 1 < n * c
          BY <1>1, <3>2, <3>3, <3>7, <4>1
        <4>3. PICK d : d = k - own - 1
          OBVIOUS
        <4>4. n >= 1 /\ d \div c \in 0..(n - 1) /\ (d % c) + 1 \in 1..c
          BY <3>2, <4>2, <4>3, SlotOf
        <4>5. PICK q : q = d \div c
          OBVIOUS
        <4>6. q + 1 \in 1..n /\ (q + 1) + 1 = 2 + q /\ 2 + q \in 1..(n + 1)
          BY <3>2, <4>4, <4>5
        <4>7. arrays[2 + q].size = c /\ 2 + q \in DOMAIN arrays
          BY <3>1, <3>4, <4>6
        <4>8. shared[p][arrays[2 + q].at].data[(d % c) + 1] \in Int
          BY <1>2, <4>4, <4>7
        <4> QED BY <3>5, <3>7, <4>3, <4>4, <4>5, <4>8
      <3> QED BY <3>6, <3>7
    <2> QED BY <1>1, <2>1, <2>2
  <1> HIDE DEF at
  <1>5. Collected(p) \in [1..ReturnSize(p) -> Int]
    BY <1>3, <1>4
  <1> QED BY <1>1, <1>5

\* A set of numbers that is not empty has a last element.
LEMMA LastOfSet ==
    ASSUME NEW n \in Nat, NEW S \in SUBSET (1..n), S # {}
    PROVE  \E i \in S : \A j \in S : j <= i
  <1>1. IsFiniteSet(S) /\ Cardinality(S) \in Nat \ {0}
    <2>1. IsFiniteSet(1..n)
      BY FS_Interval
    <2>2. IsFiniteSet(S)
      BY <2>1, FS_Subset
    <2> QED BY <2>2, FS_CardinalityType, FS_EmptySet
  <1>2. Cardinality(S) \in 1..Cardinality(S)
    BY <1>1
  <1>3. PICK i \in S : Cardinality({j \in S : j <= i}) = Cardinality(S)
    BY <1>2, NthOfSet
  <1>4. {j \in S : j <= i} \in SUBSET S
    OBVIOUS
  <1>5. {j \in S : j <= i} = S
    BY <1>1, <1>3, <1>4, FS_Subset
  <1> QED BY <1>5

\* A PostCall gives the host integers, or raises because of a mistake.
LEMMA PostCallValues ==
    ASSUME PlaceInv, ValuesOK, ArraysFit, OutcomesWritten, NEW p \in Pids, PostCall(p)
    PROVE  /\ host' \in [Pids -> [Vars -> Seq(Int)]]
           /\ fault' => OwnMistake
  <1> DEFINE ok == \A i \in DOMAIN ResultArrays(p) :
                      LET a == ResultArrays(p)[i] IN LegalRead(shared[p], a.at, a.region, 0, a.size)
             results == Current(p).results
             last(v) == CHOOSE k \in DOMAIN results :
                            results[k] = v /\ \A j \in DOMAIN results : results[j] = v => j <= k
             spread == [v \in Vars |-> IF \E k \in DOMAIN results : results[k] = v
                                       THEN <<Collected(p)[last(v)]>> ELSE host[p][v]]
  <1>1. /\ CpuMayStart(p, Post) /\ fault' = ~ ok
        /\ host' = IF ~ ok THEN host
                   ELSE IF Current(p).shape = "vector"
                   THEN [host EXCEPT ![p][results[1]] = Collected(p)]
                   ELSE [host EXCEPT ![p] = spread]
    BY DEF PostCall
  <1>2. /\ ~ Ended(p) /\ Post \in TasksOf(Graph(p)) /\ PredsOf(Graph(p), Post) \subseteq done[p]
    BY <1>1 DEF CpuMayStart, Ready, Graph
  <1>3. Current(p).typ # "CL" /\ Pre \in done[p]
    BY <1>2, PostFacts DEF PlaceInv
  <1>4. fault' => OwnMistake
    <2> SUFFICES ASSUME ~ OwnMistake PROVE ok
      BY <1>1
    <2>1. ~ LeavesOut(p) /\ (Current(p).typ = "QC" => WellDeclared(Request(p)))
      BY DEF OwnMistake
    <2> QED BY <1>2, <2>1, PostCallReads
  <1>5. ASSUME ok PROVE Collected(p) \in Seq(Int) /\ Collected(p) \in [1..ReturnSize(p) -> Int]
    BY <1>2, <1>3, <1>5, CollectedValues
  <1>6. ASSUME ok, Current(p).shape # "vector" PROVE spread \in [Vars -> Seq(Int)]
    <2>1. Len(results) \in Nat /\ DOMAIN results = 1..Len(results)
      BY <1>2, <1>3, CallNames DEF PlaceInv, IsSequence
    <2>2. ReturnSize(p) = Len(results)
      <3>1. ResultSize(Current(p)) = ReturnSize(p)
        BY <1>2, <1>3 DEF ArraysFit, PreBegun
      <3> QED BY <1>6, <3>1 DEF ResultSize
    <2>3. ASSUME NEW v, \E k \in DOMAIN results : results[k] = v PROVE last(v) \in DOMAIN results
      <3> DEFINE S == {k \in DOMAIN results : results[k] = v}
      <3>1. S \in SUBSET (1..Len(results)) /\ S # {}
        BY <2>1, <2>3
      <3>2. PICK k \in S : \A j \in S : j <= k
        <4> HIDE DEF S
        <4> QED BY <2>1, <3>1, LastOfSet
      <3>3. \E i \in DOMAIN results : results[i] = v /\ \A j \in DOMAIN results : results[j] = v => j <= i
        BY <3>2
      <3> HIDE DEF results
      <3> QED BY <3>3
    <2> HIDE DEF last, results
    <2>4. \A v : (\E k \in DOMAIN results : results[k] = v) => Collected(p)[last(v)] \in Int
      BY <1>5, <1>6, <2>1, <2>2, <2>3
    <2>5. \A v \in Vars : host[p][v] \in Seq(Int)
      BY DEF ValuesOK
    <2>6. \A x \in Int : <<x>> \in Seq(Int)
      OBVIOUS
    <2> QED BY <2>4, <2>5, <2>6
  <1> HIDE DEF ok, spread, results
  <1>7. host' \in [Pids -> [Vars -> Seq(Int)]]
    <2>1. CASE ~ ok
      BY <1>1, <2>1 DEF ValuesOK
    <2>2. CASE ok /\ Current(p).shape = "vector"
      BY <1>1, <1>5, <2>2 DEF ValuesOK
    <2>3. CASE ok /\ Current(p).shape # "vector"
      BY <1>1, <1>6, <2>3 DEF ValuesOK
    <2> QED BY <2>1, <2>2, <2>3
  <1> QED BY <1>4, <1>7

\* The addresses that the running routine was given.
LEMMA RoutineArrays ==
    ASSUME PlaceInv, ArraysFit, RoutineHasQubits, qpu.doing = "code"
    PROVE  LET p == qpu.pid
           IN  /\ p \in Pids /\ ~ Ended(p) /\ Pre \in done[p]
               /\ LocalRoutine[qpu.routine].returns \in Nat
               /\ Running.result \in DOMAIN shared[p]
               /\ IsOf(shared[p][Running.result], "LR_out", LocalRoutine[qpu.routine].returns)
               /\ ~ IsCallback(qpu.task) =>
                     /\ qpu.task = Routine /\ Current(p).typ = "QL"
                     /\ Running.input = CallOf(p).input /\ Running.result = CallOf(p).result
                     /\ Running.input \in DOMAIN shared[p]
                     /\ IsOf(shared[p][Running.input], "LR_in", ArgCount(Current(p).args))
                     /\ Written(shared[p][Running.input])
               /\ IsCallback(qpu.task) =>
                     LET i == CallbackIndex(qpu.task)
                     IN  /\ Current(p).typ = "QC" /\ i \in 1..CallbackCount(Request(p))
                         /\ DOMAIN CallOf(p).cbOut = 1..CallbackCount(Request(p))
                         /\ qpu.task \in {MultiCb, PairCb(i)} /\ Running.result = CallOf(p).cbOut[i]
  <1> DEFINE p == qpu.pid
             i == CallbackIndex(qpu.task)
             returns == LocalRoutine[qpu.routine].returns
  <1>1. /\ p \in Pids /\ ~ Ended(p) /\ qpu.task \in TasksOf(Graph(p)) /\ Pre \in done[p]
        /\ qpu.task = Routine \/ IsCallback(qpu.task)
    BY ExecutedFacts DEF PlaceInv, CallInv, QpuOK, IsExecuted
  <1>2. Made(p, ptr[p])
    BY <1>1 DEF PlaceInv, CallInv, CallIsLeft, PreBegun, Made
  <1>3. /\ qpu.routine \in RoutineNames /\ returns \in Nat
        /\ Running = IF IsCallback(qpu.task) THEN RunOf(CallOf(p).cbIn[i], CallOf(p).cbOut[i])
                     ELSE RunOf(CallOf(p).input, CallOf(p).result)
        /\ qpu.routine = RoutineOf(p, qpu.task)
    BY HostAssumption, NamesAssumption DEF PlaceInv, CallInv, CodeIsCurrent, RoutineHasQubits
  <1>4. \E S : shared[p] \in Seq(S)
    BY <1>1 DEF PlaceInv, MemoryGrows
  <1>5. DOMAIN shared[p] = 1..Len(shared[p]) /\ Addresses(CallOf(p)) \subseteq 1..Len(shared[p])
    BY <1>1, <1>2, <1>4, AddressesOfCalls DEF CallAt, CallOf
  <1>6. PreBegun(p)
    BY <1>1 DEF PreBegun
  <1>7. CASE ~ IsCallback(qpu.task)
    <2>1. Current(p).typ = "QL"
      BY <1>1, <1>7, BlockFacts, TasksByType DEF PlaceInv, CallInv
    <2>2. Running.input = CallOf(p).input /\ Running.result = CallOf(p).result
      BY <1>3, <1>7 DEF RunOf, NotRunning
    <2>3. CallOf(p).input \in DOMAIN shared[p] /\ CallOf(p).result \in DOMAIN shared[p]
      BY <1>5 DEF Addresses
    <2>4. ReturnSize(p) = returns
      BY <1>3, <1>7, <2>1 DEF RoutineOf, ReturnSize
    <2>5. /\ IsOf(shared[p][CallOf(p).input], "LR_in", ArgCount(Current(p).args))
          /\ Written(shared[p][CallOf(p).input])
          /\ IsOf(shared[p][CallOf(p).result], "LR_out", ReturnSize(p))
      BY <1>1, <1>6, <2>1 DEF ArraysFit
    <2> QED BY <1>1, <1>3, <1>7, <2>1, <2>2, <2>3, <2>4, <2>5
  <1>8. CASE IsCallback(qpu.task)
    <2>1. Current(p).typ = "QC" /\ Graph(p).callback
      BY <1>1, <1>8, BlockFacts, TasksByType DEF PlaceInv, CallInv
    <2>2. i \in 1..CallbackCount(Request(p)) /\ qpu.task \in {MultiCb, PairCb(i)}
      BY <1>1, <1>8, <2>1, CallbackHasSlot DEF PlaceInv
    <2>3. DOMAIN CallOf(p).cbOut = 1..CallbackCount(Request(p))
      BY <1>1, <1>6, <2>1 DEF PlaceInv, CallFits
    <2>4. Running.result = CallOf(p).cbOut[i]
      BY <1>3, <1>8 DEF RunOf, NotRunning
    <2>5. CallOf(p).cbOut[i] \in DOMAIN shared[p]
      BY <1>5, <2>2, <2>3 DEF Addresses
    <2>6. CallbackReturns(Request(p)) = returns
      <3>1. Request(p).callback # NoRoutine
        BY <1>1, <2>1, BlockFacts DEF PlaceInv, CallInv
      <3> QED BY <1>3, <1>8, <3>1 DEF RoutineOf, CallbackReturns
    <2>7. IsOf(shared[p][CallOf(p).cbOut[i]], "LR_out", CallbackReturns(Request(p)))
      BY <1>1, <1>6, <2>1, <2>2 DEF ArraysFit
    <2> QED BY <1>1, <1>3, <1>8, <2>1, <2>2, <2>3, <2>4, <2>5, <2>6, <2>7
  <1> QED BY <1>7, <1>8

\* The routines' arithmetic.
LEMMA ComputedValue ==
    ASSUME NEW f \in {"add", "sub", "mul", "addm", "subm", "div", "rem"},
           NEW a \in Int, NEW b \in Int, NEW m \in Int,
           f \in {"addm", "subm"} => m >= 1, f \in {"div", "rem"} => b # 0
    PROVE  Result(f, a, b, m) \in Int
  <1>1. ASSUME NEW x \in Int, NEW y \in Int, y # 0
        PROVE  FloorDiv(x, y) \in Int /\ FloorMod(x, y) \in Int
    <2>1. CASE y > 0
      BY <2>1 DEF FloorDiv, FloorMod
    <2>2. CASE ~ (y > 0)
      <3>1. -y > 0 /\ -y \in Int /\ -x \in Int
        BY <1>1, <2>2
      <3>2. PICK u, v : u = -x /\ v = -y
        OBVIOUS
      <3>3. u \div v \in Int /\ u % v \in Int
        BY <3>1, <3>2
      <3>4. -(u % v) \in Int
        BY <3>3
      <3> QED BY <2>2, <3>2, <3>3, <3>4 DEF FloorDiv, FloorMod
    <2> QED BY <2>1, <2>2
  <1>2. CASE f = "add"
    BY <1>2 DEF Result
  <1>3. CASE f = "sub"
    BY <1>3 DEF Result
  <1>4. CASE f = "mul"
    BY <1>4 DEF Result
  <1>5. CASE f \in {"addm", "subm"}
    <2>1. a + b \in Int /\ a - b \in Int /\ m # 0
      BY <1>5
    <2>2. FloorMod(a + b, m) \in Int /\ FloorMod(a - b, m) \in Int
      BY <1>1, <2>1
    <2> QED BY <1>5, <2>2 DEF Result
  <1>6. CASE f \in {"div", "rem"}
    <2>1. FloorDiv(a, b) \in Int /\ FloorMod(a, b) \in Int
      BY <1>1, <1>6
    <2> QED BY <1>6, <2>1 DEF Result
  <1> QED BY <1>2, <1>3, <1>4, <1>5, <1>6

\* A store is to a result of the routine that runs, and a load of one of its arguments.
LEMMA StoreAccess ==
    ASSUME PlaceInv, ValuesOK, ArraysFit, RoutineHasQubits, Store, ~ QnosErrs
    PROVE  /\ ~ fault' /\ MemoryKept /\ Running.result \in DOMAIN shared[qpu.pid]
           /\ Reg(Instr.index) \in Nat /\ <<Reg(Instr.reg)>> \in Seq(Int)
           /\ shared' = [shared EXCEPT ![qpu.pid] =
                Write(shared[qpu.pid], Running.result, Reg(Instr.index), <<Reg(Instr.reg)>>)]
  <1> DEFINE p == qpu.pid
             ok == LegalWrite(shared[p], Running.result, "LR_out", Reg(Instr.index), 1)
  <1>1. /\ qpu.doing = "code" /\ qpu.pc \in DOMAIN Code /\ Instr.op = "store"
        /\ fault' = ~ ok
        /\ shared' = IF ~ ok THEN shared
                     ELSE [shared EXCEPT ![p] =
                             Write(shared[p], Running.result, Reg(Instr.index), <<Reg(Instr.reg)>>)]
    BY DEF Store, Executes
  <1>2. NamesRegs(Instr)
    BY <1>1, QnosNames DEF PlaceInv
  <1>3. Instr.index \in Regs /\ Instr.reg \in Regs
    BY <1>1, <1>2 DEF NamesRegs
  <1>4. /\ p \in Pids /\ LocalRoutine[qpu.routine].returns \in Nat
        /\ Running.result \in DOMAIN shared[p]
        /\ IsOf(shared[p][Running.result], "LR_out", LocalRoutine[qpu.routine].returns)
    BY <1>1, RoutineArrays
  <1>5. Reg(Instr.index) \in Int /\ Reg(Instr.reg) \in Int
    BY <1>3, <1>4 DEF ValuesOK, Reg
  <1>6. Reg(Instr.index) \in 0..(LocalRoutine[qpu.routine].returns - 1)
    BY <1>1 DEF QnosErrs, QnosStep
  <1>7. ok
    <2>1. PICK mem, a, n, k : /\ mem = shared[p] /\ a = Running.result
                              /\ n = LocalRoutine[qpu.routine].returns /\ k = Reg(Instr.index)
      OBVIOUS
    <2>2. PICK S : mem \in Seq(S)
      BY <1>4, <2>1 DEF PlaceInv, MemoryGrows
    <2>3. a \in 1..Len(mem)
      BY <1>4, <2>1, <2>2
    <2>4. IsArray(mem[a])
      BY <1>4, <2>1, <2>3 DEF ValuesOK
    <2>5. Len(mem[a].data) = n /\ a \in DOMAIN mem
      BY <1>4, <2>1, <2>2, <2>3, <2>4, ReadFits
    <2>6. n \in Nat /\ k \in 0..(n - 1)
      BY <1>4, <1>6, <2>1
    <2>7. k + 1 <= n
      BY <2>6
    <2>8. mem[a].region = "LR_out"
      BY <1>4, <2>1 DEF IsOf
    <2>9. LegalWrite(mem, a, "LR_out", k, 1)
      <3>1. - n <= k
        BY <2>6
      <3> QED BY <2>5, <2>7, <2>8, <3>1 DEF LegalWrite, Legal
    <2> QED BY <2>1, <2>9
  <1>8. <<Reg(Instr.reg)>> \in Seq(Int)
    BY <1>5
  <1>9. PICK a, offset, values : /\ a = Running.result /\ offset = Reg(Instr.index)
                                 /\ values = <<Reg(Instr.reg)>>
    OBVIOUS
  <1>10. shared' = [shared EXCEPT ![p] = Write(shared[p], a, offset, values)]
    BY <1>1, <1>7, <1>9
  <1>11. a \in DOMAIN shared[p] /\ offset \in Nat /\ values \in Seq(Int)
    BY <1>4, <1>6, <1>8, <1>9
  <1>12. MemoryKept
    <2>1. PICK size \in Nat : DOMAIN shared[p][a].data = 1..size
      BY <1>4, <1>9 DEF IsOf
    <2> QED BY <1>4, <1>10, <1>11, <2>1, WrittenMemory
  <1> QED BY <1>1, <1>4, <1>7, <1>8, <1>9, <1>11, <1>12

\* ... and a load gets an integer, for the arguments are written before the call.
LEMMA LoadAccess ==
    ASSUME PlaceInv, ValuesOK, ArraysFit, RoutineHasQubits, Load, ~ QnosErrs
    PROVE  ~ fault' /\ regs' \in [Pids -> [Regs -> Int]]
  <1> DEFINE p == qpu.pid
             ok == /\ LegalRead(shared[p], Running.input, "LR_in", Reg(Instr.index), 1)
                   /\ Len(DataAt(shared[p], Running.input, Reg(Instr.index), 1)) = 1
             value == DataAt(shared[p], Running.input, Reg(Instr.index), 1)[1]
  <1>1. /\ qpu.doing = "code" /\ qpu.pc \in DOMAIN Code /\ Instr.op = "load"
        /\ fault' = ~ ok
        /\ regs' = IF ~ ok THEN regs ELSE [regs EXCEPT ![p][Instr.reg] = value]
    BY DEF Load, Executes
  <1>2. NamesRegs(Instr)
    BY <1>1, QnosNames DEF PlaceInv
  <1>3. Instr.index \in Regs /\ Instr.reg \in Regs
    BY <1>1, <1>2 DEF NamesRegs
  <1>4. /\ ~ IsCallback(qpu.task)
        /\ Reg(Instr.index) \in 0..(ArgCount(Current(p).args) - 1)
    BY <1>1 DEF QnosErrs, QnosStep
  <1>5. /\ p \in Pids /\ ~ Ended(p) /\ Current(p).typ = "QL"
        /\ Running.input \in DOMAIN shared[p]
        /\ IsOf(shared[p][Running.input], "LR_in", ArgCount(Current(p).args))
        /\ Written(shared[p][Running.input])
    BY <1>1, <1>4, RoutineArrays
  <1>6. PICK mem, a, n, k : /\ mem = shared[p] /\ a = Running.input
                            /\ n = ArgCount(Current(p).args) /\ k = Reg(Instr.index)
    OBVIOUS
  <1>7. n \in Nat
    <2>1. /\ IsSequence(Current(p).args)
          /\ \A j \in DOMAIN Current(p).args : Current(p).args[j] \in Vars
      BY <1>5, CallNames DEF PlaceInv
    <2>2. PICK args : args = Current(p).args
      OBVIOUS
    <2>3. ArgCount(args) \in Nat
      BY <1>5, <2>1, <2>2, Arguments DEF ValuesOK
    <2> QED BY <1>6, <2>2, <2>3
  <1>8. PICK S : mem \in Seq(S)
    BY <1>5, <1>6 DEF PlaceInv, MemoryGrows
  <1>9. a \in 1..Len(mem)
    BY <1>5, <1>6, <1>8
  <1>10. IsArray(mem[a])
    BY <1>5, <1>6, <1>9 DEF ValuesOK
  <1>11. /\ Len(mem[a].data) = n /\ a \in DOMAIN mem
         /\ \A i \in 1..n : mem[a].data[i] # Unset => mem[a].data[i] \in Int
    BY <1>5, <1>6, <1>7, <1>8, <1>9, <1>10, ReadFits
  <1>12. k \in 0..(n - 1) /\ k + 1 <= n /\ k + 1 \in 1..n
    BY <1>4, <1>6, <1>7
  <1>13. mem[a].region = "LR_in" /\ DOMAIN mem[a].data = 1..n
         /\ \A i \in 1..n : mem[a].data[i] # Unset
    BY <1>5, <1>6 DEF IsOf, Written
  <1>14. /\ Len(DataAt(mem, a, k, 1)) = 1 /\ DOMAIN DataAt(mem, a, k, 1) = 1..1
         /\ DataAt(mem, a, k, 1)[1] = mem[a].data[k + 1]
    <2>1. mem[a].data \in Seq(Int \cup {Unset})
      BY <1>7, <1>10, <1>13 DEF IsArray
    <2>2. PICK one \in Nat : one = 1
      OBVIOUS
    <2>3. k \in Nat /\ k + one <= Len(mem[a].data)
      BY <1>7, <1>11, <1>12, <2>2
    <2>4. /\ Len(DataAt(mem, a, k, one)) = one /\ DOMAIN DataAt(mem, a, k, one) = 1..one
          /\ \A i \in 1..one : DataAt(mem, a, k, one)[i] = mem[a].data[k + i]
      BY ONLY one \in Nat, <2>1, <2>3, SliceFromStart
    <2> QED BY <2>2, <2>4
  <1>15. LegalRead(mem, a, "LR_in", k, 1) /\ DataAt(mem, a, k, 1)[1] \in Int
    <2>1. mem[a].data[k + 1] \in Int /\ mem[a].data[k + 1] # Unset
      BY <1>11, <1>12, <1>13
    <2>2. Legal(mem, a, "LR_in", k, 1)
      BY <1>11, <1>12, <1>13 DEF Legal
    <2>3. \A i \in 1..1 : i = 1
      OBVIOUS
    <2> QED BY <1>14, <2>1, <2>2, <2>3 DEF LegalRead
  <1>16. ok /\ value \in Int
    BY <1>6, <1>14, <1>15
  <1> HIDE DEF ok, value
  <1>17. regs' = [regs EXCEPT ![p][Instr.reg] = value] /\ ~ fault'
    BY <1>1, <1>16
  <1> QED BY <1>3, <1>5, <1>16, <1>17 DEF ValuesOK

\* What an instruction of Qnos leaves as it was.
LEMMA QnosStepFrame ==
    ASSUME QnosStep
    PROVE  /\ qpu.doing = "code" /\ UNCHANGED <<block, ptr, done, calls, host, cpu>>
           /\ qpu'.doing = qpu.doing /\ qpu'.pid = qpu.pid /\ qpu'.task = qpu.task
           /\ qpu'.routine = qpu.routine
           /\ shared' = shared \/ Store
           /\ qubits' = qubits \/ InitQubit
           /\ regs' = regs \/ Set \/ Load \/ Compute \/ Measure
  <1>1. /\ qpu.doing = "code" /\ UNCHANGED <<control, done, hostVars, calls, cpu>>
        /\ \E pc : qpu' = [qpu EXCEPT !.pc = pc]
    BY DEF QnosStep, Set, Store, Load, Compute, Branch, InitQubit, Gate, Measure, Executes, NextInstr
  <1>2. /\ shared' = shared \/ Store
        /\ qubits' = qubits \/ InitQubit
        /\ regs' = regs \/ Set \/ Load \/ Compute \/ Measure
    BY DEF QnosStep, Set, Store, Load, Compute, Branch, InitQubit, Gate, Measure
  <1> QED BY <1>1, <1>2 DEF control, hostVars

\* The registers hold integers.
LEMMA RegistersStay ==
    ASSUME PlaceInv, ValuesOK, ArraysFit, RoutineHasQubits, QnosStep, ~ QnosErrs
    PROVE  regs' \in [Pids -> [Regs -> Int]]
  <1> DEFINE p == qpu.pid
  <1>1. qpu.doing = "code" /\ (regs' = regs \/ Set \/ Load \/ Compute \/ Measure)
    BY QnosStepFrame
  <1>2. p \in Pids
    BY <1>1 DEF PlaceInv, CallInv, QpuOK, IsExecuted
  <1>3. ASSUME NEW r \in Regs, NEW x \in Int, SetReg(r, x) PROVE regs' \in [Pids -> [Regs -> Int]]
    BY <1>2, <1>3 DEF SetReg, ValuesOK
  <1>4. CASE Set
    <2>1. Instr.op = "set" /\ qpu.pc \in DOMAIN Code /\ SetReg(Instr.reg, Instr.imm)
      BY <1>4 DEF Set, Executes
    <2>2. NamesRegs(Instr)
      BY <1>1, <2>1, QnosNames DEF PlaceInv
    <2>3. Instr.reg \in Regs /\ Instr.imm \in Int
      BY <2>1, <2>2 DEF NamesRegs
    <2> QED BY <1>3, <2>1, <2>3
  <1>5. CASE Compute
    <2>1. PICK f, a, b, m : f = Instr.f /\ a = Reg(Instr.a) /\ b = Reg(Instr.b) /\ m = Reg(Instr.mod)
      OBVIOUS
    <2>2. /\ Instr.op = "compute" /\ qpu.pc \in DOMAIN Code
          /\ \/ regs' = regs
             \/ SetReg(Instr.to, Result(f, a, b, m))
                /\ (f \in {"addm", "subm"} => m >= 1) /\ (f \in {"div", "rem"} => b # 0)
      BY <1>5, <2>1 DEF Compute, Executes, SetReg
    <2>3. NamesRegs(Instr)
      BY <1>1, <2>2, QnosNames DEF PlaceInv
    <2>4. /\ f \in {"add", "sub", "mul", "addm", "subm", "div", "rem"}
          /\ {Instr.to, Instr.a, Instr.b, Instr.mod} \subseteq Regs
      BY <2>1, <2>2, <2>3 DEF NamesRegs
    <2>5. a \in Int /\ b \in Int /\ m \in Int
      BY <1>2, <2>1, <2>4 DEF Reg, ValuesOK
    <2>6. CASE regs' = regs
      BY <2>6 DEF ValuesOK
    <2>7. CASE /\ SetReg(Instr.to, Result(f, a, b, m))
               /\ (f \in {"addm", "subm"} => m >= 1) /\ (f \in {"div", "rem"} => b # 0)
      <3>1. Result(f, a, b, m) \in Int
        BY <2>4, <2>5, <2>7, ComputedValue
      <3> QED BY <1>3, <2>4, <2>7, <3>1
    <2> QED BY <2>2, <2>6, <2>7
  <1>6. CASE Measure
    <2>1. PICK m \in {0, 1} : SetReg(Instr.reg, m)
      BY <1>6 DEF Measure
    <2>2. Instr.op = "meas" /\ qpu.pc \in DOMAIN Code
      BY <1>6 DEF Measure, Executes
    <2>3. NamesRegs(Instr)
      BY <1>1, <2>2, QnosNames DEF PlaceInv
    <2>4. Instr.reg \in Regs
      BY <2>2, <2>3 DEF NamesRegs
    <2> QED BY <1>3, <2>1, <2>4
  <1>7. CASE regs' = regs
    BY <1>7 DEF ValuesOK
  <1> QED BY <1>1, <1>4, <1>5, <1>6, <1>7, LoadAccess

\* No instruction is refused but one that errs, and none takes a qubit away.
LEMMA QnosStepAccess ==
    ASSUME PlaceInv, ValuesOK, ArraysFit, RoutineHasQubits, ~ fault, QnosStep, ~ QnosErrs
    PROVE  /\ ~ fault' /\ MemoryKept
           /\ qubits' \in [Pids -> [VirtIds -> Int]]
           /\ \A p \in Pids : \A v \in VirtIds : qubits'[p][v] = Free <=> qubits[p][v] = Free
  <1> DEFINE p == qpu.pid
             has(q) == Reg(q) \in LocalRoutine[qpu.routine].uses \cap VirtIds
  <1>1. qpu.doing = "code" /\ p \in Pids
    BY QnosStepFrame DEF PlaceInv, CallInv, QpuOK, IsExecuted
  <1>2. ASSUME NEW q, has(q) PROVE qubits[p][Reg(q)] # Free
    BY <1>1, <1>2 DEF RoutineHasQubits
  <1>3. /\ Instr.op \in {"init", "meas"} => has(Instr.q)
        /\ Instr.op = "gate" => \A q \in Instr.qs : has(q)
        /\ Instr.op = "compute" /\ Instr.f \in {"div", "rem"} => Reg(Instr.b) # 0
        /\ Instr.op = "compute" /\ Instr.f \in {"addm", "subm"} => ~ (Reg(Instr.mod) < 1)
    BY DEF QnosErrs
  <1>4. ~ fault'
    <2>1. CASE Set \/ Branch
      BY <2>1 DEF Set, Branch
    <2>2. CASE Store \/ Load
      BY <2>2, StoreAccess, LoadAccess
    <2>3. CASE InitQubit
      BY <1>2, <1>3, <2>3 DEF InitQubit, Executes
    <2>4. CASE Measure
      BY <1>2, <1>3, <2>4 DEF Measure, Executes
    <2>5. CASE Gate
      BY <1>2, <1>3, <2>5 DEF Gate, Executes
    <2>6. CASE Compute
      <3>1. /\ Instr.op = "compute" /\ qpu.pc \in DOMAIN Code
            /\ fault' = ~ (/\ (Instr.f \in {"addm", "subm"} => Reg(Instr.mod) >= 1)
                           /\ (Instr.f \in {"div", "rem"} => Reg(Instr.b) # 0))
        BY <2>6 DEF Compute, Executes
      <3>2. NamesRegs(Instr)
        BY <1>1, <3>1, QnosNames DEF PlaceInv
      <3>3. Instr.mod \in Regs
        BY <3>1, <3>2 DEF NamesRegs
      <3>4. Reg(Instr.mod) \in Int
        BY <1>1, <3>3 DEF Reg, ValuesOK
      <3>5. Instr.f \in {"addm", "subm"} => Reg(Instr.mod) >= 1
        BY <1>3, <3>1, <3>4
      <3> QED BY <1>3, <3>1, <3>5
    <2> QED BY <2>1, <2>2, <2>3, <2>4, <2>5, <2>6 DEF QnosStep
  <1>5. MemoryKept
    BY QnosStepFrame, SameMemory, StoreAccess
  <1>6. /\ qubits' \in [Pids -> [VirtIds -> Int]]
        /\ \A q \in Pids : \A v \in VirtIds : qubits'[q][v] = Free <=> qubits[q][v] = Free
    <2>1. CASE qubits' = qubits
      BY <2>1 DEF ValuesOK
    <2>2. CASE InitQubit
      <3>1. PICK x : x = Reg(Instr.q)
        OBVIOUS
      <3>2. qubits' = [qubits EXCEPT ![p][x] = IF @ = Free THEN Free ELSE Fresh]
        BY <2>2, <3>1 DEF InitQubit
      <3>3. qubits \in [Pids -> [VirtIds -> Int]]
        BY DEF ValuesOK
      <3>4. Free \in Int /\ Fresh \in Int /\ Free # Fresh
        BY DEF Free, Fresh
      <3> QED BY <1>1, <3>2, <3>3, <3>4
    <2> QED BY <2>1, <2>2, QnosStepFrame
  <1> QED BY <1>4, <1>5, <1>6

\* The request whose pair is generated.
LEMMA PairFacts ==
    ASSUME PlaceInv, qpu.doing = "pair"
    PROVE  LET p == qpu.pid
               r == Request(p)
           IN  /\ p \in Pids /\ ~ Ended(p) /\ Current(p).typ = "QC" /\ Pre \in done[p]
               /\ qpu.task \notin done[p]
               /\ r.pairs \in Nat \ {0} /\ r.returns \in Nat
               /\ \A j \in 1..r.pairs : r.virts[j] \in VirtIds
               /\ qpu.task = Multi => ~ r.sequential
               /\ requestRun[p][Current(p).routine].result = CallOf(p).result
               /\ CallOf(p).result \in DOMAIN shared[p]
  <1> DEFINE p == qpu.pid
  <1>1. /\ p \in Pids /\ ~ Ended(p) /\ qpu.task \in TasksOf(Graph(p)) \ done[p] /\ Pre \in done[p]
        /\ qpu.task[1] \in EprKinds
    <2>1. /\ CallInv /\ qpu.doing # "nothing"
      BY DEF PlaceInv
    <2>2. Pre \in done[p]
      BY <2>1, ExecutedFacts
    <2> QED BY <2>1, <2>2 DEF CallInv, QpuOK, IsExecuted
  <1>2. Current(p).typ = "QC" /\ Graph(p).typ = "QC" /\ Graph(p).sequential = Request(p).sequential
    <2>1. TypeOK
      BY DEF PlaceInv, CallInv
    <2>2. Graph(p).typ = Current(p).typ /\ Graph(p).typ \in {"CL", "QL", "QC"}
      BY <1>1, <2>1, BlockFacts
    <2>3. Graph(p).typ = "QC"
      BY <1>1, <2>2, TasksByType
    <2> QED BY <1>1, <2>1, <2>2, <2>3, BlockFacts
  <1>3. /\ Request(p).pairs \in Nat \ {0} /\ Request(p).returns \in Nat
        /\ \A j \in 1..Request(p).pairs : Request(p).virts[j] \in VirtIds
    BY <1>1, <1>2, CallNames DEF PlaceInv
  <1>4. qpu.task = Multi => ~ Request(p).sequential
    <2> SUFFICES ASSUME qpu.task = Multi, Graph(p).sequential PROVE FALSE
      BY <1>2
    <2>1. PICK b : b = Graph(p)
      OBVIOUS
    <2>2. Multi \in TasksOf(b) /\ b.typ = "QC" /\ b.sequential
      BY <1>1, <1>2, <2>1
    <2> QED BY <2>2 DEF TasksOf, QuantumTasks, Pre, Post, Pair, PairCb, Multi
  <1>5. requestRun[p][Current(p).routine] = CallOf(p)
    BY <1>1 DEF PlaceInv, CallInv, RequestIsCurrent
  <1>6. Made(p, ptr[p])
    BY <1>1 DEF PlaceInv, CallInv, CallIsLeft, PreBegun, Made
  <1>7. \E S : shared[p] \in Seq(S)
    BY <1>1 DEF PlaceInv, MemoryGrows
  <1>8. DOMAIN shared[p] = 1..Len(shared[p]) /\ Addresses(CallOf(p)) \subseteq 1..Len(shared[p])
    BY <1>1, <1>6, <1>7, AddressesOfCalls DEF CallAt, CallOf
  <1>9. CallOf(p).result \in DOMAIN shared[p]
    BY <1>8 DEF Addresses
  <1> QED BY <1>1, <1>2, <1>3, <1>4, <1>5, <1>9

\* The next pair of a request finds its qubit free.
LEMMA NextPairAccess ==
    ASSUME PlaceInv, ValuesOK, PairsInTurn, WaitsForPair, ~ LastPair, UNCHANGED <<block, ptr, calls>>,
           WellDeclared(Request(qpu.pid)),
           NEW outcomes,
           \/ /\ KeepPair /\ outcomes = << >>
              /\ NextPair(qubits[qpu.pid], outcomes)
           \/ \E m \in {0, 1} :
                 /\ MeasuredDirectly /\ outcomes = Gathered(qpu.outcomes, m)
                 /\ NextPair([qubits[qpu.pid] EXCEPT ![PairQubit] = Free], outcomes)
    PROVE  /\ ~ fault' /\ qubits' \in [Pids -> [VirtIds -> Int]] /\ PairsInTurn'
           /\ qpu'.doing = "pair"
  <1> PICK p, r, n : p = qpu.pid /\ r = Request(p) /\ n = qpu.pc
    OBVIOUS
  <1> DEFINE next == r.virts[n + 1]
             states == IF r.measure THEN [qubits[p] EXCEPT ![r.virts[n]] = Free] ELSE qubits[p]
  <1>1. qpu.doing = "pair" /\ qpu.task = Multi /\ n # r.pairs
    BY DEF WaitsForPair, LastPair
  <1>2. /\ p \in Pids /\ ~ r.sequential /\ r.pairs \in Nat
        /\ \A j \in 1..r.pairs : r.virts[j] \in VirtIds
    BY <1>1, PairFacts
  <1>3. /\ n \in 1..r.pairs
        /\ r.measure => /\ qpu.outcomes \in Seq({0, 1}) /\ Len(qpu.outcomes) = n - 1
                        /\ \A j \in 1..r.pairs : r.virts[j] = r.virts[n] \/ qubits[p][r.virts[j]] = Free
        /\ ~ r.measure => \A j \in (n + 1)..r.pairs : qubits[p][r.virts[j]] = Free
    BY <1>1 DEF PairsInTurn
  <1>4. ~ r.measure => \A i, j \in 1..r.pairs : r.virts[i] = r.virts[j] => i = j
    BY <1>2 DEF WellDeclared
  <1>5. /\ fault' = (states[next] # Free)
        /\ qubits' = [qubits EXCEPT ![p] = [states EXCEPT ![next] = n + 1]]
        /\ qpu' = [qpu EXCEPT !.pc = n + 1, !.outcomes = outcomes]
        /\ r.measure => \E m \in {0, 1} : outcomes = Append(qpu.outcomes, m)
    BY <1>1 DEF NextPair, KeepPair, MeasuredDirectly, PairQubit, Gathered
  <1>6. n \in Nat /\ n + 1 \in Nat /\ n + 1 \in 1..r.pairs /\ n + 1 \in (n + 1)..r.pairs
    BY <1>1, <1>2, <1>3
  <1>7. next \in VirtIds /\ r.virts[n] \in VirtIds
    BY <1>2, <1>3, <1>6
  <1>8. qubits \in [Pids -> [VirtIds -> Int]] /\ Free \in Int
    BY DEF ValuesOK, Free
  <1>9. states \in [VirtIds -> Int]
    BY <1>2, <1>7, <1>8
  <1>10. \A v \in VirtIds : states[v] = IF r.measure /\ v = r.virts[n] THEN Free ELSE qubits[p][v]
    BY <1>2, <1>8
  <1>11. /\ r.measure => \A j \in 1..r.pairs : states[r.virts[j]] = Free
         /\ ~ r.measure => \A j \in (n + 1)..r.pairs : states[r.virts[j]] = Free
    <2>1. \A j \in (n + 1)..r.pairs : j \in 1..r.pairs
      BY <1>2, <1>6
    <2> HIDE DEF states
    <2> QED BY <1>2, <1>3, <1>10, <2>1
  <1> HIDE DEF states
  <1>12. ~ fault'
    BY <1>5, <1>6, <1>11
  <1> HIDE DEF next
  <1>13. /\ qubits' \in [Pids -> [VirtIds -> Int]]
         /\ \A v \in VirtIds : v # next => qubits'[p][v] = states[v]
    BY <1>2, <1>5, <1>6, <1>7, <1>8, <1>9
  <1>14. /\ qpu'.doing = "pair" /\ qpu'.pid = p /\ qpu'.task = Multi
         /\ qpu'.pc = n + 1 /\ qpu'.outcomes = outcomes /\ DOMAIN qpu' = DOMAIN Idle
    <2>1. DOMAIN qpu = DOMAIN Idle
      BY <1>1 DEF PairsInTurn
    <2>2. {"pid", "task", "doing", "pc", "outcomes"} \subseteq DOMAIN Idle
      BY DEF Idle
    <2>3. qpu.pid = p /\ qpu.doing = "pair" /\ qpu.task = Multi
      BY <1>1
    <2>4. qpu' = [qpu EXCEPT !.pc = n + 1, !.outcomes = outcomes]
      BY <1>5
    <2>5. DOMAIN qpu' = DOMAIN qpu
      BY ONLY <2>4
    <2>6. qpu'.pc = n + 1 /\ qpu'.outcomes = outcomes
      BY ONLY <2>1, <2>2, <2>4
    <2>7. qpu'.doing = qpu.doing /\ qpu'.pid = qpu.pid /\ qpu'.task = qpu.task
      BY ONLY <2>1, <2>2, <2>4
    <2> QED BY ONLY <2>1, <2>3, <2>5, <2>6, <2>7
  <1>15. Request(p)' = r
    BY SameBlock
  <1>18. SUFFICES /\ r.measure => /\ outcomes \in Seq({0, 1}) /\ Len(outcomes) = n
                                 /\ \A j \in 1..r.pairs : r.virts[j] = next \/ qubits'[p][r.virts[j]] = Free
                  /\ ~ r.measure => \A j \in ((n + 1) + 1)..r.pairs : qubits'[p][r.virts[j]] = Free
    <2>1. n = (n + 1) - 1
      BY <1>6
    <2> QED BY <1>6, <1>12, <1>13, <1>14, <1>15, <2>1 DEF PairsInTurn, next
  <1>16. CASE r.measure
    <2>1. outcomes \in Seq({0, 1}) /\ Len(outcomes) = n
      <3>1. PICK m \in {0, 1} : outcomes = Append(qpu.outcomes, m)
        BY <1>5, <1>16
      <3>2. PICK s \in Seq({0, 1}) : s = qpu.outcomes /\ Len(s) = n - 1
        BY <1>3, <1>16
      <3>3. Append(s, m) \in Seq({0, 1}) /\ Len(Append(s, m)) = n
        BY ONLY <1>6, <3>2, m \in {0, 1}
      <3> QED BY <3>1, <3>2, <3>3
    <2>2. \A j \in 1..r.pairs : r.virts[j] = next \/ qubits'[p][r.virts[j]] = Free
      BY <1>2, <1>11, <1>13, <1>16
    <2> QED BY <1>16, <2>1, <2>2
  <1>17. CASE ~ r.measure
    <2>1. \A j \in ((n + 1) + 1)..r.pairs : qubits'[p][r.virts[j]] = Free
      <3> TAKE j \in ((n + 1) + 1)..r.pairs
      <3>1. j \in 1..r.pairs /\ j \in (n + 1)..r.pairs /\ j # n + 1
        BY <1>2, <1>6
      <3>2. r.virts[j] # next /\ r.virts[j] \in VirtIds
        BY <1>2, <1>4, <1>6, <1>17, <3>1 DEF next
      <3> QED BY <1>11, <1>13, <1>17, <3>1, <3>2
    <2> QED BY <1>17, <2>1
  <1> QED BY <1>16, <1>17

\* A pair that is kept or measured is well placed, and so are the outcomes of all.
LEMMA KeepPairAccess ==
    ASSUME PlaceInv, ValuesOK, PairsInTurn, ~ fault, KeepPair, WellDeclared(Request(qpu.pid))
    PROVE  /\ ~ fault' /\ qubits' \in [Pids -> [VirtIds -> Int]] /\ PairsInTurn'
           /\ qpu'.doing # "code"
           /\ done' = done \/ Finish(qpu.pid, qpu.task)
  <1>1. WaitsForPair /\ UNCHANGED <<block, ptr, calls>>
    BY DEF KeepPair, control
  <1>2. CASE LastPair
    <2>1. qpu' = Idle /\ qubits' = qubits /\ fault' = fault /\ Finish(qpu.pid, qpu.task)
      BY <1>2 DEF KeepPair
    <2>2. qpu'.doing = "nothing"
      BY <2>1 DEF Idle
    <2> QED BY <2>1, <2>2 DEF PairsInTurn, ValuesOK
  <1>3. CASE ~ LastPair
    <2>1. NextPair(qubits[qpu.pid], << >>) /\ done' = done
      BY <1>3 DEF KeepPair
    <2>2. PICK outcomes : outcomes = << >>
      OBVIOUS
    <2> QED BY <1>1, <1>3, <2>1, <2>2, NextPairAccess
  <1> QED BY <1>2, <1>3

\* ... and the outcomes of all pairs fit the request's results when the last is measured.
LEMMA MeasurePairAccess ==
    ASSUME PlaceInv, ValuesOK, ArraysFit, PairsInTurn, ~ fault, MeasurePair,
           WellDeclared(Request(qpu.pid))
    PROVE  /\ ~ fault' /\ qubits' \in [Pids -> [VirtIds -> Int]] /\ PairsInTurn' /\ MemoryKept
           /\ qpu'.doing # "code"
           /\ \/ done' = done /\ shared' = shared /\ qpu'.doing = "pair"
              \/ /\ Finish(qpu.pid, qpu.task)
                 /\ Written(shared'[qpu.pid][CallOf(qpu.pid).result])
           /\ \A p \in Pids : \A b \in 1..Len(shared[p]) :
                 p # qpu.pid \/ b # CallOf(qpu.pid).result => shared'[p][b] = shared[p][b]
  <1>1. /\ WaitsForPair /\ MeasuredDirectly /\ UNCHANGED <<block, ptr, calls>>
        /\ qpu.doing = "pair" /\ qpu.task = Multi
    BY DEF MeasurePair, WaitsForPair, MeasuredDirectly, control
  <1> PICK p, r, n : p = qpu.pid /\ r = Request(p) /\ n = qpu.pc
    OBVIOUS
  <1>2. /\ p \in Pids /\ ~ Ended(p) /\ Current(p).typ = "QC" /\ Pre \in done[p]
        /\ r.pairs \in Nat \ {0} /\ r.returns \in Nat /\ ~ r.sequential /\ r.measure
        /\ \A j \in 1..r.pairs : r.virts[j] \in VirtIds
        /\ requestRun[p][Current(p).routine].result = CallOf(p).result
        /\ CallOf(p).result \in DOMAIN shared[p]
    BY <1>1, PairFacts DEF MeasuredDirectly
  <1>3. n \in 1..r.pairs /\ qpu.outcomes \in Seq({0, 1}) /\ Len(qpu.outcomes) = n - 1
    BY <1>1, <1>2 DEF PairsInTurn
  <1>4. PICK m \in {0, 1} :
            LET outcomes == Gathered(qpu.outcomes, m)
                result == requestRun[p][Current(p).routine].result
                ok == LegalWrite(shared[p], result, "RR_out", 0, Len(outcomes))
                freed == [qubits[p] EXCEPT ![PairQubit] = Free]
            IN  IF ~ LastPair THEN NextPair(freed, outcomes) /\ UNCHANGED <<shared, done>>
                ELSE /\ fault' = ~ ok
                     /\ shared' = IF ~ ok THEN shared
                                  ELSE [shared EXCEPT ![p] = Write(@, result, 0, outcomes)]
                     /\ qubits' = [qubits EXCEPT ![p] = freed]
                     /\ Finish(p, qpu.task) /\ qpu' = Idle
    BY DEF MeasurePair
  <1>5. CASE ~ LastPair
    <2>1. PICK outcomes : outcomes = Gathered(qpu.outcomes, m)
      OBVIOUS
    <2>2. /\ NextPair([qubits[qpu.pid] EXCEPT ![PairQubit] = Free], outcomes)
          /\ shared' = shared /\ done' = done
      BY <1>4, <1>5, <2>1
    <2>3. /\ ~ fault' /\ qubits' \in [Pids -> [VirtIds -> Int]] /\ PairsInTurn'
          /\ qpu'.doing = "pair"
      BY <1>1, <1>5, <2>1, <2>2, NextPairAccess
    <2> QED BY <2>2, <2>3, SameMemory
  <1>6. CASE LastPair
    <2>1. n = r.pairs
      BY <1>1, <1>6 DEF LastPair
    <2>2. PICK outcomes \in Seq({0, 1}) : outcomes = Gathered(qpu.outcomes, m) /\ Len(outcomes) = n
      <3>1. PICK s \in Seq({0, 1}) : s = qpu.outcomes /\ Len(s) = n - 1
        BY <1>3
      <3>2. Append(s, m) \in Seq({0, 1}) /\ Len(Append(s, m)) = n
        BY <1>2, <1>3, <3>1
      <3> QED BY <3>1, <3>2 DEF Gathered
    <2>3. PICK mem, a : mem = shared[p] /\ a = CallOf(p).result
      OBVIOUS
    <2>4. /\ fault' = ~ LegalWrite(mem, a, "RR_out", 0, Len(outcomes))
          /\ LegalWrite(mem, a, "RR_out", 0, Len(outcomes)) =>
                shared' = [shared EXCEPT ![p] = Write(shared[p], a, 0, outcomes)]
          /\ qubits' = [qubits EXCEPT ![p] = [qubits[p] EXCEPT ![r.virts[n]] = Free]]
          /\ Finish(p, qpu.task) /\ qpu' = Idle
      BY <1>2, <1>4, <1>6, <2>2, <2>3 DEF PairQubit
    <2>5. IsOf(mem[a], "RR_out", n)
      <3>1. PreBegun(p)
        BY <1>2 DEF PreBegun
      <3>2. r.returns = r.pairs
        BY <1>2 DEF WellDeclared
      <3> QED BY <1>2, <2>1, <2>3, <3>1, <3>2 DEF ArraysFit
    <2>6. n \in Nat /\ n \in 1..r.pairs
      BY <1>2, <1>3
    <2>7. LegalWrite(mem, a, "RR_out", 0, Len(outcomes))
      <3>1. PICK S : mem \in Seq(S)
        BY <1>2, <2>3 DEF PlaceInv, MemoryGrows
      <3>2. a \in 1..Len(mem)
        BY <1>2, <2>3, <3>1
      <3>3. IsArray(mem[a])
        BY <1>2, <2>3, <3>2 DEF ValuesOK
      <3>4. Len(mem[a].data) = n /\ a \in DOMAIN mem
        BY <2>5, <2>6, <3>1, <3>2, <3>3, ReadFits
      <3>5. 0 + n <= n /\ - n <= 0 /\ mem[a].region = "RR_out"
        BY <2>5, <2>6 DEF IsOf
      <3> QED BY <2>2, <3>4, <3>5 DEF LegalWrite, Legal
    <2>8. shared' = [shared EXCEPT ![p] = Write(shared[p], a, 0, outcomes)] /\ ~ fault'
      BY <2>4, <2>7
    <2>9. a \in DOMAIN shared[p] /\ outcomes \in Seq(Int) /\ DOMAIN shared[p][a].data = 1..n
      <3>1. \A s : s \in Seq({0, 1}) => s \in Seq(Int)
        OBVIOUS
      <3>2. DOMAIN shared[p][a].data = 1..n
        BY <2>3, <2>5 DEF IsOf
      <3> QED BY <1>2, <2>3, <3>1, <3>2
    <2>10. /\ MemoryKept
           /\ \A q \in Pids : \A b \in 1..Len(shared[q]) : q # p \/ b # a => shared'[q][b] = shared[q][b]
           /\ Holds(shared'[p][a], shared[p][a], 0, outcomes)
      <3>1. PICK offset \in Nat : offset = 0
        OBVIOUS
      <3>2. shared' = [shared EXCEPT ![p] = Write(shared[p], a, offset, outcomes)]
        BY <2>8, <3>1
      <3>3. /\ MemoryKept
            /\ \A q \in Pids : \A b \in 1..Len(shared[q]) : q # p \/ b # a => shared'[q][b] = shared[q][b]
            /\ Holds(shared'[p][a], shared[p][a], offset, outcomes)
        <4>1. PICK size \in Nat : size = n
          BY <2>6
        <4>2. PICK values \in Seq(Int) : values = outcomes
          BY <2>9
        <4>3. /\ p \in Pids /\ a \in DOMAIN shared[p] /\ DOMAIN shared[p][a].data = 1..size
              /\ shared' = [shared EXCEPT ![p] = Write(shared[p], a, offset, values)]
          BY <1>2, <2>9, <3>2, <4>1, <4>2
        <4>4. /\ MemoryKept
              /\ \A q \in Pids : \A b \in 1..Len(shared[q]) :
                    q # p \/ b # a => shared'[q][b] = shared[q][b]
              /\ Holds(shared'[p][a], shared[p][a], offset, values)
          BY ONLY PlaceInv, ValuesOK, size \in Nat, offset \in Nat, values \in Seq(Int),
                  <4>3, WrittenMemory
        <4> QED BY <4>2, <4>4
      <3> QED BY <3>1, <3>3
    <2>11. Written(shared'[p][a])
      <3>1. DOMAIN shared'[p][a].data = 1..n
        <4>1. \E S : shared[p] \in Seq(S)
          BY <1>2 DEF PlaceInv, MemoryGrows
        <4>2. a \in 1..Len(shared[p])
          BY <2>9, <4>1
        <4>3. Keeps(shared[p][a], shared'[p][a])
          BY <1>2, <2>10, <4>2 DEF MemoryKept
        <4>4. DOMAIN shared[p][a].data = 1..n
          BY <2>3, <2>5 DEF IsOf
        <4> QED BY ONLY <4>3, <4>4 DEF Keeps
      <3>2. DOMAIN shared[p][a].data = 1..n
        BY <2>3, <2>5 DEF IsOf
      <3>3. \A i \in 1..n : i \in (0 + 1)..(0 + Len(outcomes)) /\ i - 0 = i /\ outcomes[i] \in Int
        BY <2>2, <2>6
      <3>4. Unset \notin Int
        BY NamesAssumption
      <3>5. \A i \in 1..n : shared'[p][a].data[i] \in Int
        BY <2>10, <3>2, <3>3 DEF Holds
      <3> QED BY <3>1, <3>4, <3>5 DEF Written
    <2>12. qubits' \in [Pids -> [VirtIds -> Int]]
      BY <1>2, <2>4, <2>6 DEF ValuesOK, Free
    <2>13. qpu'.doing = "nothing"
      BY <2>4 DEF Idle
    <2> QED BY <2>3, <2>4, <2>8, <2>10, <2>11, <2>12, <2>13 DEF PairsInTurn
  <1> QED BY <1>5, <1>6

\* The first pair of a request is begun.
LEMMA PairsStartAccess ==
    ASSUME PlaceInv, PlaceInv', ValuesOK, ~ fault, NEW p \in Pids,
           \/ \E i \in 1..Request(p).pairs : StartSinglePair(p, i)
           \/ StartMultiPair(p)
    PROVE  /\ ~ fault' /\ qubits' \in [Pids -> [VirtIds -> Int]] /\ PairsInTurn'
           /\ qpu'.doing = "pair" /\ done' = done
  <1> PICK r : r = Request(p)
    OBVIOUS
  <1>1. PICK t, indices, first :
          /\ StartPairs(p, t, indices)
          /\ \/ t # Multi /\ first \in 1..r.pairs /\ indices = {first}
             \/ t = Multi /\ indices = 1..r.pairs /\ first = 1
    <2>1. CASE StartMultiPair(p)
      BY <2>1 DEF StartMultiPair
    <2>2. CASE \E i \in 1..Request(p).pairs : StartSinglePair(p, i)
      <3>1. PICK i \in 1..r.pairs : StartPairs(p, Pair(i), {i})
        BY <2>2 DEF StartSinglePair
      <3>2. Pair(i) # Multi
        BY DEF Pair, Multi
      <3> QED BY <3>1, <3>2
    <2> QED BY <2>1, <2>2
  <1>2. /\ QpuMayStart(p, t) /\ t[1] \in EprKinds
        /\ \A i \in indices : qubits[p][r.virts[i]] = Free
        /\ UNCHANGED <<block, ptr, done, calls, fault>>
        /\ LET i == CHOOSE i \in indices : \A j \in indices : i <= j
           IN  /\ qubits' = [qubits EXCEPT ![p][r.virts[i]] = i]
               /\ qpu' = [Idle EXCEPT !.pid = p, !.task = t, !.doing = "pair", !.pc = i]
    BY <1>1 DEF StartPairs, control
  <1>3. /\ qpu'.pid = p /\ qpu'.task = t /\ qpu'.doing = "pair" /\ DOMAIN qpu' = DOMAIN Idle
        /\ qpu'.outcomes = << >>
        /\ qpu'.pc = CHOOSE i \in indices : \A j \in indices : i <= j
    BY <1>2 DEF Idle
  <1>4. Request(p)' = r
    BY <1>2, SameBlock
  <1>5. /\ r.pairs \in Nat \ {0} /\ \A j \in 1..r.pairs : r.virts[j] \in VirtIds
        /\ t = Multi => ~ r.sequential
    <2>1. PlaceInv' /\ qpu'.doing = "pair"
      BY <1>3
    <2>2. /\ ~ Ended(p) /\ t \in TasksOf(Graph(p))
      BY <1>2 DEF QpuMayStart, Ready, Graph
    <2>3. TypeOK
      BY DEF PlaceInv, CallInv
    <2>4. Graph(p).typ = Current(p).typ /\ Graph(p).typ \in {"CL", "QL", "QC"}
      BY <2>2, <2>3, BlockFacts
    <2>5. Graph(p).typ = "QC"
      BY <1>2, <2>2, <2>4, TasksByType
    <2>6. Current(p).typ = "QC" /\ Graph(p).sequential = r.sequential
      BY <2>2, <2>3, <2>4, <2>5, BlockFacts
    <2>7. r.pairs \in Nat \ {0} /\ \A j \in 1..r.pairs : r.virts[j] \in VirtIds
      BY <2>2, <2>6, CallNames DEF PlaceInv
    <2>8. t = Multi => ~ Graph(p).sequential
      <3> SUFFICES ASSUME t = Multi, Graph(p).sequential PROVE FALSE
        OBVIOUS
      <3>1. PICK b : b = Graph(p)
        OBVIOUS
      <3>2. Multi \in TasksOf(b) /\ b.typ = "QC" /\ b.sequential
        BY <2>2, <2>5, <3>1
      <3> QED BY <3>2 DEF TasksOf, QuantumTasks, Pre, Post, Pair, PairCb, Multi
    <2> QED BY <2>6, <2>7, <2>8
  <1>6. first \in 1..r.pairs /\ first \in indices /\ \A j \in indices : first <= j
    BY <1>1, <1>5
  <1>7. (CHOOSE i \in indices : \A j \in indices : i <= j) = first
    <2>1. \A i \in indices : i \in Int
      BY <1>1, <1>5
    <2>2. \E i \in indices : \A j \in indices : i <= j
      BY <1>6
    <2>3. \A i \in indices : (\A j \in indices : i <= j) => i = first
      BY <1>6, <2>1
    <2> QED BY <2>2, <2>3
  <1>8. /\ qubits' = [qubits EXCEPT ![p][r.virts[first]] = first]
        /\ qpu'.pc = first
    BY <1>2, <1>3, <1>7
  <1>9. first \in Int /\ r.virts[first] \in VirtIds
    BY <1>5, <1>6
  <1>10. /\ qubits' \in [Pids -> [VirtIds -> Int]]
         /\ \A v \in VirtIds : v # r.virts[first] => qubits'[p][v] = qubits[p][v]
    BY <1>8, <1>9 DEF ValuesOK
  <1>11. t = Multi => \A j \in 1..r.pairs : r.virts[j] = r.virts[first] \/ qubits'[p][r.virts[j]] = Free
    BY <1>1, <1>2, <1>5, <1>10
  <1>12. << >> \in Seq({0, 1}) /\ Len(<< >>) = 0
    OBVIOUS
  <1>13. t = Multi /\ ~ r.measure /\ WellDeclared(r) =>
             \A j \in (first + 1)..r.pairs : qubits'[p][r.virts[j]] = Free
    <2> SUFFICES ASSUME t = Multi, ~ r.measure, WellDeclared(r), NEW j \in (first + 1)..r.pairs
                 PROVE  qubits'[p][r.virts[j]] = Free
      OBVIOUS
    <2>1. j \in 1..r.pairs /\ j # first
      BY <1>5, <1>6
    <2>2. r.virts[j] # r.virts[first]
      BY <1>5, <1>6, <2>1 DEF WellDeclared
    <2> QED BY <1>11, <2>1, <2>2
  <1>14. t = Multi => Len(<< >>) = first - 1
    BY <1>1, <1>12
  <1>15. PairsInTurn'
    BY <1>3, <1>4, <1>6, <1>8, <1>11, <1>12, <1>13, <1>14 DEF PairsInTurn
  <1> QED BY <1>2, <1>3, <1>10, <1>15

\* Where nothing is called, the arrays of the calls stay as they are handed around.
LEMMA SameCall ==
    ASSUME Quiet, NEW p \in Pids, PreBegun(p)'
    PROVE  /\ PreBegun(p) /\ block'[p] = block[p] /\ CallOf(p)' = CallOf(p)
           /\ Ended(p)' = Ended(p) /\ Current(p)' = Current(p) /\ Request(p)' = Request(p)
           /\ ReturnSize(p)' = ReturnSize(p)
  <1>1. PreBegun(p) /\ block'[p] = block[p] /\ ptr'[p] = ptr[p] /\ calls' = calls
    BY DEF Quiet
  <1>2. /\ CallOf(p)' = CallOf(p) /\ Ended(p)' = Ended(p) /\ Current(p)' = Current(p)
    BY <1>1 DEF CallOf, Ended, Current
  <1>3. Request(p)' = Request(p)
    BY <1>2 DEF Request
  <1>4. ReturnSize(p)' = ReturnSize(p)
    BY <1>2, <1>3 DEF ReturnSize
  <1> QED BY <1>1, <1>2, <1>3, <1>4

\* The addresses of a call are those of arrays of the process.
LEMMA CallAddresses ==
    ASSUME PlaceInv, NEW p \in Pids, ~ Ended(p), PreBegun(p), Current(p).typ # "CL"
    PROVE  /\ Made(p, ptr[p]) /\ Addresses(CallOf(p)) \subseteq 1..Len(shared[p])
           /\ CallOf(p).input \in 1..Len(shared[p]) /\ CallOf(p).result \in 1..Len(shared[p])
           /\ \A i \in DOMAIN CallOf(p).cbOut : CallOf(p).cbOut[i] \in 1..Len(shared[p])
           /\ Current(p).typ = "QC" => DOMAIN CallOf(p).cbOut = 1..CallbackCount(Request(p))
  <1>1. Made(p, ptr[p])
    BY DEF PlaceInv, CallInv, CallIsLeft, Made
  <1>2. Addresses(CallOf(p)) \subseteq 1..Len(shared[p])
    BY <1>1, AddressesOfCalls DEF CallAt, CallOf
  <1>3. Current(p).typ = "QC" => DOMAIN CallOf(p).cbOut = 1..CallbackCount(Request(p))
    BY DEF PlaceInv, CallFits
  <1> QED BY <1>1, <1>2, <1>3 DEF Addresses

\* An array that is kept is of the region and size that it was.
LEMMA KeptFits ==
    ASSUME NEW x, NEW y, Keeps(x, y)
    PROVE  /\ \A region : \A n : IsOf(x, region, n) => IsOf(y, region, n)
           /\ Written(x) => Written(y)
  BY DEF Keeps, IsOf, Written

\* The arrays of calls still fit after a step that neither calls nor ends a block.
LEMMA QuietFits ==
    ASSUME PlaceInv, ArraysFit, Quiet, MemoryKept
    PROVE  ArraysFit'
  <1> SUFFICES ASSUME NEW p \in Pids, ~ Ended(p)', PreBegun(p)'
               PROVE  /\ Current(p)'.typ # "CL" /\ ResultSize(Current(p)') = ReturnSize(p)'
                      /\ Current(p)'.typ = "QL" =>
                            /\ IsOf(shared'[p][CallOf(p)'.input], "LR_in", ArgCount(Current(p)'.args))
                            /\ Written(shared'[p][CallOf(p)'.input])
                            /\ IsOf(shared'[p][CallOf(p)'.result], "LR_out", ReturnSize(p)')
                      /\ Current(p)'.typ = "QC" =>
                            /\ IsOf(shared'[p][CallOf(p)'.result], "RR_out", Request(p)'.returns)
                            /\ \A i \in 1..CallbackCount(Request(p)') :
                                  IsOf(shared'[p][CallOf(p)'.cbOut[i]], "LR_out",
                                       CallbackReturns(Request(p)'))
    BY DEF ArraysFit, ResultSize, ArgCount, Firsts, IsOf, Written, CallbackCount, CallbackReturns
  <1> PICK b, call, r : b = Current(p) /\ call = CallOf(p) /\ r = Request(p)
    OBVIOUS
  <1>1. /\ PreBegun(p) /\ ~ Ended(p)
        /\ Current(p)' = b /\ CallOf(p)' = call /\ Request(p)' = r /\ ReturnSize(p)' = ReturnSize(p)
    BY SameCall
  <1>2. /\ b.typ # "CL" /\ ResultSize(b) = ReturnSize(p)
        /\ b.typ = "QL" => /\ IsOf(shared[p][call.input], "LR_in", ArgCount(b.args))
                           /\ Written(shared[p][call.input])
                           /\ IsOf(shared[p][call.result], "LR_out", ReturnSize(p))
        /\ b.typ = "QC" => /\ IsOf(shared[p][call.result], "RR_out", r.returns)
                           /\ \A i \in 1..CallbackCount(r) :
                                 IsOf(shared[p][call.cbOut[i]], "LR_out", CallbackReturns(r))
    BY <1>1 DEF ArraysFit
  <1>3. /\ call.input \in 1..Len(shared[p]) /\ call.result \in 1..Len(shared[p])
        /\ b.typ = "QC" => \A i \in 1..CallbackCount(r) : call.cbOut[i] \in 1..Len(shared[p])
    BY <1>1, <1>2, CallAddresses
  <1>4. \A a \in 1..Len(shared[p]) : Keeps(shared[p][a], shared'[p][a])
    BY DEF MemoryKept
  <1>5. /\ Keeps(shared[p][call.input], shared'[p][call.input])
        /\ Keeps(shared[p][call.result], shared'[p][call.result])
        /\ b.typ = "QC" => \A i \in 1..CallbackCount(r) :
                               Keeps(shared[p][call.cbOut[i]], shared'[p][call.cbOut[i]])
    BY <1>3, <1>4
  <1>6. b.typ = "QL" => /\ IsOf(shared'[p][call.input], "LR_in", ArgCount(b.args))
                        /\ Written(shared'[p][call.input])
                        /\ IsOf(shared'[p][call.result], "LR_out", ReturnSize(p))
    BY <1>2, <1>5, KeptFits
  <1>7. b.typ = "QC" => /\ IsOf(shared'[p][call.result], "RR_out", r.returns)
                        /\ \A i \in 1..CallbackCount(r) :
                              IsOf(shared'[p][call.cbOut[i]], "LR_out", CallbackReturns(r))
    BY <1>2, <1>5, KeptFits
  <1> QED BY <1>1, <1>2, <1>6, <1>7

\* Outcomes that are written stay written.
LEMMA OutcomesStay ==
    ASSUME PlaceInv, OutcomesWritten, MemoryKept,
           \A p \in Pids : Multi \in done'[p] =>
               /\ block'[p] = block[p] /\ CallOf(p)' = CallOf(p) /\ PreBegun(p)
               /\ \/ Multi \in done[p]
                  \/ ~ Request(p).measure \/ Written(shared'[p][CallOf(p).result])
    PROVE  OutcomesWritten'
  <1> SUFFICES ASSUME NEW p \in Pids, ~ Ended(p)', Current(p)'.typ = "QC", Multi \in done'[p],
                      Request(p)'.measure, WellDeclared(Request(p)')
               PROVE  Written(shared'[p][CallOf(p)'.result])
    BY DEF OutcomesWritten, WellDeclared, Written
  <1>1. /\ block'[p] = block[p] /\ CallOf(p)' = CallOf(p) /\ PreBegun(p)
        /\ \/ Multi \in done[p]
           \/ ~ Request(p).measure \/ Written(shared'[p][CallOf(p).result])
    OBVIOUS
  <1>2. Ended(p)' = Ended(p) /\ Current(p)' = Current(p) /\ Request(p)' = Request(p)
    BY <1>1 DEF Ended, Current, Request
  <1>3. CASE Multi \in done[p]
    <2>1. Written(shared[p][CallOf(p).result])
      BY <1>2, <1>3 DEF OutcomesWritten
    <2>2. CallOf(p).result \in 1..Len(shared[p])
      BY <1>1, <1>2, CallAddresses
    <2>3. Keeps(shared[p][CallOf(p).result], shared'[p][CallOf(p).result])
      BY <2>2 DEF MemoryKept
    <2>4. Written(shared'[p][CallOf(p).result])
      BY <2>1, <2>3, KeptFits
    <2> QED BY <1>1, <2>4
  <1>4. CASE Written(shared'[p][CallOf(p).result])
    BY <1>1, <1>4
  <1> QED BY <1>1, <1>2, <1>3, <1>4

\* A result that is not begun stays blank, whoever writes.
LEMMA BlankStays ==
    ASSUME PlaceInv, StaysButForItsTask, UnbegunIsBlank, Quiet, MemoryKept,
           \A p \in Pids : PreBegun(p)' => done[p] \subseteq done'[p],
           \A p \in Pids : \A t : t[1] \notin EprKinds /\ PreBegun(p)' /\ Begun(p, t) => Begun(p, t)',
           qpu.doing # "nothing" /\ qpu.task = Multi /\ shared' # shared =>
               Finish(qpu.pid, qpu.task)
    PROVE  UnbegunIsBlank'
  <1> SUFFICES ASSUME NEW p \in Pids, ~ Ended(p)', PreBegun(p)'
               PROVE  /\ Current(p)'.typ = "QL" /\ ~ Begun(p, Routine)' =>
                            Blank(shared'[p][CallOf(p)'.result])
                      /\ Current(p)'.typ = "QC" =>
                            /\ Multi \notin done'[p] => Blank(shared'[p][CallOf(p)'.result])
                            /\ \A i \in DOMAIN CallOf(p)'.cbOut :
                                  ~ Begun(p, MultiCb)' /\ ~ Begun(p, PairCb(i))'
                                      => Blank(shared'[p][CallOf(p)'.cbOut[i]])
    BY DEF UnbegunIsBlank, Blank
  <1> PICK call : call = CallOf(p)
    OBVIOUS
  <1>1. /\ PreBegun(p) /\ ~ Ended(p) /\ Current(p)' = Current(p) /\ CallOf(p)' = call
    BY SameCall
  <1>2. Made(p, ptr[p]) /\ call = CallAt(p, ptr[p])
    BY <1>1 DEF PlaceInv, CallInv, CallIsLeft, Made, CallOf, CallAt
  <1>3. /\ Changes(p, call.result) => IsAt(p, ptr[p], {Routine, Multi})
        /\ \A i \in DOMAIN call.cbOut :
              Changes(p, call.cbOut[i]) => IsAt(p, ptr[p], {MultiCb, PairCb(i)})
    BY <1>2 DEF StaysButForItsTask
  <1>4. qpu.doing # "nothing" /\ qpu.pid = p => qpu.task \in TasksOf(Graph(p))
    BY DEF PlaceInv, CallInv, QpuOK, IsExecuted
  <1>5. Current(p).typ \in {"CL", "QL", "QC"} /\ Graph(p).typ = Current(p).typ
    BY <1>1, BlockFacts DEF PlaceInv, CallInv
  <1>6. \A t : t[1] \notin EprKinds /\ ~ Begun(p, t)' => ~ Begun(p, t)
    OBVIOUS
  <1>7. ASSUME Current(p).typ = "QL", ~ Begun(p, Routine)' PROVE Blank(shared'[p][call.result])
    <2>1. ~ Begun(p, Routine)
      BY <1>6, <1>7, TaskNames
    <2>2. Blank(shared[p][call.result])
      BY <1>1, <1>7, <2>1 DEF UnbegunIsBlank
    <2>3. ~ IsAt(p, ptr[p], {Routine, Multi})
      <3> SUFFICES ASSUME IsAt(p, ptr[p], {Routine, Multi}) PROVE FALSE
        OBVIOUS
      <3>1. qpu.doing # "nothing" /\ qpu.pid = p /\ qpu.task \in {Routine, Multi}
        BY DEF IsAt
      <3>2. qpu.task = Multi
        BY <2>1, <3>1 DEF Begun
      <3>3. Multi \in TasksOf(Graph(p)) /\ Graph(p).typ = "QL"
        BY <1>4, <1>5, <1>7, <3>1, <3>2
      <3> QED BY <1>5, <3>3, TasksByType, TaskNames
    <2> QED BY <1>3, <2>2, <2>3 DEF Changes
  <1>8. ASSUME Current(p).typ = "QC", Multi \notin done'[p] PROVE Blank(shared'[p][call.result])
    <2>1. Multi \notin done[p]
      BY <1>8
    <2>2. Blank(shared[p][call.result])
      BY <1>1, <1>8, <2>1 DEF UnbegunIsBlank
    <2>3. ASSUME Changes(p, call.result) PROVE FALSE
      <3>1. qpu.doing # "nothing" /\ qpu.pid = p /\ qpu.task \in {Routine, Multi}
        BY <1>3, <2>3 DEF IsAt
      <3>2. qpu.task = Multi
        <4>1. qpu.task \in TasksOf(Graph(p)) /\ Graph(p).typ = "QC"
          BY <1>4, <1>5, <1>8, <3>1
        <4>2. qpu.task # Routine
          BY <1>5, <4>1, TasksByType
        <4> QED BY <3>1, <4>2
      <3>3. shared' # shared
        BY <2>3 DEF Changes
      <3>4. Finish(p, Multi)
        BY <3>1, <3>2, <3>3
      <3> QED BY <1>8, <3>4 DEF Finish, PlaceInv, CallInv, TypeOK
    <2> QED BY <2>2, <2>3 DEF Changes
  <1>9. ASSUME Current(p).typ = "QC", NEW i \in DOMAIN call.cbOut,
               ~ Begun(p, MultiCb)', ~ Begun(p, PairCb(i))'
        PROVE  Blank(shared'[p][call.cbOut[i]])
    <2>1. ~ Begun(p, MultiCb) /\ ~ Begun(p, PairCb(i))
      BY <1>6, <1>9, TaskNames
    <2>2. Blank(shared[p][call.cbOut[i]])
      BY <1>1, <1>9, <2>1 DEF UnbegunIsBlank
    <2>3. ~ IsAt(p, ptr[p], {MultiCb, PairCb(i)})
      BY <2>1 DEF IsAt, Begun
    <2> QED BY <1>3, <2>2, <2>3 DEF Changes
  <1> QED BY <1>1, <1>7, <1>8, <1>9

\* What holds of the routine or the pair that the QPU is at holds as long as the QPU
\* is not at another.
LEMMA QpuFrame ==
    ASSUME RoutineHasQubits, PairsInTurn, qpu' = qpu, qubits' = qubits,
           qpu.doing # "nothing" => block'[qpu.pid] = block[qpu.pid]
    PROVE  RoutineHasQubits' /\ PairsInTurn'
  <1> PICK p : p = qpu.pid
    OBVIOUS
  <1>1. qpu.doing # "nothing" => Request(p)' = Request(p) /\ Current(p)' = Current(p)
    BY DEF Request, Current
  <1>2. RoutineHasQubits'
    <2> SUFFICES ASSUME qpu.doing = "code"
                 PROVE  /\ qpu.routine = RoutineOf(p, qpu.task)'
                        /\ \A v \in LocalRoutine[qpu.routine].uses \cap VirtIds : qubits[p][v] # Free
      BY DEF RoutineHasQubits, RoutineOf
    <2>1. RoutineOf(p, qpu.task)' = RoutineOf(p, qpu.task)
      BY <1>1 DEF RoutineOf
    <2> QED BY <2>1 DEF RoutineHasQubits
  <1>3. PairsInTurn'
    <2>1. CASE qpu.doing # "pair"
      BY <2>1 DEF PairsInTurn
    <2>2. CASE qpu.doing = "pair"
      <3> PICK r : r = Request(p)
        OBVIOUS
      <3>1. Request(p)' = r /\ qpu' = qpu /\ qubits' = qubits
        BY <1>1, <2>2
      <3> QED BY <2>2, <3>1 DEF PairsInTurn
    <2> QED BY <2>1, <2>2
  <1> QED BY <1>2, <1>3

\* The new arrays of a call are those that it hands around.
LEMMA LrCallFits ==
    ASSUME PlaceInv, ValuesOK, NEW p \in Pids, PrepareLrCall(p), ResultSize(Current(p)) = ReturnSize(p)
    PROVE  \E call, arrays :
              /\ PreCall(p, call, arrays) /\ FitsAfter(call, arrays, Len(shared[p])) /\ MemoryKept
              /\ \A q \in Pids : \A a \in 1..Len(shared[q]) : shared'[q][a] = shared[q][a]
              /\ IsOf(shared'[p][call.input], "LR_in", ArgCount(Current(p).args))
              /\ Written(shared'[p][call.input])
              /\ IsOf(shared'[p][call.result], "LR_out", ReturnSize(p))
              /\ Blank(shared'[p][call.result])
  <1> PICK call, arrays, n : call = LrCall(p) /\ arrays = LrArrays(p) /\ n = Len(shared[p])
    OBVIOUS
  <1>1. ~ Ended(p) /\ Current(p).typ = "QL" /\ PreCall(p, call, arrays)
    BY DEF PrepareLrCall
  <1>2. \E S : shared[p] \in Seq(S)
    BY DEF PlaceInv, MemoryGrows
  <1>3. n \in Nat
    BY <1>2
  <1>4. FitsAfter(call, arrays, n)
    BY <1>3, LrCallPlaced
  <1>5. /\ Len(arrays) = 2 /\ (\E T : arrays \in Seq(T)) /\ \A j \in 1..2 : IsArray(arrays[j])
        /\ IsOf(arrays[1], "LR_in", ArgCount(Current(p).args)) /\ Written(arrays[1])
        /\ IsOf(arrays[2], "LR_out", ResultSize(Current(p))) /\ Blank(arrays[2])
    BY <1>1, LrArraysFit DEF PlaceInv
  <1>6. /\ MemoryKept
        /\ \A q \in Pids : \A a \in 1..Len(shared[q]) : shared'[q][a] = shared[q][a]
        /\ \A j \in 1..Len(arrays) : shared'[p][n + j] = arrays[j]
    BY <1>1, <1>5, CallAppends
  <1>7. call.input = n + 1 /\ call.result = n + 2 /\ 1 \in 1..Len(arrays) /\ 2 \in 1..Len(arrays)
    BY <1>4, <1>5 DEF FitsAfter
  <1>8. shared'[p][call.input] = arrays[1] /\ shared'[p][call.result] = arrays[2]
    BY <1>6, <1>7
  <1> QED BY <1>1, <1>4, <1>5, <1>6, <1>8

\* The position of a callback's results among a call's arrays.
LEMMA CallbackSlot ==
    ASSUME NEW n \in Nat, NEW c \in Nat, NEW i \in 1..c
    PROVE  (n + 1) + 2 * i = n + (2 * i + 1) /\ 2 * i + 1 \in 1..(2 * c + 2)
  <1>1. i \in Nat /\ 1 <= i /\ i <= c
    OBVIOUS
  <1>2. (n + 1) + 2 * i = n + (2 * i + 1)
    BY <1>1
  <1>3. 2 * i + 1 \in Nat /\ 1 <= 2 * i + 1 /\ 2 * i + 1 <= 2 * c + 2
    BY <1>1
  <1> QED BY <1>2, <1>3

\* ... and so are those for a request and its callbacks.
LEMMA RrCallFits ==
    ASSUME PlaceInv, ValuesOK, NEW p \in Pids, PrepareRrCall(p)
    PROVE  \E call, arrays :
              /\ PreCall(p, call, arrays) /\ FitsAfter(call, arrays, Len(shared[p])) /\ MemoryKept
              /\ \A q \in Pids : \A a \in 1..Len(shared[q]) : shared'[q][a] = shared[q][a]
              /\ IsOf(shared'[p][call.result], "RR_out", Request(p).returns)
              /\ Blank(shared'[p][call.result])
              /\ DOMAIN call.cbOut = 1..CallbackCount(Request(p))
              /\ \A i \in 1..CallbackCount(Request(p)) :
                    /\ IsOf(shared'[p][call.cbOut[i]], "LR_out", CallbackReturns(Request(p)))
                    /\ Blank(shared'[p][call.cbOut[i]])
  <1> PICK call, arrays, n, c : /\ call = RrCall(p) /\ arrays = RrArrays(p) /\ n = Len(shared[p])
                                /\ c = CallbackCount(Request(p))
    OBVIOUS
  <1>1. ~ Ended(p) /\ Current(p).typ = "QC" /\ PreCall(p, call, arrays)
    BY DEF PrepareRrCall
  <1>2. \E S : shared[p] \in Seq(S)
    BY DEF PlaceInv, MemoryGrows
  <1>3. n \in Nat
    BY <1>2
  <1>4. /\ c \in Nat /\ Len(arrays) = 2 * c + 2
        /\ \A j \in 1..(2 * c + 2) : IsArray(arrays[j])
        /\ IsOf(arrays[2 * c + 2], "RR_out", Request(p).returns) /\ Blank(arrays[2 * c + 2])
        /\ \A i \in 1..c : /\ IsOf(arrays[2 * i + 1], "LR_out", CallbackReturns(Request(p)))
                           /\ Blank(arrays[2 * i + 1])
    BY <1>1, RrArraysFit DEF PlaceInv
  <1>5. FitsAfter(call, arrays, n) /\ DOMAIN call.cbOut = 1..c
    BY <1>3, <1>4, RrCallPlaced
  <1>6. /\ MemoryKept
        /\ \A q \in Pids : \A a \in 1..Len(shared[q]) : shared'[q][a] = shared[q][a]
        /\ \A j \in 1..Len(arrays) : shared'[p][n + j] = arrays[j]
    <2>1. (\E T : arrays \in Seq(T)) /\ \A j \in 1..Len(arrays) : IsArray(arrays[j])
      BY <1>4, <1>5 DEF FitsAfter
    <2> QED BY <1>1, <2>1, CallAppends
  <1>7. shared'[p][call.result] = arrays[2 * c + 2]
    <2>1. call.result = n + (2 * c + 2) /\ 2 * c + 2 \in 1..Len(arrays)
      BY <1>4, <1>5 DEF FitsAfter
    <2> QED BY <1>6, <2>1
  <1>8. \A i \in 1..c : shared'[p][call.cbOut[i]] = arrays[2 * i + 1]
    <2> TAKE i \in 1..c
    <2>1. call.cbOut = [j \in 1..c |-> (n + 1) + 2 * j]
      BY DEF RrCall
    <2>2. call.cbOut[i] = (n + 1) + 2 * i
      BY <2>1
    <2>3. (n + 1) + 2 * i = n + (2 * i + 1) /\ 2 * i + 1 \in 1..(2 * c + 2)
      BY <1>3, <1>4, CallbackSlot
    <2>4. PICK k : k = 2 * i + 1
      OBVIOUS
    <2>5. (n + 1) + 2 * i = n + k /\ k \in 1..(2 * c + 2)
      BY <2>3, <2>4
    <2>6. k \in 1..Len(arrays) /\ call.cbOut[i] = n + k
      BY <1>4, <2>2, <2>5
    <2>7. shared'[p][n + k] = arrays[k]
      BY <1>6, <2>6
    <2> QED BY <2>4, <2>6, <2>7
  <1>9. /\ PreCall(p, call, arrays) /\ FitsAfter(call, arrays, Len(shared[p])) /\ MemoryKept
        /\ \A q \in Pids : \A a \in 1..Len(shared[q]) : shared'[q][a] = shared[q][a]
    BY <1>1, <1>5, <1>6
  <1>10. /\ IsOf(shared'[p][call.result], "RR_out", Request(p).returns)
         /\ Blank(shared'[p][call.result])
         /\ DOMAIN call.cbOut = 1..CallbackCount(Request(p))
         /\ \A i \in 1..CallbackCount(Request(p)) :
               /\ IsOf(shared'[p][call.cbOut[i]], "LR_out", CallbackReturns(Request(p)))
               /\ Blank(shared'[p][call.cbOut[i]])
    BY <1>4, <1>5, <1>7, <1>8
  <1> QED BY <1>9, <1>10

\* A call that is not mistaken adds arrays that fit, and disturbs none.
LEMMA CallAccess ==
    ASSUME PlaceInv, ~ fault, ValuesOK, ArraysFit, OutcomesWritten, UnbegunIsBlank,
           NEW p \in Pids, PrepareLrCall(p) \/ PrepareRrCall(p), ~ Miscalls(p)
    PROVE  /\ ~ fault' /\ MemoryKept
           /\ ArraysFit' /\ OutcomesWritten' /\ UnbegunIsBlank'
           /\ UNCHANGED <<block, done, host, regs, qubits, qpu>>
  <1>1. ResultSize(Current(p)) = ReturnSize(p)
    BY DEF Miscalls
  <1>2. PICK call, arrays :
          /\ PreCall(p, call, arrays) /\ MemoryKept
          /\ \A q \in Pids : \A a \in 1..Len(shared[q]) : shared'[q][a] = shared[q][a]
          /\ Blank(shared'[p][call.result])
          /\ \/ /\ Current(p).typ = "QL"
                /\ IsOf(shared'[p][call.input], "LR_in", ArgCount(Current(p).args))
                /\ Written(shared'[p][call.input])
                /\ IsOf(shared'[p][call.result], "LR_out", ReturnSize(p))
             \/ /\ Current(p).typ = "QC"
                /\ IsOf(shared'[p][call.result], "RR_out", Request(p).returns)
                /\ DOMAIN call.cbOut = 1..CallbackCount(Request(p))
                /\ \A i \in 1..CallbackCount(Request(p)) :
                      /\ IsOf(shared'[p][call.cbOut[i]], "LR_out", CallbackReturns(Request(p)))
                      /\ Blank(shared'[p][call.cbOut[i]])
    <2>1. CASE PrepareLrCall(p)
      <3>1. Current(p).typ = "QL"
        BY <2>1 DEF PrepareLrCall
      <3> QED BY <1>1, <2>1, <3>1, LrCallFits
    <2>2. CASE PrepareRrCall(p)
      <3>1. Current(p).typ = "QC"
        BY <2>2 DEF PrepareRrCall
      <3> QED BY <2>2, <3>1, RrCallFits
    <2> QED BY <2>1, <2>2
  <1>3. /\ cpu = Idle /\ ~ Ended(p) /\ Pre \notin done[p]
        /\ calls' = Extended(calls, <<p, ptr[p]>>, call)
        /\ cpu'.pid = p /\ cpu'.task = Pre
        /\ UNCHANGED <<block, ptr, done, host, regs, qubits, qpu>>
    BY <1>2 DEF PreCall, CpuMayStart, Ready, control, hostVars, Idle
  <1>4. ~ fault'
    <2>1. fault' = \/ ResultSize(Current(p)) # ReturnSize(p)
                   \/ \E i \in DOMAIN Current(p).args : host[p][Current(p).args[i]] = NoVar
      BY <1>2 DEF PreCall
    <2> QED BY <2>1 DEF Miscalls
  <1>5. \A q \in Pids : /\ Ended(q)' = Ended(q) /\ Current(q)' = Current(q)
                        /\ Request(q)' = Request(q) /\ ReturnSize(q)' = ReturnSize(q)
    BY <1>3 DEF Ended, Current, Request, ReturnSize
  <1>6. /\ CallOf(p)' = call
        /\ \A q \in Pids : <<q, ptr[q]>> \in DOMAIN calls /\ q # p => CallOf(q)' = CallOf(q)
    BY <1>3 DEF CallOf, Extended
  <1>7. ASSUME NEW q \in Pids, PreBegun(q)', q # p
        PROVE  PreBegun(q) /\ CallOf(q)' = CallOf(q)
    <2>1. PreBegun(q)
      BY <1>3, <1>7 DEF PreBegun
    <2>2. <<q, ptr[q]>> \in DOMAIN calls
      BY <2>1 DEF PlaceInv, CallInv, CallIsLeft
    <2> QED BY <1>6, <1>7, <2>1, <2>2
  <1>8. ArraysFit'
    <2> SUFFICES ASSUME NEW q \in Pids, ~ Ended(q)', PreBegun(q)'
                 PROVE  /\ Current(q)'.typ # "CL" /\ ResultSize(Current(q)') = ReturnSize(q)'
                        /\ Current(q)'.typ = "QL" =>
                              /\ IsOf(shared'[q][CallOf(q)'.input], "LR_in", ArgCount(Current(q)'.args))
                              /\ Written(shared'[q][CallOf(q)'.input])
                              /\ IsOf(shared'[q][CallOf(q)'.result], "LR_out", ReturnSize(q)')
                        /\ Current(q)'.typ = "QC" =>
                              /\ IsOf(shared'[q][CallOf(q)'.result], "RR_out", Request(q)'.returns)
                              /\ \A i \in 1..CallbackCount(Request(q)') :
                                    IsOf(shared'[q][CallOf(q)'.cbOut[i]], "LR_out",
                                         CallbackReturns(Request(q)'))
      BY DEF ArraysFit, ResultSize, ArgCount, Firsts, IsOf, Written, CallbackCount, CallbackReturns
    <2>1. CASE q = p
      BY <1>1, <1>2, <1>5, <1>6, <2>1
    <2>2. CASE q # p
      <3> PICK b, own, r : b = Current(q) /\ own = CallOf(q) /\ r = Request(q)
        OBVIOUS
      <3>1. /\ PreBegun(q) /\ ~ Ended(q)
            /\ Current(q)' = b /\ CallOf(q)' = own /\ Request(q)' = r /\ ReturnSize(q)' = ReturnSize(q)
        BY <1>5, <1>7, <2>2
      <3>2. /\ b.typ # "CL" /\ ResultSize(b) = ReturnSize(q)
            /\ b.typ = "QL" => /\ IsOf(shared[q][own.input], "LR_in", ArgCount(b.args))
                               /\ Written(shared[q][own.input])
                               /\ IsOf(shared[q][own.result], "LR_out", ReturnSize(q))
            /\ b.typ = "QC" => /\ IsOf(shared[q][own.result], "RR_out", r.returns)
                               /\ \A i \in 1..CallbackCount(r) :
                                     IsOf(shared[q][own.cbOut[i]], "LR_out", CallbackReturns(r))
        BY <3>1 DEF ArraysFit
      <3>3. /\ own.input \in 1..Len(shared[q]) /\ own.result \in 1..Len(shared[q])
            /\ b.typ = "QC" => \A i \in 1..CallbackCount(r) : own.cbOut[i] \in 1..Len(shared[q])
        BY <3>1, <3>2, CallAddresses
      <3>4. /\ shared'[q][own.input] = shared[q][own.input]
            /\ shared'[q][own.result] = shared[q][own.result]
            /\ b.typ = "QC" => \A i \in 1..CallbackCount(r) :
                                   shared'[q][own.cbOut[i]] = shared[q][own.cbOut[i]]
        BY <1>2, <3>3
      <3> QED BY <3>1, <3>2, <3>4
    <2> QED BY <2>1, <2>2
  <1>9. OutcomesWritten'
    <2> SUFFICES ASSUME NEW q \in Pids, Multi \in done[q]
                 PROVE  CallOf(q)' = CallOf(q) /\ PreBegun(q)
      BY <1>2, <1>3, OutcomesStay
    <2>1. ~ Ended(q) /\ Multi \in TasksOf(Graph(q)) /\ PredsOf(Graph(q), Multi) \subseteq done[q]
      BY DEF PlaceInv, CallInv, DoneInOrder
    <2>2. Pre \in done[q]
      BY <2>1, PreComesFirst, TaskNames DEF PlaceInv, CallInv
    <2>3. q # p /\ PreBegun(q)
      BY <1>3, <2>2 DEF PreBegun
    <2>4. <<q, ptr[q]>> \in DOMAIN calls
      BY <2>3 DEF PlaceInv, CallInv, CallIsLeft
    <2> QED BY <1>6, <2>3, <2>4
  <1>10. UnbegunIsBlank'
    <2> SUFFICES ASSUME NEW q \in Pids, ~ Ended(q)', PreBegun(q)'
                 PROVE  /\ Current(q)'.typ = "QL" /\ ~ Begun(q, Routine)' =>
                              Blank(shared'[q][CallOf(q)'.result])
                        /\ Current(q)'.typ = "QC" =>
                              /\ Multi \notin done'[q] => Blank(shared'[q][CallOf(q)'.result])
                              /\ \A i \in DOMAIN CallOf(q)'.cbOut :
                                    ~ Begun(q, MultiCb)' /\ ~ Begun(q, PairCb(i))'
                                        => Blank(shared'[q][CallOf(q)'.cbOut[i]])
      BY DEF UnbegunIsBlank, Blank
    <2>1. CASE q = p
      BY <1>2, <1>5, <1>6, <2>1
    <2>2. CASE q # p
      <3> PICK b, own : b = Current(q) /\ own = CallOf(q)
        OBVIOUS
      <3>1. PreBegun(q) /\ ~ Ended(q) /\ Current(q)' = b /\ CallOf(q)' = own
        BY <1>5, <1>7, <2>2
      <3>2. \A t : Begun(q, t)' = Begun(q, t)
        BY <1>3 DEF Begun
      <3>3. b.typ # "CL"
        BY <3>1 DEF ArraysFit
      <3>4. /\ own.result \in 1..Len(shared[q])
            /\ \A i \in DOMAIN own.cbOut : own.cbOut[i] \in 1..Len(shared[q])
        BY <3>1, <3>3, CallAddresses
      <3>5. /\ shared'[q][own.result] = shared[q][own.result]
            /\ \A i \in DOMAIN own.cbOut : shared'[q][own.cbOut[i]] = shared[q][own.cbOut[i]]
        BY <1>2, <3>4
      <3>6. /\ b.typ = "QL" /\ ~ Begun(q, Routine) => Blank(shared[q][own.result])
            /\ b.typ = "QC" =>
                  /\ Multi \notin done[q] => Blank(shared[q][own.result])
                  /\ \A i \in DOMAIN own.cbOut :
                        ~ Begun(q, MultiCb) /\ ~ Begun(q, PairCb(i)) => Blank(shared[q][own.cbOut[i]])
        BY <3>1 DEF UnbegunIsBlank
      <3> QED BY <1>3, <3>1, <3>2, <3>5, <3>6
    <2> QED BY <2>1, <2>2
  <1> QED BY <1>2, <1>3, <1>4, <1>8, <1>9, <1>10

\* A step of the QPU, with what it does to shared memory.
LEMMA QpuStepKeeps ==
    ASSUME PlaceInv, StaysButForItsTask, ArraysFit, OutcomesWritten, UnbegunIsBlank, MemoryKept,
           UNCHANGED <<block, ptr, calls, cpu>>,
           \/ done' = done /\ qpu.doing = "nothing"
           \/ done' = done /\ qpu.doing = "pair" /\ shared' = shared
           \/ /\ done' = done /\ qpu.doing = "code" /\ qpu'.doing = "code"
              /\ qpu'.pid = qpu.pid /\ qpu'.task = qpu.task
           \/ qpu.doing # "nothing" /\ Finish(qpu.pid, qpu.task),
           qpu.doing # "nothing" /\ qpu.task = Multi /\ Finish(qpu.pid, qpu.task) =>
               ~ Request(qpu.pid).measure \/ Written(shared'[qpu.pid][CallOf(qpu.pid).result])
    PROVE  ArraysFit' /\ OutcomesWritten' /\ UnbegunIsBlank'
  <1>1. Quiet
    BY QpuIsQuiet
  <1>2. ArraysFit'
    BY <1>1, QuietFits
  <1>3. /\ qpu.doing # "nothing" => qpu.pid \in Pids /\ Pre \in done[qpu.pid]
        /\ qpu.doing = "code" => qpu.task[1] \notin EprKinds /\ qpu.task # Multi
        /\ qpu.doing = "pair" => qpu.task[1] \in EprKinds
        /\ qpu.doing \in {"nothing", "code", "pair"}
    <2>1. qpu.doing # "nothing" => qpu.pid \in Pids /\ Pre \in done[qpu.pid]
      BY ExecutedFacts DEF PlaceInv, CallInv, QpuOK, IsExecuted
    <2> QED BY <2>1, TaskNames DEF PlaceInv, CallInv, QpuOK
  <1>4. \A p \in Pids : \/ done'[p] = done[p]
                        \/ /\ qpu.doing # "nothing" /\ p = qpu.pid /\ done'[p] = done[p] \cup {qpu.task}
                           /\ Finish(qpu.pid, qpu.task)
    BY <1>3 DEF Finish, PlaceInv, CallInv, TypeOK
  <1>5. OutcomesWritten'
    <2> SUFFICES ASSUME NEW p \in Pids, Multi \in done'[p]
                 PROVE  /\ block'[p] = block[p] /\ CallOf(p)' = CallOf(p) /\ PreBegun(p)
                        /\ \/ Multi \in done[p]
                           \/ ~ Request(p).measure \/ Written(shared'[p][CallOf(p).result])
      BY OutcomesStay
    <2>1. CallOf(p)' = CallOf(p)
      BY DEF CallOf
    <2>2. CASE Multi \in done[p]
      <3>1. ~ Ended(p) /\ Multi \in TasksOf(Graph(p)) /\ PredsOf(Graph(p), Multi) \subseteq done[p]
        BY <2>2 DEF PlaceInv, CallInv, DoneInOrder
      <3>2. Pre \in done[p]
        BY <3>1, PreComesFirst, TaskNames DEF PlaceInv, CallInv
      <3> QED BY <2>1, <2>2, <3>2 DEF PreBegun
    <2>3. CASE Multi \notin done[p]
      <3>1. qpu.doing # "nothing" /\ p = qpu.pid /\ qpu.task = Multi /\ Finish(qpu.pid, qpu.task)
        BY <1>4, <2>3
      <3>2. PreBegun(p)
        BY <1>3, <3>1 DEF PreBegun
      <3> QED BY <2>1, <3>1, <3>2
    <2> QED BY <2>2, <2>3
  <1>6. UnbegunIsBlank'
    <2>1. \A p \in Pids : done[p] \subseteq done'[p]
      BY <1>4
    <2>2. ASSUME NEW p \in Pids, NEW t, t[1] \notin EprKinds, Begun(p, t) PROVE Begun(p, t)'
      <3>1. CASE t \in done[p]
        BY <2>1, <3>1 DEF Begun
      <3>2. CASE qpu.doing # "nothing" /\ qpu.pid = p /\ qpu.task = t
        <4>1. qpu.doing = "code"
          BY <1>3, <2>2, <3>2
        <4>2. CASE Finish(qpu.pid, qpu.task)
          <5>1. t \in done'[p]
            BY <3>2, <4>2 DEF Finish, PlaceInv, CallInv, TypeOK
          <5> QED BY <5>1 DEF Begun
        <4>3. CASE qpu'.doing = "code" /\ qpu'.pid = qpu.pid /\ qpu'.task = qpu.task
          BY <3>2, <4>3 DEF Begun
        <4> QED BY <4>1, <4>2, <4>3
      <3> QED BY <2>2, <3>1, <3>2 DEF Begun
    <2>3. qpu.doing # "nothing" /\ qpu.task = Multi /\ shared' # shared => Finish(qpu.pid, qpu.task)
      BY <1>3
    <2> QED BY <1>1, <2>1, <2>2, <2>3, BlankStays
  <1> QED BY <1>2, <1>5, <1>6

\* Routines begin with their qubits, and the QPU is at nothing when they end.
LEMMA RoutineAccess ==
    ASSUME PlaceInv, ValuesOK,
           \/ \E p \in Pids : StartLocalRoutine(p) \/ \E t, i : StartCallback(p, t, i)
           \/ EndRoutine \/ PairFails
    PROVE  /\ qubits' \in [Pids -> [VirtIds -> Int]] /\ RoutineHasQubits' /\ PairsInTurn'
           /\ UNCHANGED <<block, ptr, calls, cpu, host, regs, shared, fault>>
           /\ \/ done' = done /\ qpu.doing \in {"nothing", "pair"}
              \/ qpu.doing = "code" /\ Finish(qpu.pid, qpu.task)
  <1>1. qubits \in [Pids -> [VirtIds -> Int]] /\ Free \in Int /\ Fresh \in Int /\ Free # Fresh
    BY DEF ValuesOK, Free, Fresh
  <1>2. ASSUME NEW p \in Pids, NEW t, NEW name, NEW input, NEW result, qpu = Idle,
               RunCode(p, t, name, input, result), name = RoutineOf(p, t)
        PROVE  /\ qubits' \in [Pids -> [VirtIds -> Int]] /\ RoutineHasQubits' /\ PairsInTurn'
               /\ UNCHANGED <<block, ptr, calls, cpu, host, regs, shared, fault, done>>
               /\ qpu.doing = "nothing"
    <2>1. /\ UNCHANGED <<block, ptr, calls, cpu, host, regs, shared, fault, done>>
          /\ qpu'.pid = p /\ qpu'.task = t /\ qpu'.doing = "code" /\ qpu'.routine = name
          /\ qpu.doing = "nothing"
          /\ qubits' = [qubits EXCEPT ![p] = [v \in VirtIds |->
                IF v \in LocalRoutine[name].uses /\ qubits[p][v] = Free THEN Fresh ELSE qubits[p][v]]]
      BY <1>2 DEF RunCode, control, hostVars, Idle
    <2>2. qubits' \in [Pids -> [VirtIds -> Int]]
      BY <1>1, <2>1
    <2>3. RoutineOf(p, t)' = name
      BY <1>2, <2>1 DEF RoutineOf, Request, Current
    <2>4. \A v \in LocalRoutine[name].uses \cap VirtIds : qubits'[p][v] # Free
      BY <1>1, <2>1
    <2> QED BY <2>1, <2>2, <2>3, <2>4 DEF RoutineHasQubits, PairsInTurn
  <1>3. ASSUME NEW p \in Pids, StartLocalRoutine(p)
        PROVE  \E name, input, result : /\ qpu = Idle /\ RunCode(p, Routine, name, input, result)
                                        /\ name = RoutineOf(p, Routine)
    BY <1>3, TaskNames DEF StartLocalRoutine, QpuMayStart, RoutineOf
  <1>4. ASSUME NEW p \in Pids, NEW t, NEW i, StartCallback(p, t, i)
        PROVE  \E name, input, result : /\ qpu = Idle /\ RunCode(p, t, name, input, result)
                                        /\ name = RoutineOf(p, t)
    BY <1>4 DEF StartCallback, QpuMayStart, RoutineOf
  <1>5. CASE EndRoutine
    <2>1. /\ UNCHANGED <<block, ptr, calls, cpu, host, regs, shared, fault>>
          /\ qpu'.doing = "nothing" /\ qpu.doing = "code" /\ Finish(qpu.pid, qpu.task)
          /\ qubits' = [qubits EXCEPT ![qpu.pid] = [v \in VirtIds |->
                IF v \in LocalRoutine[qpu.routine].uses \ LocalRoutine[qpu.routine].keeps
                THEN Free ELSE qubits[qpu.pid][v]]]
      BY <1>5 DEF EndRoutine, control, hostVars, Idle
    <2>2. qpu.pid \in Pids
      BY <2>1 DEF PlaceInv, CallInv, QpuOK, IsExecuted
    <2>3. qubits' \in [Pids -> [VirtIds -> Int]]
      BY <1>1, <2>1, <2>2
    <2> QED BY <2>1, <2>3 DEF RoutineHasQubits, PairsInTurn
  <1>6. CASE PairFails
    <2>1. /\ UNCHANGED <<block, ptr, calls, cpu, host, regs, shared, fault, done>>
          /\ qpu'.doing = "nothing" /\ qpu.doing = "pair"
          /\ qubits' = [qubits EXCEPT ![qpu.pid][PairQubit] = Free]
      BY <1>6 DEF PairFails, WaitsForPair, control, hostVars, Idle
    <2>2. qubits' \in [Pids -> [VirtIds -> Int]]
      BY <1>1, <2>1
    <2> QED BY <2>1, <2>2 DEF RoutineHasQubits, PairsInTurn
  <1> QED BY <1>2, <1>3, <1>4, <1>5, <1>6

CpuStep ==
    \/ HostStep \/ EndHostLocal \/ EndCall
    \/ \E p \in Pids : StartHostLocal(p) \/ PostCall(p) \/ NextBlock(p)

\* What the host, and the node scheduler, leave as it was.
LEMMA CpuFrame ==
    ASSUME PlaceInv, CpuStep
    PROVE  /\ UNCHANGED <<regs, qubits, qpu, calls>>
           /\ \A p \in Pids :
                 \/ /\ block'[p] = block[p] /\ ptr'[p] = ptr[p] /\ done[p] \subseteq done'[p]
                    /\ Multi \in done'[p] => Multi \in done[p]
                 \/ done'[p] = {} /\ TasksOf(Graph(p)) = done[p] /\ ptr'[p] # ptr[p]
  <1>1. CASE HostStep
    <2>1. UNCHANGED <<block, ptr, done, calls, regs, qubits, qpu>>
      BY <1>1 DEF HostStep, AssignCValue, AddCValue, MultiplyConstantCValue, ReturnResult,
             BitConditionalMultiplyConstantCValue, BranchIf, Jump, HostExecutes
    <2> QED BY <2>1
  <1>2. CASE EndHostLocal \/ EndCall
    <2>1. /\ UNCHANGED <<block, ptr, calls, regs, qubits, qpu>> /\ Finish(cpu.pid, cpu.task)
          /\ cpu.task # Multi
      BY <1>2, TaskNames DEF EndHostLocal, EndCall, control, PlaceInv, CallInv, CpuOK
    <2>2. \A p \in Pids : done[p] \subseteq done'[p] /\ (Multi \in done'[p] => Multi \in done[p])
      BY <2>1 DEF Finish, PlaceInv, CallInv, TypeOK
    <2> QED BY <2>1, <2>2
  <1>3. ASSUME NEW p \in Pids, StartHostLocal(p) \/ PostCall(p)
        PROVE  UNCHANGED <<block, ptr, done, calls, regs, qubits, qpu>>
    BY <1>3 DEF StartHostLocal, PostCall, control
  <1>4. ASSUME NEW p \in Pids, NextBlock(p)
        PROVE  /\ UNCHANGED <<regs, qubits, qpu, calls>>
               /\ \A q \in Pids \ {p} : block'[q] = block[q] /\ ptr'[q] = ptr[q] /\ done'[q] = done[q]
               /\ done'[p] = {} /\ TasksOf(Graph(p)) = done[p] /\ ptr'[p] # ptr[p]
    <2>1. /\ UNCHANGED <<regs, qubits, qpu, calls>>
          /\ block' = [block EXCEPT ![p] = IF jumps[p] # NoJump THEN jumps[p] ELSE @ + 1]
          /\ ptr' = [ptr EXCEPT ![p] = @ + 1] /\ done' = [done EXCEPT ![p] = {}]
          /\ TasksOf(Graph(p)) = done[p]
      BY <1>4 DEF NextBlock, Graph
    <2>2. ptr[p] \in Nat
      BY DEF PlaceInv, CallInv, TypeOK
    <2>3. ptr'[p] = ptr[p] + 1 /\ done'[p] = {}
          /\ \A q \in Pids \ {p} : block'[q] = block[q] /\ ptr'[q] = ptr[q] /\ done'[q] = done[q]
      BY <2>1 DEF PlaceInv, CallInv, TypeOK
    <2> QED BY <2>1, <2>2, <2>3
  <1> QED BY <1>1, <1>2, <1>3, <1>4 DEF CpuStep

\* A step of the CPU, or of its scheduler, is refused nothing.
LEMMA CpuAccess ==
    ASSUME PlaceInv, StaysButForItsTask, AccessInv, CpuStep, ~ OwnMistake
    PROVE  AccessInv'
  <1> USE DEF AccessInv
  <1>1. /\ UNCHANGED <<regs, qubits, qpu, calls>>
        /\ \A p \in Pids :
              \/ /\ block'[p] = block[p] /\ ptr'[p] = ptr[p] /\ done[p] \subseteq done'[p]
                 /\ Multi \in done'[p] => Multi \in done[p]
              \/ done'[p] = {} /\ TasksOf(Graph(p)) = done[p] /\ ptr'[p] # ptr[p]
    BY CpuFrame
  <1>2. Quiet /\ shared' = shared
    BY CpuIsQuiet DEF CpuStep
  <1>3. MemoryKept
    BY <1>2, SameMemory
  <1>4. ~ fault' /\ host' \in [Pids -> [Vars -> Seq(Int)]]
    <2>1. CASE HostStep
      BY <2>1, HostStepValues DEF OwnMistake, PlaceInv, NoFault
    <2>2. ASSUME NEW p \in Pids, PostCall(p)
          PROVE  ~ fault' /\ host' \in [Pids -> [Vars -> Seq(Int)]]
      BY <2>2, PostCallValues
    <2>3. CASE EndHostLocal \/ EndCall \/ \E p \in Pids : StartHostLocal(p) \/ NextBlock(p)
      <3>1. fault' = fault /\ host' = host
        BY <2>3 DEF EndHostLocal, EndCall, StartHostLocal, NextBlock, hostVars
      <3> QED BY <3>1 DEF NoFault, ValuesOK
    <2> QED BY <2>1, <2>2, <2>3 DEF CpuStep
  <1>5. ValuesOK'
    BY <1>1, <1>3, <1>4 DEF ValuesOK, MemoryKept
  <1>6. ArraysFit'
    BY <1>2, <1>3, QuietFits
  <1>7. RoutineHasQubits' /\ PairsInTurn'
    <2>1. qpu.doing # "nothing" => block'[qpu.pid] = block[qpu.pid]
      <3>1. qpu.doing # "nothing" => /\ qpu.pid \in Pids
                                     /\ qpu.task \in TasksOf(Graph(qpu.pid)) \ done[qpu.pid]
        BY DEF PlaceInv, CallInv, QpuOK, IsExecuted
      <3> QED BY <1>1, <3>1
    <2> QED BY <1>1, <2>1, QpuFrame
  <1>8. OutcomesWritten'
    <2> SUFFICES ASSUME NEW p \in Pids, Multi \in done'[p]
                 PROVE  /\ block'[p] = block[p] /\ CallOf(p)' = CallOf(p) /\ PreBegun(p)
                        /\ Multi \in done[p]
      BY <1>3, OutcomesStay
    <2>1. block'[p] = block[p] /\ ptr'[p] = ptr[p] /\ Multi \in done[p]
      BY <1>1
    <2>2. CallOf(p)' = CallOf(p)
      BY <1>1, <2>1 DEF CallOf
    <2>3. ~ Ended(p) /\ Multi \in TasksOf(Graph(p)) /\ PredsOf(Graph(p), Multi) \subseteq done[p]
      BY <2>1 DEF PlaceInv, CallInv, DoneInOrder
    <2>4. Pre \in done[p]
      BY <2>3, PreComesFirst, TaskNames DEF PlaceInv, CallInv
    <2> QED BY <2>1, <2>2, <2>4 DEF PreBegun
  <1>9. UnbegunIsBlank'
    <2>1. \A p \in Pids : PreBegun(p)' => done[p] \subseteq done'[p]
      BY <1>1, <1>2 DEF Quiet
    <2>2. \A p \in Pids : \A t : t[1] \notin EprKinds /\ PreBegun(p)' /\ Begun(p, t) => Begun(p, t)'
      BY <1>1, <2>1 DEF Begun
    <2> QED BY <1>2, <1>3, <2>1, <2>2, BlankStays
  <1> QED BY <1>4, <1>5, <1>6, <1>7, <1>8, <1>9 DEF NoFault

\* A step of the QPU.
LEMMA QpuAccess ==
    ASSUME PlaceInv, PlaceInv', StaysButForItsTask, AccessInv, ~ OwnMistake,
           \/ QnosStep \/ EndRoutine \/ KeepPair \/ MeasurePair \/ PairFails
           \/ \E p \in Pids :
                 \/ StartLocalRoutine(p) \/ \E t, i : StartCallback(p, t, i)
                 \/ StartMultiPair(p) \/ \E i \in 1..Request(p).pairs : StartSinglePair(p, i)
    PROVE  AccessInv'
  <1>1. /\ ~ fault /\ ValuesOK /\ ArraysFit /\ RoutineHasQubits /\ PairsInTurn
        /\ OutcomesWritten /\ UnbegunIsBlank
    BY DEF AccessInv, NoFault
  <1>2. SUFFICES /\ ~ fault' /\ MemoryKept /\ host' = host
                 /\ regs' \in [Pids -> [Regs -> Int]] /\ qubits' \in [Pids -> [VirtIds -> Int]]
                 /\ RoutineHasQubits' /\ PairsInTurn'
                 /\ ArraysFit' /\ OutcomesWritten' /\ UnbegunIsBlank'
    BY <1>1 DEF AccessInv, NoFault, ValuesOK, MemoryKept
  <1>3. regs \in [Pids -> [Regs -> Int]] /\ (shared' = shared => MemoryKept)
    BY <1>1, SameMemory DEF ValuesOK
  <1>4. CASE QnosStep
    <2>1. ~ QnosErrs
      BY DEF OwnMistake
    <2>2. /\ qpu.doing = "code" /\ UNCHANGED <<block, ptr, done, calls, host, cpu>>
          /\ qpu'.doing = qpu.doing /\ qpu'.pid = qpu.pid /\ qpu'.task = qpu.task
          /\ qpu'.routine = qpu.routine
      BY <1>4, QnosStepFrame
    <2>3. /\ ~ fault' /\ MemoryKept /\ qubits' \in [Pids -> [VirtIds -> Int]]
          /\ \A p \in Pids : \A v \in VirtIds : qubits'[p][v] = Free <=> qubits[p][v] = Free
      BY <1>1, <1>4, <2>1, QnosStepAccess
    <2>4. regs' \in [Pids -> [Regs -> Int]]
      BY <1>1, <1>4, <2>1, RegistersStay
    <2>5. qpu.pid \in Pids /\ qpu.task # Multi
      BY <2>2, TaskNames DEF PlaceInv, CallInv, QpuOK, IsExecuted
    <2>6. RoutineHasQubits' /\ PairsInTurn'
      <3>1. RoutineOf(qpu.pid, qpu.task)' = RoutineOf(qpu.pid, qpu.task)
        BY <2>2 DEF RoutineOf, Request, Current
      <3> QED BY <1>1, <2>2, <2>3, <2>5, <3>1 DEF RoutineHasQubits, PairsInTurn
    <2>7. ArraysFit' /\ OutcomesWritten' /\ UnbegunIsBlank'
      BY <1>1, <2>2, <2>3, <2>5, QpuStepKeeps
    <2> QED BY <2>2, <2>3, <2>4, <2>6, <2>7
  <1>5. CASE EndRoutine \/ PairFails
             \/ \E p \in Pids : StartLocalRoutine(p) \/ \E t, i : StartCallback(p, t, i)
    <2>1. /\ qubits' \in [Pids -> [VirtIds -> Int]] /\ RoutineHasQubits' /\ PairsInTurn'
          /\ UNCHANGED <<block, ptr, calls, cpu, host, regs, shared, fault>>
          /\ \/ done' = done /\ qpu.doing \in {"nothing", "pair"}
             \/ qpu.doing = "code" /\ Finish(qpu.pid, qpu.task)
      BY <1>1, <1>5, RoutineAccess
    <2>2. qpu.doing = "code" => qpu.task # Multi
      BY TaskNames DEF PlaceInv, CallInv, QpuOK
    <2>3. qpu.doing # "nothing" => qpu.pid \in Pids /\ qpu.task \notin done[qpu.pid]
      BY DEF PlaceInv, CallInv, QpuOK, IsExecuted
    <2>4. done' = done /\ qpu.doing # "nothing" => ~ Finish(qpu.pid, qpu.task)
      BY <2>3 DEF Finish, PlaceInv, CallInv, TypeOK
    <2>5. MemoryKept
      BY <1>3, <2>1
    <2>6. ArraysFit' /\ OutcomesWritten' /\ UnbegunIsBlank'
      BY <1>1, <2>1, <2>2, <2>4, <2>5, QpuStepKeeps
    <2> QED BY <1>1, <1>3, <2>1, <2>5, <2>6
  <1>6. CASE \E p \in Pids : StartMultiPair(p) \/ \E i \in 1..Request(p).pairs : StartSinglePair(p, i)
    <2>1. PICK p \in Pids : StartMultiPair(p) \/ \E i \in 1..Request(p).pairs : StartSinglePair(p, i)
      BY <1>6
    <2>2. /\ ~ fault' /\ qubits' \in [Pids -> [VirtIds -> Int]] /\ PairsInTurn'
          /\ qpu'.doing = "pair" /\ done' = done
      BY <1>1, <2>1, PairsStartAccess
    <2>3. UNCHANGED <<block, ptr, calls, cpu, host, regs, shared>> /\ qpu.doing = "nothing"
      <3>1. \E t, indices : StartPairs(p, t, indices)
        BY <2>1 DEF StartMultiPair, StartSinglePair
      <3> QED BY <3>1 DEF StartPairs, QpuMayStart, control, hostVars, Idle
    <2>4. MemoryKept
      BY <1>3, <2>3
    <2>5. ArraysFit' /\ OutcomesWritten' /\ UnbegunIsBlank'
      BY <1>1, <2>2, <2>3, <2>4, QpuStepKeeps
    <2> QED BY <1>3, <2>2, <2>3, <2>4, <2>5 DEF RoutineHasQubits
  <1>7. CASE KeepPair
    <2>1. WellDeclared(Request(qpu.pid))
      BY <1>7 DEF OwnMistake
    <2>2. /\ ~ fault' /\ qubits' \in [Pids -> [VirtIds -> Int]] /\ PairsInTurn'
          /\ qpu'.doing # "code"
          /\ done' = done \/ Finish(qpu.pid, qpu.task)
      BY <1>1, <1>7, <2>1, KeepPairAccess
    <2>3. UNCHANGED <<block, ptr, calls, cpu, host, regs, shared>> /\ qpu.doing = "pair"
      BY <1>7 DEF KeepPair, WaitsForPair, control, hostVars
    <2>4. qpu.task = Multi => ~ Request(qpu.pid).measure
      BY <1>7 DEF KeepPair, MeasuredDirectly
    <2>5. MemoryKept
      BY <1>3, <2>3
    <2>6. ArraysFit' /\ OutcomesWritten' /\ UnbegunIsBlank'
      BY <1>1, <2>2, <2>3, <2>4, <2>5, QpuStepKeeps
    <2> QED BY <1>3, <2>2, <2>3, <2>5, <2>6 DEF RoutineHasQubits
  <1>8. CASE MeasurePair
    <2>1. WellDeclared(Request(qpu.pid))
      BY <1>8 DEF OwnMistake
    <2>2. /\ ~ fault' /\ qubits' \in [Pids -> [VirtIds -> Int]] /\ PairsInTurn' /\ MemoryKept
          /\ qpu'.doing # "code"
          /\ \/ done' = done /\ shared' = shared /\ qpu'.doing = "pair"
             \/ /\ Finish(qpu.pid, qpu.task)
                /\ Written(shared'[qpu.pid][CallOf(qpu.pid).result])
      BY <1>1, <1>8, <2>1, MeasurePairAccess
    <2>3. UNCHANGED <<block, ptr, calls, cpu, host, regs>> /\ qpu.doing = "pair"
      BY <1>8 DEF MeasurePair, WaitsForPair, control, hostVars
    <2>4. qpu.pid \in Pids /\ qpu.task \notin done[qpu.pid]
      BY <2>3 DEF PlaceInv, CallInv, QpuOK, IsExecuted
    <2>5. done' = done => ~ Finish(qpu.pid, qpu.task)
      BY <2>4 DEF Finish, PlaceInv, CallInv, TypeOK
    <2>6. ArraysFit' /\ OutcomesWritten' /\ UnbegunIsBlank'
      BY <1>1, <2>2, <2>3, <2>5, QpuStepKeeps
    <2> QED BY <1>3, <2>2, <2>3, <2>6 DEF RoutineHasQubits
  <1> QED BY <1>4, <1>5, <1>6, <1>7, <1>8

\* Nothing has been done at first, and a step that is no mistake keeps it so.
LEMMA AccessInvInductive ==
    /\ Init => AccessInv
    /\ PlaceInv /\ AccessInv /\ [Next /\ ~ OwnMistake]_vars => AccessInv'
  <1>1. ASSUME Init PROVE AccessInv
    <2>1. PlaceInv
      BY <1>1, PlaceInvInductive
    <2>2. \A p \in Pids : ~ PreBegun(p) /\ done[p] = {}
      BY <1>1 DEF Init, PreBegun, Idle
    <2>3. qpu.doing = "nothing" /\ ~ fault
      BY <1>1 DEF Init, Idle
    <2>4. ValuesOK
      <3>1. \A p \in Pids : Len(shared[p]) = 0
        BY <1>1 DEF Init, NoArrays
      <3>2. \A p \in Pids : 1..Len(shared[p]) = {}
        BY <3>1
      <3>3. regs \in [Pids -> [Regs -> Int]] /\ qubits \in [Pids -> [VirtIds -> Int]]
        BY <1>1 DEF Init, Free
      <3>4. host \in [Pids -> [Vars -> Seq(Int)]]
        <4>1. \A p \in Pids : \A v \in DOMAIN Inputs[p] : Inputs[p][v] \in Int
          BY NamesAssumption
        <4>2. \A x \in Int : <<x>> \in Seq(Int)
          OBVIOUS
        <4>3. NoVar \in Seq(Int)
          BY DEF NoVar
        <4> QED BY <1>1, <4>1, <4>2, <4>3 DEF Init
      <3> QED BY <3>2, <3>3, <3>4 DEF ValuesOK
    <2> QED BY <2>2, <2>3, <2>4 DEF AccessInv, NoFault, ArraysFit, RoutineHasQubits,
                                    PairsInTurn, OutcomesWritten, UnbegunIsBlank
  <1>2. ASSUME PlaceInv, AccessInv, Next, ~ OwnMistake PROVE AccessInv'
    <2>1. PlaceInv' /\ StaysButForItsTask
      BY <1>2, PlaceInvInductive
    <2>2. CASE CpuStep
      BY <1>2, <2>1, <2>2, CpuAccess
    <2>3. ASSUME NEW p \in Pids, PrepareLrCall(p) \/ PrepareRrCall(p)
          PROVE  AccessInv'
      <3>1. ~ Miscalls(p)
        BY <1>2 DEF OwnMistake
      <3>2. /\ ~ fault' /\ MemoryKept
            /\ ArraysFit' /\ OutcomesWritten' /\ UnbegunIsBlank'
            /\ UNCHANGED <<block, done, host, regs, qubits, qpu>>
        BY <1>2, <2>3, <3>1, CallAccess DEF AccessInv, NoFault
      <3>3. RoutineHasQubits' /\ PairsInTurn'
        BY <1>2, <3>2, QpuFrame DEF AccessInv
      <3>4. ValuesOK'
        BY <1>2, <3>2 DEF AccessInv, ValuesOK, MemoryKept
      <3>5. NoFault'
        BY <3>2 DEF NoFault
      <3> QED BY <3>2, <3>3, <3>4, <3>5 DEF AccessInv
    <2>4. CASE \/ QnosStep \/ EndRoutine \/ KeepPair \/ MeasurePair \/ PairFails
               \/ \E p \in Pids :
                     \/ StartLocalRoutine(p) \/ \E t, i : StartCallback(p, t, i)
                     \/ StartMultiPair(p) \/ \E i \in 1..Request(p).pairs : StartSinglePair(p, i)
      BY <1>2, <2>1, <2>4, QpuAccess
    <2> QED BY <1>2, <2>2, <2>3, <2>4 DEF Next, CpuStep
  <1>3. ASSUME AccessInv, UNCHANGED vars PROVE AccessInv'
    <2>1. NoFault' /\ ValuesOK'
      BY <1>3 DEF vars, AccessInv, NoFault, ValuesOK
    <2>2. /\ UNCHANGED <<block, ptr, done, calls, shared, qubits, cpu, qpu>>
          /\ ArraysFit /\ RoutineHasQubits /\ PairsInTurn /\ OutcomesWritten /\ UnbegunIsBlank
      BY <1>3 DEF vars, AccessInv
    <2>3. \A p \in Pids :
             /\ Ended(p)' = Ended(p) /\ Current(p)' = Current(p) /\ PreBegun(p)' = PreBegun(p)
             /\ CallOf(p)' = CallOf(p) /\ Request(p)' = Request(p) /\ ReturnSize(p)' = ReturnSize(p)
             /\ \A t : Begun(p, t)' = Begun(p, t)
      BY <2>2 DEF Ended, Current, PreBegun, CallOf, Request, ReturnSize, Begun
    <2>4. ArraysFit'
      BY <2>2, <2>3 DEF ArraysFit
    <2>5. RoutineHasQubits'
      BY <2>2 DEF RoutineHasQubits, RoutineOf, Request, Current
    <2>6. PairsInTurn'
      BY <2>2 DEF PairsInTurn, Request, Current
    <2>7. OutcomesWritten'
      BY <2>2, <2>3 DEF OutcomesWritten
    <2>8. UnbegunIsBlank'
      BY <2>2, <2>3 DEF UnbegunIsBlank
    <2> QED BY <2>1, <2>4, <2>5, <2>6, <2>7, <2>8 DEF AccessInv
  <1> QED BY <1>1, <1>2, <1>3

\* No step is a mistake of a program's own.
NoMistakes == [][~ OwnMistake]_vars

\* As long as no program makes a mistake of its own, the arrays of a call have the
\* region and size that every task of the block expects of the address it is handed
\* (HostProcessor.prepare_lr_call and prepare_rr_call), running routines and pairs in
\* generation have the qubits that they use, and results are written when they are
\* collected.
THEOREM AccessInvInvariant == Spec /\ NoMistakes => []AccessInv
  <1>1. PlaceInv /\ AccessInv /\ [Next]_vars /\ [~ OwnMistake]_vars => AccessInv'
    BY AccessInvInductive
  <1> QED BY <1>1, AccessInvInductive, PlaceInvInvariant, PTL DEF Spec, NoMistakes

\* As long as no program makes a mistake of its own, however the tasks of the
\* processes interleave, no step raises: SharedMemory refuses no read and no write,
\* the memory manager no qubit, and the host misses no variable.
THEOREM AccessesAreLegal == Spec /\ NoMistakes => []EveryAccessIsLegal
  <1>1. AccessInv => EveryAccessIsLegal
    BY DEF AccessInv, NoFault, EveryAccessIsLegal
  <1> QED BY <1>1, AccessInvInvariant, PTL

\* No routine stores to a result that it has stored.
StoresOnce == [][~ StoresAgain]_vars

\* A step of WrittenOnce: what is in an array stays there.
WrittenStays ==
    \A p \in Pids : \A a \in DOMAIN shared[p] : \A i \in DOMAIN shared[p][a].data :
        shared[p][a].data[i] # Unset => shared'[p][a].data[i] = shared[p][a].data[i]

\* Two actions write to arrays that there are.
LEMMA WritersAre ==
    ASSUME PlaceInv, AccessInv, Next, ~ OwnMistake
    PROVE  \/ Store \/ MeasurePair
           \/ \A p \in Pids : \A a \in 1..Len(shared[p]) : shared'[p][a] = shared[p][a]
  <1>1. CASE CpuStep
    BY <1>1, CpuIsQuiet DEF CpuStep
  <1>2. ASSUME NEW p \in Pids, PrepareLrCall(p) \/ PrepareRrCall(p)
        PROVE  \A q \in Pids : \A a \in 1..Len(shared[q]) : shared'[q][a] = shared[q][a]
    <2>1. ResultSize(Current(p)) = ReturnSize(p) /\ ValuesOK
      BY <1>2 DEF OwnMistake, Miscalls, AccessInv
    <2> QED BY <1>2, <2>1, LrCallFits, RrCallFits
  <1>3. CASE QnosStep
    BY <1>3, QnosStepFrame
  <1>4. CASE KeepPair \/ EndRoutine \/ PairFails
    BY <1>4 DEF KeepPair, EndRoutine, PairFails
  <1>5. ASSUME NEW p \in Pids, NEW t, NEW i, NEW indices,
               StartLocalRoutine(p) \/ StartCallback(p, t, i) \/ StartPairs(p, t, indices)
        PROVE  shared' = shared
    BY <1>5 DEF StartLocalRoutine, StartCallback, StartPairs, RunCode
  <1> QED BY <1>1, <1>2, <1>3, <1>4, <1>5 DEF Next, CpuStep, StartMultiPair, StartSinglePair

\* A store that is not the second to its result replaces nothing ...
LEMMA StoreIsNew ==
    ASSUME PlaceInv, AccessInv, Store, ~ OwnMistake, ~ StoresAgain
    PROVE  WrittenStays
  <1>1. ValuesOK /\ ArraysFit /\ RoutineHasQubits /\ ~ QnosErrs /\ qpu.doing = "code"
    BY DEF AccessInv, OwnMistake, Store, Executes
  <1> PICK p, x, offset, values :
          /\ p = qpu.pid /\ x = Running.result /\ offset = Reg(Instr.index)
          /\ values = <<Reg(Instr.reg)>>
    OBVIOUS
  <1>2. /\ x \in DOMAIN shared[p] /\ offset \in Nat /\ values \in Seq(Int) /\ p \in Pids
        /\ shared' = [shared EXCEPT ![p] = Write(shared[p], x, offset, values)]
    BY <1>1, StoreAccess, RoutineArrays
  <1>3. ValuesOK
    BY <1>1
  <1>4. /\ Holds(shared'[p][x], shared[p][x], offset, values)
        /\ \A q \in Pids : \A b \in 1..Len(shared[q]) : q # p \/ b # x => shared'[q][b] = shared[q][b]
    <2>1. shared' = [shared EXCEPT ![p] = Write(shared[p], x, offset, values)]
      BY <1>2
    <2>2. x \in DOMAIN shared[p]
      BY <1>2
    <2>3. offset \in Nat
      BY <1>2
    <2>4. values \in Seq(Int)
      BY <1>2
    <2>5. p \in Pids
      BY <1>2
    <2>6. PICK size \in Nat : DOMAIN shared[p][x].data = 1..size
      <3>1. /\ IsOf(shared[p][x], "LR_out", LocalRoutine[qpu.routine].returns)
            /\ LocalRoutine[qpu.routine].returns \in Nat
        BY <1>1, RoutineArrays
      <3> QED BY <3>1 DEF IsOf
    <2> QED BY ONLY PlaceInv, <1>3, <2>1, <2>2, <2>3, <2>4, <2>5, <2>6, WrittenMemory
  <1>5. shared[p][x].data[offset + 1] = Unset /\ Len(values) = 1
    BY DEF StoresAgain
  <1>6. \A i \in DOMAIN shared[p][x].data :
            shared[p][x].data[i] # Unset => shared'[p][x].data[i] = shared[p][x].data[i]
    <2> TAKE i \in DOMAIN shared[p][x].data
    <2>1. i \in (offset + 1)..(offset + Len(values)) => i = offset + 1
      BY <1>2, <1>5
    <2> QED BY <1>4, <1>5, <2>1 DEF Holds
  <1>7. \A q \in Pids : DOMAIN shared[q] = 1..Len(shared[q])
    <2>1. \A q \in Pids : \E S : shared[q] \in Seq(S)
      BY DEF PlaceInv, MemoryGrows
    <2> QED BY <2>1
  <1>8. SUFFICES ASSUME NEW q \in Pids, NEW b \in DOMAIN shared[q], NEW i \in DOMAIN shared[q][b].data,
                        shared[q][b].data[i] # Unset
                 PROVE  shared'[q][b].data[i] = shared[q][b].data[i]
    BY DEF WrittenStays
  <1>9. CASE q = p /\ b = x
    BY <1>6, <1>8, <1>9
  <1>10. CASE q # p \/ b # x
    BY <1>4, <1>7, <1>8, <1>10
  <1> QED BY <1>9, <1>10

\* ... and neither do the outcomes of a request, which come all at once.
LEMMA OutcomesAreNew ==
    ASSUME PlaceInv, AccessInv, MeasurePair, ~ OwnMistake
    PROVE  WrittenStays
  <1>1. /\ ValuesOK /\ ArraysFit /\ PairsInTurn /\ UnbegunIsBlank /\ ~ fault
        /\ WellDeclared(Request(qpu.pid)) /\ qpu.doing = "pair" /\ qpu.task = Multi
    BY DEF AccessInv, NoFault, OwnMistake, MeasurePair, WaitsForPair, MeasuredDirectly
  <1> PICK p, x : p = qpu.pid /\ x = CallOf(p).result
    OBVIOUS
  <1>2. \A q \in Pids : \A b \in 1..Len(shared[q]) : q # p \/ b # x => shared'[q][b] = shared[q][b]
    BY <1>1, MeasurePairAccess
  <1>3. Blank(shared[p][x])
    <2>1. /\ p \in Pids /\ ~ Ended(p) /\ Current(p).typ = "QC" /\ Pre \in done[p]
          /\ Multi \notin done[p]
      BY <1>1, PairFacts
    <2>2. PreBegun(p)
      BY <2>1 DEF PreBegun
    <2> QED BY <1>1, <2>1, <2>2 DEF UnbegunIsBlank
  <1>4. \A q \in Pids : DOMAIN shared[q] = 1..Len(shared[q])
    <2>1. \A q \in Pids : \E S : shared[q] \in Seq(S)
      BY DEF PlaceInv, MemoryGrows
    <2> QED BY <2>1
  <1>5. SUFFICES ASSUME NEW q \in Pids, NEW b \in DOMAIN shared[q], NEW i \in DOMAIN shared[q][b].data,
                        shared[q][b].data[i] # Unset
                 PROVE  shared'[q][b].data[i] = shared[q][b].data[i]
    BY DEF WrittenStays
  <1>6. q # p \/ b # x
    BY <1>3, <1>5 DEF Blank
  <1> QED BY <1>2, <1>4, <1>6

\* As long as, beyond that, no routine stores twice to one result, a value in shared
\* memory is never replaced: the calls that processes make, the outcomes of pairs and
\* the stores of routines and callbacks all go to slots that nobody has written.
THEOREM WritesAreFinal == Spec /\ NoMistakes /\ StoresOnce => WrittenOnce
  <1>1. ASSUME PlaceInv, AccessInv, Next, ~ OwnMistake, ~ StoresAgain PROVE WrittenStays
    <2>1. CASE \A p \in Pids : \A a \in 1..Len(shared[p]) : shared'[p][a] = shared[p][a]
      <3>1. \A p \in Pids : \E S : shared[p] \in Seq(S)
        BY <1>1 DEF PlaceInv, MemoryGrows
      <3>2. \A p \in Pids : DOMAIN shared[p] = 1..Len(shared[p])
        BY <3>1
      <3> QED BY <2>1, <3>2 DEF WrittenStays
    <2> QED BY <1>1, <2>1, WritersAre, StoreIsNew, OutcomesAreNew
  <1>2. PlaceInv /\ AccessInv /\ [Next]_vars /\ [~ OwnMistake]_vars /\ [~ StoresAgain]_vars
            => [WrittenStays]_vars
    BY <1>1
  <1>3. WrittenOnce <=> [][WrittenStays]_vars
    BY DEF WrittenOnce, WrittenStays
  <1> QED BY <1>2, <1>3, AccessInvInvariant, PlaceInvInvariant, PTL DEF Spec, NoMistakes, StoresOnce

==============================================================================
