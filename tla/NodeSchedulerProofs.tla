-------------------------- MODULE NodeSchedulerProofs --------------------------
(***************************************************************************)
(* Proofs about the schedulers of one node, for every number of program    *)
(* instances and all programs, with jumps: the blocks in flight and the    *)
(* order of their tasks; then how each program goes on, the order of its   *)
(* blocks (NodeScheduler implements ProgramControl), and that neither a    *)
(* processor nor the node scheduler sleeps on something it could do.       *)
(***************************************************************************)
EXTENDS NodeScheduler, Integers, TLAPS

\* The names of a block's tasks for one processor.
NamesOf(p, i, c) == Partial[p][i][c].tasks

\* Tasks of blocks of the programs.
Task == [pid : Pids, inst : Nat, blk : Nat,
         name : UNION {UNION {TasksOf(Program[p][i]) : i \in DOMAIN Program[p]} : p \in Pids}]

\* What the node scheduler remembers.
NodeStates == [mode : {"all", "next", "waiting"}, todo : Seq(Pids),
               last : [Cores -> Pids \cup {NoPid}]]

\* Types of the variables.
TypeOK ==
    /\ index \in [Pids -> Nat \ {0}]
    /\ jumps \in [Pids -> (Nat \ {0}) \cup {NoJump}]
    /\ handed \in [Pids -> Nat]
    /\ tasks \in [Cores -> SUBSET Task]
    /\ finished \in [Cores -> SUBSET Task]
    /\ core \in [Cores -> {"choosing", "busy", "waiting"}]
    /\ current \in [Cores -> Task \cup {NoTask}]
    /\ awaits \in [Cores -> SUBSET {"port", "completed", "message"}]
    /\ phase \in {"body", "jumped", "tail"}
    /\ port \in [Cores -> BOOLEAN]
    /\ lastFinished \in [Cores -> Pids \cup {NoPid}]
    /\ signals \subseteq Cores
    /\ node \in NodeStates
    /\ inbox \subseteq Pids
    /\ goal \in [Pids -> Nat \ {0}]
    /\ loops \in [Pids -> Nat]

\* A task in a graph is one of its block's tasks for that processor.
TasksOfBlocks ==
    \A c \in Cores : \A t \in tasks[c] :
        t.blk \in DOMAIN Program[t.pid] /\ t.name \in NamesOf(t.pid, t.blk, c)

\* The tasks of one program are of one block.
SameBlock ==
    \A c, d \in Cores : \A t \in tasks[c], u \in tasks[d] : t.pid = u.pid => t.blk = u.blk

\* Of a block in flight, every task is still to be done or has finished.
NoTaskLost ==
    \A c, d \in Cores : \A t \in tasks[c] : \A n \in NamesOf(t.pid, t.blk, d) :
        Sibling(t, n) \in tasks[d] \cup finished[d]

\* What has finished is not in the graph, and will not come again.
FinishedOnce ==
    \A c \in Cores : \A t \in finished[c] : t \notin tasks[c] /\ t.inst <= handed[t.pid]

\* What has finished left none of its predecessors in the graph: it is why PostCall,
\* which may wait for callbacks only, comes after all work of the QPU.
FinishedInOrder ==
    \A c \in Cores : \A t \in finished[c] : OwnPredsDone(c, t)

\* What is executed was ready when it was chosen, and nothing can change that.
CurrentIsReady ==
    \A c \in Cores :
        IF core[c] = "busy"
        THEN current[c] \in tasks[c] /\ OwnPredsDone(c, current[c]) /\ OtherPredsDone(c, current[c])
        ELSE current[c] = NoTask

\* The inductive invariant.  OneBlockInFlight rests on QpuWorkIsAwaited, since only
\* the CPU's graph is looked at for a classical block, and that on the order of tasks.
FlightInv ==
    /\ TypeOK /\ TasksOfBlocks /\ OneBlockInFlight /\ SameBlock /\ NoTaskLost
    /\ FinishedOnce /\ FinishedInOrder /\ QpuWorkIsAwaited /\ CurrentIsReady


------------------------------------------------------------------------------
(* The tasks of one block, and their copies in the two task graphs.           *)

\* Which processor a kind of task runs on, and which kinds are callbacks.
LEMMA KindsDiffer ==
    /\ ProcessorOf(Local) = "CPU" /\ ProcessorOf(Event) = "CPU"
    /\ ProcessorOf(Pre) = "CPU" /\ ProcessorOf(Post) = "CPU"
    /\ ProcessorOf(Routine) = "QPU" /\ ProcessorOf(Multi) = "QPU" /\ ProcessorOf(MultiCb) = "QPU"
    /\ \A i : ProcessorOf(Pair(i)) = "QPU" /\ ProcessorOf(PairCb(i)) = "QPU"
    /\ ~ IsCallback(Local) /\ ~ IsCallback(Event) /\ ~ IsCallback(Pre) /\ ~ IsCallback(Post)
    /\ ~ IsCallback(Routine) /\ ~ IsCallback(Multi) /\ IsCallback(MultiCb)
    /\ \A i : ~ IsCallback(Pair(i)) /\ IsCallback(PairCb(i))
              /\ CallbackOf(PairCb(i)) = Pair(i)
    /\ CallbackOf(MultiCb) = Multi
  BY DEF ProcessorOf, CpuKinds, Local, Event, Pre, Post, Routine, Multi, MultiCb, Pair, PairCb,
         IsCallback, CallbackOf

\* The tasks of the CPU are told apart by their names.
LEMMA CpuNamesDiffer ==
    Local # Event /\ Local # Pre /\ Local # Post /\ Event # Pre /\ Event # Post /\ Pre # Post
  BY DEF Local, Event, Pre, Post

\* The quantum tasks run on the QPU.
LEMMA QuantumTasksOnQpu ==
    ASSUME NEW b, NEW n \in QuantumTasks(b)
    PROVE  ProcessorOf(n) = "QPU"
  BY KindsDiffer DEF QuantumTasks

\* The predecessors of a task are tasks of its block.
LEMMA PredsAreTasks ==
    ASSUME NEW b \in Blocks, NEW n \in TasksOf(b)
    PROVE  PredsOf(b, n) \subseteq TasksOf(b)
  <1>1. CASE b.typ = "QC"
    <2>1. TasksOf(b) = {Pre, Post} \cup QuantumTasks(b)
      BY <1>1 DEF TasksOf
    <2>2. IsCallback(n) => CallbackOf(n) \in QuantumTasks(b)
      BY <1>1, <2>1, KindsDiffer DEF QuantumTasks
    <2> QED BY <2>1, <2>2 DEF PredsOf
  <1>2. CASE b.typ = "QL"
    <2>1. TasksOf(b) = {Pre, Post} \cup QuantumTasks(b) /\ QuantumTasks(b) = {Routine}
      BY <1>2 DEF TasksOf, QuantumTasks
    <2>2. ~ IsCallback(n)
      BY <2>1, KindsDiffer
    <2> QED BY <2>1, <2>2 DEF PredsOf
  <1>3. CASE b.typ \in {"CL", "CC"}
    <2>1. QuantumTasks(b) = {} /\ n \in {Local, Event}
      BY <1>3 DEF TasksOf, QuantumTasks
    <2> QED BY <2>1, KindsDiffer, CpuNamesDiffer DEF PredsOf
  <1> QED BY <1>1, <1>2, <1>3 DEF Blocks

\* Every quantum task comes before PostCall, at once or with a callback between.
LEMMA PostIsLast ==
    ASSUME NEW b \in Blocks, NEW n \in TasksOf(b), ProcessorOf(n) = "QPU"
    PROVE  /\ Post \in TasksOf(b)
           /\ \/ n \in PredsOf(b, Post)
              \/ \E m \in PredsOf(b, Post) : n \in PredsOf(b, m)
  <1>1. TasksOf(b) = {Pre, Post} \cup QuantumTasks(b) /\ n \in QuantumTasks(b)
    BY KindsDiffer DEF TasksOf
  <1>2. ~ IsCallback(Post) /\ Post \notin QuantumTasks(b)
    BY KindsDiffer, QuantumTasksOnQpu
  <1>3. PredsOf(b, Post) = IF b.typ = "QC" /\ b.callback
                           THEN {q \in QuantumTasks(b) : IsCallback(q)} ELSE QuantumTasks(b)
    BY <1>2 DEF PredsOf
  <1>4. CASE b.typ = "QC" /\ b.callback /\ ~ IsCallback(n)
    <2>1. PICK m \in QuantumTasks(b) : IsCallback(m) /\ CallbackOf(m) = n
      BY <1>1, <1>4, KindsDiffer DEF QuantumTasks
    <2>2. n \in PredsOf(b, m)
      BY <2>1, KindsDiffer DEF PredsOf
    <2> QED BY <1>1, <1>3, <1>4, <2>1, <2>2
  <1> QED BY <1>1, <1>3, <1>4

\* PostCall waits for quantum tasks only.
LEMMA PostPredsOnQpu ==
    ASSUME NEW b \in Blocks, NEW m \in PredsOf(b, Post)
    PROVE  ProcessorOf(m) = "QPU"
  <1>1. ~ IsCallback(Post) /\ Post \notin QuantumTasks(b)
    BY KindsDiffer, QuantumTasksOnQpu
  <1>2. m \in QuantumTasks(b)
    BY <1>1 DEF PredsOf
  <1> QED BY <1>2, QuantumTasksOnQpu

\* The names in a partial graph, and what it says of their predecessors.
LEMMA PartialNames ==
    ASSUME NEW p \in Pids, NEW i \in DOMAIN Program[p], NEW c \in Cores
    PROVE  /\ Program[p][i] \in Blocks
           /\ NamesOf(p, i, c) = {n \in TasksOf(Program[p][i]) : ProcessorOf(n) = c}
           /\ \A n \in NamesOf(p, i, c) :
                 /\ PredsOf(Program[p][i], n) \cap NamesOf(p, i, c)
                       \subseteq Partial[p][i][c].preds[n]
                 /\ Partial[p][i][c].ext[n] = PredsOf(Program[p][i], n) \ NamesOf(p, i, c)
  <1> DEFINE b == Program[p][i]
             g == BlockGraph(b)
  <1>1. b \in Blocks
    BY NodeAssumption
  <1>2. /\ g.tasks = TasksOf(b)
        /\ \A n \in TasksOf(b) : g.proc[n] = ProcessorOf(n) /\ g.preds[n] = PredsOf(b, n)
    BY DEF BlockGraph
  <1>3. Partial[p][i][c] = PartialGraph(g, c)
    BY DEF Partial
  <1> HIDE DEF g, b
  <1>4. PartialGraph(g, c).tasks = {n \in TasksOf(b) : ProcessorOf(n) = c}
    BY <1>2 DEF PartialGraph
  <1>5. \A n \in PartialGraph(g, c).tasks :
          /\ PartialGraph(g, c).ext[n] = g.preds[n] \ PartialGraph(g, c).tasks
          /\ g.preds[n] \cap PartialGraph(g, c).tasks \subseteq PartialGraph(g, c).preds[n]
    BY DEF PartialGraph
  <1>6. \A n \in PartialGraph(g, c).tasks : g.preds[n] = PredsOf(b, n)
    BY <1>2, <1>4
  <1> QED BY <1>1, <1>3, <1>4, <1>5, <1>6 DEF NamesOf, b

\* The two processors.
LEMMA CoresFacts ==
    /\ "CPU" \in Cores /\ "QPU" \in Cores /\ \A c \in Cores : c = "CPU" \/ c = "QPU"
    /\ \A c \in Cores : Other(c) \in Cores /\ Other(c) # c
    /\ Other("CPU") = "QPU" /\ Other("QPU") = "CPU"
  BY DEF Cores, Other

\* A block has one task for the CPU, or a PreCall and a PostCall.
LEMMA CpuNames ==
    ASSUME NEW p \in Pids, NEW i \in DOMAIN Program[p]
    PROVE  LET b == Program[p][i]
           IN  /\ b.typ = "CL" => NamesOf(p, i, "CPU") = {Local}
               /\ b.typ = "CC" => NamesOf(p, i, "CPU") = {Event}
               /\ b.typ \notin {"CL", "CC"} => NamesOf(p, i, "CPU") = {Pre, Post}
  <1> DEFINE b == Program[p][i]
  <1>1. NamesOf(p, i, "CPU") = {n \in TasksOf(b) : ProcessorOf(n) = "CPU"}
    BY PartialNames, CoresFacts
  <1>2. \A n \in QuantumTasks(b) : ProcessorOf(n) # "CPU"
    BY QuantumTasksOnQpu
  <1> HIDE DEF b
  <1>3. CASE b.typ = "CL"
    BY <1>1, <1>3, KindsDiffer DEF TasksOf, b
  <1>4. CASE b.typ = "CC"
    BY <1>1, <1>4, KindsDiffer DEF TasksOf, b
  <1>5. CASE b.typ \notin {"CL", "CC"}
    <2>1. TasksOf(b) = {Pre, Post} \cup QuantumTasks(b)
      BY <1>5 DEF TasksOf
    <2> QED BY <1>1, <1>2, <1>5, <2>1, KindsDiffer DEF b
  <1> QED BY <1>3, <1>4, <1>5 DEF b

\* Tasks of one handed-out block are told apart by their names.
LEMMA SiblingFacts ==
    ASSUME NEW t \in Task, NEW n
    PROVE  /\ Sibling(t, n).pid = t.pid /\ Sibling(t, n).inst = t.inst
           /\ Sibling(t, n).blk = t.blk /\ Sibling(t, n).name = n
           /\ Sibling(Sibling(t, n), t.name) = t
           /\ \A m : Sibling(Sibling(t, n), m) = Sibling(t, m)
           /\ \A u \in Task : u.pid = t.pid /\ u.inst = t.inst /\ u.blk = t.blk
                              => u = Sibling(t, u.name)
  BY DEF Task, Sibling

\* The predecessors of a task are tasks of the same handed-out block.
LEMMA PredsAreSiblings ==
    ASSUME NEW c \in Cores, NEW t \in Task, NEW u \in InternalPreds(c, t) \cup ExternalPreds(c, t)
    PROVE  u.pid = t.pid /\ u.inst = t.inst /\ u.blk = t.blk
  <1>1. \A names : u \in Siblings(t, names) => \E n : u = Sibling(t, n)
    BY DEF Siblings
  <1>2. \E n : u = Sibling(t, n)
    BY <1>1 DEF InternalPreds, ExternalPreds
  <1> QED BY <1>2, SiblingFacts

------------------------------------------------------------------------------
(* The invariant, one action after the other.                                 *)

LEMMA InitFlightInv == Init => FlightInv
  <1> SUFFICES ASSUME Init PROVE FlightInv
    OBVIOUS
  <1>1. TypeOK
    BY NodeAssumption, CoresFacts DEF Init, TypeOK, NodeStates
  <1>2. TasksOfBlocks /\ OneBlockInFlight /\ SameBlock /\ NoTaskLost /\ QpuWorkIsAwaited
    BY CoresFacts DEF Init, TasksOfBlocks, OneBlockInFlight, SameBlock, NoTaskLost, QpuWorkIsAwaited
  <1>3. FinishedOnce /\ FinishedInOrder /\ CurrentIsReady
    BY DEF Init, FinishedOnce, FinishedInOrder, CurrentIsReady
  <1> QED BY <1>1, <1>2, <1>3 DEF FlightInv

\* A step that leaves the graphs alone need only be looked at for the tasks that
\* are being executed.
LEMMA QuietStep ==
    ASSUME FlightInv, TypeOK', CurrentIsReady', UNCHANGED <<tasks, finished, handed>>
    PROVE  FlightInv'
  <1>1. (TasksOfBlocks /\ OneBlockInFlight /\ SameBlock /\ NoTaskLost /\ QpuWorkIsAwaited)'
    BY DEF FlightInv, TasksOfBlocks, OneBlockInFlight, SameBlock, NoTaskLost, QpuWorkIsAwaited
  <1>2. (FinishedOnce /\ FinishedInOrder)'
    BY DEF FlightInv, FinishedOnce, FinishedInOrder, OwnPredsDone
  <1> QED BY <1>1, <1>2 DEF FlightInv

\* Nor for those, when the same tasks are executed as before.
LEMMA QuieterStep ==
    ASSUME FlightInv, TypeOK', UNCHANGED <<tasks, finished, handed, current>>,
           \A c \in Cores : core'[c] = "busy" <=> core[c] = "busy"
    PROVE  FlightInv'
  <1>1. CurrentIsReady'
    BY DEF FlightInv, CurrentIsReady, OwnPredsDone, OtherPredsDone
  <1> QED BY <1>1, QuietStep

LEMMA NodeWakesFlight ==
    ASSUME FlightInv, NEW c \in Cores, NodeWakes(c)
    PROVE  FlightInv'
  <1> DEFINE cpu == lastFinished["CPU"]
             qpu == lastFinished["QPU"]
             first == IF cpu = NoPid THEN <<>> ELSE <<cpu>>
             second == IF qpu \in {NoPid, cpu} THEN <<>> ELSE <<qpu>>
  <1>1. first \in Seq(Pids) /\ second \in Seq(Pids)
    BY CoresFacts DEF FlightInv, TypeOK
  <1>2. node' = [mode |-> "next", todo |-> first \o second, last |-> lastFinished]
    BY DEF NodeWakes
  <1> HIDE DEF first, second
  <1>3. first \o second \in Seq(Pids)
    BY <1>1
  <1>4. node' \in NodeStates
    BY <1>2, <1>3 DEF NodeStates, FlightInv, TypeOK
  <1>5. TypeOK'
    BY <1>4 DEF FlightInv, TypeOK, NodeWakes
  <1> QED BY <1>5, QuieterStep DEF NodeWakes

LEMMA NodeRestsFlight ==
    ASSUME FlightInv, NodeRests
    PROVE  FlightInv'
  <1>1. TypeOK'
    BY NodeAssumption DEF FlightInv, TypeOK, NodeStates, NodeRests, coreVars
  <1> QED BY <1>1, QuieterStep DEF NodeRests, coreVars

\* The list of pids to look at is worked off.
LEMMA TodoTail ==
    ASSUME TypeOK, node.todo # <<>>, node' = [node EXCEPT !.todo = Tail(@)]
    PROVE  node' \in NodeStates
  <1>1. Tail(node.todo) \in Seq(Pids)
    BY DEF TypeOK, NodeStates
  <1> QED BY <1>1 DEF TypeOK, NodeStates

LEMMA PassOverFlight ==
    ASSUME FlightInv, PassOver
    PROVE  FlightInv'
  <1>1. TypeOK'
    BY TodoTail DEF FlightInv, TypeOK, PassOver, coreVars
  <1> QED BY <1>1, QuieterStep DEF PassOver, coreVars

LEMMA NextIndexNat ==
    ASSUME TypeOK, NEW p \in Pids
    PROVE  NextIndex(p) \in Nat \ {0}
  BY DEF TypeOK, NextIndex

LEMMA NothingToHandOutFlight ==
    ASSUME FlightInv, NEW p \in Pids, NothingToHandOut(p)
    PROVE  FlightInv'
  <1>1. TypeOK'
    BY NextIndexNat, TodoTail DEF FlightInv, TypeOK, NothingToHandOut, Consider
  <1> QED BY <1>1, QuieterStep DEF NothingToHandOut, Consider

LEMMA StartTaskFlight ==
    ASSUME FlightInv, NEW c \in Cores, StartTask(c)
    PROVE  FlightInv'
  <1>1. PICK t \in Choices(c) :
          /\ current' = [current EXCEPT ![c] = t]
          /\ jumps' = IF t.name \in {Local, Event}
                      THEN [jumps EXCEPT ![t.pid] = NoJump] ELSE jumps
          /\ inbox' = IF t.name = Event THEN inbox \ {t.pid} ELSE inbox
    BY DEF StartTask
  <1>2. t \in tasks[c] /\ OwnPredsDone(c, t) /\ OtherPredsDone(c, t)
    BY DEF Choices, ReadyTasks, RootTasks
  <1>3. TypeOK'
    BY <1>1, <1>2 DEF FlightInv, TypeOK, StartTask
  <1>4. CurrentIsReady'
    BY <1>1, <1>2 DEF FlightInv, TypeOK, CurrentIsReady, StartTask, OwnPredsDone, OtherPredsDone
  <1> QED BY <1>3, <1>4, QuietStep DEF StartTask

LEMMA FallAsleepFlight ==
    ASSUME FlightInv, NEW c \in Cores, FallAsleep(c)
    PROVE  FlightInv'
  <1>1. EventsToAwait(c) \subseteq {"port", "completed", "message"}
    BY DEF EventsToAwait
  <1>2. TypeOK'
    BY <1>1 DEF FlightInv, TypeOK, FallAsleep
  <1> QED BY <1>2, QuieterStep DEF FlightInv, TypeOK, FallAsleep, Chooses

LEMMA WokenFacts ==
    ASSUME TypeOK, NEW c \in Cores, NEW e
    PROVE  /\ Woken(c, e) \in {"choosing", "busy", "waiting"}
           /\ Woken(c, e) = "busy" <=> core[c] = "busy"
  BY DEF TypeOK, Woken

LEMMA PortInputFlight ==
    ASSUME FlightInv, NEW c \in Cores, PortInput(c)
    PROVE  FlightInv'
  <1>1. TypeOK'
    BY WokenFacts DEF FlightInv, TypeOK, PortInput, nodeVars
  <1> QED BY <1>1, QuieterStep, WokenFacts DEF FlightInv, TypeOK, PortInput, nodeVars

LEMMA MessageArrivesFlight ==
    ASSUME FlightInv, NEW p \in Pids, MessageArrives(p)
    PROVE  FlightInv'
  <1>1. \A c \in Cores : core'[c] \in {"choosing", "busy", "waiting"}
                          /\ (core'[c] = "busy" <=> core[c] = "busy")
    BY WokenFacts, CoresFacts DEF FlightInv, TypeOK, MessageArrives
  <1>2. core' \in [Cores -> {"choosing", "busy", "waiting"}]
    BY <1>1 DEF FlightInv, TypeOK, MessageArrives
  <1>3. TypeOK'
    BY <1>2 DEF FlightInv, TypeOK, MessageArrives, nodeVars
  <1> QED BY <1>1, <1>3, QuieterStep DEF MessageArrives, nodeVars

\* The task that a processor executes is one of its tasks, of a block of a program.
LEMMA ExecutedTask ==
    ASSUME FlightInv, NEW c \in Cores, Executes(c)
    PROVE  /\ current[c] \in Task /\ current[c] \in tasks[c]
           /\ current[c].pid \in Pids /\ current[c].blk \in DOMAIN Program[current[c].pid]
           /\ current[c].blk \in Nat
           /\ Block(current[c]) = Program[current[c].pid][current[c].blk]
           /\ Block(current[c]).targets \subseteq Nat \ {0}
  <1>1. current[c] \in tasks[c] /\ current[c] \in Task
    BY DEF FlightInv, TypeOK, CurrentIsReady, Executes
  <1>2. current[c].pid \in Pids /\ current[c].blk \in DOMAIN Program[current[c].pid]
    BY <1>1 DEF FlightInv, TasksOfBlocks, Task
  <1>3. Block(current[c]) = Program[current[c].pid][current[c].blk]
    BY DEF Block
  <1>4. DOMAIN Program[current[c].pid] \subseteq Nat \ {0}
    BY <1>2, NodeAssumption
  <1>5. Block(current[c]).targets \subseteq DOMAIN Program[current[c].pid]
    BY <1>2, <1>3, NodeAssumption
  <1> QED BY <1>1, <1>2, <1>3, <1>4, <1>5

LEMMA TakeJumpFlight ==
    ASSUME FlightInv, TakeJump
    PROVE  FlightInv'
  <1> DEFINE t == current["CPU"]
  <1>1. PICK target \in Block(t).targets :
          /\ loops' = [loops EXCEPT ![t.pid] = IF target <= t.blk THEN @ + 1 ELSE @]
          /\ jumps' = [jumps EXCEPT ![t.pid] = target]
          /\ goal' = [goal EXCEPT ![t.pid] = target]
    BY DEF TakeJump
  <1>2. target \in Nat \ {0} /\ t.pid \in Pids
    BY ExecutedTask, CoresFacts DEF TakeJump
  <1> HIDE DEF t
  <1>3. loops' \in [Pids -> Nat] /\ goal' \in [Pids -> Nat \ {0}]
        /\ jumps' \in [Pids -> (Nat \ {0}) \cup {NoJump}]
    BY <1>1, <1>2 DEF FlightInv, TypeOK
  <1>4. TypeOK'
    BY <1>3 DEF FlightInv, TypeOK, TakeJump, nodeVars
  <1> QED BY <1>4, QuieterStep DEF TakeJump, nodeVars

LEMMA GoOnAfterJumpFlight ==
    ASSUME FlightInv, GoOnAfterJump
    PROVE  FlightInv'
  <1>1. TypeOK'
    BY DEF FlightInv, TypeOK, GoOnAfterJump, nodeVars
  <1> QED BY <1>1, QuieterStep DEF GoOnAfterJump, nodeVars

LEMMA FailTaskFlight ==
    ASSUME FlightInv, FailTask
    PROVE  FlightInv'
  <1>1. TypeOK'
    BY CoresFacts DEF FlightInv, TypeOK, FailTask, nodeVars
  <1>2. CurrentIsReady'
    BY CoresFacts DEF FlightInv, TypeOK, CurrentIsReady, FailTask, nodeVars, OwnPredsDone,
                      OtherPredsDone
  <1> QED BY <1>1, <1>2, QuietStep DEF FailTask, nodeVars

LEMMA TimePassesFlight ==
    ASSUME FlightInv, TimePasses
    PROVE  FlightInv'
  <1>1. TypeOK'
    BY DEF FlightInv, TypeOK, TimePasses, nodeVars
  <1> QED BY <1>1, QuieterStep DEF TimePasses, nodeVars

\* A block is handed out when no task of its program is left on either processor,
\* and its tasks are new.
LEMMA HandOutFlight ==
    ASSUME FlightInv, NEW p \in Pids, HandOut(p)
    PROVE  FlightInv'
  <1> DEFINE i == NextIndex(p)
             New(c) == [pid : {p}, inst : {handed[p] + 1}, blk : {i}, name : NamesOf(p, i, c)]
  <1>1. /\ tasks' = [c \in Cores |-> tasks[c] \cup New(c)]
        /\ index' = [index EXCEPT ![p] = i + 1] /\ handed' = [handed EXCEPT ![p] = @ + 1]
        /\ UNCHANGED <<finished, core, current>>
    BY DEF HandOut, Consider, NamesOf
  <1>2. i \in DOMAIN Program[p] /\ i \in Nat \ {0}
    BY NextIndexNat, NodeAssumption DEF FlightInv, HandOut, CanHandOut
  <1>3. \A c \in Cores : \A t \in tasks[c] : t.pid # p
    <2>1. \A t \in tasks["CPU"] : t.pid # p
      BY DEF HandOut, CanHandOut, HasTask
    <2>2. \A t \in tasks["QPU"] : t \in Task /\ Sibling(t, Post) \in tasks["CPU"]
      BY CoresFacts DEF FlightInv, TypeOK, QpuWorkIsAwaited
    <2> QED BY <2>1, <2>2, SiblingFacts, CoresFacts
  <1>4. \A c \in Cores : \A t \in New(c) :
          /\ t \in Task /\ t.pid = p /\ t.inst = handed[p] + 1 /\ t.blk = i
          /\ t.name \in NamesOf(p, i, c)
    <2>1. \A c \in Cores : NamesOf(p, i, c) \subseteq TasksOf(Program[p][i])
      BY <1>2, PartialNames
    <2>2. handed[p] + 1 \in Nat
      BY DEF FlightInv, TypeOK
    <2> HIDE DEF i
    <2> QED BY <1>2, <2>1, <2>2 DEF Task
  <1>5. \A c, d \in Cores : \A t \in New(c) : \A n \in NamesOf(p, i, d) :
          Sibling(t, n) \in New(d)
    <2> HIDE DEF i
    <2> QED BY DEF Sibling
  <1>6. \A c \in Cores : \A t \in finished[c] : t \in Task /\ t.inst <= handed[t.pid]
    BY DEF FlightInv, TypeOK, FinishedOnce
  <1>7. \A c \in Cores : handed[p] \in Nat /\ handed'[p] = handed[p] + 1
          /\ tasks'[c] = tasks[c] \cup New(c) /\ tasks[c] \subseteq Task
    BY <1>1 DEF FlightInv, TypeOK
  <1>8. \A q \in Pids : q # p => handed'[q] = handed[q]
    BY <1>1 DEF FlightInv, TypeOK
  <1> HIDE DEF i, New
  <1>9. TypeOK'
    <2>1. tasks' \in [Cores -> SUBSET Task]
      BY <1>1, <1>4, <1>7
    <2>2. port' \in [Cores -> BOOLEAN]
      BY DEF FlightInv, TypeOK, HandOut, Told
    <2>3. node' \in NodeStates
      BY TodoTail DEF FlightInv, HandOut, Consider
    <2>4. /\ index' \in [Pids -> Nat \ {0}] /\ handed' \in [Pids -> Nat]
          /\ jumps' \in [Pids -> (Nat \ {0}) \cup {NoJump}]
      <3>1. index \in [Pids -> Nat \ {0}] /\ handed \in [Pids -> Nat]
            /\ jumps \in [Pids -> (Nat \ {0}) \cup {NoJump}]
        BY DEF FlightInv, TypeOK
      <3>2. jumps' = [jumps EXCEPT ![p] = NoJump]
        BY DEF HandOut, Consider
      <3>3. i + 1 \in Nat \ {0} /\ handed[p] + 1 \in Nat
        BY ONLY <1>2, <3>1, p \in Pids
      <3>4. index' \in [Pids -> Nat \ {0}]
        BY <1>1, <3>1, <3>3
      <3>5. handed' \in [Pids -> Nat]
        BY <1>1, <3>1, <3>3
      <3>6. jumps' \in [Pids -> (Nat \ {0}) \cup {NoJump}]
        BY <3>1, <3>2
      <3> QED BY <3>4, <3>5, <3>6
    <2> QED BY <1>1, <2>1, <2>2, <2>3, <2>4 DEF FlightInv, TypeOK, HandOut, Consider
  <1>10. (TasksOfBlocks /\ OneBlockInFlight /\ SameBlock)'
    <2>1. TasksOfBlocks'
      BY <1>2, <1>4, <1>7 DEF FlightInv, TasksOfBlocks
    <2>2. \A c \in Cores : \A t \in tasks'[c] : t.inst = handed'[t.pid]
      BY <1>3, <1>4, <1>7, <1>8, CoresFacts DEF FlightInv, OneBlockInFlight, Task
    <2>3. SameBlock'
      BY <1>3, <1>4, <1>7 DEF FlightInv, SameBlock
    <2> QED BY <2>1, <2>2, <2>3, CoresFacts DEF OneBlockInFlight
  <1>11. NoTaskLost'
    <2> SUFFICES ASSUME NEW c \in Cores, NEW d \in Cores, NEW t \in tasks'[c],
                        NEW n \in NamesOf(t.pid, t.blk, d)
                 PROVE  Sibling(t, n) \in tasks'[d] \cup finished'[d]
      BY DEF NoTaskLost, NamesOf
    <2>1. CASE t \in tasks[c]
      BY <1>1, <1>7, <2>1 DEF FlightInv, NoTaskLost
    <2>2. CASE t \in New(c)
      BY <1>4, <1>5, <1>7, <2>2
    <2> QED BY <1>7, <2>1, <2>2
  <1>12. (FinishedOnce /\ FinishedInOrder)'
    <2> SUFFICES ASSUME NEW c \in Cores, NEW t \in finished[c]
                 PROVE  t \notin tasks'[c] /\ t.inst <= handed'[t.pid]
                        /\ InternalPreds(c, t) \cap tasks'[c] = {}
      BY <1>1 DEF FinishedOnce, FinishedInOrder, OwnPredsDone
    <2>1. t \in Task /\ t.inst \in Nat /\ t.pid \in Pids /\ t.inst <= handed[t.pid]
          /\ handed[t.pid] \in Nat
      BY <1>6 DEF Task, FlightInv, TypeOK
    <2>2. t \notin New(c) /\ t.inst <= handed'[t.pid]
      BY <1>4, <1>7, <1>8, <2>1
    <2>3. InternalPreds(c, t) \cap New(c) = {}
      BY <1>4, <1>7, <2>1, PredsAreSiblings
    <2> QED BY <1>7, <2>2, <2>3 DEF FlightInv, FinishedOnce, FinishedInOrder, OwnPredsDone
  <1>13. QpuWorkIsAwaited'
    <2> SUFFICES ASSUME NEW t \in tasks'["QPU"] PROVE Sibling(t, Post) \in tasks'["CPU"]
      BY DEF QpuWorkIsAwaited
    <2>1. CASE t \in tasks["QPU"]
      BY <1>7, <2>1, CoresFacts DEF FlightInv, QpuWorkIsAwaited
    <2>2. CASE t \in New("QPU")
      <3>1. Post \in NamesOf(p, i, "CPU")
        BY <1>2, <1>4, <2>2, PartialNames, PostIsLast, KindsDiffer, CoresFacts
      <3> QED BY <1>5, <1>7, <2>2, <3>1, CoresFacts
    <2> QED BY <1>7, <2>1, <2>2, CoresFacts
  <1>14. CurrentIsReady'
    <2> SUFFICES ASSUME NEW c \in Cores, core[c] = "busy"
                 PROVE  /\ current[c] \in tasks'[c]
                        /\ InternalPreds(c, current[c]) \cap tasks'[c] = {}
      BY <1>1 DEF FlightInv, CurrentIsReady, OwnPredsDone, OtherPredsDone
    <2>1. current[c] \in tasks[c] /\ InternalPreds(c, current[c]) \cap tasks[c] = {}
      BY DEF FlightInv, CurrentIsReady, OwnPredsDone
    <2>2. InternalPreds(c, current[c]) \cap New(c) = {}
      BY <1>3, <1>4, <1>7, <2>1, PredsAreSiblings
    <2> QED BY <1>7, <2>1, <2>2
  <1> QED BY <1>9, <1>10, <1>11, <1>12, <1>13, <1>14 DEF FlightInv

\* PostCall ends only when the QPU has finished the block: the tasks that it waits
\* for have finished, and so have those that these waited for.
LEMMA PostEndsTheBlock ==
    ASSUME FlightInv, NEW t \in tasks["QPU"], NEW post \in tasks["CPU"],
           post = Sibling(t, Post)
    PROVE  ~ OtherPredsDone("CPU", post)
  <1> SUFFICES ASSUME ExternalPreds("CPU", post) \subseteq finished["QPU"] PROVE FALSE
    BY CoresFacts DEF OtherPredsDone
  <1> DEFINE b == Program[t.pid][t.blk]
  <1>1. /\ t \in Task /\ t.pid \in Pids /\ t.blk \in DOMAIN Program[t.pid]
        /\ t.name \in NamesOf(t.pid, t.blk, "QPU") /\ t \notin finished["QPU"]
    BY CoresFacts DEF FlightInv, TypeOK, TasksOfBlocks, FinishedOnce, Task
  <1>2. post.pid = t.pid /\ post.blk = t.blk /\ post.name = Post
        /\ \A n : Sibling(post, n) = Sibling(t, n)
    BY <1>1, SiblingFacts
  <1>3. /\ b \in Blocks /\ t.name \in TasksOf(b) /\ ProcessorOf(t.name) = "QPU"
        /\ Post \in TasksOf(b) /\ Post \in NamesOf(t.pid, t.blk, "CPU")
    BY <1>1, PartialNames, PostIsLast, KindsDiffer, CoresFacts
  <1>4. \A m \in PredsOf(b, Post) : ProcessorOf(m) = "QPU" => Sibling(t, m) \in finished["QPU"]
    <2> SUFFICES ASSUME NEW m \in PredsOf(b, Post), ProcessorOf(m) = "QPU"
                 PROVE  Sibling(t, m) \in finished["QPU"]
      OBVIOUS
    <2>1. m \in Partial[t.pid][t.blk]["CPU"].ext[Post]
      BY <1>1, <1>3, PartialNames, CoresFacts
    <2>2. Sibling(post, m) \in ExternalPreds("CPU", post)
      BY <1>2, <2>1 DEF ExternalPreds, Siblings
    <2> QED BY <1>2, <2>2
  <1>5. Sibling(t, t.name) = t
    BY <1>1, SiblingFacts
  <1>6. t.name \notin PredsOf(b, Post)
    BY <1>1, <1>3, <1>4, <1>5
  <1>7. PICK m \in PredsOf(b, Post) : t.name \in PredsOf(b, m)
    BY <1>3, <1>6, PostIsLast
  <1>8. m \in TasksOf(b) /\ ProcessorOf(m) = "QPU"
    BY <1>3, <1>7, PredsAreTasks, PostPredsOnQpu
  <1>9. t.name \in Partial[t.pid][t.blk]["QPU"].preds[m]
    BY <1>1, <1>3, <1>7, <1>8, PartialNames, CoresFacts
  <1>10. t \in InternalPreds("QPU", Sibling(t, m))
    <2>1. /\ Sibling(t, m).pid = t.pid /\ Sibling(t, m).blk = t.blk /\ Sibling(t, m).name = m
          /\ Sibling(Sibling(t, m), t.name) = t
      BY <1>1, SiblingFacts
    <2>2. \A names : t.name \in names => t \in Siblings(Sibling(t, m), names)
      BY <2>1 DEF Siblings
    <2> QED BY <1>9, <2>1, <2>2 DEF InternalPreds
  <1> QED BY <1>4, <1>7, <1>8, <1>10, CoresFacts DEF FlightInv, FinishedInOrder, OwnPredsDone

LEMMA FinishTaskFlight ==
    ASSUME FlightInv, NEW c \in Cores, FinishTask(c)
    PROVE  FlightInv'
  <1> DEFINE t == current[c]
  <1>1. /\ t \in Task /\ t \in tasks[c] /\ OwnPredsDone(c, t) /\ OtherPredsDone(c, t)
        /\ t.pid \in Pids /\ t.blk \in Nat
    BY ExecutedTask DEF FinishTask, Executes, FlightInv, CurrentIsReady
  <1>2. /\ tasks' = [tasks EXCEPT ![c] = @ \ {t}]
        /\ finished' = [finished EXCEPT ![c] = @ \cup {t}]
        /\ current' = [current EXCEPT ![c] = NoTask]
        /\ core' = [core EXCEPT ![c] = "choosing", ![Other(c)] = Woken(Other(c), "completed")]
        /\ UNCHANGED handed
    BY DEF FinishTask, nodeVars
  <1>3. /\ tasks'[c] = tasks[c] \ {t} /\ finished'[c] = finished[c] \cup {t}
        /\ \A d \in Cores : tasks'[d] \subseteq tasks[d] /\ finished[d] \subseteq finished'[d]
        /\ \A d \in Cores : d # c => tasks'[d] = tasks[d] /\ finished'[d] = finished[d]
    BY <1>2 DEF FlightInv, TypeOK
  <1>4. TypeOK'
    <2>1. core' \in [Cores -> {"choosing", "busy", "waiting"}]
      BY <1>2, WokenFacts, CoresFacts DEF FlightInv, TypeOK
    <2>2. goal' \in [Pids -> Nat \ {0}]
      BY <1>1 DEF FlightInv, TypeOK, FinishTask
    <2>3. lastFinished' \in [Cores -> Pids \cup {NoPid}] /\ signals' \subseteq Cores
      BY <1>1 DEF FlightInv, TypeOK, FinishTask
    <2>4. tasks' \in [Cores -> SUBSET Task] /\ finished' \in [Cores -> SUBSET Task]
          /\ current' \in [Cores -> Task \cup {NoTask}]
      BY <1>1, <1>2 DEF FlightInv, TypeOK
    <2> QED BY <2>1, <2>2, <2>3, <2>4 DEF FlightInv, TypeOK, FinishTask, nodeVars
  <1> HIDE DEF t
  <1>5. (TasksOfBlocks /\ OneBlockInFlight /\ SameBlock)'
    BY <1>2, <1>3, CoresFacts DEF FlightInv, TasksOfBlocks, OneBlockInFlight, SameBlock
  <1>6. NoTaskLost'
    <2>1. \A d \in Cores : tasks[d] \cup finished[d] \subseteq tasks'[d] \cup finished'[d]
      BY <1>3
    <2> QED BY <1>3, <2>1 DEF FlightInv, NoTaskLost
  <1>7. (FinishedOnce /\ FinishedInOrder)'
    <2>1. t.inst <= handed[t.pid]
      <3>1. t.inst = handed[t.pid] /\ handed[t.pid] \in Nat
        BY <1>1, CoresFacts DEF FlightInv, TypeOK, OneBlockInFlight
      <3> QED BY <3>1
    <2>2. FinishedOnce'
      BY <1>2, <1>3, <2>1 DEF FlightInv, FinishedOnce
    <2>3. FinishedInOrder'
      BY <1>1, <1>3 DEF FlightInv, FinishedInOrder, OwnPredsDone
    <2> QED BY <2>2, <2>3
  <1>8. QpuWorkIsAwaited'
    <2> SUFFICES ASSUME NEW u \in tasks'["QPU"] PROVE Sibling(u, Post) \in tasks'["CPU"]
      BY DEF QpuWorkIsAwaited
    <2>1. u \in tasks["QPU"] /\ Sibling(u, Post) \in tasks["CPU"]
      BY <1>3, CoresFacts DEF FlightInv, QpuWorkIsAwaited
    <2>2. CASE c = "CPU"
      BY <1>1, <1>3, <2>1, <2>2, PostEndsTheBlock
    <2>3. CASE c = "QPU"
      BY <1>3, <2>1, <2>3, CoresFacts
    <2> QED BY <2>2, <2>3, CoresFacts
  <1>9. CurrentIsReady'
    <2> SUFFICES ASSUME NEW d \in Cores
                 PROVE  IF core'[d] = "busy"
                        THEN current'[d] \in tasks'[d] /\ OwnPredsDone(d, current[d])'
                             /\ OtherPredsDone(d, current[d])'
                        ELSE current'[d] = NoTask
      BY DEF CurrentIsReady
    <2>1. CASE d = c
      BY <1>2, <2>1, CoresFacts DEF FlightInv, TypeOK
    <2>2. CASE d # c
      <3>1. current'[d] = current[d] /\ (core'[d] = "busy" <=> core[d] = "busy")
        BY <1>2, <2>2, WokenFacts, CoresFacts DEF FlightInv, TypeOK
      <3> QED BY <1>3, <2>2, <3>1, CoresFacts
              DEF FlightInv, CurrentIsReady, OwnPredsDone, OtherPredsDone
    <2> QED BY <2>1, <2>2
  <1> QED BY <1>4, <1>5, <1>6, <1>7, <1>8, <1>9 DEF FlightInv

LEMMA NextFlightInv == FlightInv /\ [Next]_vars => FlightInv'
  <1> SUFFICES ASSUME FlightInv, [Next]_vars PROVE FlightInv'
    OBVIOUS
  <1>1. CASE UNCHANGED vars
    <2>1. TypeOK'
      BY <1>1 DEF vars, FlightInv, TypeOK
    <2> QED BY <1>1, <2>1, QuieterStep DEF vars
  <1>2. CASE NodeStep
    BY <1>2, NodeWakesFlight, PassOverFlight, HandOutFlight, NothingToHandOutFlight,
       NodeRestsFlight DEF NodeStep
  <1>3. ASSUME NEW c \in Cores, CoreStep(c)
        PROVE  FlightInv'
    BY <1>3, StartTaskFlight, FallAsleepFlight, PortInputFlight, FinishTaskFlight DEF CoreStep
  <1>4. ASSUME NEW p \in Pids, MessageArrives(p)
        PROVE  FlightInv'
    BY <1>4, MessageArrivesFlight
  <1> QED BY <1>1, <1>2, <1>3, <1>4, TakeJumpFlight, GoOnAfterJumpFlight, FailTaskFlight,
             TimePassesFlight DEF Next

\* What is in flight is as it should be, throughout.
THEOREM FlightInvInvariant == Spec => []FlightInv
  BY InitFlightInv, NextFlightInv, PTL DEF Spec

\* The tasks of a program that are in the two graphs are those of one block, the
\* one handed out last (find_next_tasks_for looks only at the CPU's graph before
\* it hands out a classical block).
THEOREM OneBlockAtATime == Spec => []OneBlockInFlight
  <1>1. FlightInv => OneBlockInFlight
    BY DEF FlightInv
  <1> QED BY <1>1, FlightInvInvariant, PTL

\* While the QPU works for a program, the PostCall that comes after is still a
\* task of the CPU.
THEOREM QpuIsAwaited == Spec => []QpuWorkIsAwaited
  <1>1. FlightInv => QpuWorkIsAwaited
    BY DEF FlightInv
  <1> QED BY <1>1, FlightInvInvariant, PTL

\* What a processor executes has no predecessor, in the graph of the block as
\* built, that has not finished: those on its own processor have left its graph,
\* and no task leaves a graph in any other way than by finishing.
LEMMA FlightKeepsBlockOrder == FlightInv => BlockOrder
  <1> SUFFICES ASSUME FlightInv, NEW c \in Cores, current[c] # NoTask,
                      NEW n \in PredsOf(Block(current[c]), current[c].name)
               PROVE  Sibling(current[c], n) \in finished["CPU"] \cup finished["QPU"]
    BY DEF BlockOrder, Siblings
  <1> DEFINE t == current[c]
             b == Program[t.pid][t.blk]
  <1>1. /\ t \in tasks[c] /\ t \in Task /\ t.pid \in Pids /\ t.blk \in DOMAIN Program[t.pid]
        /\ t.name \in NamesOf(t.pid, t.blk, c) /\ Block(t) = b
        /\ OwnPredsDone(c, t) /\ OtherPredsDone(c, t)
    BY DEF FlightInv, TypeOK, CurrentIsReady, TasksOfBlocks, Task, Block
  <1> HIDE DEF t
  <1>2. n \in TasksOf(b) /\ t.name \in TasksOf(b)
    <2>1. b \in Blocks /\ t.name \in TasksOf(b)
      BY <1>1, PartialNames
    <2> QED BY <1>1, <2>1, PredsAreTasks DEF t
  <1>3. CASE n \in NamesOf(t.pid, t.blk, c)
    <2>1. n \in Partial[t.pid][t.blk][c].preds[t.name]
      <3>1. n \in PredsOf(b, t.name)
        BY <1>1 DEF t
      <3>2. PredsOf(b, t.name) \cap NamesOf(t.pid, t.blk, c)
                \subseteq Partial[t.pid][t.blk][c].preds[t.name]
        BY <1>1, PartialNames
      <3> QED BY ONLY <1>3, <3>1, <3>2
    <2>2. Sibling(t, n) \notin tasks[c]
      <3>1. \A names : n \in names => Sibling(t, n) \in Siblings(t, names)
        BY DEF Siblings
      <3> QED BY <1>1, <2>1, <3>1 DEF OwnPredsDone, InternalPreds
    <2>3. Sibling(t, n) \in tasks[c] \cup finished[c]
      BY <1>1, <1>3 DEF FlightInv, NoTaskLost
    <2> QED BY <2>2, <2>3, CoresFacts DEF t
  <1>4. CASE n \notin NamesOf(t.pid, t.blk, c)
    <2>1. n \in Partial[t.pid][t.blk][c].ext[t.name]
      <3>1. n \in PredsOf(b, t.name)
        BY <1>1 DEF t
      <3>2. Partial[t.pid][t.blk][c].ext[t.name] = PredsOf(b, t.name) \ NamesOf(t.pid, t.blk, c)
        BY <1>1, PartialNames
      <3> QED BY ONLY <1>4, <3>1, <3>2
    <2>2. Sibling(t, n) \in ExternalPreds(c, t)
      <3>1. \A names : n \in names => Sibling(t, n) \in Siblings(t, names)
        BY DEF Siblings
      <3> QED BY <2>1, <3>1 DEF ExternalPreds
    <2>3. Sibling(t, n) \in finished[Other(c)]
      BY <1>1, <2>2 DEF OtherPredsDone
    <2> QED BY <2>3, CoresFacts DEF t
  <1> QED BY <1>3, <1>4

\* Tasks of a block are executed in the order of its graph as built, although each
\* processor sees only its part of it.
THEOREM TasksInOrder == Spec => []BlockOrder
  BY FlightInvInvariant, FlightKeepsBlockOrder, PTL

------------------------------------------------------------------------------
(* The order of blocks.                                                       *)


\* The program's block has taken its jump and has not ended.
InMidJump(p) == phase # "body" /\ current["CPU"].pid = p

\* A processor is in the middle of a block of jumps only if the CPU executes one.
PhaseOfLocal == phase # "body" => core["CPU"] = "busy" /\ current["CPU"].name = Local

\* Once a program has left its block, or has decided where it goes next, the node
\* scheduler would hand out the block that the program asks for.
IndexMeetsGoal ==
    \A p \in Pids : ~ HasTask("CPU", p) \/ InMidJump(p) => NextIndex(p) = goal[p]

\* Before that, there is no jump on record, and the index is past the block.
IndexPastBlock ==
    \A t \in tasks["CPU"] :
        ~ InMidJump(t.pid) => jumps[t.pid] = NoJump /\ index[t.pid] = t.blk + 1

\* A PreCall that is left alone (a request for no pairs orders nothing) changes
\* nothing about that.
LatePreCall ==
    \A t \in tasks["CPU"] :
        t.name = Pre /\ Sibling(t, Post) \notin tasks["CPU"] => NextIndex(t.pid) = goal[t.pid]

\* The inductive invariant about jumps.
JumpInv == PhaseOfLocal /\ IndexMeetsGoal /\ IndexPastBlock /\ LatePreCall

------------------------------------------------------------------------------
(* The tasks of the CPU.                                                      *)

\* What is known of a task of the CPU and its block.
LEMMA CpuTask ==
    ASSUME FlightInv, NEW t \in tasks["CPU"]
    PROVE  /\ t \in Task /\ t.pid \in Pids /\ t.blk \in DOMAIN Program[t.pid] /\ t.blk \in Nat \ {0}
           /\ Block(t) = Program[t.pid][t.blk]
           /\ t.name \in {Local, Event, Pre, Post}
           /\ t.name = Local <=> Block(t).typ = "CL"
           /\ t.name = Event <=> Block(t).typ = "CC"
           /\ t.name \in {Local, Event} =>
                 \A u \in tasks["CPU"] : u.pid = t.pid => u = t
           /\ \A u \in tasks["CPU"] : u.pid = t.pid => u = Sibling(t, u.name)
  <1>1. t \in Task /\ t.pid \in Pids /\ t.blk \in DOMAIN Program[t.pid]
        /\ t.name \in NamesOf(t.pid, t.blk, "CPU") /\ Block(t) = Program[t.pid][t.blk]
    BY CoresFacts DEF FlightInv, TypeOK, TasksOfBlocks, Task, Block
  <1>2. t.blk \in Nat \ {0}
    BY <1>1, NodeAssumption
  <1>3. \A u \in tasks["CPU"] : u.pid = t.pid =>
            u = Sibling(t, u.name) /\ u.name \in NamesOf(t.pid, t.blk, "CPU")
    <2> SUFFICES ASSUME NEW u \in tasks["CPU"], u.pid = t.pid
                 PROVE  u = Sibling(t, u.name) /\ u.name \in NamesOf(t.pid, t.blk, "CPU")
      OBVIOUS
    <2>1. u \in Task /\ u.blk = t.blk /\ u.inst = t.inst
          /\ u.name \in NamesOf(u.pid, u.blk, "CPU")
      BY CoresFacts DEF FlightInv, TypeOK, SameBlock, OneBlockInFlight, TasksOfBlocks
    <2> QED BY <1>1, <2>1, SiblingFacts
  <1>4. Sibling(t, t.name) = t
    BY <1>1, SiblingFacts
  <1> QED BY <1>1, <1>2, <1>3, <1>4, CpuNames, CpuNamesDiffer

\* In the middle of a jump the CPU has the block's task.
LEMMA MidJumpHasTask ==
    ASSUME FlightInv, JumpInv, NEW p, InMidJump(p)
    PROVE  /\ current["CPU"] \in tasks["CPU"] /\ current["CPU"].name = Local
           /\ core["CPU"] = "busy" /\ current["CPU"].pid = p
  BY CoresFacts DEF FlightInv, CurrentIsReady, JumpInv, PhaseOfLocal, InMidJump

------------------------------------------------------------------------------
(* The invariant, one action after the other.                                 *)

LEMMA InitJumpInv == Init => JumpInv
  BY CoresFacts DEF Init, JumpInv, PhaseOfLocal, IndexMeetsGoal, IndexPastBlock, LatePreCall,
                    InMidJump, NextIndex

\* Steps that concern neither what the CPU executes nor the jumps.
LEMMA QuietJumpStep ==
    ASSUME JumpInv, UNCHANGED <<index, jumps, goal, phase>>, tasks'["CPU"] = tasks["CPU"],
           phase = "body" \/ (current'["CPU"] = current["CPU"] /\ core'["CPU"] = core["CPU"])
    PROVE  JumpInv'
  BY DEF JumpInv, PhaseOfLocal, IndexMeetsGoal, IndexPastBlock, LatePreCall,
         InMidJump, NextIndex, HasTask

LEMMA StartTaskJump ==
    ASSUME FlightInv, JumpInv, NEW c \in Cores, StartTask(c)
    PROVE  JumpInv'
  <1>1. PICK t \in Choices(c) :
          /\ current' = [current EXCEPT ![c] = t]
          /\ jumps' = IF t.name \in {Local, Event}
                      THEN [jumps EXCEPT ![t.pid] = NoJump] ELSE jumps
    BY DEF StartTask
  <1>2. t \in tasks[c]
    BY DEF Choices, ReadyTasks, RootTasks
  <1>3. CASE c = "QPU"
    <2>1. ProcessorOf(t.name) = "QPU"
      BY <1>2, <1>3, PartialNames, CoresFacts DEF FlightInv, TypeOK, TasksOfBlocks, Task
    <2>2. jumps' = jumps
      BY <1>1, <2>1, KindsDiffer
    <2> QED BY <1>1, <1>3, <2>2, QuietJumpStep, CoresFacts DEF StartTask, FlightInv, TypeOK
  <1>4. CASE c = "CPU"
    <2>1. phase = "body" /\ phase' = "body"
      BY <1>4 DEF StartTask, Chooses, JumpInv, PhaseOfLocal
    <2>2. jumps[t.pid] = NoJump
      BY <1>2, <1>4, <2>1 DEF JumpInv, IndexPastBlock, InMidJump
    <2>3. jumps' = jumps
      BY <1>1, <2>2 DEF FlightInv, TypeOK
    <2> QED BY <2>1, <2>3, QuietJumpStep DEF StartTask
  <1> QED BY <1>3, <1>4, CoresFacts

LEMMA NothingToHandOutJump ==
    ASSUME FlightInv, JumpInv, NEW p \in Pids, NothingToHandOut(p)
    PROVE  JumpInv'
  <1>1. /\ index' = [index EXCEPT ![p] = NextIndex(p)] /\ jumps' = [jumps EXCEPT ![p] = NoJump]
        /\ UNCHANGED <<tasks, phase, current, core, goal>>
    BY DEF NothingToHandOut, Consider
  <1>2. \A q \in Pids : NextIndex(q)' = NextIndex(q)
                        /\ (jumps[q] = NoJump => jumps'[q] = NoJump /\ index'[q] = index[q])
    BY <1>1 DEF FlightInv, TypeOK, NextIndex
  <1>3. \A t \in tasks["CPU"] : t.pid \in Pids
    BY CpuTask
  <1> QED BY <1>1, <1>2, <1>3
          DEF JumpInv, PhaseOfLocal, IndexMeetsGoal, IndexPastBlock, LatePreCall, InMidJump, HasTask

LEMMA HandOutJump ==
    ASSUME FlightInv, FlightInv', JumpInv, NEW p \in Pids, HandOut(p)
    PROVE  JumpInv'
  <1> DEFINE i == NextIndex(p)
             new == [pid : {p}, inst : {handed[p] + 1}, blk : {i}, name : NamesOf(p, i, "CPU")]
  <1>1. /\ tasks'["CPU"] = tasks["CPU"] \cup new
        /\ index' = [index EXCEPT ![p] = i + 1] /\ jumps' = [jumps EXCEPT ![p] = NoJump]
        /\ UNCHANGED <<phase, current, core, goal>>
    BY CoresFacts DEF HandOut, Consider, NamesOf
  <1>2. \A t \in tasks["CPU"] : t.pid # p /\ t.pid \in Pids
    BY CpuTask DEF HandOut, CanHandOut, HasTask
  <1>3. i \in DOMAIN Program[p]
    BY NextIndexNat, NodeAssumption DEF FlightInv, HandOut, CanHandOut
  <1>4. \A t \in new : t.pid = p /\ t.blk = i
    OBVIOUS
  <1>5. \A t \in new : t.name = Pre => Sibling(t, Post) \in new
    <2>1. Pre \in NamesOf(p, i, "CPU") => Post \in NamesOf(p, i, "CPU")
      BY <1>3, CpuNames, CpuNamesDiffer
    <2> HIDE DEF i
    <2> QED BY <2>1 DEF Sibling
  <1>6. new # {}
    <2>1. NamesOf(p, i, "CPU") # {}
      BY <1>3, CpuNames
    <2>2. PICK n \in NamesOf(p, i, "CPU") : TRUE
      BY <2>1
    <2>3. [pid |-> p, inst |-> handed[p] + 1, blk |-> i, name |-> n] \in new
      BY <2>2
    <2> QED BY <2>3
  <1>7. index'[p] = i + 1 /\ jumps'[p] = NoJump
        /\ \A q \in Pids : q # p => index'[q] = index[q] /\ jumps'[q] = jumps[q]
    BY <1>1 DEF FlightInv, TypeOK
  <1> HIDE DEF i, new
  <1>8. ~ InMidJump(p)
    BY <1>2, MidJumpHasTask
  <1>9. PhaseOfLocal'
    BY <1>1 DEF JumpInv, PhaseOfLocal
  <1>10. IndexMeetsGoal'
    <2> SUFFICES ASSUME NEW q \in Pids, ~ HasTask("CPU", q)' \/ InMidJump(q)
                 PROVE  NextIndex(q)' = goal[q]
      BY <1>1 DEF IndexMeetsGoal, InMidJump
    <2>1. q # p
      BY <1>1, <1>4, <1>6, <1>8 DEF HasTask
    <2>2. ~ HasTask("CPU", q) \/ InMidJump(q)
      BY <1>1 DEF HasTask
    <2> QED BY <1>7, <2>1, <2>2 DEF JumpInv, IndexMeetsGoal, NextIndex
  <1>11. IndexPastBlock'
    <2> SUFFICES ASSUME NEW t \in tasks'["CPU"], ~ InMidJump(t.pid)
                 PROVE  jumps'[t.pid] = NoJump /\ index'[t.pid] = t.blk + 1
      BY <1>1 DEF IndexPastBlock, InMidJump
    <2> QED BY <1>1, <1>2, <1>4, <1>7 DEF JumpInv, IndexPastBlock
  <1>12. LatePreCall'
    <2> SUFFICES ASSUME NEW t \in tasks'["CPU"], t.name = Pre, Sibling(t, Post) \notin tasks'["CPU"]
                 PROVE  NextIndex(t.pid)' = goal[t.pid]
      BY <1>1 DEF LatePreCall
    <2>1. t \in tasks["CPU"] /\ Sibling(t, Post) \notin tasks["CPU"]
      BY <1>1, <1>5
    <2> QED BY <1>2, <1>7, <2>1 DEF JumpInv, LatePreCall, NextIndex
  <1> QED BY <1>9, <1>10, <1>11, <1>12 DEF JumpInv

LEMMA TakeJumpJump ==
    ASSUME FlightInv, JumpInv, TakeJump
    PROVE  JumpInv'
  <1> DEFINE t == current["CPU"]
  <1>1. PICK target \in Block(t).targets :
          /\ jumps' = [jumps EXCEPT ![t.pid] = target]
          /\ goal' = [goal EXCEPT ![t.pid] = target]
    BY DEF TakeJump
  <1>2. target \in Nat \ {0} /\ t.pid \in Pids /\ t.name = Local /\ core["CPU"] = "busy"
        /\ phase = "body" /\ phase' = "jumped" /\ UNCHANGED <<tasks, index, core, current>>
    BY ExecutedTask, CoresFacts DEF TakeJump, Executes, nodeVars
  <1> HIDE DEF t
  <1> PICK p \in Pids : p = t.pid
    BY <1>2
  <1>3. /\ jumps'[p] = target /\ goal'[p] = target /\ target # NoJump
        /\ \A q \in Pids : q # p => jumps'[q] = jumps[q] /\ goal'[q] = goal[q]
    BY <1>1, <1>2, NodeAssumption DEF FlightInv, TypeOK
  <1>4. NextIndex(p)' = goal'[p] /\ \A q \in Pids : q # p => NextIndex(q)' = NextIndex(q)
    BY <1>2, <1>3 DEF NextIndex
  <1>5. (\A q : ~ InMidJump(q)) /\ (\A q : InMidJump(q)' <=> q = p)
    BY <1>2 DEF InMidJump, t
  <1>6. \A u \in tasks["CPU"] : u.pid \in Pids
    BY CpuTask
  <1>7. PhaseOfLocal'
    BY <1>2 DEF PhaseOfLocal, t
  <1>8. IndexMeetsGoal'
    BY <1>2, <1>3, <1>4, <1>5 DEF JumpInv, IndexMeetsGoal, HasTask
  <1>9. IndexPastBlock'
    BY <1>2, <1>3, <1>5, <1>6 DEF JumpInv, IndexPastBlock
  <1>10. LatePreCall'
    BY <1>2, <1>3, <1>4, <1>6 DEF JumpInv, LatePreCall
  <1> QED BY <1>7, <1>8, <1>9, <1>10 DEF JumpInv

\* When the last task of a block ends, the goal is what the index says already.
LEMMA GoalAtEnd ==
    ASSUME FlightInv, JumpInv, FinishTask("CPU")
    PROVE  LET t == current["CPU"]
           IN  /\ t \in tasks["CPU"] /\ tasks'["CPU"] = tasks["CPU"] \ {t}
               /\ phase' = "body" /\ UNCHANGED <<index, jumps>>
               /\ \A q \in Pids : q # t.pid => goal'[q] = goal[q]
               /\ t.name \in {Local, Event, Post} => goal'[t.pid] = NextIndex(t.pid)
               /\ t.name \notin {Local, Event, Post} \/ phase # "body" => goal' = goal
               /\ phase = "body" /\ t.name \in {Local, Event, Post} => goal'[t.pid] = t.blk + 1
  <1> DEFINE t == current["CPU"]
  <1>1. t \in tasks["CPU"] /\ t.pid \in Pids
    BY ExecutedTask, CoresFacts DEF FinishTask
  <1>2. tasks'["CPU"] = tasks["CPU"] \ {t} /\ phase' = "body" /\ UNCHANGED <<index, jumps>>
    BY CoresFacts DEF FinishTask, FlightInv, TypeOK, nodeVars
  <1>3. goal' = IF t.name \in {Local, Event, Post} /\ phase = "body"
                THEN [goal EXCEPT ![t.pid] = t.blk + 1] ELSE goal
    BY DEF FinishTask, EndsBlock
  <1> HIDE DEF t
  <1>4. phase = "body" => NextIndex(t.pid) = t.blk + 1
    BY <1>1 DEF JumpInv, IndexPastBlock, InMidJump, NextIndex
  <1>5. phase # "body" => NextIndex(t.pid) = goal[t.pid]
    BY <1>1 DEF JumpInv, IndexMeetsGoal, InMidJump, t
  <1>6. goal \in [Pids -> Nat \ {0}]
    BY DEF FlightInv, TypeOK
  <1>7. /\ \A q \in Pids : q # t.pid => goal'[q] = goal[q]
        /\ t.name \in {Local, Event, Post} => goal'[t.pid] = NextIndex(t.pid)
        /\ t.name \notin {Local, Event, Post} \/ phase # "body" => goal' = goal
        /\ phase = "body" /\ t.name \in {Local, Event, Post} => goal'[t.pid] = t.blk + 1
    BY <1>1, <1>3, <1>4, <1>5, <1>6
  <1> QED BY <1>1, <1>2, <1>7 DEF t

LEMMA FinishTaskJump ==
    ASSUME FlightInv, JumpInv, NEW c \in Cores, FinishTask(c)
    PROVE  JumpInv'
  <1>1. CASE c = "QPU"
    <2>1. UNCHANGED <<index, jumps, phase, goal>>
      BY <1>1 DEF FinishTask, EndsBlock, nodeVars
    <2>2. tasks'["CPU"] = tasks["CPU"] /\ current'["CPU"] = current["CPU"]
          /\ core'["CPU"] = Woken("CPU", "completed")
      BY <1>1, CoresFacts DEF FinishTask, FlightInv, TypeOK
    <2>3. phase # "body" => core'["CPU"] = core["CPU"]
      BY <2>2 DEF JumpInv, PhaseOfLocal, Woken
    <2> QED BY <2>1, <2>2, <2>3, QuietJumpStep
  <1>2. CASE c = "CPU"
    <2> PICK t : t = current["CPU"]
      OBVIOUS
    <2>1. /\ t \in tasks["CPU"] /\ tasks'["CPU"] = tasks["CPU"] \ {t}
          /\ phase' = "body" /\ UNCHANGED <<index, jumps>>
          /\ \A q \in Pids : q # t.pid => goal'[q] = goal[q]
          /\ t.name \in {Local, Event, Post} => goal'[t.pid] = NextIndex(t.pid)
          /\ t.name \notin {Local, Event, Post} \/ phase # "body" => goal' = goal
      BY <1>2, GoalAtEnd
    <2>2. \A p : NextIndex(p)' = NextIndex(p) /\ ~ InMidJump(p)'
      BY <2>1 DEF NextIndex, InMidJump
    <2>3. \A u \in tasks["CPU"] :
            /\ u.pid \in Pids /\ u \in Task /\ u.name \in {Local, Event, Pre, Post}
            /\ u.name \in {Local, Event} => \A v \in tasks["CPU"] : v.pid = u.pid => v = u
            /\ \A v \in tasks["CPU"] : v.pid = u.pid => v = Sibling(u, v.name)
      BY CpuTask
    <2>4. phase # "body" => t.name = Local
      BY DEF JumpInv, PhaseOfLocal
    <2>5. PhaseOfLocal'
      BY <2>1 DEF PhaseOfLocal
    <2>6. IndexMeetsGoal'
      <3> SUFFICES ASSUME NEW p \in Pids, ~ HasTask("CPU", p)' PROVE NextIndex(p) = goal'[p]
        BY <2>2 DEF IndexMeetsGoal
      <3>1. CASE p # t.pid
        <4>1. ~ HasTask("CPU", p)
          BY <2>1, <3>1 DEF HasTask
        <4> QED BY <2>1, <3>1, <4>1 DEF JumpInv, IndexMeetsGoal
      <3>2. CASE p = t.pid /\ t.name = Pre
        <4>1. Sibling(t, Post) \notin tasks["CPU"]
          BY <2>1, <2>3, <3>2, SiblingFacts, CpuNamesDiffer DEF HasTask
        <4>2. NextIndex(p) = goal[p]
          BY <2>1, <3>2, <4>1 DEF JumpInv, LatePreCall
        <4> QED BY <2>1, <3>2, <4>2, CpuNamesDiffer
      <3> QED BY <2>1, <2>3, <3>1, <3>2
    <2>7. IndexPastBlock'
      <3> SUFFICES ASSUME NEW u \in tasks["CPU"], u # t
                   PROVE  jumps[u.pid] = NoJump /\ index[u.pid] = u.blk + 1
        BY <2>1 DEF IndexPastBlock
      <3>1. ~ InMidJump(u.pid)
        BY <2>1, <2>3, <2>4 DEF InMidJump
      <3> QED BY <3>1 DEF JumpInv, IndexPastBlock
    <2>8. LatePreCall'
      <3> SUFFICES ASSUME NEW u \in tasks["CPU"], u # t, u.name = Pre,
                          Sibling(u, Post) \notin tasks["CPU"] \/ Sibling(u, Post) = t
                   PROVE  NextIndex(u.pid) = goal'[u.pid]
        BY <2>1, <2>2 DEF LatePreCall
      <3>1. CASE Sibling(u, Post) = t
        BY <2>1, <2>3, <3>1, SiblingFacts
      <3>2. CASE Sibling(u, Post) \notin tasks["CPU"]
        <4>1. NextIndex(u.pid) = goal[u.pid]
          BY <3>2 DEF JumpInv, LatePreCall
        <4>2. u.pid = t.pid => t.name = Pre
          BY <2>1, <2>3, <3>2
        <4> QED BY <2>1, <2>3, <4>1, <4>2, CpuNamesDiffer
      <3> QED BY <3>1, <3>2
    <2> QED BY <2>5, <2>6, <2>7, <2>8 DEF JumpInv
  <1> QED BY <1>1, <1>2, CoresFacts

LEMMA NextJumpInv == FlightInv /\ FlightInv' /\ JumpInv /\ [Next]_vars => JumpInv'
  <1> SUFFICES ASSUME FlightInv, FlightInv', JumpInv, [Next]_vars PROVE JumpInv'
    OBVIOUS
  <1>1. CASE UNCHANGED vars
    BY <1>1, QuietJumpStep DEF vars
  <1>2. ASSUME NEW c \in Cores, NodeWakes(c)
        PROVE  JumpInv'
    BY <1>2, QuietJumpStep DEF NodeWakes
  <1>3. CASE PassOver \/ NodeRests
    BY <1>3, QuietJumpStep DEF PassOver, NodeRests, coreVars
  <1>4. ASSUME NEW c \in Cores, FallAsleep(c)
        PROVE  JumpInv'
    <2>1. phase # "body" => c # "CPU"
      BY <1>4 DEF FallAsleep, Chooses, JumpInv, PhaseOfLocal
    <2>2. phase # "body" => core'["CPU"] = core["CPU"]
      BY <1>4, <2>1, CoresFacts DEF FallAsleep, FlightInv, TypeOK
    <2> QED BY <1>4, <2>2, QuietJumpStep DEF FallAsleep
  <1>5. ASSUME NEW c \in Cores, PortInput(c)
        PROVE  JumpInv'
    <2>1. phase # "body" => core'["CPU"] = core["CPU"]
      BY <1>5, CoresFacts DEF PortInput, Woken, JumpInv, PhaseOfLocal, FlightInv, TypeOK
    <2> QED BY <1>5, <2>1, QuietJumpStep DEF PortInput, nodeVars
  <1>6. ASSUME NEW p \in Pids, MessageArrives(p)
        PROVE  JumpInv'
    <2>1. phase # "body" => core'["CPU"] = core["CPU"]
      BY <1>6, CoresFacts DEF MessageArrives, Woken, JumpInv, PhaseOfLocal, FlightInv, TypeOK
    <2> QED BY <1>6, <2>1, QuietJumpStep DEF MessageArrives, nodeVars
  <1>7. CASE GoOnAfterJump
    BY <1>7 DEF GoOnAfterJump, nodeVars, JumpInv, PhaseOfLocal, IndexMeetsGoal, IndexPastBlock,
                LatePreCall, InMidJump, NextIndex, HasTask
  <1>8. CASE FailTask
    <2>1. current'["CPU"] = current["CPU"] /\ core'["CPU"] = core["CPU"]
      BY <1>8, CoresFacts DEF FailTask, FlightInv, TypeOK
    <2> QED BY <1>8, <2>1, QuietJumpStep DEF FailTask, nodeVars
  <1>9. CASE TimePasses
    BY <1>9, QuietJumpStep DEF TimePasses, nodeVars
  <1> QED BY <1>1, <1>2, <1>3, <1>4, <1>5, <1>6, <1>7, <1>8, <1>9, HandOutJump,
             NothingToHandOutJump, StartTaskJump, FinishTaskJump, TakeJumpJump
          DEF Next, NodeStep, CoreStep

\* Index, record of jumps and the program's own goal agree throughout.
THEOREM JumpInvInvariant == Spec => []JumpInv
  BY InitJumpInv, NextJumpInv, FlightInvInvariant, PTL DEF Spec

------------------------------------------------------------------------------
(* The refinement: each step is one of ProgramControl, or none at all.        *)

\* The block that a program executes is that of its tasks for the CPU.
LEMMA BlockOfTask ==
    ASSUME FlightInv, NEW t \in tasks["CPU"]
    PROVE  BlockOf(t.pid) = t.blk /\ BlockOf(t.pid) # NoTask
  <1>1. HasTask("CPU", t.pid)
    BY DEF HasTask
  <1>2. \A u \in tasks["CPU"] : u.pid = t.pid => u.blk = t.blk
    BY CoresFacts DEF FlightInv, SameBlock
  <1>3. (CHOOSE u \in tasks["CPU"] : u.pid = t.pid).blk = t.blk
    BY <1>2
  <1>4. t.blk \in Nat
    BY CpuTask
  <1> QED BY <1>1, <1>3, <1>4, NodeAssumption DEF BlockOf

LEMMA BlockOfNone ==
    ASSUME NEW p \in Pids, ~ HasTask("CPU", p)
    PROVE  BlockOf(p) = NoTask
  BY DEF BlockOf

\* A program whose tasks for the CPU stay the same stays in its block.
LEMMA BlockStays ==
    ASSUME FlightInv, NEW p \in Pids,
           \A u : (u \in tasks'["CPU"] /\ u.pid = p) <=> (u \in tasks["CPU"] /\ u.pid = p)
    PROVE  BlockOf(p)' = BlockOf(p)
  <1>1. HasTask("CPU", p)' <=> HasTask("CPU", p)
    BY DEF HasTask
  <1>2. CASE HasTask("CPU", p)
    <2>1. PICK t \in tasks["CPU"] : t.pid = p
      BY <1>2 DEF HasTask
    <2>2. \A u \in tasks'["CPU"] : u.pid = p => u.blk = t.blk
      BY <2>1, CoresFacts DEF FlightInv, SameBlock
    <2>3. t \in tasks'["CPU"] /\ t.pid = p
      BY <2>1
    <2>4. (CHOOSE u \in tasks'["CPU"] : u.pid = p).blk = t.blk
      BY <2>2, <2>3
    <2> QED BY <1>1, <1>2, <2>1, <2>4, BlockOfTask DEF BlockOf
  <1>3. CASE ~ HasTask("CPU", p)
    BY <1>1, <1>3 DEF BlockOf
  <1> QED BY <1>2, <1>3

\* The programs stay where they are and do not decide anything.
Quiet == UNCHANGED <<[p \in Pids |-> BlockOf(p)], goal>>

LEMMA HandOutEnters ==
    ASSUME FlightInv, FlightInv', JumpInv, NEW p \in Pids, HandOut(p)
    PROVE  Control!Enter(p)
  <1> DEFINE i == NextIndex(p)
             new == [pid : {p}, inst : {handed[p] + 1}, blk : {i}, name : NamesOf(p, i, "CPU")]
  <1>1. tasks'["CPU"] = tasks["CPU"] \cup new /\ UNCHANGED goal
    BY CoresFacts DEF HandOut, Consider, NamesOf
  <1>2. ~ HasTask("CPU", p) /\ i <= Len(Program[p]) /\ i \in DOMAIN Program[p]
    BY NextIndexNat, NodeAssumption DEF FlightInv, HandOut, CanHandOut
  <1>3. i = goal[p]
    BY <1>2 DEF JumpInv, IndexMeetsGoal
  <1>4. BlockOf(p)' = i
    <2>1. NamesOf(p, i, "CPU") # {}
      BY <1>2, CpuNames
    <2>2. PICK n \in NamesOf(p, i, "CPU") : TRUE
      BY <2>1
    <2>3. [pid |-> p, inst |-> handed[p] + 1, blk |-> i, name |-> n] \in tasks'["CPU"]
      BY <1>1, <2>2
    <2> HIDE DEF i
    <2>4. PICK t \in tasks'["CPU"] : t.pid = p /\ t.blk = i
      BY <2>3
    <2>5. HasTask("CPU", p)' /\ (\A u \in tasks'["CPU"] : u.pid = p => u.blk = i)
      BY <2>4, CoresFacts DEF HasTask, FlightInv, SameBlock
    <2>6. (CHOOSE u \in tasks'["CPU"] : u.pid = p).blk = i
      BY <2>4, <2>5
    <2> QED BY <2>5, <2>6 DEF BlockOf
  <1>5. ASSUME NEW q \in Pids, q # p PROVE BlockOf(q)' = BlockOf(q)
    <2>1. \A u : (u \in tasks'["CPU"] /\ u.pid = q) <=> (u \in tasks["CPU"] /\ u.pid = q)
      BY <1>1, <1>5
    <2> QED BY <2>1, BlockStays
  <1>6. BlockOf(p) = NoTask
    BY <1>2, BlockOfNone
  <1> HIDE DEF i
  <1> QED BY <1>1, <1>2, <1>3, <1>4, <1>5, <1>6 DEF Control!Enter

\* Where no task of the CPU comes or goes, programs stay in their blocks.
LEMMA SameTasksSameBlocks ==
    ASSUME tasks'["CPU"] = tasks["CPU"]
    PROVE  \A p \in Pids : BlockOf(p)' = BlockOf(p)
  BY DEF BlockOf, HasTask

LEMMA TakeJumpDecides ==
    ASSUME FlightInv, JumpInv, TakeJump
    PROVE  \E p \in Pids : Control!Decide(p)
  <1> PICK t : t = current["CPU"]
    OBVIOUS
  <1>1. PICK target \in Block(t).targets : goal' = [goal EXCEPT ![t.pid] = target]
    BY DEF TakeJump
  <1>2. t \in tasks["CPU"] /\ t.pid \in Pids /\ t.blk \in DOMAIN Program[t.pid]
        /\ Block(t) = Program[t.pid][t.blk]
    BY ExecutedTask, CoresFacts DEF TakeJump
  <1>3. BlockOf(t.pid) = t.blk /\ BlockOf(t.pid) # NoTask
    BY <1>2, BlockOfTask
  <1>4. target \in ProgramSuccessors[t.pid][t.blk]
    BY <1>1, <1>2 DEF ProgramSuccessors
  <1>5. \A p \in Pids : BlockOf(p)' = BlockOf(p)
    BY SameTasksSameBlocks DEF TakeJump
  <1>6. Control!Decide(t.pid)
    BY <1>1, <1>2, <1>3, <1>4, <1>5 DEF Control!Decide
  <1> QED BY <1>2, <1>6

LEMMA FinishTaskControls ==
    ASSUME FlightInv, FlightInv', JumpInv, FinishTask("CPU")
    PROVE  (\E p \in Pids : Control!Decide(p) \/ Control!Leave(p)) \/ Quiet
  <1> PICK t : t = current["CPU"]
    OBVIOUS
  <1> PICK p : p = t.pid
    OBVIOUS
  <1>1. /\ t \in tasks["CPU"] /\ tasks'["CPU"] = tasks["CPU"] \ {t}
        /\ \A q \in Pids : q # p => goal'[q] = goal[q]
        /\ t.name \notin {Local, Event, Post} \/ phase # "body" => goal' = goal
        /\ phase = "body" /\ t.name \in {Local, Event, Post} => goal'[p] = t.blk + 1
    BY GoalAtEnd
  <1>2. /\ p \in Pids /\ t.blk \in DOMAIN Program[p] /\ Block(t) = Program[p][t.blk]
        /\ t.name \in {Local, Event, Pre, Post}
        /\ t.name = Local <=> Block(t).typ = "CL"
    BY <1>1, CpuTask
  <1>3. BlockOf(p) = t.blk /\ BlockOf(p) # NoTask
    BY <1>1, BlockOfTask
  <1>4. goal' = goal \/ goal' = [goal EXCEPT ![p] = t.blk + 1]
    BY DEF FinishTask, EndsBlock
  <1>5. ASSUME goal' # goal
        PROVE  t.blk + 1 \in ProgramSuccessors[p][t.blk]
    <2>1. t.name \in {Local, Event, Post} /\ phase = "body"
      BY <1>1, <1>5
    <2>2. t.name = Local => Block(t).falls
      BY <2>1 DEF FinishTask, BlockEnds
    <2>3. t.name # Local => Block(t).falls
      BY <1>2, NodeAssumption
    <2>4. Program[p][t.blk].falls
      BY <1>2, <2>2, <2>3
    <2> QED BY <1>2, <2>4 DEF ProgramSuccessors
  <1>6. ASSUME NEW q \in Pids, q # p PROVE BlockOf(q)' = BlockOf(q)
    <2>1. \A u : (u \in tasks'["CPU"] /\ u.pid = q) <=> (u \in tasks["CPU"] /\ u.pid = q)
      BY <1>1, <1>6
    <2> QED BY <2>1, BlockStays
  <1>7. CASE HasTask("CPU", p)'
    <2>1. \A u \in tasks'["CPU"] : u.pid = p => u.blk = t.blk
      BY <1>1, CoresFacts DEF FlightInv, SameBlock
    <2>2. (CHOOSE u \in tasks'["CPU"] : u.pid = p).blk = t.blk
      BY <1>7, <2>1 DEF HasTask
    <2>3. BlockOf(p)' = BlockOf(p)
      BY <1>3, <1>7, <2>2 DEF BlockOf
    <2>4. \A q \in Pids : BlockOf(q)' = BlockOf(q)
      BY <1>6, <2>3
    <2>5. CASE goal' = goal
      BY <2>4, <2>5 DEF Quiet
    <2>6. CASE goal' # goal
      BY <1>2, <1>3, <1>4, <1>5, <2>4, <2>6 DEF Control!Decide
    <2> QED BY <2>5, <2>6
  <1>8. CASE ~ HasTask("CPU", p)'
    <2>1. BlockOf(p)' = NoTask
      BY <1>8 DEF BlockOf
    <2> DEFINE at == [q \in Pids |-> BlockOf(q)]
    <2>2. at' = [at EXCEPT ![p] = NoTask] /\ at[p] = t.blk /\ at[p] # NoTask
      BY <1>2, <1>3, <1>6, <2>1
    <2>3. goal' = goal \/ \E n \in ProgramSuccessors[p][t.blk] : goal' = [goal EXCEPT ![p] = n]
      BY <1>4, <1>5
    <2>4. Control!Leave(p)
      BY <2>2, <2>3 DEF Control!Leave
    <2> QED BY <1>2, <2>4
  <1> QED BY <1>7, <1>8

LEMMA NextIsControl ==
    FlightInv /\ FlightInv' /\ JumpInv /\ [Next]_vars => [Control!Next]_(Control!controlVars)
  <1> SUFFICES ASSUME FlightInv, FlightInv', JumpInv, [Next]_vars
               PROVE  Control!Next \/ Quiet
    BY DEF Control!controlVars, Quiet
  <1>1. ASSUME tasks'["CPU"] = tasks["CPU"], UNCHANGED goal
        PROVE  Quiet
    BY <1>1, SameTasksSameBlocks DEF Quiet
  <1>2. CASE UNCHANGED vars
    BY <1>1, <1>2 DEF vars
  <1>3. ASSUME NEW c \in Cores, NodeWakes(c)
        PROVE  Quiet
    BY <1>1, <1>3 DEF NodeWakes
  <1>4. CASE PassOver \/ NodeRests
    BY <1>1, <1>4 DEF PassOver, NodeRests, coreVars
  <1>5. ASSUME NEW p \in Pids, NothingToHandOut(p)
        PROVE  Quiet
    BY <1>1, <1>5 DEF NothingToHandOut, Consider
  <1>6. ASSUME NEW p \in Pids, HandOut(p)
        PROVE  Control!Next
    BY <1>6, HandOutEnters DEF Control!Next
  <1>7. ASSUME NEW c \in Cores, StartTask(c) \/ FallAsleep(c) \/ PortInput(c)
        PROVE  Quiet
    BY <1>1, <1>7 DEF StartTask, FallAsleep, PortInput
  <1>8. ASSUME NEW c \in Cores, FinishTask(c)
        PROVE  Control!Next \/ Quiet
    <2>1. CASE c = "CPU"
      BY <1>8, <2>1, FinishTaskControls DEF Control!Next
    <2>2. CASE c = "QPU"
      <3>1. tasks'["CPU"] = tasks["CPU"] /\ UNCHANGED goal
        BY <1>8, <2>2, CoresFacts DEF FinishTask, EndsBlock, FlightInv, TypeOK
      <3> QED BY <1>1, <3>1
    <2> QED BY <2>1, <2>2, CoresFacts
  <1>9. ASSUME NEW p \in Pids, MessageArrives(p)
        PROVE  Quiet
    BY <1>1, <1>9 DEF MessageArrives
  <1>10. CASE TakeJump
    BY <1>10, TakeJumpDecides DEF Control!Next
  <1>11. CASE GoOnAfterJump \/ FailTask \/ TimePasses
    BY <1>1, <1>11 DEF GoOnAfterJump, FailTask, TimePasses
  <1> QED BY <1>2, <1>3, <1>4, <1>5, <1>6, <1>7, <1>8, <1>9, <1>10, <1>11
          DEF Next, NodeStep, CoreStep

\* The blocks of every program are executed one at a time, and the next one is the
\* one that the program itself asks for, by its jump or by its end: the record of
\* jumps that the host writes and find_next_tasks_for consumes at any time never
\* leads anywhere else.
THEOREM NodeImplementsControl == Spec => ImplementsControl
  <1>1. Init => Control!Init
    BY CoresFacts DEF Init, Control!Init, BlockOf, HasTask
  <1>2. FlightInv /\ FlightInv' /\ JumpInv /\ [Next]_vars
            => [Control!Next]_(Control!controlVars)
    BY NextIsControl
  <1> QED BY <1>1, <1>2, FlightInvInvariant, JumpInvInvariant, PTL
          DEF Spec, ImplementsControl, Control!Spec

------------------------------------------------------------------------------
(* What may be missed.                                                        *)

\* Why a processor may sleep without a message on its way: none of its tasks is
\* ready, and what those that are blocked wait for is among what would wake it.
NothingToDo(c) ==
    /\ ReadyTasks(c) = {}
    /\ WaitingForOther(c) # {} => "completed" \in awaits[c]
    /\ WaitingForMessage(c) # {} => "message" \in awaits[c]

\* A message of the node scheduler always wakes it.
SleepsRightly(c) ==
    core[c] = "waiting" => "port" \in awaits[c] /\ (port[c] \/ NothingToDo(c))

\* The inductive invariant about sleep.
WakeInv == \A c \in Cores : SleepsRightly(c)

\* The QPU has no receive tasks.
LEMMA OnlyCpuReceives ==
    ASSUME FlightInv, NEW t \in tasks["QPU"]
    PROVE  t.name \notin {Local, Event}
  <1>1. /\ t \in Task /\ t.blk \in DOMAIN Program[t.pid]
        /\ t.name \in NamesOf(t.pid, t.blk, "QPU")
    BY CoresFacts DEF FlightInv, TypeOK, TasksOfBlocks
  <1>2. t.pid \in Pids
    BY <1>1 DEF Task
  <1>3. ProcessorOf(t.name) = "QPU"
    BY <1>1, <1>2, PartialNames, CoresFacts
  <1> QED BY <1>3, KindsDiffer

\* A processor that slept rightly still does so when nothing changed for it.
LEMMA StillSleepsRightly ==
    ASSUME NEW c \in Cores, SleepsRightly(c),
           core'[c] = "waiting" =>
               /\ core[c] = "waiting" /\ awaits'[c] = awaits[c] /\ (port[c] => port'[c])
               /\ tasks'[c] = tasks[c] /\ finished'[Other(c)] = finished[Other(c)]
               /\ \A t \in tasks[c] : t.name = Event => (t.pid \in inbox' <=> t.pid \in inbox)
    PROVE  SleepsRightly(c)'
  <1> SUFFICES ASSUME core'[c] = "waiting", NothingToDo(c) PROVE NothingToDo(c)'
    BY DEF SleepsRightly
  <1>1. \A t \in tasks[c] : OwnPredsDone(c, t)' = OwnPredsDone(c, t)
                            /\ OtherPredsDone(c, t)' = OtherPredsDone(c, t)
    BY DEF OwnPredsDone, OtherPredsDone
  <1>2. RootTasks(c)' = RootTasks(c) /\ WaitingForOther(c)' = WaitingForOther(c)
    BY <1>1 DEF RootTasks, WaitingForOther
  <1>3. WaitingForMessage(c)' = WaitingForMessage(c)
    BY <1>2 DEF WaitingForMessage, RootTasks
  <1>4. ReadyTasks(c)' = ReadyTasks(c)
    BY <1>2, <1>3 DEF ReadyTasks
  <1> QED BY <1>2, <1>3, <1>4 DEF NothingToDo

LEMMA InitWakeInv == Init => WakeInv
  BY DEF Init, WakeInv, SleepsRightly

LEMMA HandOutWake ==
    ASSUME WakeInv, NEW p \in Pids, HandOut(p)
    PROVE  WakeInv'
  <1> SUFFICES ASSUME NEW c \in Cores PROVE SleepsRightly(c)'
    BY DEF WakeInv
  <1> DEFINE new == [d \in Cores |->
                       [pid : {p}, inst : {handed[p] + 1}, blk : {NextIndex(p)},
                        name : Partial[p][NextIndex(p)][d].tasks]]
  <1>1. /\ tasks' = [d \in Cores |-> tasks[d] \cup new[d]]
        /\ port' = [d \in Cores |-> port[d] \/ new[d] # {}]
        /\ UNCHANGED <<finished, core, awaits, inbox>>
    BY DEF HandOut, Consider, Told
  <1> HIDE DEF new
  <1>2. CASE new[c] = {}
    <2>1. tasks'[c] = tasks[c] /\ (port[c] => port'[c])
      BY <1>1, <1>2
    <2> QED BY <1>1, <2>1, StillSleepsRightly DEF WakeInv
  <1>3. CASE new[c] # {}
    BY <1>1, <1>3 DEF WakeInv, SleepsRightly
  <1> QED BY <1>2, <1>3

LEMMA StartTaskWake ==
    ASSUME FlightInv, WakeInv, NEW c \in Cores, StartTask(c)
    PROVE  WakeInv'
  <1> SUFFICES ASSUME NEW d \in Cores PROVE SleepsRightly(d)'
    BY DEF WakeInv
  <1>1. CASE d = c
    BY <1>1 DEF StartTask, FlightInv, TypeOK, SleepsRightly
  <1>2. CASE d # c
    <2>1. core'[d] = core[d] /\ UNCHANGED <<tasks, finished, awaits, port>>
      BY <1>2 DEF StartTask, FlightInv, TypeOK
    <2>2. d = "QPU" => \A t \in tasks[d] : t.name # Event
      BY OnlyCpuReceives
    <2>3. d = "CPU" => UNCHANGED inbox
      <3> SUFFICES ASSUME d = "CPU" PROVE UNCHANGED inbox
        OBVIOUS
      <3>1. c = "QPU"
        BY <1>2, CoresFacts
      <3>2. PICK t \in Choices(c) : inbox' = IF t.name = Event THEN inbox \ {t.pid} ELSE inbox
        BY DEF StartTask
      <3>3. t \in tasks[c]
        BY DEF Choices, ReadyTasks, RootTasks
      <3> QED BY <3>1, <3>2, <3>3, OnlyCpuReceives
    <2> QED BY <2>1, <2>2, <2>3, StillSleepsRightly, CoresFacts DEF WakeInv
  <1> QED BY <1>1, <1>2

LEMMA FallAsleepWake ==
    ASSUME FlightInv, WakeInv, NEW c \in Cores, FallAsleep(c)
    PROVE  WakeInv'
  <1> SUFFICES ASSUME NEW d \in Cores PROVE SleepsRightly(d)'
    BY DEF WakeInv
  <1>1. UNCHANGED <<tasks, finished, port, inbox>>
    BY DEF FallAsleep
  <1>2. CASE d = c
    <2>1. awaits'[c] = EventsToAwait(c) /\ ReadyTasks(c) = {}
      BY DEF FallAsleep, FlightInv, TypeOK
    <2>2. UNCHANGED <<ReadyTasks(c), WaitingForOther(c), WaitingForMessage(c)>>
      BY <1>1 DEF ReadyTasks, WaitingForOther, WaitingForMessage, RootTasks, OwnPredsDone,
                  OtherPredsDone
    <2>3. NothingToDo(c)' /\ "port" \in awaits'[c]
      BY <2>1, <2>2 DEF NothingToDo, EventsToAwait
    <2> QED BY <1>2, <2>3 DEF SleepsRightly
  <1>3. CASE d # c
    <2>1. core'[d] = core[d] /\ awaits'[d] = awaits[d]
      BY <1>3 DEF FallAsleep, FlightInv, TypeOK
    <2> QED BY <1>1, <2>1, StillSleepsRightly DEF WakeInv
  <1> QED BY <1>2, <1>3

LEMMA PortInputWake ==
    ASSUME FlightInv, WakeInv, NEW c \in Cores, PortInput(c)
    PROVE  WakeInv'
  <1> SUFFICES ASSUME NEW d \in Cores PROVE SleepsRightly(d)'
    BY DEF WakeInv
  <1>1. UNCHANGED <<tasks, finished, awaits, inbox>>
    BY DEF PortInput
  <1>2. CASE d = c
    <2>1. core'[c] = Woken(c, "port") /\ SleepsRightly(c)
      BY DEF PortInput, FlightInv, TypeOK, WakeInv
    <2>2. core'[c] # "waiting"
      BY <2>1 DEF SleepsRightly, Woken
    <2> QED BY <1>2, <2>2 DEF SleepsRightly
  <1>3. CASE d # c
    <2>1. core'[d] = core[d] /\ port'[d] = port[d]
      BY <1>3 DEF PortInput, FlightInv, TypeOK
    <2> QED BY <1>1, <2>1, StillSleepsRightly DEF WakeInv
  <1> QED BY <1>2, <1>3

LEMMA MessageArrivesWake ==
    ASSUME FlightInv, WakeInv, NEW p \in Pids, MessageArrives(p)
    PROVE  WakeInv'
  <1> SUFFICES ASSUME NEW d \in Cores PROVE SleepsRightly(d)'
    BY DEF WakeInv
  <1>1. /\ UNCHANGED <<tasks, finished, awaits, port>> /\ inbox' = inbox \cup {p}
        /\ core'["CPU"] = Woken("CPU", "message") /\ core'["QPU"] = core["QPU"]
    BY CoresFacts DEF MessageArrives, FlightInv, TypeOK
  <1>2. CASE d = "QPU"
    <2>1. \A t \in tasks[d] : t.name # Event
      BY <1>2, OnlyCpuReceives
    <2> QED BY <1>1, <1>2, <2>1, StillSleepsRightly DEF WakeInv
  <1>3. CASE d = "CPU"
    <2> SUFFICES ASSUME core'[d] = "waiting"
                 PROVE  "port" \in awaits[d] /\ (port[d] \/ NothingToDo(d)')
      BY <1>1 DEF SleepsRightly
    <2>1. core[d] = "waiting" /\ "message" \notin awaits[d]
      BY <1>1, <1>3 DEF Woken
    <2> SUFFICES ASSUME ~ port[d] PROVE NothingToDo(d)'
      BY <2>1 DEF WakeInv, SleepsRightly
    <2>2. NothingToDo(d)
      BY <2>1 DEF WakeInv, SleepsRightly
    <2>3. RootTasks(d) = {}
      BY <2>1, <2>2 DEF NothingToDo, ReadyTasks
    <2>4. RootTasks(d)' = RootTasks(d) /\ WaitingForOther(d)' = WaitingForOther(d)
      BY <1>1 DEF RootTasks, WaitingForOther, OwnPredsDone, OtherPredsDone
    <2>5. ReadyTasks(d)' = {} /\ WaitingForMessage(d)' = {}
      BY <2>3, <2>4 DEF ReadyTasks, WaitingForMessage
    <2> QED BY <1>1, <2>2, <2>4, <2>5 DEF NothingToDo
  <1> QED BY <1>2, <1>3, CoresFacts

LEMMA FinishTaskWake ==
    ASSUME FlightInv, WakeInv, NEW c \in Cores, FinishTask(c)
    PROVE  WakeInv'
  <1> SUFFICES ASSUME NEW d \in Cores PROVE SleepsRightly(d)'
    BY DEF WakeInv
  <1>1. CASE d = c
    <2>1. core'[c] = "choosing"
      BY CoresFacts DEF FinishTask, FlightInv, TypeOK
    <2> QED BY <1>1, <2>1 DEF SleepsRightly
  <1>2. CASE d # c
    <2>1. /\ core'[d] = Woken(d, "completed") /\ UNCHANGED <<awaits, port, inbox>>
          /\ tasks'[d] = tasks[d] /\ finished[c] \subseteq finished'[c] /\ Other(d) = c
      BY <1>2, CoresFacts DEF FinishTask, FlightInv, TypeOK
    <2> SUFFICES ASSUME core'[d] = "waiting"
                 PROVE  "port" \in awaits[d] /\ (port[d] \/ NothingToDo(d)')
      BY <2>1 DEF SleepsRightly
    <2>2. core[d] = "waiting" /\ "completed" \notin awaits[d]
      BY <2>1 DEF Woken
    <2> SUFFICES ASSUME ~ port[d] PROVE NothingToDo(d)'
      BY <2>2 DEF WakeInv, SleepsRightly
    <2>3. NothingToDo(d)
      BY <2>2 DEF WakeInv, SleepsRightly
    <2>4. \A t \in tasks[d] : OwnPredsDone(d, t) => OtherPredsDone(d, t) /\ OtherPredsDone(d, t)'
      <3>1. \A t \in tasks[d] : OwnPredsDone(d, t) => OtherPredsDone(d, t)
        BY <2>2, <2>3 DEF NothingToDo, WaitingForOther
      <3> QED BY <2>1, <3>1 DEF OtherPredsDone
    <2>5. \A t \in tasks[d] : OwnPredsDone(d, t)' = OwnPredsDone(d, t)
      BY <2>1 DEF OwnPredsDone
    <2>6. RootTasks(d)' = RootTasks(d) /\ WaitingForOther(d)' = {}
      BY <2>1, <2>4, <2>5 DEF RootTasks, WaitingForOther
    <2>7. ReadyTasks(d)' = ReadyTasks(d) /\ WaitingForMessage(d)' = WaitingForMessage(d)
      BY <2>1, <2>6 DEF ReadyTasks, WaitingForMessage
    <2> QED BY <2>1, <2>3, <2>6, <2>7 DEF NothingToDo
  <1> QED BY <1>1, <1>2

LEMMA NextWakeInv == FlightInv /\ WakeInv /\ [Next]_vars => WakeInv'
  <1> SUFFICES ASSUME FlightInv, WakeInv, [Next]_vars PROVE WakeInv'
    OBVIOUS
  <1>1. ASSUME UNCHANGED <<core, tasks, finished, awaits, port, inbox>>
        PROVE  WakeInv'
    BY <1>1, StillSleepsRightly DEF WakeInv
  <1>2. CASE UNCHANGED vars
    BY <1>1, <1>2 DEF vars
  <1>3. ASSUME NEW c \in Cores, NodeWakes(c)
        PROVE  WakeInv'
    BY <1>1, <1>3 DEF NodeWakes
  <1>4. CASE PassOver \/ NodeRests
    BY <1>1, <1>4 DEF PassOver, NodeRests, coreVars
  <1>5. ASSUME NEW p \in Pids, NothingToHandOut(p)
        PROVE  WakeInv'
    BY <1>1, <1>5 DEF NothingToHandOut, Consider
  <1>6. CASE TakeJump \/ GoOnAfterJump \/ TimePasses
    BY <1>1, <1>6 DEF TakeJump, GoOnAfterJump, TimePasses
  <1>7. CASE FailTask
    <2>1. \A c \in Cores : core'[c] = "waiting" => core[c] = "waiting"
      BY <1>7 DEF FailTask, FlightInv, TypeOK
    <2> QED BY <1>7, <2>1, StillSleepsRightly DEF FailTask, WakeInv
  <1> QED BY <1>2, <1>3, <1>4, <1>5, <1>6, <1>7, HandOutWake, StartTaskWake, FallAsleepWake,
             PortInputWake, MessageArrivesWake, FinishTaskWake DEF Next, NodeStep, CoreStep

\* Both processors sleep rightly throughout.
THEOREM WakeInvInvariant == Spec => []WakeInv
  BY InitWakeInv, NextWakeInv, FlightInvInvariant, PTL DEF Spec

\* A processor that sleeps while one of its tasks is ready will be woken by a
\* message of the node scheduler that is on its way: update_status chose the events
\* to wait for from what blocked its tasks then, and nothing else unblocks them.
THEOREM NoWakeupIsLost == Spec => []NoLostWakeup
  <1>1. WakeInv => NoLostWakeup
    BY DEF WakeInv, SleepsRightly, NothingToDo, NoLostWakeup
  <1> QED BY <1>1, WakeInvInvariant, PTL

------------------------------------------------------------------------------
(* Programs that could go on.                                                 *)

\* A program could be given a block, and may be.
Startable(p) ==
    /\ ~ HasTask("CPU", p) /\ NextIndex(p) <= Len(Program[p])
    /\ Dependency[p] = NoPid \/ IsFinished(Dependency[p])

ToBeLookedAt(p) == \E i \in DOMAIN node.todo : node.todo[i] = p

\* What will make the node scheduler look at a program: it is on its list; its last
\* completion is about to be delivered; or a program that it follows is one of
\* those that made the node scheduler wake up, so that it will look at all.
Remembered(p) ==
    \/ ToBeLookedAt(p)
    \/ "CPU" \in signals /\ lastFinished["CPU"] = p
    \/ /\ node.mode = "next" /\ Dependency[p] # NoPid
       /\ \E c \in Cores : node.last[c] = Dependency[p]

\* The list is what is left of all programs in their order, or of those that last
\* finished a task.
ListOfPids ==
    LET n == Len(PidOrder) - Len(node.todo)
    IN  /\ node.mode = "all" => /\ n >= 0
                                /\ \A i \in DOMAIN node.todo : node.todo[i] = PidOrder[n + i]
        /\ node.mode = "next" =>
              \A i \in DOMAIN node.todo : \E c \in Cores : node.last[c] = node.todo[i]
        /\ node.mode = "waiting" => node.todo = <<>>

\* The inductive invariant about programs.
ProgramInv == ListOfPids /\ \A p \in Pids : Startable(p) => Remembered(p)

LEMMA InitProgramInv == Init => ProgramInv
  <1> SUFFICES ASSUME Init PROVE ProgramInv
    OBVIOUS
  <1>1. node.todo = PidOrder /\ node.mode = "all" /\ PidOrder \in Seq(Pids)
    BY NodeAssumption DEF Init
  <1>2. ListOfPids
    BY <1>1 DEF ListOfPids
  <1>3. \A p \in Pids : ToBeLookedAt(p)
    BY <1>1 DEF ToBeLookedAt, Pids
  <1> QED BY <1>2, <1>3 DEF ProgramInv, Remembered

\* The head of the list leaves it, the others stay in their places.
LEMMA ListShrinks ==
    ASSUME FlightInv, ListOfPids, node.todo # <<>>, node' = [node EXCEPT !.todo = Tail(@)]
    PROVE  /\ ListOfPids'
           /\ node'.mode = node.mode /\ node'.last = node.last
           /\ \A p : ToBeLookedAt(p) /\ p # Head(node.todo) => ToBeLookedAt(p)'
  <1> DEFINE old == node.todo
             n == Len(PidOrder) - Len(old)
  <1>1. /\ old \in Seq(Pids) /\ old # <<>> /\ PidOrder \in Seq(Pids)
        /\ node'.todo = Tail(old) /\ node'.mode = node.mode /\ node'.last = node.last
        /\ node.mode \in {"all", "next", "waiting"}
    BY NodeAssumption DEF FlightInv, TypeOK, NodeStates
  <1> HIDE DEF old
  <1>2. /\ Len(Tail(old)) = Len(old) - 1 /\ Len(old) \in Nat \ {0} /\ Len(PidOrder) \in Nat
        /\ \A i \in DOMAIN Tail(old) : i + 1 \in DOMAIN old /\ Tail(old)[i] = old[i + 1] /\ i \in Nat
        /\ \A i \in DOMAIN old : i # 1 => i - 1 \in DOMAIN Tail(old) /\ i = (i - 1) + 1
    BY <1>1
  <1>3. ASSUME node.mode = "all"
        PROVE  n + 1 >= 0 /\ \A i \in DOMAIN Tail(old) : Tail(old)[i] = PidOrder[n + 1 + i]
    <2>1. n >= 0 /\ \A i \in DOMAIN old : old[i] = PidOrder[n + i]
      BY <1>3 DEF ListOfPids, old
    <2>2. n \in Int /\ \A i \in Nat : n + (i + 1) = n + 1 + i
      BY <1>2
    <2> HIDE DEF n
    <2> QED BY <1>2, <2>1, <2>2
  <1>4. Len(PidOrder) - Len(Tail(old)) = n + 1
    BY <1>2
  <1> HIDE DEF n
  <1>5. ListOfPids'
    <2>1. node.mode # "waiting"
      BY <1>1 DEF ListOfPids, old
    <2>2. node.mode = "next" =>
              \A i \in DOMAIN Tail(old) : \E c \in Cores : node.last[c] = Tail(old)[i]
      BY <1>2 DEF ListOfPids, old
    <2> QED BY SMTT(40), <1>1, <1>3, <1>4, <2>1, <2>2 DEF ListOfPids
  <1>6. ASSUME NEW p, ToBeLookedAt(p), p # Head(old)
        PROVE  ToBeLookedAt(p)'
    <2>1. PICK i \in DOMAIN old : old[i] = p
      BY <1>6 DEF ToBeLookedAt, old
    <2>2. i # 1
      BY <1>1, <1>6, <2>1
    <2>3. i - 1 \in DOMAIN Tail(old) /\ Tail(old)[i - 1] = p
      BY <1>2, <2>1, <2>2
    <2> QED BY <1>1, <2>3 DEF ToBeLookedAt
  <1> QED BY <1>1, <1>5, <1>6 DEF old

\* In a pass over all programs, one that follows another comes after it.
LEMMA FollowersComeLater ==
    ASSUME FlightInv, ListOfPids, node.mode = "all", node.todo # <<>>, NEW p \in Pids,
           Dependency[p] = Head(node.todo)
    PROVE  ToBeLookedAt(p) /\ p # Head(node.todo)
  <1> DEFINE all == Len(PidOrder)
             left == Len(node.todo)
             n == all - left
             d == Head(node.todo)
  <1>1. node.todo \in Seq(Pids) /\ PidOrder \in Seq(Pids) /\ left > 0 /\ left \in Nat
        /\ all \in Nat
    BY SMTT(40), NodeAssumption DEF FlightInv, TypeOK, NodeStates
  <1>2. n >= 0 /\ n \in Nat /\ \A i \in DOMAIN node.todo : node.todo[i] = PidOrder[n + i]
    BY <1>1 DEF ListOfPids
  <1>3. 1 \in DOMAIN node.todo /\ d = node.todo[1]
    BY <1>1
  <1>4. \A i, j \in DOMAIN PidOrder : Dependency[PidOrder[i]] = PidOrder[j] => j < i
    BY NodeAssumption
  <1>5. DOMAIN node.todo = 1..left /\ DOMAIN PidOrder = 1..all
    BY <1>1
  <1> HIDE DEF all, left
  <1>6. left = all - n /\ n + 1 <= all
    BY <1>1
  <1> HIDE DEF n, d
  <1>7. n + 1 \in DOMAIN PidOrder /\ PidOrder[n + 1] = d /\ n + 1 \in Nat
    <2>1. n + 1 <= all /\ n + 1 >= 1 /\ n + 1 \in Nat
      BY <1>2, <1>6
    <2>2. n + 1 \in DOMAIN PidOrder
      BY <1>1, <1>5, <2>1
    <2>3. PidOrder[n + 1] = node.todo[1]
      BY <1>2, <1>3
    <2> QED BY <1>3, <2>1, <2>2, <2>3
  <1>8. PICK i \in DOMAIN PidOrder : PidOrder[i] = p
    BY DEF Pids
  <1>9. Dependency[p] = d
    BY DEF d
  <1>10. n + 1 < i /\ i \in Nat /\ i <= all
    <2>1. n + 1 < i
      BY <1>4, <1>7, <1>8, <1>9
    <2>2. i \in Nat /\ i <= all
      BY <1>1, <1>5, <1>8
    <2> QED BY <2>1, <2>2
  <1>11. i - n \in DOMAIN node.todo /\ i = n + (i - n)
    BY <1>1, <1>2, <1>5, <1>10, <1>6
  <1>12. node.todo[i - n] = p
    BY <1>2, <1>8, <1>11
  <1>13. p # d
    <2>1. p = d => n + 1 < n + 1
      BY <1>4, <1>7, <1>9
    <2>2. ~ (n + 1 < n + 1)
      BY <1>2
    <2> QED BY <2>1, <2>2
  <1> QED BY <1>11, <1>12, <1>13 DEF ToBeLookedAt, d

\* The node scheduler has looked at a program: it could not be given a block, or it
\* was.  Those that follow it are looked at afterwards.
LEMMA ConsideredProgram ==
    ASSUME FlightInv, ProgramInv, NEW q \in Pids, Consider(q), ~ Startable(q)',
           \A p \in Pids : p # q => index'[p] = index[p],
           \A p \in Pids : p # q => (HasTask("CPU", p)' <=> HasTask("CPU", p))
    PROVE  ProgramInv'
  <1>1. /\ node.todo # <<>> /\ q = Head(node.todo) /\ node' = [node EXCEPT !.todo = Tail(@)]
        /\ UNCHANGED <<signals, lastFinished>>
        /\ \A p \in Pids : p # q => jumps'[p] = jumps[p]
    BY DEF Consider, FlightInv, TypeOK
  <1>2. /\ ListOfPids' /\ node'.mode = node.mode /\ node'.last = node.last
        /\ \A p : ToBeLookedAt(p) /\ p # q => ToBeLookedAt(p)'
    BY <1>1, ListShrinks DEF ProgramInv
  <1>3. ASSUME NEW p \in Pids, Startable(p)'
        PROVE  Remembered(p)'
    <2>1. p # q
      BY <1>3
    <2>2. ~ HasTask("CPU", p) /\ NextIndex(p) <= Len(Program[p])
      BY <1>1, <1>3, <2>1 DEF Startable, NextIndex
    <2>3. CASE Startable(p)
      BY <1>1, <1>2, <2>1, <2>3 DEF ProgramInv, Remembered
    <2>4. CASE ~ Startable(p)
      <3>1. Dependency[p] # NoPid /\ ~ IsFinished(Dependency[p]) /\ IsFinished(Dependency[p])'
        BY <1>3, <2>2, <2>4 DEF Startable
      <3>2. Dependency[p] = q
        BY <3>1, NodeAssumption DEF IsFinished
      <3>3. CASE node.mode = "all"
        BY <1>1, <1>2, <3>2, <3>3, FollowersComeLater DEF ProgramInv, Remembered
      <3>4. CASE node.mode = "next"
        <4>1. 1 \in DOMAIN node.todo /\ node.todo[1] = q
          BY <1>1 DEF FlightInv, TypeOK, NodeStates
        <4>2. \E c \in Cores : node.last[c] = q
          BY <3>4, <4>1 DEF ProgramInv, ListOfPids
        <4> QED BY <1>2, <3>1, <3>2, <3>4, <4>2 DEF Remembered
      <3>5. node.mode # "waiting"
        BY <1>1 DEF ProgramInv, ListOfPids
      <3> QED BY <3>3, <3>4, <3>5 DEF FlightInv, TypeOK, NodeStates
    <2> QED BY <2>3, <2>4
  <1> QED BY <1>2, <1>3 DEF ProgramInv

LEMMA NothingToHandOutProgram ==
    ASSUME FlightInv, ProgramInv, NEW q \in Pids, NothingToHandOut(q)
    PROVE  ProgramInv'
  <1>1. index' = [index EXCEPT ![q] = NextIndex(q)] /\ jumps' = [jumps EXCEPT ![q] = NoJump]
        /\ UNCHANGED tasks /\ ~ CanHandOut(q)
    BY DEF NothingToHandOut, Consider
  <1>2. NextIndex(q)' = NextIndex(q)
    BY <1>1 DEF NextIndex, FlightInv, TypeOK
  <1>3. HasTask("QPU", q) => HasTask("CPU", q)
    <2> SUFFICES ASSUME NEW t \in tasks["QPU"], t.pid = q PROVE HasTask("CPU", q)
      BY DEF HasTask
    <2>1. t \in Task /\ Sibling(t, Post) \in tasks["CPU"]
      BY CoresFacts DEF FlightInv, TypeOK, QpuWorkIsAwaited
    <2> QED BY <2>1, SiblingFacts DEF HasTask
  <1>4. ~ Startable(q)'
    BY <1>1, <1>2, <1>3 DEF Startable, CanHandOut, HasTask
  <1>5. \A p \in Pids : p # q => index'[p] = index[p]
    BY <1>1 DEF FlightInv, TypeOK
  <1> QED BY <1>1, <1>4, <1>5, ConsideredProgram DEF NothingToHandOut, HasTask

LEMMA HandOutProgram ==
    ASSUME FlightInv, ProgramInv, NEW q \in Pids, HandOut(q)
    PROVE  ProgramInv'
  <1> DEFINE i == NextIndex(q)
             new == [pid : {q}, inst : {handed[q] + 1}, blk : {i}, name : NamesOf(q, i, "CPU")]
  <1>1. tasks'["CPU"] = tasks["CPU"] \cup new /\ index' = [index EXCEPT ![q] = i + 1]
    BY CoresFacts DEF HandOut, Consider, NamesOf
  <1>2. \E t \in new : t.pid = q
    <2>1. i \in DOMAIN Program[q]
      BY NextIndexNat, NodeAssumption DEF FlightInv, HandOut, CanHandOut
    <2>2. NamesOf(q, i, "CPU") # {}
      BY <2>1, CpuNames
    <2>3. PICK m \in NamesOf(q, i, "CPU") : TRUE
      BY <2>2
    <2>4. [pid |-> q, inst |-> handed[q] + 1, blk |-> i, name |-> m] \in new
      BY <2>3
    <2> QED BY <2>4
  <1>3. ~ Startable(q)'
    BY <1>1, <1>2 DEF Startable, HasTask
  <1>4. \A p \in Pids : p # q => (HasTask("CPU", p)' <=> HasTask("CPU", p))
    <2>1. \A t \in new : t.pid = q
      OBVIOUS
    <2> HIDE DEF new
    <2> QED BY <1>1, <2>1 DEF HasTask
  <1>5. \A p \in Pids : p # q => index'[p] = index[p]
    BY <1>1 DEF FlightInv, TypeOK
  <1> QED BY <1>3, <1>4, <1>5, ConsideredProgram DEF HandOut

\* Steps of the processors make no program startable, and leave the list alone.
LEMMA QuietProgramStep ==
    ASSUME ProgramInv, UNCHANGED node, \A p \in Pids : Startable(p)' => Startable(p),
           "CPU" \in signals => "CPU" \in signals' /\ lastFinished'["CPU"] = lastFinished["CPU"]
    PROVE  ProgramInv'
  BY DEF ProgramInv, ListOfPids, Remembered, ToBeLookedAt

LEMMA NodeWakesProgram ==
    ASSUME FlightInv, ProgramInv, NEW c \in Cores, NodeWakes(c)
    PROVE  ProgramInv'
  <1> DEFINE cpu == lastFinished["CPU"]
             qpu == lastFinished["QPU"]
             first == IF cpu = NoPid THEN <<>> ELSE <<cpu>>
             second == IF qpu \in {NoPid, cpu} THEN <<>> ELSE <<qpu>>
  <1>1. /\ node' = [mode |-> "next", todo |-> first \o second, last |-> lastFinished]
        /\ node.mode = "waiting" /\ UNCHANGED <<index, jumps, tasks>>
    BY DEF NodeWakes, NodeWaits
  <1>2. \A i \in DOMAIN (first \o second) : (first \o second)[i] \in {cpu, qpu}
    OBVIOUS
  <1>3. cpu # NoPid => 1 \in DOMAIN (first \o second) /\ (first \o second)[1] = cpu
    OBVIOUS
  <1>4. ListOfPids'
    BY <1>1, <1>2, CoresFacts DEF ListOfPids
  <1>5. ASSUME NEW p \in Pids, Startable(p)'
        PROVE  ToBeLookedAt(p)'
    <2>1. Startable(p)
      BY <1>1, <1>5 DEF Startable, HasTask, NextIndex, IsFinished
    <2>2. ~ ToBeLookedAt(p)
      BY <1>1 DEF ProgramInv, ListOfPids, ToBeLookedAt
    <2>3. cpu = p
      BY <1>1, <2>1, <2>2 DEF ProgramInv, Remembered
    <2>4. p # NoPid
      BY NodeAssumption
    <2> QED BY <1>1, <1>3, <2>3, <2>4 DEF ToBeLookedAt
  <1> QED BY <1>4, <1>5 DEF ProgramInv, Remembered

LEMMA PassOverProgram ==
    ASSUME FlightInv, ProgramInv, PassOver
    PROVE  ProgramInv'
  <1> DEFINE q == Head(node.todo)
  <1>1. /\ node.todo # <<>> /\ node' = [node EXCEPT !.todo = Tail(@)]
        /\ UNCHANGED <<signals, lastFinished, index, jumps, tasks>>
        /\ ~ Startable(q)
    BY DEF PassOver, HeldBack, coreVars, Startable
  <1>2. /\ ListOfPids' /\ node'.mode = node.mode /\ node'.last = node.last
        /\ \A p : ToBeLookedAt(p) /\ p # q => ToBeLookedAt(p)'
    BY <1>1, ListShrinks DEF ProgramInv
  <1>3. ASSUME NEW p \in Pids, Startable(p)'
        PROVE  Remembered(p)'
    <2>1. Startable(p)
      BY <1>1, <1>3 DEF Startable, HasTask, NextIndex, IsFinished
    <2>2. p # q
      BY <1>1, <2>1
    <2> QED BY <1>1, <1>2, <2>1, <2>2 DEF ProgramInv, Remembered
  <1> QED BY <1>2, <1>3 DEF ProgramInv

\* Before the node scheduler rests, it looks at all programs if one that may be
\* followed has no blocks left.
LEMMA NodeRestsProgram ==
    ASSUME FlightInv, ProgramInv, NodeRests
    PROVE  ProgramInv'
  <1>1. /\ node.todo = <<>> /\ node \in NodeStates /\ PidOrder \in Seq(Pids)
        /\ UNCHANGED <<signals, lastFinished, index, jumps, tasks>>
    BY NodeAssumption DEF NodeRests, coreVars, FlightInv, TypeOK
  <1>2. \A p \in Pids : Startable(p)' = Startable(p)
    BY <1>1 DEF Startable, HasTask, NextIndex, IsFinished
  <1>3. \A p : ~ ToBeLookedAt(p)
    BY <1>1 DEF ToBeLookedAt
  <1>4. CASE node' = [node EXCEPT !.mode = "all", !.todo = PidOrder]
    <2>1. node'.mode = "all" /\ node'.todo = PidOrder
      BY <1>1, <1>4 DEF NodeStates
    <2>2. ListOfPids'
      BY <1>1, <2>1 DEF ListOfPids
    <2>3. \A p \in Pids : ToBeLookedAt(p)'
      BY <2>1 DEF ToBeLookedAt, Pids
    <2> QED BY <2>2, <2>3 DEF ProgramInv, Remembered
  <1>5. CASE node' = [node EXCEPT !.mode = "waiting"]
             /\ ~ (node.mode = "next"
                   /\ \E c \in Cores : node.last[c] # NoPid /\ IsFinished(node.last[c]))
    <2>1. node'.mode = "waiting" /\ node'.todo = <<>>
      BY <1>1, <1>5 DEF NodeStates
    <2>2. ListOfPids'
      BY <2>1 DEF ListOfPids
    <2>3. ASSUME NEW p \in Pids, Startable(p)
          PROVE  "CPU" \in signals /\ lastFinished["CPU"] = p
      BY <1>3, <1>5, <2>3 DEF ProgramInv, Remembered, Startable
    <2> QED BY <1>1, <1>2, <2>2, <2>3 DEF ProgramInv, Remembered
  <1> QED BY <1>4, <1>5 DEF NodeRests

\* A jump concerns a program with a task for the CPU only.
LEMMA StartTaskProgram ==
    ASSUME FlightInv, ProgramInv, NEW c \in Cores, StartTask(c)
    PROVE  ProgramInv'
  <1>1. PICK t \in Choices(c) : jumps' = IF t.name \in {Local, Event}
                                         THEN [jumps EXCEPT ![t.pid] = NoJump] ELSE jumps
    BY DEF StartTask
  <1>2. t \in tasks[c]
    BY DEF Choices, ReadyTasks, RootTasks
  <1>3. UNCHANGED <<node, signals, lastFinished, index, tasks>>
    BY DEF StartTask
  <1>4. ASSUME NEW p \in Pids, Startable(p)'
        PROVE  Startable(p)
    <2>1. ~ HasTask("CPU", p)
      BY <1>3, <1>4 DEF Startable, HasTask
    <2>2. jumps'[p] = jumps[p]
      <3>1. CASE t.name \in {Local, Event}
        <4>1. c = "CPU"
          BY <1>2, <3>1, OnlyCpuReceives, CoresFacts
        <4>2. t.pid # p
          BY <1>2, <2>1, <4>1 DEF HasTask
        <4> QED BY <1>1, <3>1, <4>2 DEF FlightInv, TypeOK
      <3>2. CASE t.name \notin {Local, Event}
        BY <1>1, <3>2
      <3> QED BY <3>1, <3>2
    <2> QED BY <1>3, <1>4, <2>1, <2>2 DEF Startable, NextIndex, IsFinished
  <1> QED BY <1>3, <1>4, QuietProgramStep

LEMMA TakeJumpProgram ==
    ASSUME FlightInv, ProgramInv, TakeJump
    PROVE  ProgramInv'
  <1>1. UNCHANGED <<node, signals, lastFinished, index, tasks>>
        /\ \E target \in Block(current["CPU"]).targets :
              jumps' = [jumps EXCEPT ![current["CPU"].pid] = target]
    BY DEF TakeJump, nodeVars
  <1>2. current["CPU"] \in tasks["CPU"]
    BY ExecutedTask, CoresFacts DEF TakeJump
  <1>3. ASSUME NEW p \in Pids, Startable(p)'
        PROVE  Startable(p)
    <2>1. ~ HasTask("CPU", p)
      BY <1>1, <1>3 DEF Startable, HasTask
    <2>2. jumps'[p] = jumps[p]
      BY <1>1, <1>2, <2>1 DEF HasTask, FlightInv, TypeOK
    <2> QED BY <1>1, <1>3, <2>1, <2>2 DEF Startable, NextIndex, IsFinished
  <1> QED BY <1>1, <1>3, QuietProgramStep

\* The completion of a program's last task for the CPU is announced; before it, all
\* completions of the CPU have been delivered.
LEMMA FinishTaskProgram ==
    ASSUME FlightInv, ProgramInv, NEW c \in Cores, FinishTask(c)
    PROVE  ProgramInv'
  <1>1. /\ UNCHANGED <<node, index, jumps>> /\ signals' = signals \cup {c}
        /\ lastFinished' = [lastFinished EXCEPT ![c] = current[c].pid]
        /\ tasks' = [tasks EXCEPT ![c] = @ \ {current[c]}]
        /\ node.mode = "waiting" /\ c \notin signals
    BY DEF FinishTask, Executes, NodeWaits, nodeVars
  <1>2. CASE c = "QPU"
    <2>1. tasks'["CPU"] = tasks["CPU"] /\ lastFinished'["CPU"] = lastFinished["CPU"]
      BY <1>1, <1>2, CoresFacts DEF FlightInv, TypeOK
    <2>2. \A p \in Pids : Startable(p)' => Startable(p)
      BY <1>1, <2>1 DEF Startable, HasTask, NextIndex, IsFinished
    <2> QED BY <1>1, <2>1, <2>2, QuietProgramStep
  <1>3. CASE c = "CPU"
    <2>1. \A p \in Pids : ~ Startable(p)
      BY <1>1, <1>3 DEF ProgramInv, Remembered, ListOfPids, ToBeLookedAt
    <2>2. ASSUME NEW p \in Pids, Startable(p)'
          PROVE  "CPU" \in signals' /\ lastFinished'["CPU"] = p
      <3>1. HasTask("CPU", p)
        BY <1>1, <2>1, <2>2 DEF Startable, NextIndex, IsFinished
      <3>2. PICK t \in tasks["CPU"] : t.pid = p /\ t \notin tasks'["CPU"]
        BY <2>2, <3>1 DEF Startable, HasTask
      <3>3. t = current["CPU"]
        BY <1>1, <1>3, <3>2, CoresFacts DEF FlightInv, TypeOK
      <3> QED BY <1>1, <1>3, <3>2, <3>3, CoresFacts DEF FlightInv, TypeOK
    <2>3. ListOfPids'
      BY <1>1 DEF ProgramInv, ListOfPids
    <2> QED BY <2>2, <2>3 DEF ProgramInv, Remembered
  <1> QED BY <1>2, <1>3, CoresFacts

LEMMA NextProgramInv == FlightInv /\ ProgramInv /\ [Next]_vars => ProgramInv'
  <1> SUFFICES ASSUME FlightInv, ProgramInv, [Next]_vars PROVE ProgramInv'
    OBVIOUS
  <1>1. ASSUME UNCHANGED <<node, index, jumps, tasks, signals, lastFinished>>
        PROVE  ProgramInv'
    BY <1>1, QuietProgramStep DEF Startable, HasTask, NextIndex, IsFinished
  <1>2. CASE UNCHANGED vars
    BY <1>1, <1>2 DEF vars
  <1>3. ASSUME NEW c \in Cores, FallAsleep(c) \/ PortInput(c)
        PROVE  ProgramInv'
    BY <1>1, <1>3 DEF FallAsleep, PortInput, nodeVars
  <1>4. ASSUME NEW p \in Pids, MessageArrives(p)
        PROVE  ProgramInv'
    BY <1>1, <1>4 DEF MessageArrives, nodeVars
  <1>5. CASE GoOnAfterJump \/ FailTask
    BY <1>1, <1>5 DEF GoOnAfterJump, FailTask, nodeVars
  <1>6. CASE TimePasses
    BY <1>6, QuietProgramStep DEF TimePasses, nodeVars, Startable, HasTask, NextIndex, IsFinished
  <1> QED BY <1>2, <1>3, <1>4, <1>5, <1>6, NodeWakesProgram, PassOverProgram, HandOutProgram,
             NothingToHandOutProgram, NodeRestsProgram, StartTaskProgram, FinishTaskProgram,
             TakeJumpProgram
          DEF Next, NodeStep, CoreStep

\* No program that could go on drops out of sight.
THEOREM ProgramInvInvariant == Spec => []ProgramInv
  BY InitProgramInv, NextProgramInv, FlightInvInvariant, PTL DEF Spec

\* When the node scheduler sleeps and has seen all signals, a program that has no
\* task for the CPU has no block left, or follows one that is not finished: neither
\* a completion nor the end of a program that others follow is overlooked.
THEOREM NoProgramIsForgotten == Spec => []NoProgramForgotten
  <1>1. ASSUME ProgramInv, NodeWaits, signals = {}, NEW p \in Pids
        PROVE  ~ Startable(p)
    BY <1>1 DEF ProgramInv, Remembered, ListOfPids, ToBeLookedAt, NodeWaits
  <1>2. FlightInv /\ ProgramInv => NoProgramForgotten
    <2> SUFFICES ASSUME FlightInv, ProgramInv, NodeWaits, signals = {}, NEW p \in Pids
                 PROVE  \/ HasTask("CPU", p) \/ NextIndex(p) > Len(Program[p])
                        \/ (Dependency[p] # NoPid /\ ~ IsFinished(Dependency[p]))
      BY DEF NoProgramForgotten
    <2>1. NextIndex(p) \in Nat /\ Len(Program[p]) \in Nat
      BY NextIndexNat, NodeAssumption DEF FlightInv
    <2> QED BY <1>1, <2>1 DEF Startable
  <1> QED BY <1>2, FlightInvInvariant, ProgramInvInvariant, PTL
==============================================================================
