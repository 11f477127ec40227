----------------------------- MODULE TaskGraph -----------------------------
(***************************************************************************)
(* Task graphs (qoala/runtime/task.py): the DAG of tasks of one block of a *)
(* program, and its split into the partial graph of each processor.  Pure  *)
(* operators, used by the schedulers' modules.                             *)
(***************************************************************************)
EXTENDS Naturals, FiniteSets

Cores == {"CPU", "QPU"}
Other(c) == IF c = "CPU" THEN "QPU" ELSE "CPU"

(***************************************************************************)
(* A graph is a record: its tasks, the processor of each, and the          *)
(* immediate predecessors of each.  A partial graph has also, per task,    *)
(* the external predecessors: those that run on the other processor.       *)
(***************************************************************************)

\* For each task, the nearest ancestors that run on the other processor
\* (cross_predecessors with immediate = False).
NearestCross(g) ==
    LET cross[t \in g.tasks] ==
            UNION {IF g.proc[p] # g.proc[t] THEN {p} ELSE cross[p] : p \in g.preds[t]}
    IN  cross

\* cross_predecessors with immediate = True.
ImmediateCross(g, t) == {p \in g.preds[t] : g.proc[p] # g.proc[t]}

\* The nearest ancestors on t's own processor behind a task of the other one.
DoubleCross(g, t) == UNION {NearestCross(g)[p] : p \in ImmediateCross(g, t)}

\* Fault: a predecessor on the same processor behind a task of the other one
\* is forgotten.
PartialGraphWithoutShortcut(g, c) ==
    LET mine == {t \in g.tasks : g.proc[t] = c}
    IN  [tasks |-> mine,
         preds |-> [t \in mine |-> g.preds[t] \cap mine],
         ext   |-> [t \in mine |-> g.preds[t] \ mine]]

\* Fault: predecessors that run on the other processor are dropped.
PartialGraphWithoutExternal(g, c) ==
    LET mine == {t \in g.tasks : g.proc[t] = c}
    IN  [tasks |-> mine,
         preds |-> [t \in mine |-> (g.preds[t] \cap mine) \cup DoubleCross(g, t)],
         ext   |-> [t \in mine |-> {}]]

\* The part of g that one processor executes: predecessors that stay behind
\* become external, and a chain that leaves the processor and comes back is
\* shortened to a direct edge.
PartialGraph(g, c) ==
    LET mine == {t \in g.tasks : g.proc[t] = c}
    IN  [tasks |-> mine,
         preds |-> [t \in mine |-> (g.preds[t] \cap mine) \cup DoubleCross(g, t)],
         ext   |-> [t \in mine |-> g.preds[t] \ mine]]

\* get_roots, with and without regard for external predecessors.
RootsIgnoringExternal(pg) == {t \in pg.tasks : pg.preds[t] = {}}
Roots(pg) == {t \in RootsIgnoringExternal(pg) : pg.ext[t] = {}}
BlockedOnlyOnExternal(pg) == {t \in RootsIgnoringExternal(pg) : pg.ext[t] # {}}

\* remove_task: the task leaves the graph and its successors' predecessors.
RemoveTask(pg, t) ==
    LET left == pg.tasks \ {t}
    IN  [tasks |-> left,
         preds |-> [s \in left |-> pg.preds[s] \ {t}],
         ext   |-> [s \in left |-> pg.ext[s]]]

\* Fault: the external predecessors of roots are dropped without asking.
DropAll(pg, done) ==
    [pg EXCEPT !.ext = [t \in pg.tasks |->
        IF t \in RootsIgnoringExternal(pg) THEN {} ELSE pg.ext[t]]]

\* update_external_predcessors: only roots look at the other processor.
DropFinished(pg, done) ==
    [pg EXCEPT !.ext = [t \in pg.tasks |->
        IF t \in RootsIgnoringExternal(pg) THEN pg.ext[t] \ done ELSE pg.ext[t]]]

------------------------------------------------------------------------------
(* The graph of one block, by its type (TaskGraphFromBlockBuilder.build).     *)
(* A block is a record: typ, and for QC blocks sequential (the callback type),*)
(* pairs (num_pairs) and callback (whether the routine has one).  A task is a *)
(* pair of its kind and, for the tasks of a single pair, the pair's index.    *)

CpuKinds == {"HostLocal", "HostEvent", "PreCall", "PostCall"}
EprKinds == {"SinglePair", "MultiPair"}
ProcessorOf(task) == IF task[1] \in CpuKinds THEN "CPU" ELSE "QPU"

Local == <<"HostLocal", 0>>
Event == <<"HostEvent", 0>>
Pre == <<"PreCall", 0>>
Post == <<"PostCall", 0>>
Routine == <<"LocalRoutine", 0>>
Multi == <<"MultiPair", 0>>
MultiCb == <<"MultiPairCallback", 0>>
Pair(i) == <<"SinglePair", i>>
PairCb(i) == <<"SinglePairCallback", i>>

\* The quantum tasks of a block and the order among them.
QuantumTasks(b) ==
    IF b.typ = "QL" THEN {Routine}
    ELSE IF b.typ # "QC" THEN {}
    ELSE LET pairTasks == IF b.sequential THEN {Pair(i) : i \in 1..b.pairs} ELSE {Multi}
             callbacks == IF ~ b.callback THEN {}
                          ELSE IF b.sequential THEN {PairCb(i) : i \in 1..b.pairs}
                          ELSE {MultiCb}
         IN  pairTasks \cup callbacks

\* The pair task whose outcome a callback task works on.
CallbackOf(t) == IF t = MultiCb THEN Multi ELSE Pair(t[2])
IsCallback(t) == t[1] \in {"MultiPairCallback", "SinglePairCallback"}

TasksOf(b) ==
    CASE b.typ = "CL" -> {Local}
      [] b.typ = "CC" -> {Event}
      [] OTHER -> {Pre, Post} \cup QuantumTasks(b)

\* Fault: PostCall follows the pairs, not the callbacks on them.
PredsWithoutCallbacks(b, t) ==
    CASE IsCallback(t) -> {CallbackOf(t)}
      [] t \in QuantumTasks(b) /\ ~ IsCallback(t) -> {Pre}
      [] t = Post -> {q \in QuantumTasks(b) : ~ IsCallback(q)}
      [] OTHER -> {}

\* The order of the tasks: PreCall, the pairs or the routine, the callbacks,
\* PostCall.  Pairs of one request are not ordered among each other.
PredsOf(b, t) ==
    CASE IsCallback(t) -> {CallbackOf(t)}
      [] t \in QuantumTasks(b) /\ ~ IsCallback(t) -> {Pre}
      [] t = Post -> IF b.typ = "QC" /\ b.callback
                     THEN {q \in QuantumTasks(b) : IsCallback(q)}
                     ELSE QuantumTasks(b)
      [] OTHER -> {}

BlockGraph(b) ==
    [tasks |-> TasksOf(b),
     proc  |-> [t \in TasksOf(b) |-> ProcessorOf(t)],
     preds |-> [t \in TasksOf(b) |-> PredsOf(b, t)]]
=============================================================================
