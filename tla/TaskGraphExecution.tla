------------------------- MODULE TaskGraphExecution -------------------------
(***************************************************************************)
(* One task graph executed by the two processors of a node, each of which  *)
(* knows only its partial graph (NodeScheduler.upload_task_graph,          *)
(* EdfScheduler.handle_task and the run loops of the two EDF schedulers).  *)
(* A processor alternates between choosing a ready task, executing it, and *)
(* sleeping until the other one completes a task; the order of the         *)
(* original graph has to survive the split.                                *)
(***************************************************************************)
EXTENDS TaskGraph

CONSTANTS
    Graphs,             \* the task graphs that may be uploaded
    NoTask              \* a processor that executes nothing

\* There is no cycle: of any tasks, some follow none of the others.
IsAcyclic(g) ==
    \A some \in SUBSET g.tasks : some # {} => \E t \in some : g.preds[t] \cap some = {}

ASSUME GraphAssumption ==
    \A g \in Graphs :
        /\ g.proc \in [g.tasks -> Cores] /\ g.preds \in [g.tasks -> SUBSET g.tasks]
        /\ IsAcyclic(g)

VARIABLES
    graph,              \* the graph as built, before the split
    pgraph,             \* processor -> its _task_graph
    running,            \* processor -> the task it executes
    finished,           \* processor -> _finished_tasks
    asleep              \* processors waiting for the other's TASK_COMPLETED

vars == <<graph, pgraph, running, finished, asleep>>

Init ==
    /\ graph \in Graphs
    /\ pgraph = [c \in Cores |-> PartialGraph(graph, c)]
    /\ running = [c \in Cores |-> NoTask]
    /\ finished = [c \in Cores |-> {}]
    /\ asleep = {}

\* The processor's graph once it has looked at what the other has finished.
Polled(c) == DropFinished(pgraph[c], finished[Other(c)])

\* A pass of the run loop that finds a task to execute.  Deadlines and the
\* random choice only select among the ready tasks.
StartTask(c) ==
    /\ running[c] = NoTask /\ c \notin asleep
    /\ pgraph' = [pgraph EXCEPT ![c] = Polled(c)]
    /\ \E t \in Roots(Polled(c)) : running' = [running EXCEPT ![c] = t]
    /\ UNCHANGED <<graph, finished, asleep>>

\* A pass that finds none although tasks are left: WAITING_OTHER_CORE.
Sleep(c) ==
    /\ running[c] = NoTask /\ c \notin asleep
    /\ pgraph[c].tasks # {}
    /\ Roots(Polled(c)) = {}
    /\ BlockedOnlyOnExternal(Polled(c)) # {}
    /\ pgraph' = [pgraph EXCEPT ![c] = Polled(c)]
    /\ asleep' = asleep \cup {c}
    /\ UNCHANGED <<graph, running, finished>>

\* Fault: nobody listens to the completion signal.
NobodyWoken(c) == asleep

\* The completion signal of c wakes the other processor if it waits for it.
AsleepAfterSignal(c) == asleep \ {Other(c)}

\* The driver returns True: the task is removed, recorded as finished and
\* announced.
FinishTask(c) ==
    /\ running[c] # NoTask
    /\ pgraph' = [pgraph EXCEPT ![c] = RemoveTask(pgraph[c], running[c])]
    /\ finished' = [finished EXCEPT ![c] = @ \cup {running[c]}]
    /\ running' = [running EXCEPT ![c] = NoTask]
    /\ asleep' = AsleepAfterSignal(c)
    /\ UNCHANGED graph

\* The driver returns False (pair generation failed): the task stays in the
\* graph and the run loop will choose again.
FailTask(c) ==
    /\ c = "QPU"
    /\ running[c] # NoTask
    /\ running' = [running EXCEPT ![c] = NoTask]
    /\ UNCHANGED <<graph, pgraph, finished, asleep>>

Done == \A c \in Cores : pgraph[c].tasks = {}

Next ==
    \/ \E c \in Cores : StartTask(c) \/ Sleep(c) \/ FinishTask(c) \/ FailTask(c)
    \/ Done /\ UNCHANGED vars

\* A processor that can act does so; a pair that is tried again and again is
\* eventually generated.
Fairness ==
    \A c \in Cores :
        WF_vars(StartTask(c)) /\ WF_vars(Sleep(c)) /\ SF_vars(FinishTask(c))

Spec == Init /\ [][Next]_vars /\ Fairness

------------------------------------------------------------------------------
AllFinished == finished["CPU"] \cup finished["QPU"]

\* A task is executed only after all its predecessors in the graph as built
\* have finished, on whichever processor they ran, although neither processor
\* sees the whole graph.
OriginalOrder ==
    \A c \in Cores : running[c] # NoTask => graph.preds[running[c]] \subseteq AllFinished

\* All that comes before a task.
Ancestors(g) ==
    LET ancestors[t \in g.tasks] ==
            g.preds[t] \cup UNION {ancestors[p] : p \in g.preds[t]}
    IN  ancestors

\* A task whose own processor has removed all its predecessors waits for the
\* other processor only: all its ancestors on its own processor have finished,
\* those behind a chain of tasks of the other processor included.  It is why
\* WAITING_OTHER_CORE may ignore what the processor itself has still to do.
WaitsForOtherOnly ==
    \A c \in Cores : \A t \in RootsIgnoringExternal(pgraph[c]) :
        {a \in Ancestors(graph)[t] : graph.proc[a] = c} \subseteq finished[c]

\* Every task of the graph is eventually executed.
EventuallyDone == <>Done
=============================================================================
