--------------------------- MODULE NodeScheduler ---------------------------
(***************************************************************************)
(* The schedulers of one node (qoala/sim/scheduler.py): the node scheduler *)
(* hands out the blocks of each program instance, one at a time, as tasks  *)
(* to the CPU and the QPU scheduler; these execute them through their      *)
(* drivers and announce each completed task; the node scheduler answers a  *)
(* completion by handing out the next block.  The three are generators of  *)
(* one discrete-event simulation: a step runs without interruption from    *)
(* one yield to the next, and steps of different actors interleave at the  *)
(* yields.                                                                 *)
(*                                                                         *)
(* Blocks are numbered from 1 (the code counts from 0).  Qubits are always *)
(* available here (the module QpuResources is about them), and a message   *)
(* for a program is either in the buffer or not.                           *)
(***************************************************************************)
EXTENDS TaskGraph, Sequences

CONSTANTS
    PidOrder,           \* the program instances, in the order of their pids
    Program,            \* pid -> its sequence of blocks
    Dependency,         \* pid -> the pid it must follow, or NoPid
    MaxLoops,           \* bound: backward jumps a program instance may take
    NoPid, NoJump, NoTask

Pids == {PidOrder[i] : i \in DOMAIN PidOrder}

(***************************************************************************)
(* A block has, besides the fields of TaskGraph, the blocks it may jump to *)
(* (targets), whether it may also end without a jump (falls), and whether  *)
(* instructions follow the jump (tail).  Only CL blocks jump.  A program   *)
(* instance follows one that was created before it.                        *)
(***************************************************************************)
Blocks == [typ : {"CL", "CC", "QL", "QC"}, sequential : BOOLEAN, pairs : Nat,
           callback : BOOLEAN, targets : SUBSET Nat, falls : BOOLEAN, tail : BOOLEAN]

ASSUME NodeAssumption ==
    /\ PidOrder \in Seq(Pids) /\ NoPid \notin Pids /\ {NoJump, NoTask} \cap Nat = {}
    /\ Dependency \in [Pids -> Pids \cup {NoPid}]
    /\ \A i, j \in DOMAIN PidOrder : Dependency[PidOrder[i]] = PidOrder[j] => j < i
    /\ Program \in [Pids -> Seq(Blocks)]
    /\ \A p \in Pids : \A i \in DOMAIN Program[p] :
          LET b == Program[p][i]
          IN  /\ b.targets \subseteq DOMAIN Program[p]
              /\ b.typ # "CL" => b.targets = {}
              /\ b.targets = {} => b.falls

VARIABLES
    index,              \* _current_block_index: pid -> the block to hand out next
    jumps,              \* program_instance_jumps: pid -> block jumped to, or NoJump
    handed,             \* pid -> number of blocks handed out (makes task ids unique)
    tasks,              \* processor -> the tasks in its _task_graph
    finished,           \* processor -> _finished_tasks
    core,               \* processor -> "choosing", "busy" or "waiting"
    current,            \* processor -> the task it executes
    awaits,             \* processor -> the events its run loop waits for
    phase,              \* how far the CPU is in a HostLocalTask
    port,               \* processor -> a message of the node scheduler is on its way
    lastFinished,       \* last_finished_task_pid, as long as its time is now
    signals,            \* processors with an undelivered TASK_COMPLETED
    node,               \* the node scheduler: mode, pids to look at, last pids
    inbox,              \* pids for which a classical message has arrived
    goal,               \* pid -> the block its program asks for next (history)
    loops               \* pid -> backward jumps taken so far

nodeVars == <<index, handed, node>>
coreVars == <<tasks, finished, core, current, awaits, phase, lastFinished, signals>>
vars == <<index, jumps, handed, tasks, finished, core, current, awaits, phase,
          port, lastFinished, signals, node, inbox, goal, loops>>

Block(t) == Program[t.pid][t.blk]
Partial == [p \in Pids |-> [i \in DOMAIN Program[p] |-> [c \in Cores |->
               PartialGraph(BlockGraph(Program[p][i]), c)]]]

\* The task with another name in the same handed-out block.
Sibling(t, name) == [t EXCEPT !.name = name]
Siblings(t, names) == {Sibling(t, n) : n \in names}

InternalPreds(c, t) == Siblings(t, Partial[t.pid][t.blk][c].preds[t.name])
ExternalPreds(c, t) == Siblings(t, Partial[t.pid][t.blk][c].ext[t.name])

HasTask(c, pid) == \E t \in tasks[c] : t.pid = pid
IsFinished(pid) == index[pid] > Len(Program[pid])

Init ==
    /\ index = [p \in Pids |-> 1]
    /\ jumps = [p \in Pids |-> NoJump]
    /\ handed = [p \in Pids |-> 0]
    /\ tasks = [c \in Cores |-> {}]
    /\ finished = [c \in Cores |-> {}]
    /\ core = [c \in Cores |-> "choosing"]
    /\ current = [c \in Cores |-> NoTask]
    /\ awaits = [c \in Cores |-> {}]
    /\ phase = "body"
    /\ port = [c \in Cores |-> FALSE]
    /\ lastFinished = [c \in Cores |-> NoPid]
    /\ signals = {}
    /\ node = [mode |-> "all", todo |-> PidOrder, last |-> [c \in Cores |-> NoPid]]
    /\ inbox = {}
    /\ goal = [p \in Pids |-> 1]
    /\ loops = [p \in Pids |-> 0]

------------------------------------------------------------------------------
(* The node scheduler.  Its reaction to a completion has no yield: the pids   *)
(* it looks at are worked off one by one, and nobody else acts meanwhile.     *)

NodeWaits == node.mode = "waiting"

\* run, after its yield: a completion signal is delivered; note who finished
\* a task at this very time, on either processor.
NodeWakes(c) ==
    /\ NodeWaits /\ c \in signals
    /\ LET cpu == lastFinished["CPU"]
           qpu == lastFinished["QPU"]
           first == IF cpu = NoPid THEN <<>> ELSE <<cpu>>
           second == IF qpu \in {NoPid, cpu} THEN <<>> ELSE <<qpu>>
       IN  node' = [mode |-> "next", todo |-> first \o second, last |-> lastFinished]
    /\ signals' = signals \ {c}
    /\ UNCHANGED <<index, jumps, handed, tasks, finished, core, current, awaits,
                   phase, port, lastFinished, inbox, goal, loops>>

\* schedule_all passes over a program that has to follow an unfinished one.
HeldBack(pid) ==
    /\ node.mode = "all"
    /\ Dependency[pid] # NoPid
    /\ ~ IsFinished(Dependency[pid])

PassOver ==
    /\ node.todo # <<>> /\ HeldBack(Head(node.todo))
    /\ node' = [node EXCEPT !.todo = Tail(@)]
    /\ UNCHANGED <<index, jumps, handed, coreVars, port, inbox, goal, loops>>

\* Fault: the recorded jump is ignored.
IndexWithoutJump(pid) == index[pid]

\* find_next_tasks_for first moves the index to the target of a recorded jump
\* and forgets the jump, whether or not it can hand out a block then.
NextIndex(pid) == IF jumps[pid] = NoJump THEN index[pid] ELSE jumps[pid]

\* Fault: hands out a block although the CPU has tasks of the program.
HandOutWhileBusy(pid) ==
    /\ NextIndex(pid) <= Len(Program[pid])
    /\ Program[pid][NextIndex(pid)].typ \in {"CL", "CC"} \/ ~ HasTask("QPU", pid)

\* For all block types there are tasks for the CPU; only quantum blocks have
\* tasks for the QPU.
CanHandOut(pid) ==
    /\ NextIndex(pid) <= Len(Program[pid])
    /\ ~ HasTask("CPU", pid)
    /\ Program[pid][NextIndex(pid)].typ \in {"CL", "CC"} \/ ~ HasTask("QPU", pid)

Consider(pid) ==
    /\ node.todo # <<>> /\ pid = Head(node.todo)
    /\ ~ HeldBack(pid)
    /\ node' = [node EXCEPT !.todo = Tail(@)]
    /\ jumps' = [jumps EXCEPT ![pid] = NoJump]
    /\ UNCHANGED <<finished, core, current, awaits, phase, lastFinished, signals,
                   inbox, goal, loops>>

NothingToHandOut(pid) ==
    /\ Consider(pid)
    /\ ~ CanHandOut(pid)
    /\ index' = [index EXCEPT ![pid] = NextIndex(pid)]
    /\ UNCHANGED <<handed, tasks, port>>

\* Fault: the QPU is not told about its new tasks.
OnlyCpuTold(new) == [c \in Cores |-> port[c] \/ (c = "CPU" /\ new[c] # {})]

\* A processor with new tasks is sent a message.
Told(new) == [c \in Cores |-> port[c] \/ new[c] # {}]

\* The tasks of the block go to both processors, each of which is told.
HandOut(pid) ==
    /\ Consider(pid)
    /\ CanHandOut(pid)
    /\ LET blk == NextIndex(pid)
           new == [c \in Cores |->
                     [pid : {pid}, inst : {handed[pid] + 1}, blk : {blk},
                      name : Partial[pid][blk][c].tasks]]
       IN  /\ tasks' = [c \in Cores |-> tasks[c] \cup new[c]]
           /\ port' = Told(new)
           /\ index' = [index EXCEPT ![pid] = blk + 1]
    /\ handed' = [handed EXCEPT ![pid] = @ + 1]

\* The list is worked off.  Back at the top of run, all programs are looked at
\* if one of those that last finished a task has no blocks left.
NodeRests ==
    /\ ~ NodeWaits /\ node.todo = <<>>
    /\ node' = IF node.mode = "next"
                  /\ \E c \in Cores : node.last[c] # NoPid /\ IsFinished(node.last[c])
               THEN [node EXCEPT !.mode = "all", !.todo = PidOrder]
               ELSE [node EXCEPT !.mode = "waiting"]
    /\ UNCHANGED <<index, jumps, handed, coreVars, port, inbox, goal, loops>>

NodeStep ==
    \/ \E c \in Cores : NodeWakes(c)
    \/ PassOver
    \/ \E pid \in Pids : HandOut(pid) \/ NothingToHandOut(pid)
    \/ NodeRests

------------------------------------------------------------------------------
(* The run loops of the CPU and the QPU scheduler.                            *)

\* get_roots after update_external_predcessors: no predecessor left in the own
\* graph, and the external ones finished by the other processor.
OwnPredsDone(c, t) == InternalPreds(c, t) \cap tasks[c] = {}
OtherPredsDone(c, t) == ExternalPreds(c, t) \subseteq finished[Other(c)]
RootTasks(c) == {t \in tasks[c] : OwnPredsDone(c, t) /\ OtherPredsDone(c, t)}

WaitingForOther(c) == {t \in tasks[c] : OwnPredsDone(c, t) /\ ~ OtherPredsDone(c, t)}
WaitingForMessage(c) == {t \in RootTasks(c) : t.name = Event /\ t.pid \notin inbox}
ReadyTasks(c) == RootTasks(c) \ WaitingForMessage(c)

\* The QPU prefers entanglement generation.  Apart from that, deadlines and a
\* random or first-come choice select any of the ready tasks.
Choices(c) ==
    LET epr == {t \in ReadyTasks(c) : t.name[1] \in EprKinds}
    IN  IF epr # {} THEN epr ELSE ReadyTasks(c)

Chooses(c) == NodeWaits /\ core[c] = "choosing"

\* update_status finds a task and handle_task starts it.  A host block begins
\* by clearing the recorded jump; a receive takes its message out of the buffer.
StartTask(c) ==
    /\ Chooses(c)
    /\ \E t \in Choices(c) :
          /\ current' = [current EXCEPT ![c] = t]
          /\ jumps' = IF t.name \in {Local, Event}
                      THEN [jumps EXCEPT ![t.pid] = NoJump] ELSE jumps
          /\ inbox' = IF t.name = Event THEN inbox \ {t.pid} ELSE inbox
    /\ core' = [core EXCEPT ![c] = "busy"]
    /\ phase' = IF c = "CPU" THEN "body" ELSE phase
    /\ UNCHANGED <<index, handed, tasks, finished, awaits, port, lastFinished,
                   signals, node, goal, loops>>

\* Fault: the CPU does not wait for messages of other nodes.
EventsButMessages(c) ==
    {"port"} \cup (IF WaitingForOther(c) # {} THEN {"completed"} ELSE {})

EventsToAwait(c) ==
    {"port"} \cup (IF WaitingForOther(c) # {} THEN {"completed"} ELSE {})
             \cup (IF WaitingForMessage(c) # {} THEN {"message"} ELSE {})

\* update_status finds none: the loop waits for the events that could change
\* that.  A message of the node scheduler is always one of them.
FallAsleep(c) ==
    /\ Chooses(c)
    /\ ReadyTasks(c) = {}
    /\ core' = [core EXCEPT ![c] = "waiting"]
    /\ awaits' = [awaits EXCEPT ![c] = EventsToAwait(c)]
    /\ UNCHANGED <<index, jumps, handed, tasks, finished, current, phase, port,
                   lastFinished, signals, node, inbox, goal, loops>>

\* What the other actors do to a sleeping run loop.
Woken(c, event) == IF core[c] = "waiting" /\ event \in awaits[c] THEN "choosing" ELSE core[c]

\* A message of the node scheduler arrives, possibly after a latency.
PortInput(c) ==
    /\ NodeWaits /\ port[c]
    /\ port' = [port EXCEPT ![c] = FALSE]
    /\ core' = [core EXCEPT ![c] = Woken(c, "port")]
    /\ UNCHANGED <<nodeVars, jumps, tasks, finished, current, awaits, phase,
                   lastFinished, signals, inbox, goal, loops>>

\* A classical message for a program that receives any arrives at the node.
MessageArrives(pid) ==
    /\ NodeWaits /\ pid \notin inbox
    /\ \E i \in DOMAIN Program[pid] : Program[pid][i].typ = "CC"
    /\ inbox' = inbox \cup {pid}
    /\ core' = [core EXCEPT !["CPU"] = Woken("CPU", "message")]
    /\ UNCHANGED <<nodeVars, jumps, tasks, finished, current, awaits, phase, port,
                   lastFinished, signals, goal, loops>>

------------------------------------------------------------------------------
(* The execution of a task by a driver.                                       *)

\* A task takes its first yield after the completion signal of the processor's
\* previous task was scheduled, so that signal is delivered before it goes on.
Executes(c) == NodeWaits /\ core[c] = "busy" /\ c \notin signals

\* A jump, or a branch whose condition holds, records its target and yields for
\* the second half of the instruction's duration.
TakeJump ==
    /\ Executes("CPU") /\ current["CPU"].name = Local /\ phase = "body"
    /\ LET t == current["CPU"]
       IN  \E target \in Block(t).targets :
              /\ target <= t.blk => loops[t.pid] < MaxLoops
              /\ loops' = [loops EXCEPT ![t.pid] = IF target <= t.blk THEN @ + 1 ELSE @]
              /\ jumps' = [jumps EXCEPT ![t.pid] = target]
              /\ goal' = [goal EXCEPT ![t.pid] = target]
    /\ phase' = "jumped"
    /\ UNCHANGED <<nodeVars, tasks, finished, core, current, awaits, port,
                   lastFinished, signals, inbox>>

\* assign_block breaks off when it sees the recorded jump; when it does not, it
\* goes on with the next instruction, which clears the record first.
GoOnAfterJump ==
    /\ Executes("CPU") /\ phase = "jumped"
    /\ jumps[current["CPU"].pid] = NoJump
    /\ Block(current["CPU"]).tail
    /\ phase' = "tail"
    /\ UNCHANGED <<nodeVars, jumps, tasks, finished, core, current, awaits, port,
                   lastFinished, signals, inbox, goal, loops>>

\* The end of assign_block: by a recorded jump, after the instructions that
\* follow one, or, when the condition did not hold, without a jump.
BlockEnds ==
    LET t == current["CPU"]
    IN  \/ phase = "jumped" /\ (jumps[t.pid] # NoJump \/ ~ Block(t).tail)
        \/ phase = "tail"
        \/ phase = "body" /\ Block(t).falls

\* The last CPU task of a block; when it did not jump, the program goes on with
\* the block that follows.
EndsBlock(c) == c = "CPU" /\ current[c].name \in {Local, Event, Post}

\* handle_task after the driver returned True.
FinishTask(c) ==
    /\ Executes(c)
    /\ current[c].name = Local => BlockEnds
    /\ lastFinished' = [lastFinished EXCEPT ![c] = current[c].pid]
    /\ tasks' = [tasks EXCEPT ![c] = @ \ {current[c]}]
    /\ finished' = [finished EXCEPT ![c] = @ \cup {current[c]}]
    /\ signals' = signals \cup {c}
    /\ core' = [core EXCEPT ![c] = "choosing", ![Other(c)] = Woken(Other(c), "completed")]
    /\ current' = [current EXCEPT ![c] = NoTask]
    /\ phase' = IF c = "CPU" THEN "body" ELSE phase
    /\ goal' = IF EndsBlock(c) /\ phase = "body"
               THEN [goal EXCEPT ![current[c].pid] = current[c].blk + 1] ELSE goal
    /\ UNCHANGED <<nodeVars, jumps, awaits, port, inbox, loops>>

\* handle_task after the driver returned False: no pair was generated.  The
\* task stays in the graph, nobody is told, and the loop chooses again.
FailTask ==
    /\ Executes("QPU")
    /\ current["QPU"].name[1] \in EprKinds
    /\ core' = [core EXCEPT !["QPU"] = "choosing"]
    /\ current' = [current EXCEPT !["QPU"] = NoTask]
    /\ UNCHANGED <<nodeVars, jumps, tasks, finished, awaits, phase, port,
                   lastFinished, signals, inbox, goal, loops>>

\* Fault: a completion goes stale before the node scheduler has looked.
TimePassesTooSoon ==
    /\ NodeWaits
    /\ \A c \in Cores : core[c] # "choosing"
    /\ \E c \in Cores : lastFinished[c] # NoPid
    /\ lastFinished' = [c \in Cores |-> NoPid]
    /\ UNCHANGED <<nodeVars, jumps, tasks, finished, core, current, awaits, phase,
                   port, signals, inbox, goal, loops>>

\* Simulated time moves on once everything due now has happened; a completion
\* then no longer counts as one at the current time.
TimePasses ==
    /\ NodeWaits /\ signals = {}
    /\ \A c \in Cores : core[c] # "choosing"
    /\ \E c \in Cores : lastFinished[c] # NoPid
    /\ lastFinished' = [c \in Cores |-> NoPid]
    /\ UNCHANGED <<nodeVars, jumps, tasks, finished, core, current, awaits, phase,
                   port, signals, inbox, goal, loops>>

AllDone ==
    /\ NodeWaits /\ signals = {}
    /\ \A c \in Cores : tasks[c] = {} /\ core[c] = "waiting" /\ ~ port[c]
    /\ \A p \in Pids : IsFinished(p) /\ jumps[p] = NoJump

CoreStep(c) == StartTask(c) \/ FallAsleep(c) \/ PortInput(c) \/ FinishTask(c)

Next ==
    \/ NodeStep
    \/ \E c \in Cores : CoreStep(c)
    \/ \E pid \in Pids : MessageArrives(pid)
    \/ TakeJump \/ GoOnAfterJump \/ FailTask \/ TimePasses
    \/ AllDone /\ UNCHANGED vars

\* The simulator runs every event that is due.  Messages that a program waits
\* for are sent, and a pair that is tried for ever is generated at last.
Fairness ==
    /\ WF_vars(NodeStep)
    /\ \A c \in Cores : WF_vars(StartTask(c) \/ FallAsleep(c)) /\ WF_vars(PortInput(c))
    /\ \A pid \in Pids : WF_vars(MessageArrives(pid))
    /\ WF_vars(TakeJump \/ GoOnAfterJump \/ FinishTask("CPU"))
    /\ SF_vars(FinishTask("QPU"))

Spec == Init /\ [][Next]_vars
FairSpec == Spec /\ Fairness

------------------------------------------------------------------------------
(* Properties.                                                                *)

\* The tasks of one program that are in the two task graphs all belong to the
\* block handed out last.  find_next_tasks_for looks only at the CPU's graph
\* before it hands out a classical block, so this rests on the CPU keeping a
\* task until the QPU has finished all of that program.
OneBlockInFlight ==
    \A t \in tasks["CPU"] \cup tasks["QPU"] : t.inst = handed[t.pid]

\* While the QPU has a task of a program, the CPU still has the PostCall that
\* comes after it.
QpuWorkIsAwaited ==
    \A t \in tasks["QPU"] : Sibling(t, Post) \in tasks["CPU"]

\* A task is executed only when all its predecessors in the block's graph as
\* built have finished, whichever processor they ran on.  The driver relies on
\* it when it reads the call that PreCall left behind, or its results.
BlockOrder ==
    \A c \in Cores : LET t == current[c] IN
        t # NoTask =>
            Siblings(t, PredsOf(Block(t), t.name)) \subseteq finished["CPU"] \cup finished["QPU"]

\* No wake-up is lost: when a processor sleeps although one of its tasks is
\* ready, a message that will wake it is on its way.  The processors poll each
\* other's finished tasks only when awake.
NoLostWakeup ==
    \A c \in Cores : core[c] = "waiting" /\ ReadyTasks(c) # {} => port[c]

\* No completion is overlooked: when the node scheduler sleeps and has seen all
\* signals, a program without tasks has no blocks left, or it waits for the
\* program it must follow.
NoProgramForgotten ==
    NodeWaits /\ signals = {} =>
        \A p \in Pids :
            HasTask("CPU", p) \/ NextIndex(p) > Len(Program[p])
                \/ (Dependency[p] # NoPid /\ ~ IsFinished(Dependency[p]))

\* The blocks of each program run one at a time, in the order its jumps ask for.
BlockOf(p) ==
    IF HasTask("CPU", p) THEN (CHOOSE t \in tasks["CPU"] : t.pid = p).blk ELSE NoTask
ProgramSuccessors ==
    [p \in Pids |-> [i \in DOMAIN Program[p] |->
        Program[p][i].targets \cup (IF Program[p][i].falls THEN {i + 1} ELSE {})]]
Control == INSTANCE ProgramControl WITH
    Programs <- Pids, Length <- [p \in Pids |-> Len(Program[p])],
    BlocksAfter <- ProgramSuccessors, NoBlock <- NoTask,
    at <- [p \in Pids |-> BlockOf(p)], next <- goal
ImplementsControl == Control!Spec

\* Every program instance eventually executes all its blocks.
EveryProgramEnds == <>(\A p \in Pids : goal[p] > Len(Program[p]) /\ BlockOf(p) = NoTask)

\* hostlang.py: a jump goes to its target block.  The instructions that follow
\* it in its own block are not executed.
JumpLeavesBlock == phase # "tail"
=============================================================================
