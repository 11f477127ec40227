# A TLA+ verification of Qoala-sim

Qoala-sim (package `qoala`) simulates nodes of a quantum internet that execute
application programs: blocks of classical instructions, local quantum routines,
and requests for entangled pairs with other nodes. Everything runs as
generators of one discrete-event simulation (NetSquid): a step of a component
runs without interruption from one `yield` to the next, and the steps of
different components interleave at the yields, in an order that depends on
latencies and on the outcomes of physical processes.

The modules here model the part of the simulator that is its own logic and is
hard to test: how the text of a program becomes a program, the schedulers of a
node, the task graphs they execute, with deadlines and time bins, the messages
between programs, the allocation of qubits, calls of routines and their results,
the network schedule, and the distribution of entangled pairs.

## Inventory

Paths are relative to `src/qoala/`.

| Component | State | Operations | Interacts with | Hard because |
|---|---|---|---|---|
| Node scheduler (`sim/scheduler.py`, `NodeScheduler`) | index of the next block of each program, last pids that finished a task | create processes of a batch, look at all programs, look at the programs that just finished a task, hand out a block | reads and consumes the host's record of jumps; adds tasks to the processors' graphs and sends them a message; woken by their completion signals | completions count only at the time they happen; jumps are recorded by one component and consumed by another; linear batches |
| CPU and QPU schedulers (`sim/scheduler.py`, `EdfScheduler` and subclasses) | task graph, finished tasks, status | poll the other's finished tasks, choose a task, execute it, wait | each other's finished tasks and signals, memory manager, message buffers, network schedule | two actors that see half of a graph each; each waits for a set of events chosen from its status |
| Task graphs (`runtime/task.py`) | tasks, predecessors (own, external), deadlines | build a block's graph, split it, roots, remove | built by the node scheduler, executed by the processors | a dependency chain may leave a processor and come back |
| Drivers (`sim/driver.py`) | call tuples shared by CPU and QPU tasks | one handler per type of task | host, Qnos, network stack, memory manager | QPU tasks read what a CPU task left behind |
| Memory manager (`sim/memmgr.py`) | virtual to physical, physical to virtual | add process, allocate, free, lookups | called by drivers, network stack, QPU scheduler; signals MEMORY_FREED | two dictionaries updated in step; scarce qubits of two kinds |
| Network stack (`sim/netstack/`) | running request routines | requests for one or several pairs, callbacks | memory manager, entanglement distributor, Qnos | pairs fail halfway through a request |
| Entanglement distributor (`sim/entdist/`) | requests per node, message buffers | match opposite requests, deliver, time bins | network stacks of all nodes, network schedule | requests of several nodes must meet in one bin |
| Network schedule (`lang/ehi.py`) | none (a table) | next bin, next bin of a kind | QPU scheduler, distributor | arithmetic at the boundaries of bins and repetitions |
| Host processor, messages (`sim/host/`, `sim/componentprot.py`) | host variables, record of jumps, message buffers | execute a block, send, receive, prepare and finish calls | node scheduler, drivers, other nodes | the jump record is shared with the node scheduler |
| Qnos processor, shared memory (`sim/qnos/`, `runtime/sharedmem.py`) | registers, shared arrays, running routines by name | interpret a subroutine, allocate, read, write | drivers, host, network stack, memory manager | results pass through four components and two processors; tables that are never cleaned |
| Parsers (`lang/parse.py`), host language, routines, requests (`lang/hostlang.py`, `routine.py`, `request.py`, `program.py`) | line cursors, vectors defined so far, the program built so far | split a text, read each section, check references, write a program out, fill in a request | build what the schedulers execute | errors of four kinds in fixed-form text; what is dropped silently; state shared between blocks; written and read forms that differ |
| Configuration, hardware descriptions, network construction, logging | - | - | - | sequential, run before or after the simulation |

What makes them correct: blocks of a program are executed one at a time in the
order its jumps ask for; tasks of a block in the order of its graph; no wake-up,
completion or message is lost, so that programs end; a qubit belongs to at most
one virtual qubit, is returned when it is no longer needed, and is allocated
only after a check that it is available; a bin that is answered is the next one.

## Modules

| Module | Models |
|---|---|
| `QubitOwnership` | abstract: each physical qubit has at most one owner and changes hands only through nobody |
| `MemoryManager` | `sim/memmgr.py`, all operations; implements `QubitOwnership` |
| `MemoryManagerProofs` | theorems about `MemoryManager` |
| `TaskGraph` | `runtime/task.py` as pure operators: a block's graph, its split, roots, removal |
| `TaskGraphExecution` | two processors executing one graph by its two partial graphs |
| `TaskGraphExecutionProofs` | theorems about that: the order of the graph, the shortcuts of the split |
| `ProgramControl` | abstract: the blocks of each program, one at a time, in the order the program asks for |
| `NodeScheduler` | node scheduler, both processor schedulers, execution of tasks, jumps; implements `ProgramControl` |
| `NodeSchedulerProofs` | theorems about the blocks in flight and the order of their tasks; control flow (`ProgramControl`), wake-ups, programs that could go on |
| `QpuResources` | QPU scheduler, driver, network stack and memory manager around the qubits of tasks |
| `QpuResourcesProofs` | theorems about who holds which qubit, and what a failure gives back |
| `SharedMemory` | `runtime/sharedmem.py` as pure operators: allocation by region, legal reads and writes |
| `HostCalls` | host processor, drivers, Qnos processor, and the network stack's part in calls and results |
| `HostCallsProofs` | theorems about what the tasks of a call find in the tables, who writes to which array, and which accesses can fail |
| `NetworkSchedule` | the arithmetic of `EhiNetworkSchedule`, as pure operators |
| `NetworkScheduleProofs` | theorems about both questions that are asked of a schedule |
| `MessageBuffer` | the buffer of a listener (`sim/componentprot.py`), as pure operators |
| `EdfScheduling` | both processor schedulers in time, with the messages and the bins they wait for; uses the two modules above and `TaskGraph` |
| `EdfSchedulingProofs` | theorems about executions of `EdfScheduling`: bins, messages and deadlines |
| `EntDist` | the entanglement distributor, its listeners, and the nodes that ask it; extends `NetworkSchedule` |
| `EntDistProofs` | theorems about requests, answers, wake-ups and bins of the distributor |
| `HostLanguage` | variables, the fifteen host operations and what they accept, their text (`lang/hostlang.py`) |
| `RoutineText` | local routines and requests: reading, writing, filling in (`lang/parse.py`, `routine.py`, `request.py`) |
| `ProgramText` | the parsers at work on a program, and a program written out and used |
| `MC*` | instances for TLC |

### Memory manager

`mapping` and `physical` are the two dictionaries, `processes` the pids added,
`result` what the caller observes (the AllocError paths change nothing else).
Actions are the methods. `allocate` picks the first free qubit in the iteration
order of a set, which Python does not fix: the model picks any.

### Task graphs and their execution

`TaskGraph` follows `TaskGraph.partial_graph`, `cross_predecessors`,
`double_cross_predecessors`, `get_roots`, `remove_task` and the block builder.
`NearestCross` is a recursive function over the acyclic graph, as the code's
recursion is. In `TaskGraphExecution` a processor's pass of its run loop is one
action (`StartTask` or `Sleep`), since it has no yield, the end of a task
another. A task may fail (`FailTask`): then it stays in the graph.

### Node scheduler

The run loop of the node scheduler is split at its yield: `NodeWakes` is the
delivery of a signal, after which the pids in `node.todo` are worked off by
`HandOut`, `NothingToHandOut` and `PassOver`, and `NodeRests` is the top of the
loop, which may begin a pass over all programs. No other actor acts until it
waits again (`NodeWaits` is a conjunct of all their actions), as in the code,
where there is no yield in between. `Consider` contains what
`find_next_tasks_for` always does: consuming the recorded jump.

A signal is delivered at the instant at which it was sent, but after the step
that sent it. `signals` holds those under way. `lastFinished` is
`last_finished_task_pid` for as long as its time equals the current time, which
`TimePasses` ends; it can do so only when no signal is under way and both
processors have come to rest, because all that happens at that instant. Messages
to the processors have a latency, so `port` may stay set while time passes.

A host block with a jump takes two steps, because the instruction yields for the
second half of its duration after recording the jump (`TakeJump`); `assign_block`
then looks whether the record is still there. The history variables `goal` (the
block the program itself asks for) and `handed` are used by properties, `handed`
also to tell apart the tasks of a block that is executed twice.

### Qubits on the QPU

`QpuResources` takes the hand-out of blocks as given (a program's block comes
when its previous one is over: `OneBlockInFlight`) and adds what `NodeScheduler`
leaves out: whether the qubits of a task are available (`Available`), their
allocation (`AllocateForTask`), their release by each kind of task, and failure
of a pair (`PairFailed`). Allocation and the yield before it are separate
actions, between which nobody else allocates, since all allocation is done by
QPU tasks. An `AllocError` there ends the simulation (`core = "crashed"`).
`kept` is a ledger of the qubits that a program's finished tasks leave behind by
its text; `QubitsAccountedFor` compares it with the memory manager's tables.

`are_resources_available` allocates and frees each qubit in turn; no state of
the tables remains, but each free signals MEMORY_FREED (`TrialFrees`).

### Scheduling in time, and messages

`NetworkSchedule` has the variables `schedule` and `now` and operators that answer
for any time. Integers stand for the code's numbers; the code divides floats,
exact for the times of a simulation (below 2^53).

`EdfScheduling` adds time to what `TaskGraphExecution` says of the two processors.
A graph is uploaded as `NodeScheduler.upload_task_graph` does; `Jobs` is the graph
as built, with start times, deadlines, and deadlines relative to other tasks.
`StartTask` and `Sleep` are a pass of the run loop up to its yield, `waits` the
disjunction it then waits for, by reason, and `alarm` the EVENT_WAITs that are
scheduled, which stay when something else wakes the processor. `FinishTask` is the
end of `handle_task`: deadlines are decreased, the task is removed, relative
deadlines become absolute. `Arrive` is a message reaching the listener's buffer and
its signal; a processor that waits for a message is woken by any.
A receive task takes its message when it starts: the code waits for the latency
only after that. `KeyAskedFor` and `KeyTaken` keep the keys of the code, which
differ in the order of the two pids. The QPU always has the qubits it needs here.
`got`, `taskEnds` and `finished` are read by properties; `_finished_tasks` and
`_task_ends` exist in the code as well. `worked` is the one history variable, of what a
processor's finished tasks took in all: only a property reads it.

The exceptions that end a simulation are in `error`: RuntimeError of
`update_status`, TypeError of a disjunction with the event expression that
`get_evexpr_for_any_msg` does not return.

### Programs as texts

A text is a sequence of lines, and a line a record of what its punctuation
separates: the parser's tests on brackets, colons and commas inside a line are
abstracted to the kind of line (`instr`, `key`, `^`, ...) and of variable (`tuple`,
`vector`, `element`, ...). Which words are identifiers or numerals is given by
constants. `HostLanguage` has one definition per operation, the kinds its
`from_generic_args` accepts. `RoutineText` reads a routine as a whole: its lines
have a fixed order, and the first that does not fit decides what is raised
(`FirstFailure`). In `ProgramText` each line of host code, each routine, and each
other stage of `QoalaParser` is a step; `phase` is the parser at work, `outcome`
what it returned or raised. An accepted program may then be written out
(`WriteOut`) and read again, the first copy being kept in `first`, or one of its
requests started (`StartRequest`): checked as the QPU's scheduler does, then filled in
as the network stack does.

### Entanglement distributor

`EntDist` models `_run_with_netschedule` and `_run_without_netschedule`, both,
split at their yields; `schedule` says which one runs. `port`, `buffer` and
`signals` are a message on its way, in a listener's buffer, and the listener's
signal that it is there, which the waiting distributor gets later. Between two
yields the distributor is `"awake"` and nobody else acts. Steps of one instant
come in any order, except that a timer, set at an earlier instant, comes before
messages sent at this one; time goes on (`Tick`) when nothing is left to do.

A node asks for one pair at a time (`Ask`), because the QPU executes one task at
a time and the network stack waits for the answer; it may ask for the next pair,
or again after a refusal, at any time. The clock counts modulo the period of the
schedule, which starts at time 0, so that there is no bound on time. A request
carries the physical qubit for the pair: it may be another one the next time.

### Calls and results

In `HostCalls` each processor executes one task at a time (`cpu`, `qpu`), any
that is ready in the graph of its block, which is that of `TaskGraph`. An
instruction of the host or of Qnos is one action: in the code it reads, waits, and
writes, but memories and registers belong to one process, which has one block in
flight (`OneBlockInFlight` of `node_mixed`), so nobody else reaches them during
the wait. `PrepareLrCall`, `PrepareRrCall` and `PostCall` do their work at the
start of the task, as the code does, and `EndCall` is the end of its latency.
`calls` is `SharedSchedulerMemory`, keyed by process and number of the block
instead of the id of the block's PreCall task; `localRun` and `requestRun` are the
tables of running routines. An address is the position of an array in the
sequence `shared[p]`, as addresses are handed out in order and never reused. Indices
below 0 count from the end of an array, as in Python, but no routine of a run
computes one. An exception anywhere in the code sets `fault`, after which nothing happens.
The tag of a qubit is the index of the pair it is half of; `seen` remembers the
outcome measured on each tag, and is what the results are compared with.

The run ends when both programs have ended, when the request with a callback on
both pairs has failed after its first pair (see below), or with the fault of the last
call, so it does not check for deadlock. Two rounds of the loop are the fewest in which a call finds what an
earlier call of the same name has left.

## Runs

| Run | Instance | Shows |
|---|---|---|
| `memory_manager` | two processes, qubits of both kinds | lookups inverse, kinds respected, nothing lost or stolen, implements `QubitOwnership` |
| `task_graph_split` | every graph on four tasks with every placement, and the graphs of quantum blocks | original order survives the split; all tasks executed, so that the two never sleep for good |
| `node_mixed` | two programs: two pairs with callbacks and a receive; a jump, a receive (skipped), a local routine | one block at a time, order of tasks, no lost wake-up or completion, implements `ProgramControl` |
| `node_linear_live` | a linear batch: classical work and a request; a receive and a conditional jump back | all programs end |
| `node_jump_lost` | violation: a jump followed by another instruction | see findings |
| `qpu_contended` | three programs: requests of every kind with two qubits, callbacks, routines that keep qubits; two communication qubits and one memory qubit | qubits accounted for through failures and up to an AllocError; tasks wait for ever only for qubits that are kept; time goes on, unless a task gets some of its qubits and wakes the scheduler itself |
| `qpu_greedy` | violation: a request for two pairs that are kept, beside routines that keep a qubit | see findings |
| `entdist` | three nodes with programs between all of them; no schedule, one with two bins and a pause, one with a single bin; pairs that take shorter and longer than a bin | what is served is what both nodes wait for, in its bin; answers are current; which requests are forgotten; all others are answered |
| `entdist_stale` | violation: three nodes that ask in one instant | see findings |
| `host_calls` | a loop around a request with a callback on each of two pairs, then one with a callback on both; local routines with one and two arguments, a jump, and a request whose two pairs are measured; at last a call with one variable for both arguments | results are those of the program's own call, in the order of its pairs, through memory that is written once; only the second argument of the last call is missed |
| `program_text` | a program with everything in it, and each of its lines cut off after, lost, doubled or swapped; every operation with every combination of result, arguments and attribute; every order of definitions in one block or three; every form of a request | what is accepted lacks only a tail; vectors are vectors; the copy of a program; a request that is accepted starts, but for two forms; the parser ends |
| `edf_scheduling` | no schedule and twelve, with a repeated bin and pauses, four of which start at time 1; deadlines and start times of every kind on both processors, after idle time and relative to two tasks; two programs with messages of one peer or two, pids that agree or cross; pairs in bins between other tasks | bins are answered as is right `first_bin` ago, and not slept through; earliest due first, but for idle time and replaced deadlines; messages reach their program in order; all tasks executed |

**Bounds.** Two programs suffice for every interaction between programs that the
schedulers have: they compete for two processors and at most two pids are looked
at per wake-up. Each program takes at most `MaxLoops = 1` jump back, which
executes a block twice. Four tasks are the smallest graphs in which a chain
leaves a processor and comes back while another task is between. Two pairs per
request give every order of pairs, and a failure before and after the first
pair. Two physical qubits of one kind let a task get one and miss the other. In
`EdfScheduling` `MaxTime` bounds the time that passes while only messages are
waited for, and `MaxFailures = 1` the pairs that fail; a task that fails once is
tried again in a later bin. Periods of 2 to 7 make the bins of several repetitions
come up at start times, ends of tasks and retries. A vector, a scalar and a tuple
of one name, each assigned twice, are all the orders that the table of vectors can
tell apart. Three
nodes are the fewest with a request that is not for the pair that is served, and
with a message that arrives between two others.

**Fairness.** Weak fairness of the steps of each actor: the simulator executes
every event that is due. `MessageArrives` is weakly fair, since a message a
program waits for is sent by its counterpart. The success of a pair is strongly
fair (`FinishTask("QPU")`, `PairAt`): a generation that is tried infinitely
often succeeds at last. Nothing fair is assumed of choices between tasks.
In `EdfScheduling` messages are delivered (`Arrive`) and time passes (`Tick`) when
nothing is due; pairs fail at most `MaxFailures` times. The parser is one call, so
`Parse` is weakly fair. `EdfScheduling` stops when all is executed, and
`ProgramText` when it has been used.
`TimeGoesOn` asks, under the same fairness, that again and again nothing is due at the
present instant: no component is left out for ever, so only wake-ups can keep time still.
`QpuResources` may stop in an AllocError or in a hold-and-wait between programs
that keep qubits, so its runs do not check for deadlock.

## Findings

- `node_jump_lost`: the completion of another program's last task makes the node
  scheduler look at all programs, and consume the jump that a program has
  recorded but not finished executing. `assign_block` then goes on with the
  instructions after the jump. It needs a CL block with instructions after a
  jump, and a completion within the second half of the jump's duration.
- `qpu_greedy`: qubits are checked one at a time and taken one after the other
  without giving back; a request for two pairs that are kept passes the check, and the
  AllocError at its second pair ends the simulation. Local routines are checked in the
  same way, and take all their qubits at the start.
- `entdist_stale`: of three nodes that ask in one instant, the third message may
  be put into its buffer while the distributor waits for the second signal
  (arrival of the first message, request of the third node, arrival of the
  second is such an order). Without a schedule all three are then taken; when
  nothing can be served the distributor waits again, the third signal wakes it
  with all buffers empty, and the assertion in `_handle_msg_evexpr` fails. With a
  schedule the pause of one time unit lets such signals pass
  (`WakeUpsAreBacked`).

Found while modelling, and not the subject of a run:

- In a linear batch, `schedule_all` starts a program when the last block of the
  one before it has been *handed out*, not finished, against its docstring
  (`sim/scheduler.py:456-459`): the index that `is_program_instance_finished`
  looks at moves on at hand-out.
- Callbacks allocate the qubits they lack (`netstackprocessor.py:173-175`),
  against the note at `sim/scheduler.py:1109`, and are not checked.
- Without a network schedule, two nodes whose next requests are for different
  programs wait for each other for ever: requests are never withdrawn.
- The check of a blocked task frees the qubits it tried before the refused one
  (`scheduler.py:1083-1087`, `1098-1104`), and so sends MEMORY_FREED, the signal that the
  scheduler goes on to wait for. It wakes itself at the same instant for ever
  (`FallAsleep`, `FreedDelivered`), and simulated time stands still, even if another
  program would free the qubit at a later event. `TimeGoesOn` states that this is the
  only way in which time stands still: without `WakesItself` it is violated.
- `next_bin` and `next_specific_bin` subtract `first_bin` twice (`ehi.py:525-532`,
  `559-562`), so that of a schedule that starts after time 0 they answer what was right
  `first_bin` ago, bins in the past included; an index of -1 takes the last bin of the
  pattern (`BinAt`). `BinsAreNext` and `BinNotMissed` say this exactly where `first_bin` is
  less than a bin (`FirstInBin`): every bin is then used, `first_bin` too late. With a later
  `first_bin` a bin at the end of the pattern may never be started: its pair waits for
  ever, at alarms without end, and no run has such a schedule.
- Deadlines count the durations of a processor's own successful tasks
  (`scheduler.py:812`), not the time it sleeps or fails. So a task may go before one that is
  due earlier; `EarliestDueFirst` bounds by how much (`IdleSoFar`).
- A relative deadline replaces a tighter one that the task has (`task.py:537`):
  `EarliestDueFirst` asks of each task with several deadlines only that one of them
  counts. Those relative to a task of the other processor are dropped, as
  `ext_rel_deadlines` is computed from the dictionary that was filtered just before
  (`task.py:623-633`), and `EarliestDueFirst` leaves them out (`Dues`).
- The arguments of a call are collected in a dictionary by name
  (`hostprocessor.py:284`): a variable passed twice takes one slot, and the routine's
  load of its last argument is out of bounds (`ArgValues`). `EveryAccessIsLegal` names
  this exception.
- A request with `virt_ids: all {x}` or `increment {x}` is accepted, as documented
  (`request.py:117`), but the check for qubits meets the template before it is filled in,
  and fails an assertion (`CheckOutcome`). A `custom` list that is shorter than the number
  of pairs ends in an IndexError there: the text says that it needs to be as long
  (`request.py:56`), and nothing checks it. `RequestsWithInputsStart` says that these are
  the only requests with all their inputs that are accepted and cannot be started.
- A create-and-keep request that fails after its first pair leaves the earlier
  qubits mapped (`netstackprocessor.py:108-114`); the check then refuses the
  task for ever. `QubitsAccountedFor` and `FailedTaskIsAvailable` state exactly
  this exception, and `OnlyKeptQubitsBlock` counts these qubits as kept.
- Only QPU tasks free qubits, and never at the end of a program: a QPU that
  sleeps for want of qubits is woken by new tasks, not by MEMORY_FREED.
- `next_specific_bin` uses the last occurrence of a bin that the pattern repeats
  (`ehi.py:550-552`). `BinsAreNext` states what is left: an answer that is a start of
  that bin, less than a period away. `BinNotMissed` is about patterns without repetition.
- With a network schedule, a node whose request arrived too late for its bin, and
  is collected in a bin in which another pair is served, gets no answer
  (`entdist.py:337-346`). `ForgetsOnlyWhatIsNotForTheBin` states that these are
  the only ones; it takes three nodes, and a generation longer than a bin.
- A request with sequential callbacks whose pairs are to be measured directly keeps
  its pairs: `handle_single_pair` does not look at the type of the request, and
  the host then reads results that nobody wrote (`MeasuredDirectly`).
- Arrays for arguments of callbacks are allocated but never written, and read in the
  wrong region (`CR_in`, not `LR_in`): a callback with parameters cannot load them.
- `NVProcessor` measures a memory qubit through physical qubit 0 (`qnosprocessor.py:725`),
  which it initialises whoever holds it; its comment speaks of freeing it first.
- Messages are stored under (sender, receiver) pid; `is_message_available` asks for
  (own, remote) pid (`scheduler.py:862`), the receive instruction looks for
  (remote, own) and then takes (own, remote) or, failing that, any message
  (`hostprocessor.py:139-143`, `csocket.py:38`). With equal pids on both nodes all of
  these agree, and `MessagesReachTheirProgram` holds; the instance has other pids
  too, with which a program waits for ever or gets the message of another.
- A processor that begins to wait for a message while a buffer holds one for another
  program gets no event expression (`componentprot.py:149-152`); the disjunction at
  `scheduler.py:993` is then one with None. `EveryTaskRuns` names this exception.
- `TaskGraphFromBlockBuilder` sets no deadlines: those of a block's header are parsed
  and not used. A header with two of them cannot be parsed (`parse.py:538`).
- A routine that is cut off by the end of the text is dropped silently, unless it is
  referred to by name or cut inside its NetQASM (`parse.py:864`, `1248`).
- A program that is written out can be read only if it has neither routines nor
  deadlines (`CopyIsFaithful`): `LocalRoutine.serialize` omits the line `request:`,
  requests are not written at all, and deadlines have another form.

## Proofs

Each theorem holds for every value of the constants that satisfies the module's
assumption; `PROJECT.json` lists them. Every inductive invariant below was also
checked by TLC on the instance of the module's run before it was proved.

| Proved | In | Inductive invariant | From |
|---|---|---|---|
| `MappedAsDeclared`, `LookupsInverse`, `ExhaustedOnlyWhenAllHeld`, `ImplementsOwnership` | `MemoryManagerProofs` | `MemInv` | `MemoryAssumption` |
| `OriginalOrder`, `WaitsForOtherOnly` | `TaskGraphExecutionProofs` | `ExecInv`, `ChainInv` | `GraphAssumption` |
| `OneBlockInFlight`, `QpuWorkIsAwaited`, `BlockOrder` | `NodeSchedulerProofs` | `FlightInv` | `NodeAssumption` |
| `ImplementsControl`, `NoLostWakeup`, `NoProgramForgotten` | `NodeSchedulerProofs` | `JumpInv`, `WakeInv`, `ProgramInv` | `NodeAssumption` |
| `QubitsAccountedFor`, `FailedTaskIsAvailable` | `QpuResourcesProofs` | `ResInv` | `ResourcesAssumption` |
| `ServedPairIsAwaited`, `AnswersAreCurrent`, `WakeUpsAreBacked`, `ForgetsOnlyWhatIsNotForTheBin`, `GenerationStartsInItsBin` | `EntDistProofs` | `DistInv` | `EntDistAssumption` |
| `CallbackFindsItsCall`, `ResultsStay` | `HostCallsProofs` | `CallInv`, `PlaceInv` | `HostAssumption` |
| `EveryAccessIsLegal`, `WrittenOnce` | `HostCallsProofs` | `AccessInv` | `HostAssumption`, `NamesAssumption`; programs that make no mistake of their own (`NoMistakes`), for the second also routines that store each result once (`StoresOnce`) |
| `BinsAreNext`, `BinNotMissed`, `MessagesReachTheirProgram`, `EarliestDueFirst` | `NetworkScheduleProofs`, `EdfSchedulingProofs` | `TimeInv`, `BinInv`, `MailInv`, `DueInv` | `UploadAssumption`; for `BinNotMissed`, schedules that start less than a bin after time 0 |

### What is assumed of the constants

- `MemoryAssumption`: communication qubits are qubits of the device; `None` is no
  qubit and no location.
- `GraphAssumption`: tasks have a processor, predecessors are tasks of the graph, and
  there is no cycle. Both builders only ever refer to tasks that exist already;
  the code's recursion over predecessors would not end on a cycle.
- `NodeAssumption`: targets of jumps are blocks of the program, only CL blocks have
  any, and a program follows only one that was created before it, as
  `create_processes_for_batches` makes linear batches.
- `ResourcesAssumption`: a request is for one pair or more, with a virtual qubit each,
  and a local routine uses qubits of its unit module. A request that measures has no
  sequential callbacks: with them it keeps its pairs (see findings).
- `HostAssumption`: blocks call routines that the program has, which the parser checks, and
  jump to blocks that it has, since another name raises a KeyError (`get_block_id`).
  Nothing is assumed of the code of routines.
- `NamesAssumption`, used only for what is proved of accesses: instructions name host
  variables and registers that there are, inputs and constants are integers, and a
  slot that is not written (`Unset`) can be told from one. A request is for one pair
  or more, each at a qubit of the unit module. The code does not check the number, which
  may be a template for a program input; but of a request with 0 pairs and a task
  per pair, PostCall has no predecessor, and may read a call that was not made.
- `EntDistAssumption`: no node asks for a pair with itself, a generation takes time,
  `None` is not a request or a pair of them, and schedules start at time 0: with another
  start, bins are answered wrongly (see findings).
- `UploadAssumption`: a graph has finitely many tasks, which refer to each other only,
  pids, durations and deadlines are numbers, and every schedule has the bins of the pair
  tasks: `next_specific_bin` raises a ValueError for another one.

### The arguments

**Memory manager.** `MemInv` strengthens what is checked: the two dictionaries are
inverse on virtual qubits and locations (`MappingsInverse`), values are in their
domains, and only declared qubits of added processes are mapped. The last part
is needed because `add_process` clears the entries of a process: it must find
nothing to clear. The proof has one lemma per update (`BindMemInv`,
`UnbindMemInv`), one per operation, and one for `Next`. `LookupsInverse`,
`ExhaustedOnlyWhenAllHeld` and the refinement `ImplementsOwnership` follow.

**Task graphs.** `ExecInv` says that what is left of a task's predecessors in its
partial graph is, but for finished tasks, what the graph as built gives it: the
own ones in `preds`, the others in `ext`. `OriginalOrder` follows. `WaitsForOtherOnly`
is about chains: a task that comes after its own processor's tasks only by way of the
other's must still not be ready before them. `ChainInv` adds that a finished
task has only finished ancestors on its processor, which a new finished task keeps
because of its shortcuts (`DoubleCross`). That in turn needs what the recursive
functions `NearestCross` and `Ancestors` compute. The library's induction theorems
cannot be used for that, so the proof goes around: `LeastSolution` shows that
the equations of such a function have a solution on any relation, hence the `CHOOSE`
behind the recursive definition satisfies them (`CrossEquation`, `AncestorsEquation`);
and where an induction over the graph is needed (`BehindNearest`: every own ancestor
that is reached through the other processor is one of, or before, the nearest ones), acyclicity
is used as it is stated, by taking a first task among the counterexamples.

**Blocks in flight.** A classical block is handed out when the CPU's graph has no task
of the program, without a look at the QPU's. That this is enough is
`QpuWorkIsAwaited`: while the QPU has a task of a program the CPU has one that comes
after it. It is not inductive: the CPU's last task could end first. So `FlightInv`
adds that of a block in flight no task is lost (`NoTaskLost`), that what is executed
was ready (`CurrentIsReady`), and that what has finished left none of its predecessors
behind (`FinishedInOrder`). `SameBlock` and `FinishedOnce` keep tasks of a block that is
executed twice apart.

**Control flow.** `ImplementsControl` maps a program to the block that it has tasks of,
and to `goal`, where it goes next. `JumpInv` says that once a program has left its
block, or has taken the jump of a block that goes on, what the node scheduler would
hand out (`NextIndex`: the recorded jump, or the index) is `goal`; and that before,
nothing is recorded and the index is past the block. `LatePreCall` is for the PreCall
of a request with no pairs, which may outlive its PostCall.

**Sleep.** `WakeInv` gives the reason why a processor may sleep with no message of the
node scheduler on its way: no task of its graph is ready, and what its tasks wait for
is among what would wake it. `ProgramInv` does the same for the node scheduler: a
program that could be given a block is on the list it works off, or its last completion
is about to be delivered, or it follows a program that is. The list is in the order
of creation and a program follows an earlier one, so that one pass is enough.

**Qubits.** `ResInv`: the executed task is a root, at one of its pairs; the qubits of its
pairs are nobody's (`PairsAreFresh`), because the check refuses mapped qubits and no
other task runs until it ends; what its check found free is still free, but for the
qubit that it has just taken (`CheckStillHolds`); and each virtual qubit is accounted
for (`EachAccountedFor`, `QubitsAccountedFor` without `\A` over sets of sets).

**Calls.** The tables of running requests and routines are keyed by name and never
cleaned, so that what a callback finds there may be of an earlier call. `CallInv`: tasks are
executed in the order of the block's graph (`DoneInOrder`, `IsExecuted`), hence a pair task
has begun before its callback; from then on until the block ends, the running request of its
name is the block's call (`RequestIsCurrent`), and the routine that is interpreted has the
addresses of the call (`CodeIsCurrent`). No process has tasks of two blocks, and the
tables are per process, so nothing replaces them meanwhile. `CallbackFindsItsCall` follows.

`ResultsStay` is not a property of a run but the general reason for `WrittenOnce`: an
array of a call changes only while the task that it was allocated for is executed, and
arguments never. `WrittenOnce` itself adds that a routine does not store twice in a slot,
which depends on the routine. `PlaceInv`: the addresses of a call are allocated and all
different (`WellPlaced`: the arithmetic of `prepare_rr_call`), those of a later call are
larger (`CallsArePlaced`), and a request's call has an array for each of its callbacks
(`CallFits`), so that the index of a callback is never out of range. Writing changes one
array (`WriteIsLocal`), and `CodeIsCurrent` and `RequestIsCurrent` tell which.

**Accesses.** A program can make any of the code's exceptions happen, so what is worth
knowing is that nothing else can: not the order of tasks, a pair that fails and is tried
again, a routine that is called twice, or another program. `OwnMistake` lists what a
program may do wrong, each a condition on one instruction, declaration or result of its
own: an operand or argument that was never written (`ReadsMissing`, `Miscalls`), a call
that expects another number of results than the routine returns, a request whose results
or qubits do not fit its pairs (`WellDeclared`), an instruction of Qnos for a result, an
argument or a qubit that the routine does not have, or that divides by zero
(`QnosErrs`), and a routine that ends before it has stored all its results
(`LeavesOut`). None of them mentions addresses, regions, tables or tasks of others.
`AccessesAreLegal`: an execution without such a step has no exception. It is about the
execution so far and not about the step that raises, because a mistake may show later: a
load with a negative index reads another slot than intended, without an exception.

`~ fault` is not inductive, and `AccessInv` has six parts besides it. `ArraysFit`: the
arrays that the addresses of the current call point at have the region and size that the
routine, the callbacks, the network stack and the host expect of them. It rests on
`PlaceInv` and on the arithmetic of `prepare_rr_call` (`RrArraysFit`, `CallbackSlot`),
and arguments are written from the start. `RoutineHasQubits`: the driver has allocated
what the running routine uses, and only the end of the task frees it. `PairsInTurn`: the
qubits of the pairs to come are free, and there is an outcome for each pair measured so
far, so that `NextPair` never meets a qubit in use and the outcomes fit the array
(`MeasurePairAccess`). `OutcomesWritten`: the host finds the outcomes when the pair task
is done. `ValuesOK`: values are integers, without which the sums and products of
`HostStepValues` and `ComputedValue` say nothing. `UnbegunIsBlank`: nothing is written
to a result before its task has begun. The last one is what `WritesAreFinal` needs: the
two actions that write are a store, which finds its slot unwritten if it is the first
(`StoresOnce`), and the last pair of a measured request, which finds its whole array
blank (`OutcomesAreNew`), also when earlier attempts failed half way. The hypotheses are
not empty: the programs of `host_calls`, with callbacks, failures, loops, branches and
several calls of one routine, satisfy `NoMistakes` and `StoresOnce` in all their
executions up to the last call, which TLC has checked together with the parts of
`AccessInv`. That call, with a repeated argument, is a mistake, since a routine that is
called has as many arguments as there are different names (`ArgCount`).

**Distributor.** `DistInv` has three parts. `PlacesOK`: a request, or its answer, is in one
place at a time (on the way, in the buffer, put, being served, on the way back), a
pair that is served is what both its nodes wait for, and with a schedule nothing
that was put stays for a later bin. `SignalInv`: which signals may be under way in which
state; with a schedule the pause of one time unit, and timers being due only when
no signal is, make sure that a signal is never left from a message that was
handled. `SlotStarts`: when the timer of a bin runs out, that bin starts (`Due`,
modulo the period).

**Bins.** `NetworkScheduleProofs` shows `BinsAreNext` for every schedule, whatever its
pattern, bin length and period, and for every time; it speaks of those that start less
than a bin after time 0 (`FirstInBin`), and of the time less `first_bin` (`AskedFor`). `BinsAreNext`
looks at three repetitions (`Near`) so that TLC can evaluate it; `NextOfAll` and
`NextSpecificOfAll` show that of all repetitions none has a start between the time and the
answer. `Numbers` and `StartsAround` reduce everything to three numbers, the start of the
repetition, the time since and the place of a bin in the pattern, of which `PlaceInPeriod`
says that the bin ends within the period; `CeilingIsLeast` and `TimesMonotone` then give
the answer of `next_bin`, and `LastPlace` (the place that the code's loop ends with
exists) that of `next_specific_bin`. `BinsAlwaysNext` carries this to every execution of
`EdfScheduling`.

`BinNotMissed` needs that a sleeping QPU has an alarm that is early enough for every pair
task that it *may* execute, now and after what the CPU does: `SleepInv` says that an
alarm is set no later than the next bin of each such task, among all repetitions, and
that a pair task held up by the CPU makes the QPU wait for the CPU too. Alarms of
earlier waits are never removed, so the invariant speaks of the existence of one.

**Messages.** `MailInv` says that for each socket what its program has received, followed
by what waits for it in the buffer, is increasing and is exactly what was sent to
it so far. The work is in the lemmas on buffers: adding to one key, and taking the first
message of one, leaves the messages of all other keys as they were (`Added`, `Popped`).
It holds where the programs that talk to each other have the same pid on both nodes
(`PidsAgree`), which is part of the property; see findings for the others.

**Deadlines.** The code keeps no times by which tasks are due but numbers that it
decreases. `DueInv` relates the two: the number of a task, and what its processor has
worked so far, add up to at most a time by which the task is due (`Dues`, one of them if
there are several), and fall short of it by at most `IdleTime`, in which the processor has
executed nothing or without success. A deadline that becomes absolute when a task ends
starts with that difference, and no step makes it greater than `IdleTime`, which only
grows (`NothingFinished`, `TaskFinished`). Comparing the numbers of two tasks therefore
compares times by which they are due, up to `IdleTime`, which is 0 for a processor that
has always been busy.

### Left to TLC

- Liveness: `EventuallyDone`, `EveryProgramEnds`, `OnlyKeptQubitsBlock`, `TimeGoesOn`,
  `ScheduledRequestsAnswered`, `MeetingRequestsServed`, `EveryTaskRuns`, `ParserEnds`.
  Fairness and ENABLED are beyond the prover.
- `HostCalls`: `ResultsAreOfTheirPairs` and `ReturnsWhatItComputes` say what the
  programs of `host_calls` compute, and have no meaning for others. Without `NoMistakes`,
  `EveryAccessIsLegal` is false of some programs, and without `StoresOnce`
  `WrittenOnce` is: that the programs of the run make no mistakes but one is TLC's result,
  and so is the exception for a repeated argument.
- `ProgramText`: its properties are about what recursive reading and writing of
  texts computes for every text, which is induction over data.

## Not modelled

Quantum states, operations and noise, ports and connections are NetSquid's; the
NetQASM body of a routine is parsed by another package. Timestamps of statistics,
`linearize`, the builders of programs for tests and `assign_request_routine` have no
caller in the schedulers. The NV processor's moves of a qubit before measuring it
concern quantum states. Configuration (`runtime/config.py`), hardware descriptions
(`runtime/lhi.py`, `lhi_to_ehi.py`, `ntf.py`), construction of the network and logging
are conversions of data and wiring that are done once, without the hazards above.

## Plan

1. More about `HostCalls`: its tasks as those of `TaskGraphExecution`, of which
   `OriginalOrder` is proved; a condition on the code of a program that can be decided
   before it runs and implies `NoMistakes`.
2. The NV processor's moves of qubits, on top of `HostCalls` and `MemoryManager`.
3. `EdfScheduling` composed with `QpuResources`: bins and scarce qubits together.
