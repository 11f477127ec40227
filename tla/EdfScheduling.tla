---------------------------- MODULE EdfScheduling ----------------------------
(***************************************************************************)
(* The two EDF schedulers of a node in time (qoala/sim/scheduler.py): a    *)
(* task graph with start times, deadlines, tasks that receive a message    *)
(* and tasks that generate a pair in a time bin, of which each processor   *)
(* executes its part.  Peers send messages to the programs of the node,    *)
(* whose receive tasks take them from the listeners' buffers.  The QPU has *)
(* the qubits that its tasks need (QpuResources is about those).           *)
(***************************************************************************)
EXTENDS TaskGraph, NetworkSchedule, MessageBuffer

CONSTANTS
    Uploads,            \* the task graphs and messages that may be given
    Peers,              \* the other nodes
    NoTask,             \* a processor that executes nothing
    NoTime,             \* a task without a start time, or without a deadline
    MaxTime,            \* bound: nobody waits for messages after this time
    MaxFailures         \* bound on the pairs that are not generated

(***************************************************************************)
(* An upload has jobs, a function from tasks to records: the processor,    *)
(* the predecessors, the kind ("plain", "receive", "epr"), start, deadline,*)
(* rel (from other tasks to deadlines relative to their ends), duration,   *)
(* the socket of a receive task (own pid, peer, remote pid) and the bin of *)
(* an EPR task, which every schedule has (next_specific_bin raises a       *)
(* ValueError otherwise); and mail, for each peer the pairs of pids (sender*)
(* and receiver) of the messages it sends, in order, and awaits, the tasks *)
(* whose own messages it must have got before.                             *)
(***************************************************************************)
ASSUME UploadAssumption ==
    /\ NoTime \notin Int
    /\ \A u \in Uploads :
        /\ u.mail \in [Peers -> Seq(Nat \X Nat)]
        /\ IsFiniteSet(DOMAIN u.jobs)
        /\ \A t \in DOMAIN u.jobs :
              LET job == u.jobs[t]
              IN  /\ job.proc \in Cores /\ job.preds \cup DOMAIN job.rel \subseteq DOMAIN u.jobs
                  /\ job.duration \in Nat /\ job.deadline \in Int \cup {NoTime}
                  /\ \A x \in DOMAIN job.rel : job.rel[x] \in Int
                  /\ job.kind = "receive" =>
                        job.proc = "CPU" /\ job.socket \in [own : Nat, peer : Peers, remote : Nat]
                  /\ job.kind = "epr" =>
                        job.proc = "QPU" /\ \A s \in Schedules : job.bin \in Range(s.pattern)

VARIABLES
    upload,             \* the graph as built, and the mail to come
    pgraph,             \* processor -> its _task_graph
    deadline,           \* task in a _task_graph -> its deadline
    rel,                \* task in a _task_graph -> its rel_deadlines
    running,            \* processor -> the task it executes
    ends,               \* processor -> the time at which that is done
    finished,           \* processor -> _finished_tasks
    taskEnds,           \* finished task -> its end (_task_ends)
    worked,             \* history: processor -> what its finished tasks took in all
    waits,              \* processor -> what its run loop waits for, {} if it does not
    alarm,              \* processor -> the times of its EVENT_WAITs
    sent,               \* peer -> number of messages that have arrived
    inbox,              \* peer -> buffer of its listener
    got,                \* socket -> messages that its program has received
    failures,           \* pairs that were not generated
    error               \* the exception that ended the simulation, or "none"

graphVars == <<pgraph, deadline, rel>>
execVars == <<running, ends, finished, taskEnds, worked, failures>>
mailVars == <<sent, inbox, got>>
vars == <<schedule, now, upload, graphVars, execVars, waits, alarm, mailVars, error>>

Jobs == upload.jobs
Kind(t) == Jobs[t].kind
AllTasks == DOMAIN Jobs
WholeGraph == [tasks |-> AllTasks, proc |-> [t \in AllTasks |-> Jobs[t].proc],
               preds |-> [t \in AllTasks |-> Jobs[t].preds]]
Sockets == {Jobs[t].socket : t \in {u \in AllTasks : Kind(u) = "receive"}}

\* partial_graph: a relative deadline stays if the other task does.  Those to
\* tasks of the other processor are looked for among the ones that stayed.
PartialRelDeadlines(t) ==
    LET mine == {p \in DOMAIN Jobs[t].rel : Jobs[p].proc = Jobs[t].proc}
    IN  [p \in mine |-> Jobs[t].rel[p]]

Init ==
    /\ schedule \in Schedules \cup {NoSchedule} /\ now = 0
    /\ upload \in Uploads
    /\ pgraph = [c \in Cores |-> PartialGraph(WholeGraph, c)]
    /\ deadline = [t \in AllTasks |-> Jobs[t].deadline]
    /\ rel = [t \in AllTasks |-> PartialRelDeadlines(t)]
    /\ running = [c \in Cores |-> NoTask] /\ ends = [c \in Cores |-> 0]
    /\ finished = [c \in Cores |-> {}] /\ taskEnds = <<>> /\ worked = [c \in Cores |-> 0]
    /\ waits = [c \in Cores |-> {}] /\ alarm = [c \in Cores |-> {}]
    /\ sent = [p \in Peers |-> 0] /\ inbox = [p \in Peers |-> EmptyBuffer]
    /\ got = [s \in Sockets |-> <<>>]
    /\ failures = 0 /\ error = "none"

Awake(c) == waits[c] = {} /\ running[c] = NoTask /\ error = "none"

------------------------------------------------------------------------------
(* update_status: what is ready.                                              *)

Polled(c) == DropFinished(pgraph[c], finished[Other(c)])

\* is_message_available asks for the messages from its own pid to the remote one.
KeyAskedFor(t) == <<Jobs[t].socket.own, Jobs[t].socket.remote>>
IsMessageAvailable(t) == KeyAskedFor(t) \in GetAll(inbox[Jobs[t].socket.peer])

BlockedOnMessage(c) ==
    {t \in Roots(Polled(c)) : Kind(t) = "receive" /\ ~ IsMessageAvailable(t)}
WithFutureStart(c) ==
    {t \in Roots(Polled(c)) : c = "CPU" /\ Jobs[t].start # NoTime /\ Jobs[t].start > now}
EprRoots(c) == {t \in Roots(Polled(c)) : Kind(t) = "epr"}
TimeUntilBin(t) == IF schedule = NoSchedule THEN 0 ELSE TimeUntil(schedule, now, Jobs[t].bin)
WaitingForBin(c) == {t \in EprRoots(c) : TimeUntilBin(t) > 0}

Ready(c) ==
    Roots(Polled(c)) \ (BlockedOnMessage(c) \cup WithFutureStart(c) \cup WaitingForBin(c))

\* Those with the earliest deadline, if one has a deadline.  Which of several is
\* taken is a matter of dictionaries, or random.
EarliestDeadline(tasks) ==
    LET timed == {t \in tasks : deadline[t] # NoTime}
    IN  IF timed = {} THEN tasks
        ELSE {t \in timed : \A u \in timed : deadline[t] <= deadline[u]}

\* Pairs go before everything else, whatever the deadlines.
Candidates(c) ==
    LET pairs == Ready(c) \cap EprRoots(c)
    IN  IF pairs # {} THEN pairs ELSE EarliestDeadline(Ready(c))

\* Fault: the latest start time or bin is waited for.
LatestOfTimes(c) ==
    LET times == {Jobs[t].start : t \in WithFutureStart(c)}
                 \cup {now + TimeUntilBin(t) : t \in WaitingForBin(c)}
    IN  IF times = {} THEN {} ELSE {Max(times)}

\* The earliest start time, or the earliest bin.
TimesToWaitFor(c) ==
    LET times == {Jobs[t].start : t \in WithFutureStart(c)}
                 \cup {now + TimeUntilBin(t) : t \in WaitingForBin(c)}
    IN  IF times = {} THEN {} ELSE {Min(times)}

\* Fault: the other processor is waited for only if there is nothing else.
ReasonsInTurn(c) ==
    CASE BlockedOnMessage(c) # {} -> {"message"}
      [] TimesToWaitFor(c) # {} -> {"time"}
      [] BlockedOnlyOnExternal(Polled(c)) # {} -> {"other"}
      [] OTHER -> {}

Reasons(c) ==
    {r \in {"other", "message", "time"} :
        \/ r = "other" /\ BlockedOnlyOnExternal(Polled(c)) # {}
        \/ r = "message" /\ BlockedOnMessage(c) # {}
        \/ r = "time" /\ TimesToWaitFor(c) # {}}

------------------------------------------------------------------------------
(* The run loop.                                                              *)

\* A receive task looks for messages from the remote pid to its own this time,
\* and takes one from its own pid to the remote one if there are any; if not, it
\* takes whatever the peer has sent.
KeyTaken(t) ==
    LET s == Jobs[t].socket
    IN  IF <<s.remote, s.own>> \in GetAll(inbox[s.peer]) THEN KeyAskedFor(t)
        ELSE FirstFilled(inbox[s.peer])

Receive(t) ==
    LET s == Jobs[t].socket
        key == KeyTaken(t)
    IN  /\ got' = [got EXCEPT ![s] = Append(@, Head(MsgsOf(inbox[s.peer], key)))]
        /\ inbox' = [inbox EXCEPT ![s.peer] = PopMsg(@, key)]
        /\ UNCHANGED sent

StartTask(c) ==
    /\ Awake(c)
    /\ pgraph' = [pgraph EXCEPT ![c] = Polled(c)]
    /\ \E t \in Candidates(c) :
          /\ running' = [running EXCEPT ![c] = t]
          /\ ends' = [ends EXCEPT ![c] = now + Jobs[t].duration]
          /\ IF Kind(t) = "receive" THEN Receive(t) ELSE UNCHANGED mailVars
    /\ UNCHANGED <<schedule, now, upload, deadline, rel, finished, taskEnds, worked, failures,
                   waits, alarm, error>>

\* The CPU waits for a message by way of an event expression, of which there is
\* none if some buffer holds messages, be they for other programs.
NoExpression(c) == "message" \in Reasons(c) /\ \E p \in Peers : HasAny(inbox[p])

Sleep(c) ==
    /\ Awake(c) /\ Candidates(c) = {}
    /\ pgraph' = [pgraph EXCEPT ![c] = Polled(c)]
    /\ IF pgraph[c].tasks # {} /\ Reasons(c) = {}
       THEN error' = "RuntimeError" /\ UNCHANGED <<waits, alarm>>
       ELSE IF NoExpression(c)
       THEN error' = "TypeError" /\ UNCHANGED <<waits, alarm>>
       ELSE /\ waits' = [waits EXCEPT ![c] = {"tasks"} \cup Reasons(c)]
            /\ alarm' = [alarm EXCEPT ![c] = @ \cup TimesToWaitFor(c)]
            /\ UNCHANGED error
    /\ UNCHANGED <<schedule, now, upload, deadline, rel, execVars, mailVars>>

WokenBy(c, reason) == IF reason \in waits[c] THEN {} ELSE waits[c]

\* Fault: the deadlines stay as they are.
DeadlinesNotDecreased(c, amount) == deadline

\* decrease_deadlines, of the processor's own tasks.
DecreasedDeadlines(c, amount) ==
    [t \in AllTasks |-> IF t \in pgraph[c].tasks /\ deadline[t] # NoTime
                        THEN deadline[t] - amount ELSE deadline[t]]

\* remove_task: deadlines relative to the task become absolute, and replace the
\* ones that the other tasks have.
MadeAbsolute(dls, task) ==
    [t \in AllTasks |-> IF task \in DOMAIN rel[t] THEN rel[t][task] ELSE dls[t]]
WithoutRel(task) == [t \in AllTasks |-> Restrict(rel[t], DOMAIN rel[t] \ {task})]

FinishTask(c) ==
    /\ running[c] # NoTask /\ ends[c] = now /\ error = "none"
    /\ LET task == running[c]
       IN  /\ deadline' = MadeAbsolute(DecreasedDeadlines(c, Jobs[task].duration), task)
           /\ rel' = WithoutRel(task)
           /\ pgraph' = [pgraph EXCEPT ![c] = RemoveTask(@, task)]
           /\ finished' = [finished EXCEPT ![c] = @ \cup {task}]
           /\ taskEnds' = [t \in DOMAIN taskEnds \cup {task} |->
                            IF t = task THEN now ELSE taskEnds[t]]
           /\ worked' = [worked EXCEPT ![c] = @ + Jobs[task].duration]
    /\ running' = [running EXCEPT ![c] = NoTask]
    /\ waits' = [waits EXCEPT ![Other(c)] = WokenBy(Other(c), "other")]
    /\ UNCHANGED <<schedule, now, upload, ends, failures, alarm, mailVars, error>>

\* The pair was not generated: the task stays, and deadlines are not touched.
FailTask(c) ==
    /\ running[c] # NoTask /\ ends[c] = now /\ error = "none"
    /\ Kind(running[c]) = "epr" /\ failures < MaxFailures
    /\ failures' = failures + 1
    /\ running' = [running EXCEPT ![c] = NoTask]
    /\ UNCHANGED <<schedule, now, upload, graphVars, ends, finished, taskEnds, worked, waits,
                   alarm, mailVars, error>>

\* An EVENT_WAIT of the processor, also one of an earlier wait.
AlarmRings(c) ==
    /\ now \in alarm[c] /\ error = "none"
    /\ alarm' = [alarm EXCEPT ![c] = @ \ {now}]
    /\ waits' = [waits EXCEPT ![c] = WokenBy(c, "time")]
    /\ UNCHANGED <<schedule, now, upload, graphVars, execVars, mailVars, error>>

------------------------------------------------------------------------------
(* The surroundings.                                                          *)

\* A message of a peer arrives; its listener puts it into its buffer and tells
\* the CPU if that waits.
Arrive(peer) ==
    /\ error = "none" /\ sent[peer] < Len(upload.mail[peer])
    /\ upload.awaits[peer] \subseteq finished["CPU"]
    /\ sent' = [sent EXCEPT ![peer] = @ + 1]
    /\ inbox' = [inbox EXCEPT ![peer] = AddMsg(@, upload.mail[peer][sent'[peer]], sent'[peer])]
    /\ waits' = [waits EXCEPT !["CPU"] = WokenBy("CPU", "message")]
    /\ UNCHANGED <<schedule, now, upload, graphVars, execVars, alarm, got, error>>

\* Time goes on when nothing is due, as long as there is something to wait for.
Timers == UNION {alarm[c] : c \in Cores} \cup {ends[c] : c \in {d \in Cores : running[d] # NoTask}}
MailIsComing == \E p \in Peers : sent[p] < Len(upload.mail[p])
NothingDue == \A c \in Cores : ~ Awake(c) /\ now \notin alarm[c]
                               /\ (running[c] # NoTask => ends[c] > now)

Tick ==
    /\ error = "none" /\ NothingDue
    /\ Timers # {} \/ (MailIsComing /\ now < MaxTime)
    /\ now' = now + 1
    /\ UNCHANGED <<schedule, upload, graphVars, execVars, waits, alarm, mailVars, error>>

Next ==
    \/ \E c \in Cores : StartTask(c) \/ Sleep(c) \/ FinishTask(c) \/ FailTask(c) \/ AlarmRings(c)
    \/ \E p \in Peers : Arrive(p)
    \/ Tick

\* The simulator runs what is due, lets time pass, and delivers every message.
Fairness ==
    /\ \A c \in Cores : WF_vars(StartTask(c)) /\ WF_vars(Sleep(c)) /\ WF_vars(FinishTask(c))
                        /\ WF_vars(AlarmRings(c))
    /\ \A p \in Peers : WF_vars(Arrive(p))
    /\ WF_vars(Tick)

Spec == Init /\ [][Next]_vars /\ Fairness

------------------------------------------------------------------------------
(* Properties.                                                                *)

\* The messages that a peer sends over a socket, by number.
Sent(s, to) == {i \in 1..to : upload.mail[s.peer][i] = <<s.remote, s.own>>}

IsIncreasing(numbers) == \A i, j \in DOMAIN numbers : i < j => numbers[i] < numbers[j]

\* Programs that talk to each other have the same pid on both nodes.
PidsAgree == \A s \in Sockets : s.own = s.remote

\* A program receives the messages that were sent to it, in the order in which
\* they were sent, and the rest of them wait for it: none is lost, duplicated or
\* handed to another program.  It needs pids that agree.
MessagesReachTheirProgram ==
    PidsAgree =>
        \A s \in Sockets :
            LET all == got[s] \o MsgsOf(inbox[s.peer], <<s.remote, s.own>>)
            IN  IsIncreasing(all) /\ Range(all) = Sent(s, sent[s.peer])

\* The times by which a task must start: "task y must start at most time d time
\* units after task x has finished" (task.py).  Those relative to tasks of the other
\* processor do not count: partial_graph loses them.
Dues(t) ==
    {d \in {Jobs[t].deadline} : d # NoTime}
    \cup {taskEnds[x] + Jobs[t].rel[x] :
             x \in {y \in DOMAIN Jobs[t].rel \cap DOMAIN taskEnds : Jobs[y].proc = Jobs[t].proc}}

\* The time in which a processor has executed nothing, or without success.
IdleSoFar(c) == now - worked[c]

\* No task that could be started instead must start earlier than the one that is
\* started, but for two things.  Deadlines are kept by subtraction of what each task
\* took, which forgets idle time: a task may go first that is due later by as much.
\* And of several deadlines of a task the last one that was set counts, which is one
\* of them.
EarliestDueFirst ==
    [][\A c \in Cores :
          LET t == running'[c]
          IN  Awake(c) /\ t # NoTask /\ Kind(t) # "epr"
              => \A u \in Ready(c) : Dues(u) # {} =>
                     \E d \in Dues(t), e \in Dues(u) : d <= e + IdleSoFar(c)]_vars

\* When a bin starts for a pair task that could be executed, or rather first_bin
\* later, which is when the QPU takes it to start, and the QPU executes nothing else,
\* the task is started: no bin is slept through.
BinNotMissed ==
    [][now' # now /\ schedule # NoSchedule /\ FirstInBin(schedule)
          /\ IsInjective(schedule.pattern) /\ running["QPU"] = NoTask
       => \A t \in EprRoots("QPU") :
             AskedFor(schedule, now) \notin StartsOf(schedule, now, {Jobs[t].bin})]_vars

\* A receive task needs as many messages on its socket as there are tasks.
Answerable ==
    PidsAgree /\ \A s \in Sockets :
        Cardinality({t \in AllTasks : Kind(t) = "receive" /\ Jobs[t].socket = s})
            <= Cardinality(Sent(s, Len(upload.mail[s.peer])))

\* Every task is executed in the end, if the messages it takes are sent and the
\* CPU does not have to wait while there is a message for somebody else.
EveryTaskRuns == Answerable ~> (error = "TypeError" \/ \A c \in Cores : pgraph[c].tasks = {})
==============================================================================
