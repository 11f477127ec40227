------------------------------ MODULE HostCalls ------------------------------
(***************************************************************************)
(* How the programs of a node get their results: the host interprets       *)
(* classical blocks (qoala/sim/host/hostprocessor.py), prepares calls of   *)
(* routines and collects what they return; the drivers (sim/driver.py)     *)
(* hand the calls from CPU tasks to QPU tasks; the Qnos processor          *)
(* interprets local routines (sim/qnos/qnosprocessor.py) and the network   *)
(* stack executes requests and their callbacks                             *)
(* (sim/netstack/netstackprocessor.py).                                    *)
(*                                                                         *)
(* Which ready task a processor takes is left open: the order belongs to   *)
(* NodeScheduler.  There are enough physical qubits: scarcity belongs to   *)
(* QpuResources.  A value is a sequence of integers, of length 1 unless it *)
(* is a vector.                                                            *)
(***************************************************************************)
EXTENDS TaskGraph, SharedMemory, Integers

CONSTANTS
    Pids,
    Program,        \* per process, the sequence of its blocks
    LocalRoutine,   \* name -> [code, uses, keeps, returns]
    RequestRoutine, \* name -> [measure, sequential, pairs, callback, virts, returns]
    Inputs,         \* per process, the program inputs: variable -> value
    Vars,           \* the host variables
    VirtIds,
    Regs,           \* the registers of Qnos
    NoRoutine, NoPid

RoutineNames == DOMAIN LocalRoutine
RequestNames == DOMAIN RequestRoutine

IsSequence(s) == Len(s) \in Nat /\ DOMAIN s = 1..Len(s)

\* Blocks call routines that the program has, and jump to blocks that it has.
ASSUME HostAssumption ==
    /\ NoPid \notin Pids
    /\ \A p \in Pids : IsSequence(Program[p])
    /\ \A p \in Pids : \A i \in DOMAIN Program[p] :
          LET b == Program[p][i]
          IN  /\ b.typ \in {"CL", "QL", "QC"}
              /\ b.typ = "QL" => b.routine \in RoutineNames
              /\ b.typ = "QC" => b.routine \in RequestNames
              /\ b.typ = "CL" => IsSequence(b.code) /\ \A j \in DOMAIN b.code :
                    b.code[j].op \in {"branch", "jump"} => b.code[j].target \in DOMAIN Program[p]
    /\ \A r \in RequestNames :
          /\ RequestRoutine[r].pairs \in Nat
          /\ RequestRoutine[r].callback \in RoutineNames \cup {NoRoutine}

\* What instructions name: the host's operands are variables or elements of
\* vectors, those of Qnos are registers.
IsOperand(a) == a.name \in Vars /\ a.index \in Nat \ {0}
NamesVars(i) ==
    /\ i.op \in {"assign", "add", "mulc", "bcondmulc"} => i.to \in Vars
    /\ i.op \in {"assign", "mulc", "bcondmulc"} => i.const \in Int
    /\ i.op \in {"add", "mulc", "bcondmulc", "branch"} => IsOperand(i.a)
    /\ i.op \in {"add", "bcondmulc", "branch"} => IsOperand(i.b)
    /\ i.op = "return" => i.from \in Vars
NamesRegs(i) ==
    /\ i.op \in {"set", "store", "load", "meas"} => i.reg \in Regs
    /\ i.op = "set" => i.imm \in Int
    /\ i.op \in {"store", "load"} => i.index \in Regs
    /\ i.op = "compute" => /\ i.f \in {"add", "sub", "mul", "addm", "subm", "div", "rem"}
                           /\ {i.to, i.a, i.b, i.mod} \subseteq Regs
    /\ i.op \in {"init", "meas"} => i.q \in Regs
    /\ i.op = "gate" => i.qs \subseteq Regs

\* Instructions and calls name variables and registers that there are, and values
\* are integers; a request is for a pair at least, each at a qubit that there is.
ASSUME NamesAssumption ==
    /\ Unset \notin Int
    /\ \A p \in Pids : \A v \in DOMAIN Inputs[p] : Inputs[p][v] \in Int
    /\ \A p \in Pids : \A i \in DOMAIN Program[p] :
          LET b == Program[p][i]
          IN  /\ b.typ = "CL" => \A j \in DOMAIN b.code : NamesVars(b.code[j])
              /\ b.typ # "CL" => IsSequence(b.args) /\ IsSequence(b.results)
                                 /\ \A j \in DOMAIN b.args : b.args[j] \in Vars
    /\ \A n \in RoutineNames :
          /\ LocalRoutine[n].returns \in Nat
          /\ \A j \in DOMAIN LocalRoutine[n].code : NamesRegs(LocalRoutine[n].code[j])
    /\ \A r \in RequestNames :
          /\ RequestRoutine[r].pairs # 0 /\ RequestRoutine[r].returns \in Nat
          /\ \A i \in 1..RequestRoutine[r].pairs : RequestRoutine[r].virts[i] \in VirtIds

NoVar == << >>      \* a variable that was never written
Free == -1          \* a virtual qubit without state
Fresh == 0          \* one with a state made here; 1, 2, ... half of the pair of that index
NotSeen == -1
NoJump == 0
Idle == [pid |-> NoPid, task |-> Local, doing |-> "nothing", routine |-> NoRoutine,
         pc |-> 0, outcomes |-> << >>]
NotRunning == [input |-> 0, result |-> 0, cbIn |-> << >>, cbOut |-> << >>]

VARIABLES
    block, done, ptr,          \* per process: current block, finished tasks of it, its shared_ptr
    jumps,                     \* per process: target of the jump that was taken
    host, returned,            \* per process: host memory, program results
    shared, regs,              \* per process: shared memory, registers of Qnos
    localRun, requestRun,      \* per process: the running routines, by name
    qubits,                    \* per process: state of each virtual qubit
    calls,                     \* SharedSchedulerMemory: shared_ptr -> call tuple
    cpu, qpu,                  \* what each processor is doing
    seen,                      \* per process: outcomes measured in this block, by origin of the qubit
    fault                      \* the code raised an exception

control == <<block, ptr, jumps>>
hostVars == <<host, returned>>
runs == <<localRun, requestRun>>
vars == <<block, done, ptr, jumps, host, returned, shared, regs, localRun, requestRun,
          qubits, calls, cpu, qpu, seen, fault>>

\* An entry is added to a dictionary, or replaced.
Extended(f, key, value) ==
    [k \in DOMAIN f \cup {key} |-> IF k = key THEN value ELSE f[k]]

Current(p) == Program[p][block[p]]
Ended(p) == block[p] > Len(Program[p])
Request(p) == RequestRoutine[Current(p).routine]

\* The task graph of a block that the node scheduler hands out.
Shape(b) ==
    IF b.typ = "QC"
    THEN LET r == RequestRoutine[b.routine]
         IN  [typ |-> "QC", sequential |-> r.sequential, pairs |-> r.pairs,
              callback |-> r.callback # NoRoutine]
    ELSE [typ |-> b.typ, sequential |-> FALSE, pairs |-> 0, callback |-> FALSE]

Ready(p, t) ==
    /\ ~ fault /\ ~ Ended(p)
    /\ t \in TasksOf(Shape(Current(p))) \ done[p]
    /\ PredsOf(Shape(Current(p)), t) \subseteq done[p]

Finish(p, t) == done' = [done EXCEPT ![p] = @ \cup {t}]

Init ==
    /\ block = [p \in Pids |-> 1] /\ done = [p \in Pids |-> {}]
    /\ ptr = [p \in Pids |-> 1] /\ jumps = [p \in Pids |-> NoJump]
    /\ host = [p \in Pids |-> [v \in Vars |-> IF v \in DOMAIN Inputs[p]
                                              THEN <<Inputs[p][v]>> ELSE NoVar]]
    /\ returned = [p \in Pids |-> [v \in Vars |-> NoVar]]
    /\ shared = [p \in Pids |-> NoArrays]
    /\ regs = [p \in Pids |-> [r \in Regs |-> 0]]
    /\ localRun = [p \in Pids |-> [n \in RoutineNames |-> NotRunning]]
    /\ requestRun = [p \in Pids |-> [n \in RequestNames |-> NotRunning]]
    /\ qubits = [p \in Pids |-> [v \in VirtIds |-> Free]]
    /\ calls = << >>
    /\ cpu = Idle /\ qpu = Idle
    /\ seen = [p \in Pids |-> << >>]
    /\ fault = FALSE

------------------------------------------------------------------------------
(* The host interprets a classical block, one instruction per step.           *)

CpuMayStart(p, t) == cpu = Idle /\ Ready(p, t)

StartHostLocal(p) ==
    /\ CpuMayStart(p, Local)
    /\ cpu' = [Idle EXCEPT !.pid = p, !.task = Local, !.doing = "code", !.pc = 1]
    /\ UNCHANGED <<control, done, hostVars, shared, regs, runs, qubits, calls, qpu, seen, fault>>

HostInstr == Program[cpu.pid][block[cpu.pid]].code[cpu.pc]
\* The rest of the block is skipped after a jump that is taken.
HostCodeDone ==
    \/ cpu.pc > Len(Program[cpu.pid][block[cpu.pid]].code)
    \/ jumps[cpu.pid] # NoJump
HostExecutes(op) ==
    /\ ~ fault /\ cpu.doing = "code" /\ ~ HostCodeDone
    /\ HostInstr.op = op
    /\ cpu' = [cpu EXCEPT !.pc = @ + 1]
    /\ UNCHANGED <<block, ptr, done, shared, regs, runs, qubits, calls, qpu, seen>>

\* An operand is a variable, or an element of a vector; reading one that does
\* not exist raises.
Exists(arg) == Len(host[cpu.pid][arg.name]) >= arg.index
Value(arg) == IF Exists(arg) THEN host[cpu.pid][arg.name][arg.index] ELSE 0
HostWrite(value, args) ==
    /\ host' = [host EXCEPT ![cpu.pid][HostInstr.to] = <<value>>]
    /\ fault' = ~ \A a \in args : Exists(a)
    /\ jumps' = [jumps EXCEPT ![cpu.pid] = NoJump]
    /\ UNCHANGED returned

AssignCValue == HostExecutes("assign") /\ HostWrite(HostInstr.const, {})
AddCValue ==
    /\ HostExecutes("add")
    /\ HostWrite(Value(HostInstr.a) + Value(HostInstr.b), {HostInstr.a, HostInstr.b})
MultiplyConstantCValue ==
    /\ HostExecutes("mulc")
    /\ HostWrite(Value(HostInstr.a) * HostInstr.const, {HostInstr.a})

\* Fault: the product is taken when the condition is any bit but 1.
BitConditionInverted ==
    /\ HostExecutes("bcondmulc")
    /\ HostWrite(IF Value(HostInstr.b) # 1 THEN Value(HostInstr.a) * HostInstr.const
                 ELSE Value(HostInstr.a), {HostInstr.a, HostInstr.b})

BitConditionalMultiplyConstantCValue ==
    /\ HostExecutes("bcondmulc")
    /\ HostWrite(IF Value(HostInstr.b) = 1 THEN Value(HostInstr.a) * HostInstr.const
                 ELSE Value(HostInstr.a), {HostInstr.a, HostInstr.b})

ReturnResult ==
    /\ HostExecutes("return")
    /\ returned' = [returned EXCEPT ![cpu.pid][HostInstr.from] = host[cpu.pid][HostInstr.from]]
    /\ fault' = (host[cpu.pid][HostInstr.from] = NoVar)
    /\ jumps' = [jumps EXCEPT ![cpu.pid] = NoJump]
    /\ UNCHANGED host

Compare(rel, a, b) ==
    CASE rel = "eq" -> a = b [] rel = "ne" -> a # b
      [] rel = "lt" -> a < b [] rel = "gt" -> a > b

\* A taken branch is recorded for the node scheduler and ends the block.
BranchIf ==
    /\ HostExecutes("branch")
    /\ fault' = ~ (Exists(HostInstr.a) /\ Exists(HostInstr.b))
    /\ jumps' = [jumps EXCEPT ![cpu.pid] =
                   IF Compare(HostInstr.rel, Value(HostInstr.a), Value(HostInstr.b))
                   THEN HostInstr.target ELSE NoJump]
    /\ UNCHANGED hostVars

Jump ==
    /\ HostExecutes("jump")
    /\ jumps' = [jumps EXCEPT ![cpu.pid] = HostInstr.target]
    /\ UNCHANGED <<hostVars, fault>>

HostStep ==
    \/ AssignCValue \/ AddCValue \/ MultiplyConstantCValue
    \/ BitConditionalMultiplyConstantCValue \/ ReturnResult \/ BranchIf \/ Jump

EndHostLocal ==
    /\ ~ fault /\ cpu.doing = "code" /\ HostCodeDone
    /\ Finish(cpu.pid, cpu.task)
    /\ cpu' = Idle
    /\ UNCHANGED <<control, hostVars, shared, regs, runs, qubits, calls, qpu, seen, fault>>

------------------------------------------------------------------------------
(* Calls: the host writes arguments to new arrays, allocates arrays for the   *)
(* results, and leaves the addresses where the other tasks of the block find  *)
(* them.                                                                      *)

\* The values of the arguments, by name: a name that occurs twice counts once.
ArgValues(p, args) ==
    LET firsts == {i \in DOMAIN args : \A j \in 1..(i - 1) : args[j] # args[i]}
        nth(k) == CHOOSE i \in firsts : Cardinality({j \in firsts : j <= i}) = k
    IN  [k \in 1..Cardinality(firsts) |->
            IF host[p][args[nth(k)]] = NoVar THEN 0 ELSE host[p][args[nth(k)]][1]]

ResultSize(b) == IF b.shape = "vector" THEN b.size ELSE Len(b.results)

\* Callback arrays are allocated per pair, or once for all pairs.
CallbackCount(r) ==
    IF r.callback = NoRoutine THEN 0 ELSE IF r.sequential THEN r.pairs ELSE 1
CallbackReturns(r) ==
    IF r.callback = NoRoutine THEN 0 ELSE LocalRoutine[r.callback].returns

LrCall(p) ==
    LET in == Len(shared[p]) + 1
    IN  [input |-> in, result |-> in + 1, cbIn |-> << >>, cbOut |-> << >>]

LrArrays(p) ==
    <<FilledArray("LR_in", ArgValues(p, Current(p).args)),
      Array("LR_out", ResultSize(Current(p)))>>

\* Fault: the callbacks of all pairs get the addresses of the first.
RrCallSharedOutput(p) ==
    LET n == CallbackCount(Request(p))
        in == Len(shared[p]) + 1
    IN  [input |-> in, result |-> in + 2 * n + 1,
         cbIn |-> [i \in 1..n |-> in + 1], cbOut |-> [i \in 1..n |-> in + 2]]

RrCall(p) ==
    LET n == CallbackCount(Request(p))
        in == Len(shared[p]) + 1
    IN  [input |-> in, result |-> in + 2 * n + 1,
         cbIn  |-> [i \in 1..n |-> in + 2 * i - 1],
         cbOut |-> [i \in 1..n |-> in + 2 * i]]

RrArrays(p) ==
    LET r == Request(p)
        n == CallbackCount(r)
        ofCallbacks == [k \in 1..(2 * n) |->
            IF k % 2 = 1 THEN Array("CR_in", LocalRoutine[r.callback].args)
                         ELSE Array("LR_out", CallbackReturns(r))]
    IN  <<FilledArray("RR_in", ArgValues(p, Current(p).args))>> \o ofCallbacks
            \o <<Array("RR_out", r.returns)>>

\* The number of results that a call of the current block gives.
ReturnSize(p) ==
    IF Current(p).typ = "QL" THEN LocalRoutine[Current(p).routine].returns
    ELSE Request(p).returns + CallbackCount(Request(p)) * CallbackReturns(Request(p))

PreCall(p, call, arrays) ==
    /\ CpuMayStart(p, Pre)
    /\ shared' = [shared EXCEPT ![p] = @ \o arrays]
    /\ calls' = Extended(calls, <<p, ptr[p]>>, call)
    /\ fault' = \/ ResultSize(Current(p)) # ReturnSize(p)
                \/ \E i \in DOMAIN Current(p).args : host[p][Current(p).args[i]] = NoVar
    /\ cpu' = [Idle EXCEPT !.pid = p, !.task = Pre, !.doing = "waiting"]
    /\ UNCHANGED <<control, done, hostVars, regs, runs, qubits, qpu, seen>>

PrepareLrCall(p) == ~ Ended(p) /\ Current(p).typ = "QL" /\ PreCall(p, LrCall(p), LrArrays(p))
PrepareRrCall(p) == ~ Ended(p) /\ Current(p).typ = "QC" /\ PreCall(p, RrCall(p), RrArrays(p))

CallOf(p) == calls[<<p, ptr[p]>>]

\* Where the results of a finished call are, in the order the host reads them:
\* the request's own results, then those of the callbacks, pair by pair.
ResultArrays(p) ==
    IF Current(p).typ = "QL"
    THEN << [at |-> CallOf(p).result, region |-> "LR_out", size |-> ReturnSize(p)] >>
    ELSE << [at |-> CallOf(p).result, region |-> "RR_out", size |-> Request(p).returns] >>
         \o [i \in 1..CallbackCount(Request(p)) |->
               [at |-> CallOf(p).cbOut[i], region |-> "LR_out",
                size |-> CallbackReturns(Request(p))]]

\* Results of the arrays one after the other; all callbacks return equally many.
Collected(p) ==
    LET arrays == ResultArrays(p)
        own == arrays[1].size
        each == IF Len(arrays) > 1 THEN arrays[2].size ELSE 1
    IN  [k \in 1..ReturnSize(p) |->
            IF k <= own THEN shared[p][arrays[1].at].data[k]
            ELSE shared[p][arrays[2 + (k - own - 1) \div each].at].data[((k - own - 1) % each) + 1]]

\* Results go to one variable each, or all to one vector: the two forms that
\* RunSubroutineOp and RunRequestOp accept (hostlang.py:597-606), so that the branch
\* for a single variable (hostprocessor.py:318, 460) is never reached.
PostCall(p) ==
    /\ CpuMayStart(p, Post)
    /\ LET ok == \A i \in DOMAIN ResultArrays(p) :
                    LET a == ResultArrays(p)[i] IN LegalRead(shared[p], a.at, a.region, 0, a.size)
           results == Current(p).results
       IN  /\ fault' = ~ ok
           /\ host' = IF ~ ok THEN host
                      ELSE IF Current(p).shape = "vector"
                      THEN [host EXCEPT ![p][results[1]] = Collected(p)]
                      ELSE [host EXCEPT ![p] = [v \in Vars |->
                              IF \E k \in DOMAIN results : results[k] = v
                              THEN <<Collected(p)[CHOOSE k \in DOMAIN results :
                                        results[k] = v /\ \A j \in DOMAIN results :
                                            results[j] = v => j <= k]>>
                              ELSE @[v]]]
    /\ cpu' = [Idle EXCEPT !.pid = p, !.task = Post, !.doing = "waiting"]
    /\ UNCHANGED <<control, done, returned, shared, regs, runs, qubits, calls, qpu, seen>>

\* The time that a PreCall or PostCall takes has passed.
EndCall ==
    /\ ~ fault /\ cpu.doing = "waiting"
    /\ Finish(cpu.pid, cpu.task)
    /\ cpu' = Idle
    /\ UNCHANGED <<control, hostVars, shared, regs, runs, qubits, calls, qpu, seen, fault>>

\* The node scheduler hands out the next block, which a jump may have chosen.
NextBlock(p) ==
    /\ ~ fault /\ ~ Ended(p)
    /\ TasksOf(Shape(Current(p))) = done[p]
    /\ block' = [block EXCEPT ![p] = IF jumps[p] # NoJump THEN jumps[p] ELSE @ + 1]
    /\ jumps' = [jumps EXCEPT ![p] = NoJump]
    /\ ptr' = [ptr EXCEPT ![p] = @ + 1]
    /\ done' = [done EXCEPT ![p] = {}]
    /\ seen' = [seen EXCEPT ![p] = << >>]
    /\ UNCHANGED <<hostVars, shared, regs, runs, qubits, calls, cpu, qpu, fault>>

------------------------------------------------------------------------------
(* Qnos interprets the code of a routine, one instruction per step.           *)

QpuMayStart(p, t) == qpu = Idle /\ Ready(p, t)

\* The routine gets the qubits it uses and lacks, becomes the running routine
\* of its name, and starts.
RunCode(p, t, name, input, result) ==
    /\ qubits' = [qubits EXCEPT ![p] = [v \in VirtIds |->
                    IF v \in LocalRoutine[name].uses /\ @[v] = Free THEN Fresh ELSE @[v]]]
    /\ localRun' = [localRun EXCEPT ![p][name].input = input, ![p][name].result = result]
    /\ qpu' = [Idle EXCEPT !.pid = p, !.task = t, !.doing = "code", !.routine = name, !.pc = 1]
    /\ UNCHANGED <<control, done, hostVars, shared, regs, requestRun, calls, cpu, seen, fault>>

StartLocalRoutine(p) ==
    /\ QpuMayStart(p, Routine)
    /\ RunCode(p, Routine, Current(p).routine, CallOf(p).input, CallOf(p).result)

\* A callback takes its addresses from the running request of that name, which
\* its pair task has set.
StartCallback(p, t, index) ==
    /\ QpuMayStart(p, t) /\ IsCallback(t)
    /\ LET run == requestRun[p][Current(p).routine]
       IN  RunCode(p, t, Request(p).callback, run.cbIn[index], run.cbOut[index])

Code == LocalRoutine[qpu.routine].code
Instr == Code[qpu.pc]
Reg(r) == regs[qpu.pid][r]
Running == localRun[qpu.pid][qpu.routine]

Executes(op) ==
    /\ ~ fault /\ qpu.doing = "code" /\ qpu.pc \in DOMAIN Code
    /\ Instr.op = op
    /\ UNCHANGED <<control, done, hostVars, runs, calls, cpu>>
NextInstr == qpu' = [qpu EXCEPT !.pc = @ + 1]
SetReg(r, value) == regs' = [regs EXCEPT ![qpu.pid][r] = value]

Set ==
    /\ Executes("set") /\ NextInstr
    /\ SetReg(Instr.reg, Instr.imm)
    /\ UNCHANGED <<shared, qubits, seen, fault>>

Store ==
    /\ Executes("store") /\ NextInstr
    /\ LET ok == LegalWrite(shared[qpu.pid], Running.result, "LR_out", Reg(Instr.index), 1)
       IN  /\ fault' = ~ ok
           /\ shared' = IF ~ ok THEN shared
                        ELSE [shared EXCEPT ![qpu.pid] =
                                Write(@, Running.result, Reg(Instr.index), <<Reg(Instr.reg)>>)]
    /\ UNCHANGED <<regs, qubits, seen>>

Load ==
    /\ Executes("load") /\ NextInstr
    /\ LET read == DataAt(shared[qpu.pid], Running.input, Reg(Instr.index), 1)
           ok == /\ LegalRead(shared[qpu.pid], Running.input, "LR_in", Reg(Instr.index), 1)
                 /\ Len(read) = 1
       IN  /\ fault' = ~ ok
           /\ regs' = IF ~ ok THEN regs ELSE [regs EXCEPT ![qpu.pid][Instr.reg] = read[1]]
    /\ UNCHANGED <<shared, qubits, seen>>

\* Python's // and %, which round towards minus infinity.
FloorDiv(a, b) == IF b > 0 THEN a \div b ELSE (-a) \div (-b)
FloorMod(a, b) == IF b > 0 THEN a % b ELSE -((-a) % (-b))

Result(op, a, b, m) ==
    CASE op = "add" -> a + b [] op = "sub" -> a - b [] op = "mul" -> a * b
      [] op = "addm" -> FloorMod(a + b, m) [] op = "subm" -> FloorMod(a - b, m)
      [] op = "div" -> FloorDiv(a, b) [] op = "rem" -> FloorMod(a, b)

Compute ==
    /\ Executes("compute") /\ NextInstr
    /\ LET f == Instr.f
           ok == /\ (f \in {"addm", "subm"} => Reg(Instr.mod) >= 1)
                 /\ (f \in {"div", "rem"} => Reg(Instr.b) # 0)
       IN  /\ fault' = ~ ok
           /\ regs' = IF ~ ok THEN regs
                      ELSE [regs EXCEPT ![qpu.pid][Instr.to] =
                              Result(f, Reg(Instr.a), Reg(Instr.b), Reg(Instr.mod))]
    /\ UNCHANGED <<shared, qubits, seen>>

\* A jump is relative to the branch; a jump of 0 lines counts as none.
Branch ==
    /\ Executes("branch")
    /\ LET taken == Instr.rel = "always" \/ Compare(Instr.rel, Reg(Instr.a), Reg(Instr.b))
       IN  qpu' = [qpu EXCEPT !.pc =
                     IF taken /\ Instr.offset # 0 THEN @ + Instr.offset ELSE @ + 1]
    /\ UNCHANGED <<shared, regs, qubits, seen, fault>>

\* Gates change the state of qubits that the process has.
InitQubit ==
    /\ Executes("init") /\ NextInstr
    /\ fault' = (qubits[qpu.pid][Reg(Instr.q)] = Free)
    /\ qubits' = [qubits EXCEPT ![qpu.pid][Reg(Instr.q)] = IF @ = Free THEN Free ELSE Fresh]
    /\ UNCHANGED <<shared, regs, seen>>

Gate ==
    /\ Executes("gate") /\ NextInstr
    /\ fault' = \E q \in Instr.qs : qubits[qpu.pid][Reg(q)] = Free
    /\ UNCHANGED <<shared, regs, qubits, seen>>

Note(p, origin, m) == seen' = [seen EXCEPT ![p] = Extended(@, origin, m)]

Measure ==
    /\ Executes("meas") /\ NextInstr
    /\ LET origin == qubits[qpu.pid][Reg(Instr.q)]
       IN  /\ fault' = (origin = Free)
           /\ \E m \in {0, 1} : SetReg(Instr.reg, m) /\ Note(qpu.pid, origin, m)
    /\ UNCHANGED <<shared, qubits>>

QnosStep ==
    Set \/ Store \/ Load \/ Compute \/ Branch \/ InitQubit \/ Gate \/ Measure

\* The qubits that need not be kept are freed.
EndRoutine ==
    /\ ~ fault /\ qpu.doing = "code" /\ qpu.pc \notin DOMAIN Code
    /\ Finish(qpu.pid, qpu.task)
    /\ qubits' = [qubits EXCEPT ![qpu.pid] = [v \in VirtIds |->
                    IF v \in LocalRoutine[qpu.routine].uses \ LocalRoutine[qpu.routine].keeps
                    THEN Free ELSE @[v]]]
    /\ qpu' = Idle
    /\ UNCHANGED <<control, hostVars, shared, regs, runs, calls, cpu, seen, fault>>

------------------------------------------------------------------------------
(* Requests: a pair task makes its call the running request of that name,     *)
(* takes a qubit, and waits for the answer of the entanglement distributor.   *)

\* Fault: a request of that name that is running already is left as it is.
InstantiateOnce(p) ==
    requestRun' = IF requestRun[p][Current(p).routine] # NotRunning THEN requestRun
                  ELSE [requestRun EXCEPT ![p][Current(p).routine] = CallOf(p)]

InstantiateRoutine(p) ==
    requestRun' = [requestRun EXCEPT ![p][Current(p).routine] = CallOf(p)]

\* The task of a pair starts when the qubits that it takes are free.
StartPairs(p, t, indices) ==
    /\ QpuMayStart(p, t) /\ t[1] \in EprKinds
    /\ \A i \in indices : qubits[p][Request(p).virts[i]] = Free
    /\ InstantiateRoutine(p)
    /\ LET i == CHOOSE i \in indices : \A j \in indices : i <= j
       IN  /\ qubits' = [qubits EXCEPT ![p][Request(p).virts[i]] = i]
           /\ qpu' = [Idle EXCEPT !.pid = p, !.task = t, !.doing = "pair", !.pc = i]
    /\ UNCHANGED <<control, done, hostVars, shared, regs, localRun, calls, cpu, seen, fault>>

StartSinglePair(p, i) == StartPairs(p, Pair(i), {i})
StartMultiPair(p) == StartPairs(p, Multi, 1..Request(p).pairs)

WaitsForPair == ~ fault /\ qpu.doing = "pair"
PairQubit == Request(qpu.pid).virts[qpu.pc]
LastPair == qpu.task # Multi \/ qpu.pc = Request(qpu.pid).pairs

\* The qubit of the next pair of the request is taken.
NextPair(states, outcomes) ==
    LET next == Request(qpu.pid).virts[qpu.pc + 1]
    IN  /\ fault' = (states[next] # Free)
        /\ qubits' = [qubits EXCEPT ![qpu.pid] = [states EXCEPT ![next] = qpu.pc + 1]]
        /\ qpu' = [qpu EXCEPT !.pc = @ + 1, !.outcomes = outcomes]

\* A pair that is kept; the pair of a task of its own is, whatever the request
\* says.
MeasuredDirectly == Request(qpu.pid).measure /\ qpu.task = Multi
KeepPair ==
    /\ WaitsForPair /\ ~ MeasuredDirectly
    /\ IF LastPair
       THEN Finish(qpu.pid, qpu.task) /\ qpu' = Idle /\ UNCHANGED <<qubits, fault>>
       ELSE NextPair(qubits[qpu.pid], << >>) /\ UNCHANGED done
    /\ UNCHANGED <<control, hostVars, shared, regs, runs, calls, cpu, seen>>

\* Fault: the outcomes are gathered in reverse.
GatheredInReverse(outcomes, m) == <<m>> \o outcomes

Gathered(outcomes, m) == Append(outcomes, m)

\* A pair of a request whose pairs are measured as they come; the outcomes of
\* all are written at the end.
MeasurePair ==
    /\ WaitsForPair /\ MeasuredDirectly
    /\ \E m \in {0, 1} :
        LET p == qpu.pid
            outcomes == Gathered(qpu.outcomes, m)
            result == requestRun[p][Current(p).routine].result
            ok == LegalWrite(shared[p], result, "RR_out", 0, Len(outcomes))
            freed == [qubits[p] EXCEPT ![PairQubit] = Free]
        IN  /\ Note(p, qpu.pc, m)
            /\ IF ~ LastPair THEN NextPair(freed, outcomes) /\ UNCHANGED <<shared, done>>
               ELSE /\ fault' = ~ ok
                    /\ shared' = IF ~ ok THEN shared
                                 ELSE [shared EXCEPT ![p] = Write(@, result, 0, outcomes)]
                    /\ qubits' = [qubits EXCEPT ![p] = freed]
                    /\ Finish(p, qpu.task) /\ qpu' = Idle
    /\ UNCHANGED <<control, hostVars, regs, runs, calls, cpu>>

\* No pair: the qubit is freed, and the task stays in the graph to be tried again.
PairFails ==
    /\ WaitsForPair
    /\ qubits' = [qubits EXCEPT ![qpu.pid][PairQubit] = Free]
    /\ qpu' = Idle
    /\ UNCHANGED <<control, done, hostVars, shared, regs, runs, calls, cpu, seen, fault>>

------------------------------------------------------------------------------
Next ==
    \/ HostStep \/ EndHostLocal \/ EndCall
    \/ QnosStep \/ EndRoutine
    \/ KeepPair \/ MeasurePair \/ PairFails
    \/ \E p \in Pids :
        \/ StartHostLocal(p) \/ PrepareLrCall(p) \/ PrepareRrCall(p) \/ PostCall(p)
        \/ NextBlock(p) \/ StartLocalRoutine(p) \/ StartMultiPair(p)
        \/ StartCallback(p, MultiCb, 1)
        \/ ~ Ended(p) /\ Current(p).typ = "QC" /\ \E i \in 1..Request(p).pairs :
               StartSinglePair(p, i) \/ StartCallback(p, PairCb(i), i)

Spec == Init /\ [][Next]_vars

------------------------------------------------------------------------------
\* No access is refused: every address is of the region and size that its user
\* expects, the host reads results that have all been written, no variable is
\* read that does not exist, and no qubit is taken twice or missed.  The one
\* exception is a call that names a variable twice: the host collects arguments
\* by name (hostprocessor.py:284-294), so that the array has a slot less than the
\* call has arguments, and only the load of an argument past it is refused.
NamesTwice(b) == \E i, j \in DOMAIN b.args : i # j /\ b.args[i] = b.args[j]
LoadsPastArguments ==
    /\ qpu.doing = "code" /\ qpu.task = Routine
    /\ Code[qpu.pc - 1].op = "load"
    /\ Reg(Code[qpu.pc - 1].index) \in
          Len(shared[qpu.pid][Running.input].data)..(Len(Current(qpu.pid).args) - 1)
EveryAccessIsLegal == fault => LoadsPastArguments /\ NamesTwice(Current(qpu.pid))

\* While a callback runs, the running request of its name and the running
\* routine of the callback's name belong to its own call, not to an earlier one
\* of the same name: the tables are keyed by name and never cleaned, and a
\* callback task, unlike a pair task, takes what it finds
\* (netstackprocessor.py:168, 212; memory.py:93-106).
CallbackFindsItsCall ==
    (qpu.doing = "code" /\ IsCallback(qpu.task)) =>
        LET p == qpu.pid
            index == IF qpu.task = MultiCb THEN 1 ELSE qpu.task[2]
        IN  /\ requestRun[p][Current(p).routine] = CallOf(p)
            /\ Running = [NotRunning EXCEPT !.input = CallOf(p).cbIn[index],
                                            !.result = CallOf(p).cbOut[index]]

\* What is written to shared memory is never overwritten: no later task, retry
\* or call uses a slot that holds the result or argument of an earlier one
\* (sharedmem.py:79-83).
WrittenOnce ==
    [][\A p \in Pids : \A a \in DOMAIN shared[p] : \A i \in DOMAIN shared[p][a].data :
          shared[p][a].data[i] # Unset => shared'[p][a].data[i] = shared[p][a].data[i]]_vars
=============================================================================
