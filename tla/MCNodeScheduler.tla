--------------------------- MODULE MCNodeScheduler ---------------------------
(* Small programs that between them use every type of block, a jump forward, *)
(* a conditional jump back, callbacks, and two pairs in one request.         *)
EXTENDS NodeScheduler

CONSTANTS p1, p2, Choice

Plain(typ) == [typ |-> typ, sequential |-> FALSE, pairs |-> 1, callback |-> FALSE,
               targets |-> {}, falls |-> TRUE, tail |-> FALSE]
Request(seq, n, cb) ==
    [Plain("QC") EXCEPT !.sequential = seq, !.pairs = n, !.callback = cb]
Jump(target, tail) == [Plain("CL") EXCEPT !.targets = {target}, !.falls = FALSE, !.tail = tail]
Branch(target) == [Plain("CL") EXCEPT !.targets = {target}]
BranchTail(target) == [Branch(target) EXCEPT !.tail = TRUE]

MCPidOrder == <<p1, p2>>
NoDependency == [p \in {p1, p2} |-> NoPid]
Linear == [p \in {p1, p2} |-> IF p = p2 THEN p1 ELSE NoPid]

\* Two pairs with callbacks, generated in any order, and a message, against local
\* quantum work behind a jump.
Mixed == [p \in {p1, p2} |->
    IF p = p1 THEN <<Request(TRUE, 2, TRUE), Plain("CC")>>
              ELSE <<Jump(3, FALSE), Plain("CC"), Plain("QL")>>]

\* Classical work and a request, against a loop around a receive whose
\* jump is followed by instructions.
Loops == [p \in {p1, p2} |->
    IF p = p1 THEN <<Plain("CL"), Request(FALSE, 1, FALSE)>>
              ELSE <<Plain("CC"), BranchTail(1)>>]

\* Classical blocks, one with instructions that follow its jump, beside a block
\* of local quantum work.
Tails == [p \in {p1, p2} |->
    IF p = p1 THEN <<Plain("QL")>> ELSE <<Plain("CL"), Jump(3, TRUE), Plain("CL")>>]

MCProgram == CASE Choice = "mixed" -> Mixed [] Choice = "loops" -> Loops
               [] Choice = "tails" -> Tails
==============================================================================
