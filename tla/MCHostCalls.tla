----------------------------- MODULE MCHostCalls -----------------------------
(* Two programs that between them call a local routine, and request pairs     *)
(* that are measured directly, or kept for a callback on all or on each.      *)
EXTENDS HostCalls, FiniteSetsExt

CONSTANTS p1, p2

El(name, index) == [name |-> name, index |-> index]
Var(name) == El(name, 1)
CL(code) == [typ |-> "CL", code |-> code]
QL(routine, args, results) ==
    [typ |-> "QL", routine |-> routine, args |-> args, shape |-> "tuple",
     results |-> results, size |-> 0]
QC(routine, results) == [QL(routine, << >>, results) EXCEPT !.typ = "QC"]
QCVector(routine, name, size) ==
    [QC(routine, <<name>>) EXCEPT !.shape = "vector", !.size = size]

Assign(to, c) == [op |-> "assign", to |-> to, const |-> c]
Add(to, a, b) == [op |-> "add", to |-> to, a |-> a, b |-> b]
MulC(to, a, c) == [op |-> "mulc", to |-> to, a |-> a, const |-> c]
BitMulC(to, a, b, c) == [op |-> "bcondmulc", to |-> to, a |-> a, b |-> b, const |-> c]
Return(from) == [op |-> "return", from |-> from]
BranchLt(a, b, target) == [op |-> "branch", rel |-> "lt", a |-> a, b |-> b, target |-> target]
JumpTo(target) == [op |-> "jump", target |-> target]

SetR(r, i) == [op |-> "set", reg |-> r, imm |-> i]
StoreR(r, i) == [op |-> "store", reg |-> r, index |-> i]
LoadR(r, i) == [op |-> "load", reg |-> r, index |-> i]
AddR(to, a, b) == [op |-> "compute", f |-> "add", to |-> to, a |-> a, b |-> b, mod |-> a]
Beq(a, b, n) == [op |-> "branch", rel |-> "eq", a |-> a, b |-> b, offset |-> n]
Meas(q, r) == [op |-> "meas", q |-> q, reg |-> r]

\* Of one pair, or of two, the outcomes (as meas_1_pair and meas_2_pairs of
\* src/tests/test_callbacks_2_pairs.iqoala); of a fresh qubit, the outcome
\* added to the argument, by way of a branch; of two arguments, their sum.
MCLocalRoutine == [
    meas_1 |-> [args |-> 0, returns |-> 1, uses |-> {0}, keeps |-> {},
        code |-> <<SetR("C0", 0), SetR("Q0", 0), Meas("Q0", "M0"), StoreR("M0", "C0")>>],
    meas_2 |-> [args |-> 0, returns |-> 2, uses |-> {0, 1}, keeps |-> {},
        code |-> <<SetR("C0", 0), SetR("C1", 1), SetR("Q0", 0), SetR("Q1", 1),
                   [op |-> "gate", qs |-> {"Q0", "Q1"}],
                   Meas("Q0", "M0"), Meas("Q1", "M1"),
                   StoreR("M0", "C0"), StoreR("M1", "C1")>>],
    toss   |-> [args |-> 1, returns |-> 1, uses |-> {0}, keeps |-> {},
        code |-> <<SetR("C0", 0), SetR("Q0", 0), [op |-> "init", q |-> "Q0"],
                   [op |-> "gate", qs |-> {"Q0"}], Meas("Q0", "M0"),
                   LoadR("R0", "C0"), Beq("M0", "C0", 2),
                   AddR("R0", "R0", "M0"), StoreR("R0", "C0")>>],
    plus   |-> [args |-> 2, returns |-> 1, uses |-> {}, keeps |-> {},
        code |-> <<SetR("C0", 0), SetR("C1", 1), LoadR("R0", "C0"), LoadR("M0", "C1"),
                   AddR("R0", "R0", "M0"), StoreR("R0", "C0")>>]]

MCRequestRoutine == [
    each   |-> [measure |-> FALSE, sequential |-> TRUE, pairs |-> 2, callback |-> "meas_1",
                virts |-> <<0, 0>>, returns |-> 0],
    all    |-> [measure |-> FALSE, sequential |-> FALSE, pairs |-> 2, callback |-> "meas_2",
                virts |-> <<0, 1>>, returns |-> 0],
    direct |-> [measure |-> TRUE, sequential |-> FALSE, pairs |-> 2, callback |-> NoRoutine,
                virts |-> <<0, 0>>, returns |-> 2]]

MCVars == {"i", "one", "n", "a", "b", "v", "sum"}
MCInputs == [p \in {p1, p2} |-> 
    IF p = p1 THEN [n |-> 2, one |-> 1, i |-> 0, sum |-> 0] ELSE [n |-> 3]]

\* p1 requests two pairs with a callback on each, twice, adds up the outcomes, and
\* requests two pairs with a callback on both.  p2 tosses on top of its input,
\* requests two pairs that are measured, multiplies if the second outcome is 1, and
\* adds its input to the result, and then to itself.
MCProgram == [p \in {p1, p2} |->
    IF p = p1
    THEN <<QC("each", <<"a", "b">>),
           CL(<<MulC("a", Var("a"), 10), Add("sum", Var("sum"), Var("a")),
                Add("sum", Var("sum"), Var("b")), Add("i", Var("i"), Var("one")),
                BranchLt(Var("i"), Var("n"), 1), Return("sum")>>),
           QC("all", <<"a", "b">>)>>
    ELSE <<QL("toss", <<"n">>, <<"a">>),
           QCVector("direct", "v", 2),
           CL(<<Assign("b", 0), JumpTo(5), Return("a")>>),
           CL(<<Return("a")>>),
           CL(<<BitMulC("b", Var("a"), El("v", 2), 5), Return("b"), Return("v")>>),
           QL("plus", <<"n", "b">>, <<"sum">>),
           QL("plus", <<"n", "n">>, <<"sum">>)>>]

\* A block's results reach the host in the order of its pairs, whichever pair was
\* generated or measured first and however often one failed: once the host has
\* collected them (hostprocessor.py:430-472), each variable or entry holds the outcome
\* that was last measured on the qubit of its own pair; and a local routine returns
\* what it computes from the argument at the time of the call.
ResultsAreOfTheirPairs ==
    \A p \in Pids :
        (~ Ended(p) /\ Post \in done[p]) =>
            LET b == Current(p)
            IN  CASE b.routine = "toss" -> host[p]["a"] = <<host[p]["n"][1] + seen[p][Fresh]>>
                  [] b.routine = "plus" -> host[p]["sum"] = <<host[p]["n"][1] + host[p]["b"][1]>>
                  [] b.shape = "vector" -> host[p]["v"] = <<seen[p][1], seen[p][2]>>
                  [] OTHER -> /\ host[p]["a"] = <<seen[p][1]>>
                              /\ host[p]["b"] = <<seen[p][2]>>

\* What a program returns is made of the results of all its calls: p1's sum has the
\* outcomes of every round of its loop, read back from the arrays of those calls,
\* and p2's is its toss, times 5 exactly if its second pair gave 1
\* (hostprocessor.py:149-223).
CallbackResult(k, i) == shared[p1][calls[<<p1, k>>].cbOut[i]].data[1]
ReturnsWhatItComputes ==
    /\ returned[p1]["sum"] # NoVar =>
        returned[p1]["sum"][1] = MapThenSumSet(
            LAMBDA k : 10 * CallbackResult(k, 1) + CallbackResult(k, 2),
            {2 * round - 1 : round \in 1..MCInputs[p1].n})
    /\ returned[p2]["b"] # NoVar =>
        returned[p2]["b"][1] = host[p2]["a"][1] * (IF host[p2]["v"][2] = 1 THEN 5 ELSE 1)
=============================================================================
