--------------------------- MODULE MCQpuResources ---------------------------
(* Three programs that compete for two communication qubits and a memory     *)
(* qubit with requests of every kind, local routines that keep qubits, and   *)
(* callbacks; one measures the pair that it has kept.                        *)
EXTENDS QpuResources

CONSTANTS p1, p2, p3, v0, v1, comm1, comm2, mem1, Choice

Request(virts, measure, sequential) ==
    [typ |-> "QC", pairs |-> Len(virts), virts |-> virts, measure |-> measure,
     sequential |-> sequential, callback |-> FALSE, use |-> <<>>, keep |-> {}]
WithCallback(request, use, keep) ==
    [request EXCEPT !.callback = TRUE, !.use = use, !.keep = keep]
LocalRoutine(use, keep) ==
    [Request(<<>>, FALSE, FALSE) EXCEPT !.typ = "QL", !.use = use, !.keep = keep]

MCUnitModule == [p \in Pids |-> {v0, v1}]
MCCommVirt == [p \in Pids |-> IF p = p1 THEN {v0, v1} ELSE {v0}]

\* Requests of several pairs that fill the memory, against each other and
\* against a program that gives back what it takes.
Contended == [p \in Pids |->
    CASE p = p1 -> <<WithCallback(Request(<<v0, v1>>, FALSE, FALSE), <<v0>>, {v0}),
                     LocalRoutine(<<v0, v1>>, {v1})>>
      [] p = p2 -> <<Request(<<v0, v0>>, TRUE, FALSE),
                     WithCallback(Request(<<v0, v0>>, FALSE, TRUE), <<v0>>, {}),
                     LocalRoutine(<<v1, v0>>, {})>>
      [] p = p3 -> <<Request(<<v0>>, FALSE, FALSE), LocalRoutine(<<v0>>, {}),
                     WithCallback(Request(<<v0, v0>>, FALSE, TRUE), <<v0>>, {})>>]

\* Two pairs at communication qubits, one of which another program keeps.
Greedy == [p \in Pids |->
    <<IF p = p1 THEN Request(<<v0, v1>>, FALSE, FALSE) ELSE Request(<<v0>>, FALSE, FALSE)>>]

MCWork == IF Choice = "contended" THEN Contended ELSE Greedy
==============================================================================
