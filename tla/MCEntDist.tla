------------------------------ MODULE MCEntDist ------------------------------
(* Programs between all pairs of nodes, and one of B for which A has no        *)
(* counterpart.  A may be given another qubit when it tries again.             *)
EXTENDS EntDist, TLC

CONSTANTS A, B, C

Request(n, pid, remote, remotePid, qubit) ==
    [node |-> n, pid |-> pid, remote |-> remote, remotePid |-> remotePid, qubit |-> qubit]

MCNodeOrder == <<A, B, C>>

MCWants == A :> {Request(A, 0, B, 0, 0), Request(A, 0, B, 0, 1), Request(A, 1, C, 0, 0)}
        @@ B :> {Request(B, 0, A, 0, 0), Request(B, 1, C, 1, 0), Request(B, 1, A, 2, 0)}
        @@ C :> {Request(C, 0, A, 1, 0), Request(C, 1, B, 1, 0)}

BinAB == [nodes |-> {A, B}, pids |-> A :> 0 @@ B :> 0]
BinAC == [nodes |-> {A, C}, pids |-> A :> 1 @@ C :> 0]

\* A short pattern with a pause after it, and one whose bins follow each other.
MCSchedules ==
    {[first |-> 0, length |-> 2, period |-> 5, pattern |-> <<BinAB, BinAC>>],
     [first |-> 0, length |-> 3, period |-> 3, pattern |-> <<BinAB>>]}
==============================================================================
