--------------------------- MODULE ProgramControl ---------------------------
(***************************************************************************)
(* What a node promises each program instance it runs, whatever processors *)
(* and tasks it uses: the blocks of the program are executed one at a      *)
(* time, and the block executed next is the one the program itself asks    *)
(* for, the target of the jump it took or else the block that follows.     *)
(***************************************************************************)
EXTENDS Naturals

CONSTANTS
    Programs,           \* the program instances
    Length,             \* program -> its number of blocks
    BlocksAfter,         \* program -> block -> the blocks that may come next
    NoBlock             \* no block of the program is being executed

VARIABLES
    at,                 \* program -> the block being executed, or NoBlock
    next                \* program -> the block it asks for next

controlVars == <<at, next>>

Init ==
    /\ at = [p \in Programs |-> NoBlock]
    /\ next = [p \in Programs |-> 1]

Enter(p) ==
    /\ at[p] = NoBlock
    /\ next[p] <= Length[p]
    /\ at' = [at EXCEPT ![p] = next[p]]
    /\ UNCHANGED next

\* The block decides where the program goes, before or when it ends.
Decide(p) ==
    /\ at[p] # NoBlock
    /\ \E n \in BlocksAfter[p][at[p]] : next' = [next EXCEPT ![p] = n]
    /\ UNCHANGED at

Leave(p) ==
    /\ at[p] # NoBlock
    /\ at' = [at EXCEPT ![p] = NoBlock]
    /\ \/ UNCHANGED next
       \/ \E n \in BlocksAfter[p][at[p]] : next' = [next EXCEPT ![p] = n]

Next == \E p \in Programs : Enter(p) \/ Decide(p) \/ Leave(p)

Spec == Init /\ [][Next]_controlVars
=============================================================================
