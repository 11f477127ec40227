--------------------------- MODULE QubitOwnership ---------------------------
(***************************************************************************)
(* What the memory manager of a node promises to its processes, without    *)
(* any unit module or mapping table: every physical qubit has at most one  *)
(* owner, a virtual location (a qubit of one process); a location owns at  *)
(* most one physical qubit, of its own kind; ownership never passes from   *)
(* one location to another without an intermediate release.                *)
(***************************************************************************)
CONSTANTS
    Qubits,             \* the physical qubits of the node
    Locations,          \* the virtual locations of all processes
    Fits(_, _),         \* Fits(q, l): qubit q may back location l
    Nobody              \* the owner of a free qubit

VARIABLE owner          \* physical qubit -> the location it backs

OwnershipTypeOK == owner \in [Qubits -> Locations \cup {Nobody}]

OwnsNothing(l) == \A q \in Qubits : owner[q] # l

Init == owner = [q \in Qubits |-> Nobody]

Acquire(q, l) ==
    /\ owner[q] = Nobody
    /\ OwnsNothing(l)
    /\ Fits(q, l)
    /\ owner' = [owner EXCEPT ![q] = l]

Release(q) ==
    /\ owner[q] # Nobody
    /\ owner' = [owner EXCEPT ![q] = Nobody]

Next == \E q \in Qubits : Release(q) \/ \E l \in Locations : Acquire(q, l)

Spec == Init /\ [][Next]_owner
=============================================================================
