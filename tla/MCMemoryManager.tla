--------------------------- MODULE MCMemoryManager ---------------------------
(* A device with two communication qubits and one memory qubit, shared by    *)
(* two processes: the first uses all three virtual qubits, the second two.   *)
EXTENDS MemoryManager

CONSTANTS p1, p2
MCPids == {p1, p2}
MCVirtIds == 0..2
MCPhysIds == 0..2
MCCommPhys == {0, 1}
MCUnitModule == [p \in MCPids |-> IF p = p1 THEN 0..2 ELSE {0, 2}]
MCCommVirt == [p \in MCPids |-> IF p = p1 THEN {0, 1} ELSE {0}]
==============================================================================
