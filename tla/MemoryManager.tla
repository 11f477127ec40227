---------------------------- MODULE MemoryManager ----------------------------
(***************************************************************************)
(* The memory manager of one node (qoala/sim/memmgr.py): it maps the       *)
(* virtual qubits of each process, as its unit module declares them, to    *)
(* the physical qubits of the quantum device, and keeps both directions of *)
(* the mapping in two dictionaries that every operation updates in step.   *)
(***************************************************************************)
EXTENDS Naturals, FiniteSets

CONSTANTS
    Pids,               \* program instances that may be added as processes
    VirtIds,            \* virtual qubit ids that unit modules may use
    PhysIds,            \* QDevice.get_all_qubit_ids()
    CommPhys,           \* QDevice.get_comm_qubit_ids()
    UnitModule,         \* pid -> UnitModule.get_all_qubit_ids()
    CommVirt,           \* pid -> the ids for which is_communication holds
    None                \* Python's None in either dictionary

ASSUME MemoryAssumption ==
    /\ CommPhys \subseteq PhysIds
    /\ UnitModule \in [Pids -> SUBSET VirtIds]
    /\ CommVirt \in [Pids -> SUBSET VirtIds]
    /\ None \notin PhysIds \cup VirtIds
    /\ None \notin Pids \X VirtIds

VARIABLES
    processes,          \* pids that add_process has seen
    mapping,            \* _process_mappings: pid -> virt id -> phys id or None
    physical,           \* _physical_mapping: phys id -> <<pid, virt id>> or None
    result              \* how the last call ended: what the caller observes

memVars == <<mapping, physical>>
mmVars == <<processes, mapping, physical, result>>

Locations == Pids \X VirtIds

------------------------------------------------------------------------------
(* Pure readings of the two dictionaries. *)

\* The kind of physical qubit a virtual qubit must be backed by.
PhysOfKind(pid, virt) == IF virt \in CommVirt[pid] THEN CommPhys ELSE PhysIds \ CommPhys

FreePhys == {q \in PhysIds : physical[q] = None}

\* Fault: the kind of the qubit is not looked at.
CandidatesOfAnyKind(pid, virt) == FreePhys

\* The qubits allocate may pick: any free one of the right kind.  The code
\* takes the first in the iteration order of a set, which is not specified.
Candidates(pid, virt) == PhysOfKind(pid, virt) \cap FreePhys

IsMapped(pid, virt) == mapping[pid][virt] # None

\* get_unmapped_non_comm_qubit lists these and answers the least.
UnmappedNonComm(pid) ==
    {v \in UnitModule[pid] \ CommVirt[pid] : ~ IsMapped(pid, v)}

PhysIdFor(pid, virt) == mapping[pid][virt]

\* virt_id_for: only the process that owns the qubit learns its virtual id.
VirtIdFor(pid, phys) ==
    IF physical[phys] # None /\ physical[phys][1] = pid
    THEN physical[phys][2] ELSE None

------------------------------------------------------------------------------
(* State changes of allocate and free once their checks have passed. *)

Bind(pid, virt, phys) ==
    /\ physical' = [physical EXCEPT ![phys] = <<pid, virt>>]
    /\ mapping' = [mapping EXCEPT ![pid][virt] = phys]

\* Fault: the physical qubit is not given back.
UnbindVirtualOnly(pid, virt) ==
    /\ physical' = physical
    /\ mapping' = [mapping EXCEPT ![pid][virt] = None]

Unbind(pid, virt) ==
    /\ physical' = [physical EXCEPT ![mapping[pid][virt]] = None]
    /\ mapping' = [mapping EXCEPT ![pid][virt] = None]

------------------------------------------------------------------------------
(* The operations. *)

Init ==
    /\ processes = {}
    /\ mapping = [p \in Pids |-> [v \in VirtIds |-> None]]
    /\ physical = [q \in PhysIds |-> None]
    /\ result = "none"

\* A process is added once, with every virtual qubit of its unit module
\* unmapped (its pid comes from a counter that is never reused).
AddProcess(pid) ==
    /\ pid \notin processes
    /\ processes' = processes \cup {pid}
    /\ mapping' = [mapping EXCEPT ![pid] = [v \in VirtIds |-> None]]
    /\ result' = "added"
    /\ UNCHANGED physical

\* allocate raises AllocError for an unknown virtual id, for one that is
\* mapped already, and when no qubit of its kind is free.
AllocateRefused(pid, virt) ==
    \/ virt \notin UnitModule[pid]
    \/ IsMapped(pid, virt)
    \/ Candidates(pid, virt) = {}

Allocate(pid, virt) ==
    /\ pid \in processes
    /\ \/ /\ ~ AllocateRefused(pid, virt)
          /\ \E phys \in Candidates(pid, virt) : Bind(pid, virt, phys)
          /\ result' = "allocated"
       \/ /\ AllocateRefused(pid, virt)
          /\ result' = "AllocError"
          /\ UNCHANGED memVars
    /\ UNCHANGED processes

\* allocate_comm refuses memory qubits and then allocates.
AllocateComm(pid, virt) ==
    /\ pid \in processes
    /\ \/ /\ virt \in UnitModule[pid] \cap CommVirt[pid]
          /\ Allocate(pid, virt)
       \/ /\ virt \notin UnitModule[pid] \cap CommVirt[pid]
          /\ result' = "AllocError"
          /\ UNCHANGED <<processes, memVars>>

\* free asserts that the id is in the unit module, so callers only pass those;
\* it raises AllocError for an unmapped one, and signals MEMORY_FREED when done.
Free(pid, virt) ==
    /\ pid \in processes
    /\ virt \in UnitModule[pid]
    /\ \/ /\ IsMapped(pid, virt)
          /\ Unbind(pid, virt)
          /\ result' = "freed"
       \/ /\ ~ IsMapped(pid, virt)
          /\ result' = "AllocError"
          /\ UNCHANGED memVars
    /\ UNCHANGED processes

Next ==
    \E pid \in Pids :
        \/ AddProcess(pid)
        \/ \E virt \in VirtIds :
              Allocate(pid, virt) \/ AllocateComm(pid, virt) \/ Free(pid, virt)

Spec == Init /\ [][Next]_mmVars

------------------------------------------------------------------------------
(* Properties. *)

\* The two dictionaries and the result stay within their domains, and a
\* virtual id outside the unit module is never mapped.
TypeOK ==
    /\ processes \subseteq Pids
    /\ mapping \in [Pids -> [VirtIds -> PhysIds \cup {None}]]
    /\ physical \in [PhysIds -> Locations \cup {None}]
    /\ result \in {"none", "added", "allocated", "freed", "AllocError"}

\* The two lookups are inverse to each other: phys_id_for answers q for a
\* virtual qubit of a process exactly when virt_id_for answers that virtual
\* qubit for q.  They read two dictionaries that allocate and free update one
\* after the other, so a missed or misplaced update breaks it.
LookupsInverse ==
    \A p \in Pids, v \in VirtIds, q \in PhysIds :
        PhysIdFor(p, v) = q <=> VirtIdFor(p, q) = v

\* What is mapped is a qubit of the unit module of an added process, backed by
\* a physical qubit of its own kind: communication or memory.
MappedAsDeclared ==
    \A p \in Pids, v \in VirtIds :
        IsMapped(p, v) => /\ p \in processes
                          /\ v \in UnitModule[p]
                          /\ mapping[p][v] \in PhysOfKind(p, v)

\* allocate runs out of qubits only when every physical qubit of the kind is
\* held by some process: no qubit is lost to everybody.
ExhaustedOnlyWhenAllHeld ==
    \A p \in Pids, v \in VirtIds :
        Candidates(p, v) = {} =>
            \A q \in PhysOfKind(p, v) :
                \E l \in Locations : l[1] \in processes /\ mapping[l[1]][l[2]] = q

\* The memory manager implements qubit ownership.
QubitFits(q, l) == q \in PhysOfKind(l[1], l[2])
Ownership == INSTANCE QubitOwnership WITH
    Qubits <- PhysIds, Nobody <- None, owner <- physical, Fits <- QubitFits
ImplementsOwnership == Ownership!Spec
==============================================================================
