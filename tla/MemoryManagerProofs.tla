------------------------ MODULE MemoryManagerProofs ------------------------
(***************************************************************************)
(* Proofs about the memory manager, for every set of processes, every      *)
(* device and every choice of unit modules.                                *)
(***************************************************************************)
EXTENDS MemoryManager, TLAPS

\* The two dictionaries themselves are inverse to each other: the form of
\* LookupsInverse that the operations preserve directly.
MappingsInverse ==
    \A p \in Pids, v \in VirtIds, q \in PhysIds :
        mapping[p][v] = q <=> physical[q] = <<p, v>>

\* The inductive invariant: the tables are inverse, and only declared virtual
\* qubits of added processes are mapped, so that add_process overwrites nothing.
MemInv == TypeOK /\ MappingsInverse /\ MappedAsDeclared

\* None is neither a virtual location nor a physical qubit.
LEMMA NoneIsNoLocation ==
    /\ \A p \in Pids, v \in VirtIds : <<p, v>> # None
    /\ None \notin PhysIds
    /\ None \notin VirtIds
  BY MemoryAssumption DEF MemoryAssumption

\* Init establishes the invariant: nothing is mapped.
LEMMA InitMemInv == Init => MemInv
  BY MemoryAssumption
     DEF MemoryAssumption, Init, MemInv, TypeOK, MappingsInverse,
         MappedAsDeclared, IsMapped, Locations

\* Binding a free physical qubit of the right kind to an unmapped virtual
\* qubit of an added process keeps the invariant (the update of allocate).
LEMMA BindMemInv ==
    ASSUME MemInv, NEW p \in Pids, NEW v \in VirtIds, NEW q \in Candidates(p, v),
           p \in processes, v \in UnitModule[p], ~ IsMapped(p, v),
           Bind(p, v, q), processes' = processes,
           result' \in {"none", "added", "allocated", "freed", "AllocError"}
    PROVE  MemInv'
  <1>1. q \in PhysIds /\ physical[q] = None /\ q \in PhysOfKind(p, v)
    BY MemoryAssumption DEF MemoryAssumption, Candidates, FreePhys
  <1>2. TypeOK'
    BY <1>1 DEF MemInv, TypeOK, Bind, Locations
  <1>3. MappingsInverse'
    <2> SUFFICES ASSUME NEW p2 \in Pids, NEW v2 \in VirtIds, NEW q2 \in PhysIds
                 PROVE  mapping'[p2][v2] = q2 <=> physical'[q2] = <<p2, v2>>
      BY DEF MappingsInverse
    <2>1. physical'[q2] = IF q2 = q THEN <<p, v>> ELSE physical[q2]
      BY <1>1 DEF Bind, MemInv, TypeOK
    <2>2. mapping'[p2][v2] = IF p2 = p /\ v2 = v THEN q ELSE mapping[p2][v2]
      BY DEF Bind, MemInv, TypeOK
    <2>3. mapping[p2][v2] = q2 <=> physical[q2] = <<p2, v2>>
      BY DEF MemInv, MappingsInverse
    <2>4. mapping[p2][v2] # q
      BY <1>1, NoneIsNoLocation DEF MemInv, MappingsInverse
    <2>5. physical[q2] # <<p, v>>
      BY NoneIsNoLocation DEF IsMapped, MemInv, MappingsInverse
    <2>6. CASE p2 = p /\ v2 = v
      BY <1>1, <2>1, <2>2, <2>5, <2>6
    <2>7. CASE ~ (p2 = p /\ v2 = v)
      BY <1>1, <2>1, <2>2, <2>3, <2>4, <2>7
    <2> QED
      BY <2>6, <2>7
  <1>4. MappedAsDeclared'
    BY <1>1 DEF MemInv, TypeOK, MappedAsDeclared, IsMapped, Bind, PhysOfKind
  <1> QED
    BY <1>2, <1>3, <1>4 DEF MemInv

\* Clearing both entries of a mapped virtual qubit keeps the invariant.
LEMMA UnbindMemInv ==
    ASSUME MemInv, NEW p \in Pids, NEW v \in VirtIds, IsMapped(p, v),
           Unbind(p, v), processes' = processes,
           result' \in {"none", "added", "allocated", "freed", "AllocError"}
    PROVE  MemInv'
  <1> DEFINE q == mapping[p][v]
  <1>1. q \in PhysIds /\ physical[q] = <<p, v>>
    BY DEF MemInv, TypeOK, MappingsInverse, IsMapped
  <1>2. TypeOK'
    BY <1>1 DEF MemInv, TypeOK, Unbind, Locations
  <1>3. MappingsInverse'
    <2> SUFFICES ASSUME NEW p2 \in Pids, NEW v2 \in VirtIds, NEW q2 \in PhysIds
                 PROVE  mapping'[p2][v2] = q2 <=> physical'[q2] = <<p2, v2>>
      BY DEF MappingsInverse
    <2>1. physical'[q2] = IF q2 = q THEN None ELSE physical[q2]
      BY <1>1 DEF Unbind, MemInv, TypeOK
    <2>2. mapping'[p2][v2] = IF p2 = p /\ v2 = v THEN None ELSE mapping[p2][v2]
      BY DEF Unbind, MemInv, TypeOK
    <2>3. mapping[p2][v2] = q2 <=> physical[q2] = <<p2, v2>>
      BY DEF MemInv, MappingsInverse
    <2>4. <<p2, v2>> # None /\ q2 # None
      BY NoneIsNoLocation
    <2>5. mapping[p2][v2] = q => p2 = p /\ v2 = v
      BY <1>1 DEF MemInv, MappingsInverse
    <2> HIDE DEF q
    <2>6. CASE p2 = p /\ v2 = v
      BY <1>1, <2>1, <2>2, <2>3, <2>4, <2>6 DEF q
    <2>7. CASE ~ (p2 = p /\ v2 = v)
      BY <2>1, <2>2, <2>3, <2>4, <2>5, <2>7
    <2> QED
      BY <2>6, <2>7
  <1>4. MappedAsDeclared'
    BY <1>1 DEF MemInv, TypeOK, MappedAsDeclared, IsMapped, Unbind, PhysOfKind
  <1> QED
    BY <1>2, <1>3, <1>4 DEF MemInv

\* Adding a process maps nothing: its entries were all unmapped before.
LEMMA AddProcessMemInv ==
    ASSUME MemInv, NEW p \in Pids, AddProcess(p)
    PROVE  MemInv'
  <1>1. \A v \in VirtIds : mapping[p][v] = None
    BY DEF MemInv, MappedAsDeclared, AddProcess, IsMapped
  <1>2. \A p2 \in Pids, v \in VirtIds : mapping'[p2][v] = mapping[p2][v]
    BY <1>1 DEF MemInv, TypeOK, AddProcess
  <1>3. TypeOK'
    BY DEF MemInv, TypeOK, AddProcess
  <1>4. MappingsInverse'
    BY <1>2 DEF MemInv, MappingsInverse, AddProcess
  <1>5. MappedAsDeclared'
    BY <1>2 DEF MemInv, MappedAsDeclared, AddProcess, IsMapped, PhysOfKind
  <1> QED
    BY <1>3, <1>4, <1>5 DEF MemInv

\* A call that raises AllocError leaves the tables, hence the invariant, alone.
LEMMA RefusedMemInv ==
    ASSUME MemInv, UNCHANGED <<processes, memVars>>, result' = "AllocError"
    PROVE  MemInv'
  BY DEF MemInv, TypeOK, MappingsInverse, MappedAsDeclared, IsMapped,
         PhysOfKind, memVars

\* allocate keeps the invariant, whether it succeeds or raises AllocError.
LEMMA AllocateMemInv ==
    ASSUME MemInv, NEW p \in Pids, NEW v \in VirtIds, Allocate(p, v)
    PROVE  MemInv'
  <1>1. CASE ~ AllocateRefused(p, v) /\ result' = "allocated"
    <2>1. PICK q \in Candidates(p, v) : Bind(p, v, q)
      BY <1>1 DEF Allocate
    <2> QED
      BY <1>1, <2>1, BindMemInv DEF Allocate, AllocateRefused
  <1>2. CASE result' = "AllocError" /\ UNCHANGED memVars
    BY <1>2, RefusedMemInv DEF Allocate
  <1> QED
    BY <1>1, <1>2 DEF Allocate

\* Every operation of the memory manager keeps the invariant.
LEMMA NextMemInv == MemInv /\ [Next]_mmVars => MemInv'
  <1> SUFFICES ASSUME MemInv, [Next]_mmVars
               PROVE  MemInv'
    OBVIOUS
  <1>1. ASSUME NEW p \in Pids, AddProcess(p)
        PROVE  MemInv'
    BY <1>1, AddProcessMemInv
  <1>2. ASSUME NEW p \in Pids, NEW v \in VirtIds, Allocate(p, v)
        PROVE  MemInv'
    BY <1>2, AllocateMemInv
  <1>3. ASSUME NEW p \in Pids, NEW v \in VirtIds, AllocateComm(p, v)
        PROVE  MemInv'
    BY <1>3, AllocateMemInv, RefusedMemInv DEF AllocateComm
  <1>4. ASSUME NEW p \in Pids, NEW v \in VirtIds, Free(p, v)
        PROVE  MemInv'
    BY <1>4, UnbindMemInv, RefusedMemInv DEF Free
  <1>5. CASE UNCHANGED mmVars
    BY <1>5 DEF mmVars, MemInv, TypeOK, MappingsInverse, MappedAsDeclared,
                IsMapped, PhysOfKind
  <1> QED
    BY <1>1, <1>2, <1>3, <1>4, <1>5 DEF Next

\* The strengthened invariant holds in every reachable state.
THEOREM MemInvInvariant == Spec => []MemInv
  BY InitMemInv, NextMemInv, PTL DEF Spec

\* TypeOK and MappedAsDeclared hold in every reachable state.
THEOREM TypeCorrect == Spec => [](TypeOK /\ MappedAsDeclared)
  BY MemInvInvariant, PTL DEF MemInv

\* phys_id_for and virt_id_for stay inverse to each other, for every device,
\* every number of processes and every unit module: the state invariant behind
\* every use of a physical id that was looked up from a virtual one.
THEOREM LookupsAlwaysInverse == Spec => []LookupsInverse
  <1>1. MemInv => LookupsInverse
    <2> SUFFICES ASSUME MemInv, NEW p \in Pids, NEW v \in VirtIds, NEW q \in PhysIds
                 PROVE  mapping[p][v] = q <=> VirtIdFor(p, q) = v
      BY DEF LookupsInverse, PhysIdFor
    <2>1. mapping[p][v] = q <=> physical[q] = <<p, v>>
      BY DEF MemInv, MappingsInverse
    <2>2. CASE physical[q] = None
      BY <2>1, <2>2, NoneIsNoLocation DEF VirtIdFor
    <2>3. CASE physical[q] # None
      <3>1. PICK p2 \in Pids, v2 \in VirtIds : physical[q] = <<p2, v2>>
        BY <2>3 DEF MemInv, TypeOK, Locations
      <3>2. VirtIdFor(p, q) = IF p2 = p THEN v2 ELSE None
        BY <2>3, <3>1 DEF VirtIdFor
      <3> QED
        BY <2>1, <3>1, <3>2, NoneIsNoLocation
    <2> QED
      BY <2>2, <2>3
  <1> QED
    BY <1>1, MemInvInvariant, PTL

\* Whenever no candidate is left for a virtual qubit, each qubit of its kind
\* is held by an added process: AllocError never comes from a lost qubit.
THEOREM ExhaustionIsReal == Spec => []ExhaustedOnlyWhenAllHeld
  <1>1. MemInv => ExhaustedOnlyWhenAllHeld
    <2> SUFFICES ASSUME MemInv, NEW p \in Pids, NEW v \in VirtIds,
                        Candidates(p, v) = {}, NEW q \in PhysOfKind(p, v)
                 PROVE  \E l \in Locations :
                            l[1] \in processes /\ mapping[l[1]][l[2]] = q
      BY DEF ExhaustedOnlyWhenAllHeld
    <2>1. q \in PhysIds
      BY MemoryAssumption DEF MemoryAssumption, PhysOfKind
    <2>2. physical[q] # None
      BY <2>1 DEF Candidates, FreePhys
    <2>3. PICK p2 \in Pids, v2 \in VirtIds : physical[q] = <<p2, v2>>
      BY <2>1, <2>2 DEF MemInv, TypeOK, Locations
    <2>4. mapping[p2][v2] = q
      BY <2>1, <2>3 DEF MemInv, MappingsInverse
    <2>5. p2 \in processes
      BY <2>1, <2>4, NoneIsNoLocation DEF MemInv, MappedAsDeclared, IsMapped
    <2>6. <<p2, v2>> \in Locations /\ <<p2, v2>>[1] = p2 /\ <<p2, v2>>[2] = v2
      BY DEF Locations
    <2> QED
      BY <2>4, <2>5, <2>6
  <1> QED
    BY <1>1, MemInvInvariant, PTL

------------------------------------------------------------------------------
(* The refinement: each step of the memory manager is one of QubitOwnership. *)

\* The update of allocate hands a qubit that nobody owns to a location that
\* owns none.
LEMMA BindIsAcquire ==
    ASSUME MemInv, NEW p \in Pids, NEW v \in UnitModule[p],
           NEW q \in Candidates(p, v), ~ IsMapped(p, v), Bind(p, v, q)
    PROVE  Ownership!Next
  <1>1. v \in VirtIds /\ q \in PhysIds /\ physical[q] = None /\ q \in PhysOfKind(p, v)
    BY MemoryAssumption DEF MemoryAssumption, Candidates, FreePhys
  <1>2. <<p, v>> \in Locations /\ <<p, v>>[1] = p /\ <<p, v>>[2] = v
    BY <1>1 DEF Locations
  <1>3. \A q2 \in PhysIds : physical[q2] # <<p, v>>
    BY <1>1, NoneIsNoLocation DEF MemInv, MappingsInverse, IsMapped
  <1>4. QubitFits(q, <<p, v>>)
    BY <1>1, <1>2 DEF QubitFits
  <1>5. Ownership!Acquire(q, <<p, v>>)
    BY <1>1, <1>3, <1>4 DEF Ownership!Acquire, Ownership!OwnsNothing, Bind
  <1> QED
    BY <1>1, <1>2, <1>5 DEF Ownership!Next

\* The update of free releases the qubit of the location.
LEMMA UnbindIsRelease ==
    ASSUME MemInv, NEW p \in Pids, NEW v \in VirtIds, IsMapped(p, v), Unbind(p, v)
    PROVE  Ownership!Next
  <1> DEFINE q == mapping[p][v]
  <1>1. q \in PhysIds /\ physical[q] = <<p, v>>
    BY DEF MemInv, TypeOK, MappingsInverse, IsMapped
  <1>2. Ownership!Release(q)
    BY <1>1, NoneIsNoLocation DEF Ownership!Release, Unbind
  <1> QED
    BY <1>1, <1>2 DEF Ownership!Next

\* allocate acquires one qubit or leaves ownership alone.
LEMMA AllocateIsOwnership ==
    ASSUME MemInv, NEW p \in Pids, NEW v \in VirtIds, Allocate(p, v)
    PROVE  Ownership!Next \/ UNCHANGED physical
  <1>1. CASE ~ AllocateRefused(p, v) /\ result' = "allocated"
    <2>1. PICK q \in Candidates(p, v) : Bind(p, v, q)
      BY <1>1 DEF Allocate
    <2> QED
      BY <1>1, <2>1, BindIsAcquire DEF AllocateRefused
  <1> QED
    BY <1>1 DEF Allocate, memVars

\* Every operation is a step of the abstract ownership, or none at all.
LEMMA NextIsOwnership ==
    MemInv /\ [Next]_mmVars => [Ownership!Next]_physical
  <1> SUFFICES ASSUME MemInv, [Next]_mmVars
               PROVE  Ownership!Next \/ UNCHANGED physical
    OBVIOUS
  <1>1. ASSUME NEW p \in Pids, AddProcess(p)
        PROVE  UNCHANGED physical
    BY <1>1 DEF AddProcess
  <1>2. ASSUME NEW p \in Pids, NEW v \in VirtIds, AllocateComm(p, v)
        PROVE  Ownership!Next \/ UNCHANGED physical
    BY <1>2, AllocateIsOwnership DEF AllocateComm, memVars
  <1>3. ASSUME NEW p \in Pids, NEW v \in VirtIds, Free(p, v)
        PROVE  Ownership!Next \/ UNCHANGED physical
    BY <1>3, UnbindIsRelease DEF Free, memVars
  <1> QED
    BY <1>1, <1>2, <1>3, AllocateIsOwnership DEF Next, mmVars

\* The memory manager implements the abstract ownership of qubits.
THEOREM ManagerImplementsOwnership == Spec => ImplementsOwnership
  <1>1. Init => Ownership!Init
    BY DEF Init, Ownership!Init
  <1>2. MemInv /\ [Next]_mmVars => [Ownership!Next]_physical
    BY NextIsOwnership
  <1> QED
    BY <1>1, <1>2, MemInvInvariant, PTL DEF Spec, ImplementsOwnership, Ownership!Spec
=============================================================================
