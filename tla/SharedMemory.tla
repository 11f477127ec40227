---------------------------- MODULE SharedMemory ----------------------------
(***************************************************************************)
(* The memory a program shares between host, Qnos and network stack        *)
(* (qoala/runtime/sharedmem.py): arrays that are allocated once, each in   *)
(* one region, and addressed by the order of their allocation.  Nothing is *)
(* ever freed.  A memory is the sequence of its arrays.                    *)
(***************************************************************************)
EXTENDS Integers, Sequences

CONSTANT Unset          \* a slot that nobody has written

Regions == {"RR_in", "RR_out", "CR_in", "LR_in", "LR_out"}

NoArrays == << >>

\* A new array; its address is the length of the memory after it is added.
Array(region, size) == [region |-> region, data |-> [i \in 1..size |-> Unset]]

\* An array that is allocated and filled in one go.
FilledArray(region, data) == [region |-> region, data |-> data]

\* An access must be to an allocated array of the right region, within bounds;
\* the code raises an exception otherwise.
Legal(mem, a, region, offset, size) ==
    /\ a \in DOMAIN mem
    /\ mem[a].region = region
    /\ offset + size <= Len(mem[a].data)

\* A write counts a negative index from the end of the array, and fails below that.
LegalWrite(mem, a, region, offset, size) ==
    /\ Legal(mem, a, region, offset, size)
    /\ size = 0 \/ - Len(mem[a].data) <= offset

\* Where an index comes first, and where it comes when counted from the end: data is
\* written in order, so that what is written at an index of its own counts.
Write(mem, a, offset, values) ==
    [mem EXCEPT ![a].data = [i \in DOMAIN @ |->
        CASE i - offset \in DOMAIN values -> values[i - offset]
          [] i - offset \notin DOMAIN values /\ i - Len(@) - offset \in DOMAIN values ->
                values[i - Len(@) - offset]
          [] OTHER -> @[i]]]

\* What is read is a slice, whose bounds are counted from the end if negative.
Bound(n, k) == IF k >= 0 THEN k ELSE IF n + k >= 0 THEN n + k ELSE 0
DataAt(mem, a, offset, size) ==
    LET n == Len(mem[a].data)
    IN  SubSeq(mem[a].data, Bound(n, offset) + 1, Bound(n, offset + size))

\* A read fails also where something was not written yet.
LegalRead(mem, a, region, offset, size) ==
    /\ Legal(mem, a, region, offset, size)
    /\ \A i \in DOMAIN DataAt(mem, a, offset, size) : DataAt(mem, a, offset, size)[i] # Unset
=============================================================================
