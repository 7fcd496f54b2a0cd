---------------------- MODULE MCVirtualMemoryAllocator ----------------------
(* Model checking of VirtualMemoryAllocator: two threads in an address     *)
(* space of a dozen pages with foreign mappings at its ends and inside.    *)
EXTENDS VirtualMemoryAllocator

CONSTANTS t1, t2   \* model values

=============================================================================
