-------------------------- MODULE MCTimebaseMemory --------------------------
(* The two kinds of memory the timebase manages itself, the event array and *)
(* the blocks of frames, in one run: they have nothing in common but the    *)
(* allocator, so that a behaviour is one of either.                         *)
EXTENDS EventHeap, StackBlocks

VARIABLE part

MemoryInit ==
    /\ Init
    /\ BlocksInit
    /\ part \in {"events", "blocks"}

MemoryNext ==
    \/ part = "events" /\ Next /\ UNCHANGED <<blocks, part>>
    \/ part = "blocks" /\ BlocksNext /\ UNCHANGED <<vars, part>>

MemorySpec == MemoryInit /\ [][MemoryNext]_<<vars, blocks, part>>

(* Events whose sequence numbers agree with the order of their times and    *)
(* that do not, and several of one time.                                    *)
MixedEntries ==
    {[wake_time |-> 2, seq |-> 1], [wake_time |-> 1, seq |-> 2],
     [wake_time |-> 1, seq |-> 3], [wake_time |-> 3, seq |-> 4],
     [wake_time |-> 2, seq |-> 5]}

CONSTANTS t1, t2

TwoThreads == {t1, t2}

(* With its header the first takes 4095 bytes: two of them fit into a block *)
(* of 8192, and with an allocation of 4096 one just does not.  The second   *)
(* fills a block.                                                           *)
MCFrameSizes  == {4071, 8168}
MCAllocaSizes == {8, 4096}
=============================================================================
