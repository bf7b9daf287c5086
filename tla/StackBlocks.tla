----------------------------- MODULE StackBlocks -----------------------------
(***************************************************************************)
(* The memory of frames (zsp_timebase.c).  Each thread has a stack of      *)
(* blocks linked through prev, in which frames and the allocations of its  *)
(* leaf function follow each other; a block that a thread gives back goes  *)
(* to one of two free lists of the timebase, and from there to any thread. *)
(*                                                                         *)
(* An address is a block and an offset into its data.  The data of a block *)
(* begins behind its header, so that an address lies in one block only.    *)
(* The threads call in any order: what the scheduler lets them do is a     *)
(* part of that.  Linked lists are sequences whose head comes last.        *)
(***************************************************************************)
EXTENDS Integers, Sequences

CONSTANTS
    Thread,
    FrameSizes,     \* the sizes of locals, as passed to zsp_timebase_alloc_frame
    AllocaSizes,
    MaxBlocks,      \* bound on the blocks taken from the allocator
    MaxFrames,      \* bound on the frames of a thread
    MaxAllocas      \* bound on the allocations of a frame

FrameHeader == 24          \* sizeof(zsp_frame_t)
FrameBlock  == 8192
AllocaBlock == 4096

(* What does not fit into a block of its own runs over its end: no test    *)
(* keeps a caller from that.                                               *)
ASSUME SizesAssumption ==
    /\ FrameSizes \subseteq {n \in Nat : FrameHeader + n <= FrameBlock}
    /\ AllocaSizes \subseteq {n \in Nat : n <= AllocaBlock}

VARIABLES
    block,      \* per thread its blocks, thread->block last
    kept,       \* per thread its frames and allocations, oldest first
    frames,     \* per thread the positions of its frames in kept, leaf last
    base,       \* per block that was ever allocated the offset of base
    size,       \* and its size, limit being the offset size - 1
    free_4k, free_8k,
    call        \* thread and frame_v of a call that gives back blocks, or << >>

blocks == <<block, kept, frames, base, size, free_4k, free_8k, call>>

Region(b, lo, n) == [block |-> b, lo |-> lo, hi |-> lo + n]

Last(s) == s[Len(s)]
Front(s) == SubSeq(s, 1, Len(s) - 1)

(* No block has the number 0. *)
NoFrame == Region(0, 0, 0)
Idle == call = << >>

BlocksInit ==
    /\ block = [t \in Thread |-> << >>]
    /\ kept = [t \in Thread |-> << >>]
    /\ frames = [t \in Thread |-> << >>]
    /\ base = << >> /\ size = << >>
    /\ free_4k = << >> /\ free_8k = << >>
    /\ call = << >>

FreeList(sz) == IF sz = AllocaBlock THEN free_4k ELSE free_8k

(* The block that zsp_timebase_stack_block_alloc returns. *)
NewBlock(sz) == IF FreeList(sz) # << >> THEN Last(FreeList(sz)) ELSE Len(size) + 1

(* zsp_timebase_stack_block_alloc, and n bytes of the new block are used. *)
zsp_timebase_stack_block_alloc(t, sz, n) ==
    /\ block' = [block EXCEPT ![t] = Append(@, NewBlock(sz))]
    /\ IF FreeList(sz) # << >>
       THEN base' = [base EXCEPT ![NewBlock(sz)] = n] /\ UNCHANGED size
       ELSE base' = Append(base, n) /\ size' = Append(size, sz)
    /\ free_4k' = IF sz = AllocaBlock /\ free_4k # << >> THEN Front(free_4k) ELSE free_4k
    /\ free_8k' = IF sz # AllocaBlock /\ free_8k # << >> THEN Front(free_8k) ELSE free_8k

NeedsBlock(t, n) ==
    block[t] = << >> \/ base[Last(block[t])] + n >= size[Last(block[t])] - 1

(* n bytes for t, from a block of size sz if the one at hand is too full.  *)
Allocate(t, sz, n) ==
    /\ IF NeedsBlock(t, n)
       THEN /\ NewBlock(sz) <= MaxBlocks
            /\ zsp_timebase_stack_block_alloc(t, sz, n)
            /\ kept' = [kept EXCEPT ![t] = Append(@, Region(NewBlock(sz), 0, n))]
       ELSE LET b == Last(block[t])
            IN  /\ base' = [base EXCEPT ![b] = @ + n]
                /\ kept' = [kept EXCEPT ![t] = Append(@, Region(b, base[b], n))]
                /\ UNCHANGED <<block, size, free_4k, free_8k>>
    /\ Idle /\ UNCHANGED call

zsp_timebase_alloc_frame(t, sz) ==
    /\ Len(frames[t]) < MaxFrames
    /\ Allocate(t, FrameBlock, FrameHeader + sz)
    /\ frames' = [frames EXCEPT ![t] = Append(@, Len(kept[t]) + 1)]

(* Made by the leaf function, to live as long as its frame. *)
zsp_timebase_alloca(t, sz) ==
    /\ frames[t] # << >> /\ Len(kept[t]) - Last(frames[t]) < MaxAllocas
    /\ Allocate(t, AllocaBlock, sz)
    /\ UNCHANGED frames

-----------------------------------------------------------------------------
(* Giving back.  Nothing else runs between the turns of the loop.          *)

(* The leaf frame and its allocations end.  thread->leaf is set to the     *)
(* caller's frame behind the loop, which does not read it.                 *)
zsp_timebase_return(t) ==
    /\ Idle
    /\ frames[t] # << >>
    /\ LET leaf == Last(frames[t])
       IN  /\ call' = <<t, kept[t][leaf]>>
           /\ kept' = [kept EXCEPT ![t] = SubSeq(@, 1, leaf - 1)]
           /\ frames' = [frames EXCEPT ![t] = Front(@)]
    /\ UNCHANGED <<block, base, size, free_4k, free_8k>>

(* Of a thread that has completed. *)
zsp_timebase_thread_free(t) ==
    /\ Idle
    /\ frames[t] = << >> /\ block[t] # << >>
    /\ call' = <<t, NoFrame>>
    /\ UNCHANGED <<block, kept, frames, base, size, free_4k, free_8k>>

(* Mutant: the size of a block is not looked at. *)
free_as_frame_block(b) ==
    /\ free_8k' = Append(free_8k, b)
    /\ UNCHANGED free_4k

zsp_timebase_stack_block_free(b) ==
    IF size[b] = AllocaBlock
    THEN free_4k' = Append(free_4k, b) /\ UNCHANGED free_8k
    ELSE free_8k' = Append(free_8k, b) /\ UNCHANGED free_4k

(* The blocks above the one that contains the frame are given back: one    *)
(* turn of the loop.                                                       *)
GiveBack(t, frame) ==
    /\ call = <<t, frame>>
    /\ block[t] # << >> /\ Last(block[t]) # frame.block
    /\ zsp_timebase_stack_block_free(Last(block[t]))
    /\ block' = [block EXCEPT ![t] = Front(@)]
    /\ UNCHANGED <<kept, frames, base, size, call>>

(* The one that contains it is used again from the frame on. *)
RollBack(t, frame) ==
    /\ call = <<t, frame>>
    /\ block[t] # << >> => Last(block[t]) = frame.block
    /\ base' = IF block[t] # << >> THEN [base EXCEPT ![frame.block] = frame.lo] ELSE base
    /\ call' = << >>
    /\ UNCHANGED <<block, kept, frames, size, free_4k, free_8k>>

BlocksNext ==
    \/ \E t \in Thread :
        \/ \E sz \in FrameSizes : zsp_timebase_alloc_frame(t, sz)
        \/ \E sz \in AllocaSizes : zsp_timebase_alloca(t, sz)
        \/ zsp_timebase_return(t)
        \/ zsp_timebase_thread_free(t)
    \/ ~Idle /\ (GiveBack(call[1], call[2]) \/ RollBack(call[1], call[2]))

BlocksSpec == BlocksInit /\ [][BlocksNext]_blocks

-----------------------------------------------------------------------------
Disjoint(r, s) == r.block # s.block \/ r.hi <= s.lo \/ s.hi <= r.lo

IsIn(b, list) == \E i \in DOMAIN list : list[i] = b

Once(list) == \A i, j \in DOMAIN list : list[i] = list[j] => i = j

(* No block is lost or has two owners: it is once on the stack of one      *)
(* thread, or once on the free list of its size.                           *)
BlocksHaveOneOwner ==
    /\ \A t \in Thread : Once(block[t])
    /\ Once(free_4k) /\ Once(free_8k)
    /\ \A b \in DOMAIN size :
          /\ IsIn(b, free_4k) \/ IsIn(b, free_8k) \/ \E t \in Thread : IsIn(b, block[t])
          /\ \A t \in Thread : IsIn(b, block[t]) =>
                /\ ~IsIn(b, free_4k) /\ ~IsIn(b, free_8k)
                /\ \A u \in Thread \ {t} : ~IsIn(b, block[u])
          /\ IsIn(b, free_4k) => size[b] = AllocaBlock
          /\ IsIn(b, free_8k) => size[b] = FrameBlock

(* Frames and allocations share no byte, neither within a thread nor       *)
(* between threads that hand blocks to each other; each lies within a      *)
(* block of its own thread, below the place where the next one goes        *)
(* (alloc_frame, alloca, return and thread_free of the timebase, and every *)
(* turn of their loops).                                                   *)
LiveMemoryIsExclusive ==
    /\ BlocksHaveOneOwner
    /\ \A t, u \in Thread : \A i \in DOMAIN kept[t], j \in DOMAIN kept[u] :
           (t = u /\ i = j) \/ Disjoint(kept[t][i], kept[u][j])
    /\ \A t \in Thread : \A i \in DOMAIN kept[t] :
           LET r == kept[t][i]
           IN  /\ IsIn(r.block, block[t])
               /\ r.hi <= base[r.block] /\ r.hi <= size[r.block]
=============================================================================
