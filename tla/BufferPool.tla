----------------------------- MODULE BufferPool -----------------------------
(***************************************************************************)
(* operator new and delete of ReadOperation                                *)
(* (io/mft_reader_read_operation.hpp): a read and its buffer are one block *)
(* of memory, which is never given back to the system but kept in          *)
(* recycled, a vector that all reads of all drives share, and handed out   *)
(* again to a read that it is large enough for.                            *)
(***************************************************************************)
EXTENDS Integers, Sequences, SequencesExt, FiniteSets, FiniteSetsExt

CONSTANTS
    Sizes,      \* what a read and its buffer may need
    Rounding,   \* by how much malloc() may round a size up
    MaxReads    \* bound: how many reads there are at once

ASSUME SizesAssumption ==
    IsFiniteSet(Sizes) /\ Sizes \subseteq Nat /\ 0 \in Rounding /\ Rounding \subseteq Nat

VARIABLES
    recycled,   \* the vector: blocks with their numbers, the sizes asked for first and _msize()
    reads,      \* the reads that exist: their blocks and what each needs
    most        \* history: how many reads there have been at once

poolVars == <<recycled, reads, most>>

Blocks == Range(recycled) \union {r.block : r \in reads}

PoolInit == recycled = <<>> /\ reads = {} /\ most = 0

\* Mutant: a block that is just too small.
FitsShort(block, n) == block.size >= n - 1

Fits(block, n) == block.size >= n

\* The smallest blocks that fit; the loop finds the last of them.
BestFits(n) ==
    {i \in DOMAIN recycled :
        /\ Fits(recycled[i], n)
        /\ \A j \in DOMAIN recycled : Fits(recycled[j], n) => recycled[i].size <= recycled[j].size}

Existing(block, n) ==
    /\ reads' = reads \union {[block |-> block, needs |-> n]}
    /\ most' = Max({most, Cardinality(reads) + 1})

\* operator new, with a block from the vector ...
Reuse(n) ==
    /\ Cardinality(reads) < MaxReads
    /\ BestFits(n) # {}
    /\ LET best == Max(BestFits(n))
       IN recycled' = RemoveAt(recycled, best) /\ Existing(recycled[best], n)

\* ... or with one from malloc(), which is none of those that exist.
Allocate(n) ==
    /\ Cardinality(reads) < MaxReads
    /\ BestFits(n) = {}
    /\ \E more \in Rounding :
          Existing([number |-> Cardinality(Blocks) + 1, asked |-> n, size |-> n + more], n)
    /\ UNCHANGED recycled

\* operator delete.
Recycle(r) ==
    /\ recycled' = Append(recycled, r.block)
    /\ reads' = reads \ {r}
    /\ UNCHANGED most

PoolNext == (\E n \in Sizes : Reuse(n) \/ Allocate(n)) \/ \E r \in reads : Recycle(r)

PoolSpec == PoolInit /\ [][PoolNext]_poolVars

-----------------------------------------------------------------------------
(***************************************************************************)
(* A read has a block that is large enough and in no other hands, whatever *)
(* reads there have been before.                                           *)
(*                                                                         *)
(* And although the vector never shrinks the memory is bounded: there are  *)
(* no more blocks of one size than there have been reads at once.          *)
(***************************************************************************)
BlockOfItsOwn ==
    /\ \A r \in reads : r.block.size >= r.needs
    /\ IsInjective(recycled)
    /\ Range(recycled) \intersect {r.block : r \in reads} = {}
    /\ Cardinality({r.block.number : r \in reads}) = Cardinality(reads)
    /\ \A n \in Sizes : Cardinality({b \in Blocks : b.asked = n}) <= most
=============================================================================
