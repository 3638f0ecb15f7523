------------------------------ MODULE Mempool -------------------------------
(***************************************************************************)
(* Fixed-size memory pools (kernel/mempool.c): a bitmap of used blocks in  *)
(* words of WORD_BITS bits over a storage area.  Allocation and the bitmap *)
(* part of a free are critical sections; what a free checks before it is   *)
(* constant after creation, so each call is one step.                      *)
(***************************************************************************)
EXTENDS Integers, FiniteSets

CONSTANTS
    WORD_BITS,    \* 32 in the code
    storage,      \* address of the first byte of the storage
    block_size,   \* bytes in a block
    block_count,  \* blocks in the pool
    Client,       \* tasks that use the pool
    BadAddress    \* addresses a client may pass to free without owning them

ASSUME MempoolAssumption ==
    /\ WORD_BITS \in Nat \ {0}
    /\ storage \in Nat \ {0}
    /\ block_size \in Nat \ {0}
    /\ block_count \in Nat \ {0}
    /\ BadAddress \subseteq Nat

VARIABLES
    used_bitmap,  \* the words of the bitmap, each the set of bits that are 1
    held          \* history: addresses each client got and did not free

vars == <<used_bitmap, held>>

bitmap_words(count) == (count + WORD_BITS - 1) \div WORD_BITS

\* The application provides an array that is large enough.
BitmapWord == 0 .. (block_count - 1) \div WORD_BITS
Index == 0 .. block_count - 1
BlockAddress == {storage + i * block_size : i \in Index}

TypeOK ==
    /\ used_bitmap \in [BitmapWord -> SUBSET (0 .. WORD_BITS - 1)]
    /\ held \in [Client -> SUBSET BlockAddress]

\* JRT_MemoryPoolCreateStatic on a bitmap with any contents.
Init ==
    /\ \E garbage \in [BitmapWord -> SUBSET (0 .. WORD_BITS - 1)] :
          used_bitmap = [w \in BitmapWord |-> IF w < bitmap_words(block_count)
                                        THEN {} ELSE garbage[w]]
    /\ held = [c \in Client |-> {}]

Used(index) == index % WORD_BITS \in used_bitmap[index \div WORD_BITS]

-----------------------------------------------------------------------------
(* Mutant: the bit is set in the first word, whatever the index.           *)
AllocateWrongWord(c) ==
    \E index \in Index :
        /\ ~Used(index)
        /\ \A i \in 0 .. index - 1 : Used(i)
        /\ used_bitmap' = [used_bitmap EXCEPT ![0] =
                               @ \cup {index % WORD_BITS}]
        /\ held' = [held EXCEPT ![c] = @ \cup {storage + index * block_size}]

\* JRT_MemoryPoolAllocate, when it finds a free block: the first one.
Allocate(c) ==
    \E index \in Index :
        /\ ~Used(index)
        /\ \A i \in 0 .. index - 1 : Used(i)
        /\ used_bitmap' = [used_bitmap EXCEPT ![index \div WORD_BITS] =
                               @ \cup {index % WORD_BITS}]
        /\ held' = [held EXCEPT ![c] = @ \cup {storage + index * block_size}]

\* JRT_MemoryPoolAllocate returns NULL.
AllocateFails(c) ==
    /\ \A index \in Index : Used(index)
    /\ UNCHANGED vars

(* Mutant: a pointer into a block frees the block.                         *)
FreesUnaligned(address) ==
    /\ storage <= address
    /\ address < storage + block_size * block_count
    /\ Used((address - storage) \div block_size)

\* What JRT_MemoryPoolFree accepts.
Frees(address) ==
    /\ address # 0
    /\ storage <= address
    /\ address < storage + block_size * block_count
    /\ (address - storage) % block_size = 0
    /\ Used((address - storage) \div block_size)

\* JRT_MemoryPoolFree: an address it does not accept changes nothing.
Free(address) ==
    LET index == (address - storage) \div block_size
    IN  used_bitmap' =
            IF Frees(address)
            THEN [used_bitmap EXCEPT ![index \div WORD_BITS] =
                      @ \ {index % WORD_BITS}]
            ELSE used_bitmap

FreeOwn(c) ==
    \E address \in held[c] :
        /\ Free(address)
        /\ held' = [held EXCEPT ![c] = @ \ {address}]

\* A double free or a pointer that was never a block: nobody holds it.
FreeBad(address) ==
    /\ \A c \in Client : address \notin held[c]
    /\ Free(address)
    /\ UNCHANGED held

Next ==
    \/ \E c \in Client : Allocate(c) \/ AllocateFails(c) \/ FreeOwn(c)
    \/ \E address \in BadAddress : FreeBad(address)

Spec == Init /\ [][Next]_vars

-----------------------------------------------------------------------------
(* Properties.                                                             *)

(***************************************************************************)
(* The bitmap marks exactly the blocks some client holds: no block is      *)
(* leaked by a free that is refused, none is given back by a double free,  *)
(* by a pointer into a block or by one outside the pool, and the pool says *)
(* it is exhausted only when every block is held.                          *)
(***************************************************************************)
BitmapAgrees ==
    /\ TypeOK
    /\ \A i \in Index :
          Used(i) <=> \E c \in Client : storage + i * block_size \in held[c]

(***************************************************************************)
(* A block has one owner: no two clients hold a common byte.               *)
(***************************************************************************)
BlocksAreExclusive ==
    \A c, d \in Client : \A a \in held[c], b \in held[d] :
        (c # d \/ a # b) =>
            (a .. a + block_size - 1) \cap (b .. b + block_size - 1) = {}
=============================================================================
