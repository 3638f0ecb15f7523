---------------------------- MODULE MemoryProofs ----------------------------
(***************************************************************************)
(* Memory belongs to one task at a time.  Memory pools: the bitmap tells   *)
(* the truth and every block has one owner, for every word width, block    *)
(* size, number of blocks and clients, and whatever addresses are given to *)
(* JRT_MemoryPoolFree.  The kernel from reset: JRT_KernelInit accepts      *)
(* exactly the safe configurations, and the MPU follows the running task,  *)
(* for every number of tasks, every layout of memory and every sequence of *)
(* initialisations and switches.                                           *)
(***************************************************************************)
EXTENDS Mempool, Kernel, TaskProofs, FiniteSetTheorems

(* Division with remainder.                                                *)
LEMMA Division ==
    ASSUME NEW a \in Nat, NEW b \in Nat \ {0}
    PROVE  /\ a \div b \in Nat
           /\ a % b \in 0 .. b - 1
           /\ a = b * (a \div b) + (a % b)
OBVIOUS

(* A factor of at least one does not make a product smaller.               *)
LEMMA Multiple ==
    ASSUME NEW b \in Nat \ {0}, NEW k \in Nat \ {0}
    PROVE  b * k >= b
<1>1. k - 1 \in Nat
  OBVIOUS
<1>2. b * (k - 1) >= 0
  BY <1>1
<1>3. b * k = b * (k - 1) + b
  BY <1>1
<1> QED
  BY <1>2, <1>3

LEMMA DivisionUnique ==
    ASSUME NEW b \in Nat \ {0}, NEW q \in Nat, NEW p \in Nat,
           NEW r \in 0 .. b - 1, NEW s \in 0 .. b - 1,
           b * q + r = b * p + s
    PROVE  q = p /\ r = s
<1>1. b * (q - p) = s - r /\ b * (p - q) = r - s
  OBVIOUS
<1>2. CASE q > p
  <2>1. b * (q - p) >= b
    BY <1>2, Multiple
  <2> QED
    BY <1>1, <2>1
<1>3. CASE p > q
  <2>1. b * (p - q) >= b
    BY <1>3, Multiple
  <2> QED
    BY <1>1, <2>1
<1>4. CASE q = p
  BY <1>1, <1>4
<1> QED
  BY <1>2, <1>3, <1>4

LEMMA DivisionOf ==
    ASSUME NEW b \in Nat \ {0}, NEW q \in Nat, NEW r \in 0 .. b - 1
    PROVE  (b * q + r) \div b = q /\ (b * q + r) % b = r
<1> DEFINE a == b * q + r
<1>1. a \in Nat
  <2>1. b * q \in Nat
    OBVIOUS
  <2> QED
    BY <2>1
<1> HIDE DEF a
<1>2. /\ a \div b \in Nat /\ a % b \in 0 .. b - 1
      /\ a = b * (a \div b) + (a % b)
  BY <1>1, Division
<1>3. b * q + r = b * (a \div b) + (a % b)
  BY <1>2 DEF a
<1>4. q = a \div b /\ r = a % b
  BY <1>2, <1>3, DivisionUnique
<1> QED
  BY <1>4 DEF a

-----------------------------------------------------------------------------
(* Bits and addresses of blocks.                                           *)

(* Every block has a bit of its own, in a word of the bitmap.              *)
LEMMA BitOf ==
    ASSUME NEW i \in Index
    PROVE  /\ i \div WORD_BITS \in BitmapWord
           /\ i % WORD_BITS \in 0 .. WORD_BITS - 1
           /\ \A j \in Index :
                (i \div WORD_BITS = j \div WORD_BITS
                    /\ i % WORD_BITS = j % WORD_BITS) => i = j
<1> DEFINE last == block_count - 1
<1>1. /\ WORD_BITS \in Nat \ {0} /\ last \in Nat /\ i \in Nat /\ i <= last
      /\ \A j \in Index : j \in Nat
  BY MempoolAssumption DEF Index
<1> HIDE DEF last
<1>2. /\ i \div WORD_BITS \in Nat /\ i % WORD_BITS \in 0 .. WORD_BITS - 1
      /\ i = WORD_BITS * (i \div WORD_BITS) + (i % WORD_BITS)
  BY <1>1, Division
<1>3. /\ last \div WORD_BITS \in Nat /\ last % WORD_BITS \in 0 .. WORD_BITS - 1
      /\ last = WORD_BITS * (last \div WORD_BITS) + (last % WORD_BITS)
  BY <1>1, Division
<1>4. i \div WORD_BITS <= last \div WORD_BITS
  <2> DEFINE q == i \div WORD_BITS
             p == last \div WORD_BITS
  <2> SUFFICES ASSUME q > p
               PROVE  FALSE
    BY <1>2, <1>3
  <2>1. q \in Nat /\ p \in Nat /\ q - p \in Nat \ {0}
    BY <1>2, <1>3
  <2> HIDE DEF q, p
  <2>2. WORD_BITS * (q - p) >= WORD_BITS
    BY <1>1, <2>1, Multiple
  <2>3. WORD_BITS * (q - p) = WORD_BITS * q - WORD_BITS * p
    BY <1>1, <2>1
  <2>4. i = WORD_BITS * q + (i % WORD_BITS) /\ last = WORD_BITS * p + (last % WORD_BITS)
    BY <1>2, <1>3 DEF q, p
  <2>5. WORD_BITS * q \in Nat /\ WORD_BITS * p \in Nat
    BY <1>1, <2>1
  <2> QED
    BY <1>1, <1>2, <1>3, <2>2, <2>3, <2>4, <2>5
<1>5. \A j \in Index : j = WORD_BITS * (j \div WORD_BITS) + (j % WORD_BITS)
  BY <1>1, Division
<1> QED
  BY <1>2, <1>3, <1>4, <1>5 DEF BitmapWord, last

(* Every word of the bitmap is one JRT_MemoryPoolCreateStatic clears.      *)
LEMMA AllWordsCleared ==
    ASSUME NEW w \in BitmapWord
    PROVE  w < bitmap_words(block_count)
<1> DEFINE last == block_count - 1
           q == last \div WORD_BITS
           r == last % WORD_BITS
<1>1. WORD_BITS \in Nat \ {0} /\ last \in Nat /\ block_count = last + 1
  BY MempoolAssumption
<1> HIDE DEF last
<1>2. q \in Nat /\ r \in 0 .. WORD_BITS - 1 /\ last = WORD_BITS * q + r
  BY <1>1, Division
<1>3. w \in Int /\ w <= q
  BY <1>2 DEF BitmapWord, last
<1> HIDE DEF q, r
<1>4. block_count + WORD_BITS - 1 = WORD_BITS * (q + 1) + r
  <2>1. WORD_BITS * (q + 1) = WORD_BITS * q + WORD_BITS
    BY <1>1, <1>2
  <2>2. WORD_BITS * q \in Nat
    BY <1>1, <1>2
  <2> QED
    BY <1>1, <1>2, <2>1, <2>2
<1>5. (WORD_BITS * (q + 1) + r) \div WORD_BITS = q + 1
  BY <1>1, <1>2, DivisionOf
<1> QED
  BY <1>2, <1>3, <1>4, <1>5 DEF bitmap_words

AddressOf(i) == storage + i * block_size

(* The address of a block is in the pool, and JRT_MemoryPoolFree computes  *)
(* the block back from it.                                                 *)
LEMMA IndexOfAddress ==
    ASSUME NEW i \in Index
    PROVE  /\ AddressOf(i) \in BlockAddress
           /\ AddressOf(i) # 0
           /\ storage <= AddressOf(i)
           /\ AddressOf(i) < storage + block_size * block_count
           /\ (AddressOf(i) - storage) % block_size = 0
           /\ (AddressOf(i) - storage) \div block_size = i
<1>1. /\ storage \in Nat \ {0} /\ block_size \in Nat \ {0}
      /\ block_count \in Nat \ {0} /\ i \in Nat /\ i < block_count
  BY MempoolAssumption DEF Index
<1>2. i * block_size \in Nat /\ i * block_size = block_size * i
  BY <1>1
<1>3. /\ (block_size * i + 0) \div block_size = i
      /\ (block_size * i + 0) % block_size = 0
  BY <1>1, DivisionOf
<1>4. AddressOf(i) - storage = block_size * i + 0
  BY <1>1, <1>2 DEF AddressOf
<1>5. AddressOf(i) < storage + block_size * block_count
  <2>1. block_size * (block_count - i) >= block_size
    BY <1>1, Multiple
  <2>2. block_size * (block_count - i) =
            block_size * block_count - block_size * i
    BY <1>1
  <2>3. block_size * block_count \in Nat
    BY <1>1
  <2> QED
    BY <1>1, <1>2, <2>1, <2>2, <2>3 DEF AddressOf
<1>6. AddressOf(i) \in BlockAddress
  BY DEF BlockAddress, AddressOf
<1>7. storage <= AddressOf(i) /\ AddressOf(i) # 0
  BY <1>1, <1>2 DEF AddressOf
<1> QED
  BY <1>3, <1>4, <1>5, <1>6, <1>7

(* An aligned address inside the pool is the address of a block.           *)
LEMMA AddressOfIndex ==
    ASSUME NEW address \in Int, storage <= address,
           address < storage + block_size * block_count,
           (address - storage) % block_size = 0
    PROVE  /\ (address - storage) \div block_size \in Index
           /\ address = AddressOf((address - storage) \div block_size)
<1> DEFINE a == address - storage
           q == a \div block_size
<1>1. /\ storage \in Nat \ {0} /\ block_size \in Nat \ {0}
      /\ block_count \in Nat \ {0} /\ a \in Nat
  BY MempoolAssumption
<1>2. block_size * block_count \in Nat /\ a < block_size * block_count
  BY <1>1
<1> HIDE DEF a
<1>3. q \in Nat /\ a = block_size * q + (a % block_size)
  BY <1>1, Division
<1>4. a = block_size * q
  BY <1>1, <1>3 DEF a
<1>5. address = storage + a
  BY <1>1 DEF a
<1> HIDE DEF q
<1>6. q < block_count
  <2> SUFFICES ASSUME q >= block_count
               PROVE  FALSE
    BY <1>1, <1>3
  <2>1. q - block_count \in Nat
    BY <1>1, <1>3
  <2>2. block_size * (q - block_count) >= 0
    BY <1>1, <2>1
  <2>3. block_size * (q - block_count) =
            block_size * q - block_size * block_count
    BY <1>1, <1>3
  <2>4. block_size * q \in Nat
    BY <1>1, <1>3
  <2> QED
    BY <1>2, <1>4, <2>2, <2>3, <2>4
<1>7. q \in Index
  BY <1>1, <1>3, <1>6 DEF Index
<1>8. address = AddressOf(q)
  <2>1. block_size * q = q * block_size
    BY <1>1, <1>3
  <2> QED
    BY <1>4, <1>5, <2>1 DEF AddressOf
<1> QED
  BY <1>7, <1>8 DEF q, a

-----------------------------------------------------------------------------
(* The inductive invariant: nobody holds what another client holds.        *)

OneOwner ==
    \A c, d \in Client : \A a \in held[c] : a \in held[d] => c = d

PoolInv == BitmapAgrees /\ OneOwner

(* What a set or a cleared bit does to the blocks of the pool.             *)
LEMMA SetBit ==
    ASSUME BitmapAgrees, NEW i \in Index,
           used_bitmap' = [used_bitmap EXCEPT ![i \div WORD_BITS] =
                               @ \cup {i % WORD_BITS}]
    PROVE  /\ used_bitmap' \in [BitmapWord -> SUBSET (0 .. WORD_BITS - 1)]
           /\ \A j \in Index : Used(j)' <=> Used(j) \/ j = i
<1>1. used_bitmap \in [BitmapWord -> SUBSET (0 .. WORD_BITS - 1)]
  BY DEF BitmapAgrees, TypeOK
<1>2. i \div WORD_BITS \in BitmapWord /\ i % WORD_BITS \in 0 .. WORD_BITS - 1
  BY BitOf
<1>3. ASSUME NEW j \in Index
      PROVE  Used(j)' <=> Used(j) \/ j = i
  <2>1. /\ j \div WORD_BITS \in BitmapWord
        /\ (i \div WORD_BITS = j \div WORD_BITS
                /\ i % WORD_BITS = j % WORD_BITS) => i = j
    BY BitOf
  <2> QED
    BY <1>1, <1>2, <2>1 DEF Used
<1> QED
  BY <1>1, <1>2, <1>3

LEMMA ClearBit ==
    ASSUME BitmapAgrees, NEW i \in Index,
           used_bitmap' = [used_bitmap EXCEPT ![i \div WORD_BITS] =
                               @ \ {i % WORD_BITS}]
    PROVE  /\ used_bitmap' \in [BitmapWord -> SUBSET (0 .. WORD_BITS - 1)]
           /\ \A j \in Index : Used(j)' <=> Used(j) /\ j # i
<1>1. used_bitmap \in [BitmapWord -> SUBSET (0 .. WORD_BITS - 1)]
  BY DEF BitmapAgrees, TypeOK
<1>2. i \div WORD_BITS \in BitmapWord /\ i % WORD_BITS \in 0 .. WORD_BITS - 1
  BY BitOf
<1>3. ASSUME NEW j \in Index
      PROVE  Used(j)' <=> Used(j) /\ j # i
  <2>1. /\ j \div WORD_BITS \in BitmapWord
        /\ (i \div WORD_BITS = j \div WORD_BITS
                /\ i % WORD_BITS = j % WORD_BITS) => i = j
    BY BitOf
  <2> QED
    BY <1>1, <1>2, <2>1 DEF Used
<1> QED
  BY <1>1, <1>2, <1>3

(* Different blocks have different addresses.                              *)
LEMMA AddressesDiffer ==
    ASSUME NEW i \in Index, NEW j \in Index, AddressOf(i) = AddressOf(j)
    PROVE  i = j
BY IndexOfAddress

LEMMA PoolInit == Init => PoolInv
<1> SUFFICES ASSUME Init
             PROVE  PoolInv
  OBVIOUS
<1>1. used_bitmap = [w \in BitmapWord |-> {}]
  BY AllWordsCleared DEF Init
<1>2. held = [c \in Client |-> {}]
  BY DEF Init
<1>3. \A i \in Index : ~Used(i)
  BY <1>1, BitOf DEF Used
<1> QED
  BY <1>1, <1>2, <1>3 DEF PoolInv, BitmapAgrees, OneOwner, TypeOK

LEMMA AllocateInv ==
    ASSUME PoolInv, NEW c \in Client, Allocate(c)
    PROVE  PoolInv'
<1>1. PICK i \in Index :
        /\ ~Used(i)
        /\ used_bitmap' = [used_bitmap EXCEPT ![i \div WORD_BITS] =
                               @ \cup {i % WORD_BITS}]
        /\ held' = [held EXCEPT ![c] = @ \cup {AddressOf(i)}]
  BY DEF Allocate, AddressOf
<1>2. held \in [Client -> SUBSET BlockAddress] /\ AddressOf(i) \in BlockAddress
  BY IndexOfAddress DEF PoolInv, BitmapAgrees, TypeOK
<1>3. /\ used_bitmap' \in [BitmapWord -> SUBSET (0 .. WORD_BITS - 1)]
      /\ \A j \in Index : Used(j)' <=> Used(j) \/ j = i
  BY <1>1, SetBit DEF PoolInv
<1>4. \A d \in Client :
         held'[d] = IF d = c THEN held[d] \cup {AddressOf(i)} ELSE held[d]
  BY <1>1, <1>2
<1>5. TypeOK'
  BY <1>1, <1>2, <1>3 DEF TypeOK
<1>6. \A j \in Index : Used(j) <=> \E d \in Client : AddressOf(j) \in held[d]
  BY DEF PoolInv, BitmapAgrees, AddressOf
<1>7. \A d \in Client : AddressOf(i) \notin held[d]
  BY <1>1, <1>6
<1>8. ASSUME NEW j \in Index
      PROVE  Used(j)' <=> \E d \in Client : AddressOf(j) \in held'[d]
  <2>1. CASE j = i
    BY <1>3, <1>4, <2>1
  <2>2. CASE j # i
    <3>1. AddressOf(j) # AddressOf(i)
      BY <2>2, AddressesDiffer
    <3> QED
      BY <1>3, <1>4, <1>6, <2>2, <3>1
  <2> QED
    BY <2>1, <2>2
<1>9. OneOwner'
  BY <1>4, <1>7 DEF PoolInv, OneOwner
<1> QED
  BY <1>5, <1>8, <1>9 DEF PoolInv, BitmapAgrees, AddressOf

LEMMA FreeOwnInv ==
    ASSUME PoolInv, NEW c \in Client, FreeOwn(c)
    PROVE  PoolInv'
<1>1. PICK address \in held[c] :
        Free(address) /\ held' = [held EXCEPT ![c] = @ \ {address}]
  BY DEF FreeOwn
<1>2. held \in [Client -> SUBSET BlockAddress]
  BY DEF PoolInv, BitmapAgrees, TypeOK
<1>3. PICK i \in Index : address = AddressOf(i)
  BY <1>2 DEF BlockAddress, AddressOf
<1>4. \A j \in Index : Used(j) <=> \E d \in Client : AddressOf(j) \in held[d]
  BY DEF PoolInv, BitmapAgrees, AddressOf
<1>5. Frees(address) /\ (address - storage) \div block_size = i
  BY <1>3, <1>4, IndexOfAddress DEF Frees
<1>6. used_bitmap' = [used_bitmap EXCEPT ![i \div WORD_BITS] =
                          @ \ {i % WORD_BITS}]
  BY <1>1, <1>5 DEF Free
<1>7. /\ used_bitmap' \in [BitmapWord -> SUBSET (0 .. WORD_BITS - 1)]
      /\ \A j \in Index : Used(j)' <=> Used(j) /\ j # i
  BY <1>6, ClearBit DEF PoolInv
<1>8. \A d \in Client :
         held'[d] = IF d = c THEN held[d] \ {AddressOf(i)} ELSE held[d]
  BY <1>1, <1>2, <1>3
<1>9. TypeOK'
  <2>1. held' \in [Client -> SUBSET BlockAddress]
    BY <1>1, <1>2
  <2> QED
    BY <1>7, <2>1 DEF TypeOK
<1>10. \A d \in Client : AddressOf(i) \notin held'[d]
  BY <1>1, <1>3, <1>8 DEF PoolInv, OneOwner
<1>11. ASSUME NEW j \in Index
       PROVE  Used(j)' <=> \E d \in Client : AddressOf(j) \in held'[d]
  <2>1. CASE j = i
    BY <1>7, <1>10, <2>1
  <2>2. CASE j # i
    <3>1. AddressOf(j) # AddressOf(i)
      BY <2>2, AddressesDiffer
    <3> QED
      BY <1>4, <1>7, <1>8, <2>2, <3>1
  <2> QED
    BY <2>1, <2>2
<1>12. OneOwner'
  BY <1>8 DEF PoolInv, OneOwner
<1> QED
  BY <1>9, <1>11, <1>12 DEF PoolInv, BitmapAgrees, AddressOf

(* A free of something nobody holds is refused: were it accepted, its      *)
(* address would be that of a block whose bit is set, which is held.       *)
LEMMA FreeBadInv ==
    ASSUME PoolInv, NEW address \in BadAddress, FreeBad(address)
    PROVE  PoolInv'
<1>1. ~Frees(address)
  <2> SUFFICES ASSUME Frees(address)
               PROVE  FALSE
    OBVIOUS
  <2> DEFINE i == (address - storage) \div block_size
  <2>1. i \in Index /\ address = AddressOf(i) /\ Used(i)
    <3>1. address \in Int
      BY MempoolAssumption
    <3> QED
      BY <3>1, AddressOfIndex DEF Frees
  <2> HIDE DEF i
  <2>2. \E c \in Client : address \in held[c]
    BY <2>1 DEF PoolInv, BitmapAgrees, AddressOf
  <2> QED
    BY <2>2 DEF FreeBad
<1>2. UNCHANGED vars
  BY <1>1 DEF FreeBad, Free, vars
<1> QED
  BY <1>2 DEF vars, PoolInv, BitmapAgrees, OneOwner, TypeOK, Used

LEMMA PoolNext == PoolInv /\ [Next]_vars => PoolInv'
<1> SUFFICES ASSUME PoolInv, [Next]_vars
             PROVE  PoolInv'
  OBVIOUS
<1>1. CASE UNCHANGED vars
  BY <1>1 DEF vars, PoolInv, BitmapAgrees, OneOwner, TypeOK, Used
<1>2. ASSUME NEW c \in Client, Allocate(c)
      PROVE  PoolInv'
  BY <1>2, AllocateInv
<1>3. ASSUME NEW c \in Client, AllocateFails(c)
      PROVE  PoolInv'
  BY <1>1, <1>3 DEF AllocateFails
<1>4. ASSUME NEW c \in Client, FreeOwn(c)
      PROVE  PoolInv'
  BY <1>4, FreeOwnInv
<1>5. ASSUME NEW address \in BadAddress, FreeBad(address)
      PROVE  PoolInv'
  BY <1>5, FreeBadInv
<1> QED
  BY <1>1, <1>2, <1>3, <1>4, <1>5 DEF Next

LEMMA PoolInvariant == Spec => []PoolInv
BY PoolInit, PoolNext, PTL DEF Spec

(* Blocks at different addresses have no byte in common.                   *)
LEMMA BlocksDisjoint ==
    ASSUME NEW i \in Index, NEW j \in Index, i # j
    PROVE  (AddressOf(i) .. AddressOf(i) + block_size - 1) \cap
           (AddressOf(j) .. AddressOf(j) + block_size - 1) = {}
<1>1. ASSUME NEW k \in Index, NEW l \in Index, k < l
      PROVE  AddressOf(k) + block_size <= AddressOf(l)
  <2>1. /\ storage \in Nat /\ block_size \in Nat \ {0}
        /\ k \in Nat /\ l \in Nat /\ l - k \in Nat \ {0}
    BY <1>1, MempoolAssumption DEF Index
  <2>2. block_size * (l - k) >= block_size
    BY <2>1, Multiple
  <2>3. block_size * (l - k) = l * block_size - k * block_size
    BY <2>1
  <2>4. l * block_size \in Nat /\ k * block_size \in Nat
    BY <2>1
  <2> QED
    BY <2>1, <2>2, <2>3, <2>4 DEF AddressOf
<1>2. /\ i \in Nat /\ j \in Nat /\ block_size \in Nat
      /\ AddressOf(i) \in Nat /\ AddressOf(j) \in Nat
  <2>1. /\ i \in Nat /\ j \in Nat /\ block_size \in Nat /\ storage \in Nat
    BY MempoolAssumption DEF Index
  <2>2. i * block_size \in Nat /\ j * block_size \in Nat
    BY <2>1
  <2> QED
    BY <2>1, <2>2 DEF AddressOf
<1>3. CASE i < j
  BY <1>1, <1>2, <1>3
<1>4. CASE j < i
  BY <1>1, <1>2, <1>4
<1> QED
  BY <1>2, <1>3, <1>4

(***************************************************************************)
(* JRT_MemoryPoolAllocate and JRT_MemoryPoolFree keep the bitmap and the   *)
(* blocks in use in agreement, for every pool and every sequence of calls, *)
(* double frees and addresses that were never a block included.            *)
(***************************************************************************)
THEOREM PoolBitmapAgrees == Spec => []BitmapAgrees
<1>1. PoolInv => BitmapAgrees
  BY DEF PoolInv
<1> QED
  BY <1>1, PoolInvariant, PTL

(***************************************************************************)
(* No byte of a pool is ever in the hands of two clients, nor twice in the *)
(* hands of one.                                                           *)
(***************************************************************************)
THEOREM PoolBlocksAreExclusive == Spec => []BlocksAreExclusive
<1>1. ASSUME PoolInv
      PROVE  BlocksAreExclusive
  <2> SUFFICES ASSUME NEW c \in Client, NEW d \in Client,
                      NEW a \in held[c], NEW b \in held[d], c # d \/ a # b
               PROVE  (a .. a + block_size - 1) \cap
                      (b .. b + block_size - 1) = {}
    BY DEF BlocksAreExclusive
  <2>1. a # b
    BY <1>1 DEF PoolInv, OneOwner
  <2>2. a \in BlockAddress /\ b \in BlockAddress
    BY <1>1 DEF PoolInv, BitmapAgrees, TypeOK
  <2>3. PICK i \in Index : a = AddressOf(i)
    BY <2>2 DEF BlockAddress, AddressOf
  <2>4. PICK j \in Index : b = AddressOf(j)
    BY <2>2 DEF BlockAddress, AddressOf
  <2> QED
    BY <2>1, <2>3, <2>4, BlocksDisjoint
<1> QED
  BY <1>1, PoolInvariant, PTL

-----------------------------------------------------------------------------
(* Powers of two and the sizes of MPU regions.                             *)

LEMMA PowerLoop ==
    ASSUME NEW n \in Nat
    PROVE  \E f \in [0 .. n -> Nat \ {0}] :
              /\ f[0] = 1
              /\ \A d \in 1 .. n : f[d] = 2 * f[d - 1]
              /\ PowerOfTwo(n) = f[n]
<1> DEFINE S == Nat \ {0}
           step == [d \in 1 .. n |-> [r \in S |-> 2 * r]]
           Loop(f) == f = [d \in 0 .. n |->
                              IF d = 0 THEN 1 ELSE 2 * f[d - 1]]
           shift == CHOOSE f : Loop(f)
<1>1. 1 \in S /\ step \in [1 .. n -> [S -> S]]
  OBVIOUS
<1> HIDE DEF S, step
<1>2. PICK f : Iterates(f, n, S, 1, step)
  BY <1>1, IterationExists
<1>3. /\ f \in [0 .. n -> S] /\ f[0] = 1
      /\ \A d \in 1 .. n : f[d] = step[d][f[d - 1]]
  BY <1>2 DEF Iterates
<1>4. ASSUME NEW d \in 1 .. n
      PROVE  f[d] = 2 * f[d - 1]
  <2>1. d - 1 \in 0 .. n
    OBVIOUS
  <2>2. f[d - 1] \in S
    BY <1>3, <2>1
  <2> QED
    BY <1>3, <2>2 DEF step
<1>5. Loop(f)
  <2>1. ASSUME NEW d \in 0 .. n
        PROVE  f[d] = IF d = 0 THEN 1 ELSE 2 * f[d - 1]
    <3>1. CASE d = 0
      BY <1>3, <3>1
    <3>2. CASE d # 0
      <4>1. d \in 1 .. n
        BY <3>2
      <4> QED
        BY <1>4, <3>2, <4>1
    <3> QED
      BY <3>1, <3>2
  <2> QED
    BY <1>3, <2>1
<1>6. Loop(shift)
  <2> HIDE DEF Loop
  <2> QED
    BY <1>5
<1>7. PowerOfTwo(n) = shift[n]
  BY DEF PowerOfTwo
<1> HIDE DEF shift
<1>8. \A d \in 0 .. n : shift[d] = f[d]
  <2> DEFINE G == {d \in 0 .. n : shift[d] = f[d]}
  <2>1. 0 \in G
    BY <1>3, <1>6
  <2>2. ASSUME NEW d \in 1 .. n, d - 1 \in G
        PROVE  d \in G
    <3>1. shift[d] = 2 * shift[d - 1]
      BY <1>6
    <3> QED
      BY <1>4, <2>2, <3>1
  <2> HIDE DEF G
  <2>3. \A d \in 0 .. n : d \in G
    BY <2>1, <2>2, UpTo
  <2> QED
    BY <2>3 DEF G
<1>9. n \in 0 .. n
  OBVIOUS
<1>10. PowerOfTwo(n) = f[n]
  BY <1>7, <1>8, <1>9
<1>11. f \in [0 .. n -> Nat \ {0}]
  BY <1>3 DEF S
<1>12. /\ f[0] = 1 /\ \A d \in 1 .. n : f[d] = 2 * f[d - 1]
  BY <1>3, <1>4
<1> QED
  BY <1>10, <1>11, <1>12

(* Two such loops agree as far as the shorter one goes.                    *)
LEMMA Powers ==
    /\ PowerOfTwo(0) = 1
    /\ \A n \in Nat : /\ PowerOfTwo(n) \in Nat \ {0}
                      /\ PowerOfTwo(n + 1) = 2 * PowerOfTwo(n)
<1>1. PowerOfTwo(0) = 1
  BY PowerLoop
<1>2. ASSUME NEW n \in Nat
      PROVE  /\ PowerOfTwo(n) \in Nat \ {0}
             /\ PowerOfTwo(n + 1) = 2 * PowerOfTwo(n)
  <2>1. PICK f \in [0 .. n -> Nat \ {0}] :
              /\ f[0] = 1
              /\ \A d \in 1 .. n : f[d] = 2 * f[d - 1]
              /\ PowerOfTwo(n) = f[n]
    BY PowerLoop
  <2>2. PICK g \in [0 .. n + 1 -> Nat \ {0}] :
              /\ g[0] = 1
              /\ \A d \in 1 .. n + 1 : g[d] = 2 * g[d - 1]
              /\ PowerOfTwo(n + 1) = g[n + 1]
    <3>1. n + 1 \in Nat
      OBVIOUS
    <3> HIDE DEF PowerOfTwo
    <3> QED
      BY <3>1, PowerLoop
  <2> DEFINE G == {d \in 0 .. n : f[d] = g[d]}
  <2>3. 0 \in G
    BY <2>1, <2>2
  <2>4. ASSUME NEW d \in 1 .. n, d - 1 \in G
        PROVE  d \in G
    BY <2>1, <2>2, <2>4
  <2> HIDE DEF G
  <2>5. \A d \in 0 .. n : d \in G
    BY <2>3, <2>4, UpTo
  <2>6. n \in 0 .. n /\ n + 1 \in 1 .. n + 1 /\ (n + 1) - 1 = n
    OBVIOUS
  <2>7. f[n] = g[n]
    BY <2>5, <2>6 DEF G
  <2> QED
    BY <2>1, <2>2, <2>6, <2>7
<1> QED
  BY <1>1, <1>2

(* The smallest element of a set of naturals.                              *)
LEMMA MinOf ==
    ASSUME NEW S, S \subseteq Nat, S # {}
    PROVE  Min(S) \in S /\ \A s \in S : Min(S) <= s
<1>1. \E x \in S : \A y \in S : x <= y
  BY LeastNatural
<1> QED
  BY <1>1 DEF Min

LEMMA MemoryConstants ==
    /\ WORD_BYTES \in Nat \ {0} /\ STACK_ALIGN \in Nat \ {0}
    /\ JRT_TASK_GUARD_WORDS \in Nat \ {0} /\ REGION_SIZES \in Nat \ {0}
    /\ JRT_MINIMUM_TASK_STACK_WORDS \in Nat
    /\ JRT_MAX_APPLICATION_TASKS \in Nat
    /\ GUARD_BYTES \in Nat \ {0} /\ MPU_MIN_SIZE = GUARD_BYTES
    /\ ADDR_MOD \in Nat \ {0}
<1>1. ASSUME NEW a \in Nat \ {0}, NEW b \in Nat \ {0}
      PROVE  a * b \in Nat \ {0}
  <2>1. a * b >= a
    BY Multiple
  <2> QED
    BY <2>1
<1>2. GUARD_BYTES \in Nat \ {0}
  BY <1>1, MemoryAssumption DEF GUARD_BYTES
<1>3. PowerOfTwo(REGION_SIZES - 1) \in Nat \ {0}
  BY MemoryAssumption, Powers
<1>4. ADDR_MOD \in Nat \ {0}
  BY <1>1, <1>2, <1>3, MemoryAssumption
<1> QED
  BY <1>2, <1>4, MemoryAssumption

LEMMA RegionSizes ==
    /\ RegionSize \subseteq Nat \ {0}
    /\ MPU_MIN_SIZE \in RegionSize
    /\ ADDR_MOD \in RegionSize
<1>1. ASSUME NEW k \in 0 .. REGION_SIZES - 1
      PROVE  MPU_MIN_SIZE * PowerOfTwo(k) \in Nat \ {0}
  <2>1. PowerOfTwo(k) \in Nat \ {0}
    BY Powers
  <2>2. MPU_MIN_SIZE * PowerOfTwo(k) >= MPU_MIN_SIZE
    BY <2>1, Multiple, MemoryConstants
  <2> QED
    BY <2>1, <2>2, MemoryConstants
<1>2. RegionSize \subseteq Nat \ {0}
  BY <1>1 DEF RegionSize
<1>3. 0 \in 0 .. REGION_SIZES - 1 /\ REGION_SIZES - 1 \in 0 .. REGION_SIZES - 1
  BY MemoryConstants
<1>4. MPU_MIN_SIZE * PowerOfTwo(0) = MPU_MIN_SIZE
  BY Powers, MemoryConstants
<1> QED
  BY <1>2, <1>3, <1>4, MemoryAssumption DEF RegionSize

-----------------------------------------------------------------------------
(* Periodic tasks.  The history variables tell the truth about the wake    *)
(* time, as long as the task is not lost, and a task on its way into or in *)
(* a sleep of JRT_TaskDelayUntil is behind its wake time by what it slipped *)
(* less what it still has to sleep.                                        *)

LagIsTrue(now, wake, l) ==
    l # LOST => TickSub(now, wake) = IF l < 0 THEN l + TICK_MOD ELSE l

Behind(l, s, rest) ==
    \/ l = LOST
    \/ s < LOST /\ l = s - rest
    \/ s = LOST /\ l >= s - rest

Awake(place, l, s) == place = "app" /\ s = -1 /\ l >= 0

Asleep(entry, place, l, s) ==
    /\ place = "app" /\ s >= 0
    /\ entry.state = "SLEEPING" /\ entry.sleep_ticks >= 1
    /\ Behind(l, s, entry.sleep_ticks)

Retiring(entry, place, c, l, s) ==
    /\ place = "attempt" /\ s >= 0
    /\ c.op = "delay_until" /\ c.timeout \in 1 .. HALF
    /\ entry.state # "SLEEPING"
    /\ Behind(l, s, c.timeout)

OnTime(entry, place, c, l, s) ==
    \/ Awake(place, l, s)
    \/ Asleep(entry, place, l, s)
    \/ Retiring(entry, place, c, l, s)

Punctual(t) ==
    /\ OnTime(tasks[t], pc[t], call[t], lag[t], slip[t])
    /\ LagIsTrue(ticks, previous_wake[t], lag[t])

PeriodInv ==
    /\ TaskInv
    /\ PeriodicTypeOK
    /\ \A t \in PeriodicTask : Punctual(t)

LEMMA HalfRange ==
    /\ HALF \in Nat /\ TICK_MOD = 2 * HALF /\ HALF >= 2 /\ LOST = HALF
    /\ TICK_MOD \in Nat
    /\ PeriodicTask \subseteq Task \ {idle_index}
    /\ PeriodicTask \subseteq ApplicationTask
BY TaskTableAssumption, PeriodicAssumption, TaskIndices DEF HALF, LOST

LEMMA LaterType ==
    /\ \A l \in -HALF .. LOST : Later(l) \in -HALF .. LOST
    /\ \A s \in -1 .. LOST : Later(s) \in -1 .. LOST
BY HalfRange DEF Later

(* Reduction of a difference of two ticks.                                 *)
LEMMA TickReduce ==
    /\ \A x \in Int : 0 <= x /\ x < TICK_MOD => x % TICK_MOD = x
    /\ \A x \in Int : -TICK_MOD <= x /\ x < 0 => x % TICK_MOD = x + TICK_MOD
    /\ \A x \in Int : TICK_MOD <= x /\ x < 2 * TICK_MOD =>
                           x % TICK_MOD = x - TICK_MOD
    /\ \A x \in Int : -(2 * TICK_MOD) <= x /\ x < -TICK_MOD =>
                           x % TICK_MOD = x + 2 * TICK_MOD
BY TaskTableAssumption

(* The lag is the difference of clock and wake time up to wraparound.      *)
LEMMA LagDifference ==
    ASSUME NEW now \in Tick, NEW wake \in Tick, NEW l \in -HALF .. LOST
    PROVE  LagIsTrue(now, wake, l) <=>
               (l # LOST => now - wake \in {l, l + TICK_MOD, l - TICK_MOD})
<1>1. /\ now \in Nat /\ now < TICK_MOD /\ wake \in Nat /\ wake < TICK_MOD
  BY TaskTableAssumption DEF Tick
<1> DEFINE d == (now - wake) % TICK_MOD
<1>2. \/ now >= wake /\ d = now - wake
      \/ now < wake /\ d = now - wake + TICK_MOD
  BY <1>1, TickReduce, HalfRange
<1>3. TickSub(now, wake) = d
  BY DEF TickSub
<1> HIDE DEF d
<1> QED
  BY <1>1, <1>2, <1>3, HalfRange DEF LagIsTrue

(* A tick makes every task one tick later.                                 *)
LEMMA LagTicks ==
    ASSUME NEW now \in Tick, NEW wake \in Tick, NEW l \in -HALF .. LOST,
           LagIsTrue(now, wake, l)
    PROVE  LagIsTrue(TickAdd(now, 1), wake, Later(l))
<1>1. /\ now \in Nat /\ now < TICK_MOD /\ wake \in Nat /\ wake < TICK_MOD
  BY TaskTableAssumption DEF Tick
<1>2. l # LOST => now - wake \in {l, l + TICK_MOD, l - TICK_MOD}
  BY LagDifference
<1> DEFINE after == TickAdd(now, 1)
<1>3. after = now + 1 \/ after = now + 1 - TICK_MOD
  BY <1>1, TickReduce, HalfRange DEF TickAdd
<1>4. after \in Tick /\ Later(l) \in -HALF .. LOST
  BY <1>1, TickTypes, LaterType
<1>5. after \in Nat /\ after < TICK_MOD
  BY <1>4, TaskTableAssumption DEF Tick
<1>6. Later(l) # LOST => l # LOST /\ Later(l) = l + 1
  BY HalfRange DEF Later
<1> HIDE DEF after
<1>7. Later(l) # LOST =>
          after - wake \in {Later(l), Later(l) + TICK_MOD, Later(l) - TICK_MOD}
  BY <1>1, <1>2, <1>3, <1>5, <1>6, HalfRange
<1> QED
  BY <1>4, <1>7, LagDifference DEF after

(* Advancing the wake time by a period.                                    *)
LEMMA LagAdvances ==
    ASSUME NEW now \in Tick, NEW wake \in Tick, NEW l \in 0 .. LOST,
           NEW period \in 0 .. HALF, LagIsTrue(now, wake, l)
    PROVE  LET next == TickAdd(wake, period)
               after == IF l = LOST THEN l ELSE l - period
           IN  /\ next \in Tick
               /\ after \in -HALF .. LOST
               /\ LagIsTrue(now, next, after)
               /\ JRT_KernelTickReached(now, next) => after >= 0
               /\ ~JRT_KernelTickReached(now, next) =>
                     /\ TickSub(next, now) \in 1 .. HALF
                     /\ Behind(after, 0, TickSub(next, now))
<1>1. /\ now \in Nat /\ now < TICK_MOD /\ wake \in Nat /\ wake < TICK_MOD
  BY TaskTableAssumption DEF Tick
<1>2. l # LOST => now - wake \in {l, l + TICK_MOD, l - TICK_MOD}
  BY LagDifference, HalfRange
<1> DEFINE next == TickAdd(wake, period)
           after == IF l = LOST THEN l ELSE l - period
           late == TickSub(now, next)
           early == TickSub(next, now)
<1>3. next = wake + period \/ next = wake + period - TICK_MOD
  BY <1>1, TickReduce, HalfRange DEF TickAdd
<1>4. next \in Tick
  BY <1>1, TickTypes
<1>5. next \in Nat /\ next < TICK_MOD
  BY <1>4, TaskTableAssumption DEF Tick
<1>6. after \in -HALF .. LOST /\ (after = LOST <=> l = LOST)
  BY HalfRange
<1> HIDE DEF next
<1>7. \/ now >= next /\ late = now - next
      \/ now < next /\ late = now - next + TICK_MOD
  BY <1>1, <1>5, TickReduce, HalfRange DEF TickSub
<1>8. \/ next >= now /\ early = next - now
      \/ next < now /\ early = next - now + TICK_MOD
  BY <1>1, <1>5, TickReduce, HalfRange DEF TickSub
<1> HIDE DEF late, early
<1>9. after # LOST =>
          now - next \in {after, after + TICK_MOD, after - TICK_MOD}
  BY <1>1, <1>2, <1>3, <1>5, <1>6, HalfRange
<1>10. JRT_KernelTickReached(now, next) <=> late < HALF
  BY DEF JRT_KernelTickReached, late
<1>11. LagIsTrue(now, next, after)
  BY <1>4, <1>6, <1>9, LagDifference
<1> HIDE DEF after
<1>12. late < HALF => after >= 0
  BY <1>1, <1>5, <1>6, <1>7, <1>9, HalfRange
<1>13. ~(late < HALF) => early \in 1 .. HALF
  BY <1>1, <1>5, <1>7, <1>8, HalfRange
<1>14. ~(late < HALF) => Behind(after, 0, early)
  BY <1>1, <1>5, <1>6, <1>7, <1>8, <1>9, HalfRange DEF Behind
<1> QED
  BY <1>4, <1>6, <1>10, <1>11, <1>12, <1>13, <1>14 DEF next, after, early

(* A tick before the wake time of a task that sleeps or is about to.       *)
LEMMA BehindTick ==
    ASSUME NEW l \in -HALF .. LOST, NEW s \in 0 .. LOST, NEW rest \in Nat,
           Behind(l, s, rest)
    PROVE  /\ rest >= 1 => Behind(Later(l), s, rest - 1)
           /\ rest >= 1 => Behind(Later(l), Later(s), rest)
           /\ rest = 1 => Later(l) >= 0 /\ (Later(l) # LOST => Later(l) = s)
BY HalfRange DEF Behind, Later

(* Task code that runs is not behind its wake time.                        *)
LEMMA RunsOnTime ==
    ASSUME PeriodInv, NEW t \in PeriodicTask, Thread(t), pc[t] = "app"
    PROVE  lag[t] >= 0 /\ slip[t] = -1 /\ tasks[t].state = "RUNNING"
<1>1. tasks[t].state = "RUNNING"
  BY ThreadRuns, HalfRange DEF PeriodInv
<1>2. OnTime(tasks[t], pc[t], call[t], lag[t], slip[t])
  BY DEF PeriodInv, Punctual
<1> QED
  BY <1>1, <1>2 DEF OnTime, Awake, Asleep, Retiring

(* A step that lets sleepers sleep and sends only a task to sleep that     *)
(* executes its own code.                                                  *)
SleepersStay ==
    \A t \in PeriodicTask :
        /\ tasks[t].state = "SLEEPING" => tasks'[t] = tasks[t]
        /\ tasks'[t].state = "SLEEPING" =>
              tasks[t].state = "SLEEPING" \/ (Thread(t) /\ pc[t] = "app")

LEMMA SleepersStayInv ==
    ASSUME PeriodInv, TaskInv', SleepersStay,
           UNCHANGED <<ticks, pc, call, periodVars>>
    PROVE  PeriodInv'
<1>1. PeriodicTypeOK'
  BY DEF PeriodInv, PeriodicTypeOK, TaskInv, periodVars
<1>2. ASSUME NEW t \in PeriodicTask
      PROVE  Punctual(t)'
  <2>1. Punctual(t)
    BY DEF PeriodInv
  <2>2. /\ tasks[t].state = "SLEEPING" => tasks'[t] = tasks[t]
        /\ tasks'[t].state = "SLEEPING" =>
              \/ tasks[t].state = "SLEEPING"
              \/ Awake(pc[t], lag[t], slip[t])
    <3>1. Thread(t) /\ pc[t] = "app" => Awake(pc[t], lag[t], slip[t])
      BY RunsOnTime DEF Awake
    <3> QED
      BY <3>1 DEF SleepersStay
  <2>3. /\ pc' = pc /\ call' = call /\ lag' = lag /\ slip' = slip
        /\ previous_wake' = previous_wake /\ ticks' = ticks
    BY DEF periodVars
  <2>4. Awake(pc[t], lag[t], slip[t]) =>
            OnTime(tasks'[t], pc'[t], call'[t], lag'[t], slip'[t])
    BY <2>3 DEF OnTime
  <2>5. Asleep(tasks[t], pc[t], lag[t], slip[t]) =>
            OnTime(tasks'[t], pc'[t], call'[t], lag'[t], slip'[t])
    BY <2>2, <2>3 DEF OnTime, Asleep
  <2>6. Retiring(tasks[t], pc[t], call[t], lag[t], slip[t]) =>
            OnTime(tasks'[t], pc'[t], call'[t], lag'[t], slip'[t])
    BY <2>2, <2>3 DEF OnTime, Retiring, Awake
  <2>7. OnTime(tasks'[t], pc'[t], call'[t], lag'[t], slip'[t])
    BY <2>1, <2>4, <2>5, <2>6 DEF Punctual, OnTime
  <2> QED
    BY <2>1, <2>3, <2>7 DEF Punctual
<1> QED
  BY <1>1, <1>2 DEF PeriodInv

(* What a switch and the task services do to sleepers.                     *)
LEMMA SwitchKeepsSleepers == TaskInv /\ PendSV => SleepersStay
<1> SUFFICES ASSUME TaskInv, PendSV, NEW t \in PeriodicTask
             PROVE  /\ tasks[t].state = "SLEEPING" => tasks'[t] = tasks[t]
                    /\ tasks'[t].state = "SLEEPING" =>
                          tasks[t].state = "SLEEPING"
  BY DEF SleepersStay
<1> DEFINE T == Preempted(tasks, current)
           next == next_index(T, current)
<1>1. current \in Task /\ tasks \in [Task -> TCB] /\ t \in Task
  BY HalfRange DEF TaskInv, TaskTypeOK
<1>2. T \in [Task -> TCB]
  BY <1>1 DEF Preempted, TCB, State
<1>3. \A i \in Task :
         T[i] = IF i = current /\ tasks[i].state = "RUNNING"
                THEN [tasks[i] EXCEPT !.state = "READY"] ELSE tasks[i]
  BY <1>1 DEF Preempted, TCB
<1>4. T[idle_index].state = "READY"
  BY <1>1, <1>3, TaskIndices
     DEF TaskInv, IdleRunnable, ExecutingIsRunning, TCB
<1>5. next \in Best(T)
  BY <1>1, <1>2, <1>4, BestExists, NextIndex, TaskIndices
<1>6. next \in Task /\ T[next].state = "READY"
  BY <1>5 DEF Best
<1>7. tasks' = [T EXCEPT ![next].state = "RUNNING"]
  BY DEF PendSV
<1> HIDE DEF T, next
<1>8. tasks'[t] = IF t = next THEN [T[t] EXCEPT !.state = "RUNNING"] ELSE T[t]
  BY <1>1, <1>2, <1>7
<1> QED
  BY <1>1, <1>2, <1>3, <1>6, <1>8 DEF TCB

LEMMA ServicesKeepSleepers == TaskInv /\ Services => SleepersStay
<1> SUFFICES ASSUME TaskInv, NEW u \in ApplicationTask,
                    \/ TaskYield(u)
                    \/ \E d \in Delay : TaskDelay(u, d)
                    \/ \E id \in SuspendTarget :
                          TaskSuspend(u, id) \/ TaskResume(u, id),
                    NEW t \in PeriodicTask
             PROVE  /\ tasks[t].state = "SLEEPING" => tasks'[t] = tasks[t]
                    /\ tasks'[t].state = "SLEEPING" =>
                          \/ tasks[t].state = "SLEEPING"
                          \/ Thread(t) /\ pc[t] = "app"
  BY DEF Services, SleepersStay
<1>1. u \in Task /\ t \in Task /\ tasks \in [Task -> TCB]
  BY TaskIndices, HalfRange DEF TaskInv, TaskTypeOK
<1>2. InApp(u) => tasks[u].state = "RUNNING"
  BY <1>1, ThreadRuns DEF InApp
<1>3. CASE TaskYield(u)
  BY <1>3 DEF TaskYield, Svc
<1>4. ASSUME NEW d \in Delay, TaskDelay(u, d)
      PROVE  /\ tasks[t].state = "SLEEPING" => tasks'[t] = tasks[t]
             /\ tasks'[t].state = "SLEEPING" =>
                   \/ tasks[t].state = "SLEEPING"
                   \/ Thread(t) /\ pc[t] = "app"
  BY <1>1, <1>2, <1>4 DEF TaskDelay, Svc, sleep_current, InApp, TCB
<1>5. ASSUME NEW id \in SuspendTarget, TaskSuspend(u, id)
      PROVE  /\ tasks[t].state = "SLEEPING" => tasks'[t] = tasks[t]
             /\ tasks'[t].state = "SLEEPING" => tasks[t].state = "SLEEPING"
  BY <1>1, <1>5, TaskIndices DEF TaskSuspend, Svc, kernel_task_suspend, TCB
<1>6. ASSUME NEW id \in SuspendTarget, TaskResume(u, id)
      PROVE  /\ tasks[t].state = "SLEEPING" => tasks'[t] = tasks[t]
             /\ tasks'[t].state = "SLEEPING" => tasks[t].state = "SLEEPING"
  BY <1>1, <1>6, TaskIndices DEF TaskResume, Svc, kernel_task_resume, TCB
<1> QED
  BY <1>3, <1>4, <1>5, <1>6

(* A sleep ends late by what the task slipped.                             *)
WakesPunctually(t) ==
    (Wakes(t) /\ slip[t] # -1 /\ lag'[t] # LOST) => lag'[t] = slip[t]

LEMMA ClockTickPunctual ==
    ASSUME PeriodInv, ClockTick, NEW t \in PeriodicTask
    PROVE  Punctual(t)' /\ WakesPunctually(t)
<1>1. /\ t \in Task /\ tasks[t] \in TCB /\ ticks \in Tick /\ pc' = pc
      /\ call' = call
  BY HalfRange
     DEF PeriodInv, TaskInv, TaskTypeOK, ClockTick, SysTick, SysTickClock
<1>2. /\ previous_wake[t] \in Tick /\ lag[t] \in -HALF .. LOST
      /\ slip[t] \in -1 .. LOST /\ previous_wake' = previous_wake
  BY DEF PeriodInv, PeriodicTypeOK, ClockTick
<1>3. /\ ticks' = TickAdd(ticks, 1)
      /\ tasks'[t] = tick_task(tasks[t], ticks')
  BY <1>1 DEF ClockTick, SysTick, SysTickClock, tick_tasks
<1>4. /\ lag'[t] = Later(lag[t])
      /\ slip'[t] = CASE pc[t] = "attempt" -> Later(slip[t])
                      [] pc[t] # "attempt" /\ Wakes(t) -> -1
                      [] OTHER -> slip[t]
  BY DEF ClockTick
<1>5. LagIsTrue(ticks', previous_wake'[t], lag'[t])
  BY <1>1, <1>2, <1>3, <1>4, LagTicks DEF PeriodInv, Punctual
<1>6. CASE Awake(pc[t], lag[t], slip[t])
  <2>1. slip'[t] = -1 /\ lag'[t] >= 0
    BY <1>2, <1>4, <1>6, HalfRange DEF Awake, Later
  <2> QED
    BY <1>1, <1>5, <1>6, <2>1 DEF Punctual, WakesPunctually, OnTime, Awake
<1>7. CASE Asleep(tasks[t], pc[t], lag[t], slip[t])
  <2> DEFINE rest == tasks[t].sleep_ticks
  <2>1. /\ pc[t] = "app" /\ slip[t] \in 0 .. LOST /\ rest \in Nat /\ rest >= 1
        /\ tasks[t].state = "SLEEPING" /\ Behind(lag[t], slip[t], rest)
    <3>1. rest \in Nat
      BY <1>1, TickConstants DEF TCB
    <3> QED
      BY <1>2, <1>7, <3>1, HalfRange DEF Asleep
  <2>2. tasks'[t] = tick_sleeper(tasks[t])
    BY <1>3, <2>1 DEF tick_task, WaitExpired
  <2>3. /\ tasks'[t].state = IF rest = 1 THEN "READY" ELSE "SLEEPING"
        /\ tasks'[t].sleep_ticks = rest - 1
    BY <1>1, <2>1, <2>2 DEF tick_sleeper, TCB
  <2>4. /\ Behind(Later(lag[t]), slip[t], rest - 1)
        /\ rest = 1 => /\ Later(lag[t]) >= 0
                       /\ Later(lag[t]) # LOST => Later(lag[t]) = slip[t]
    BY <1>2, <2>1, BehindTick
  <2> HIDE DEF rest
  <2>5. CASE rest = 1
    <3>1. slip'[t] = -1 /\ lag'[t] >= 0
      BY <1>4, <2>1, <2>3, <2>4, <2>5 DEF Wakes
    <3>2. WakesPunctually(t)
      BY <1>4, <2>4, <2>5 DEF WakesPunctually
    <3> QED
      BY <1>1, <1>5, <2>1, <3>1, <3>2 DEF Punctual, OnTime, Awake
  <2>6. CASE rest # 1
    <3>1. slip'[t] = slip[t] /\ ~Wakes(t)
      BY <1>4, <2>1, <2>3, <2>6 DEF Wakes
    <3>2. rest - 1 >= 1
      BY <2>1, <2>6
    <3>3. Asleep(tasks'[t], pc'[t], lag'[t], slip'[t])
      BY <1>1, <1>4, <2>1, <2>3, <2>4, <2>6, <3>1, <3>2 DEF Asleep
    <3> QED
      BY <1>5, <3>1, <3>3 DEF Punctual, OnTime, WakesPunctually
  <2> QED
    BY <2>5, <2>6
<1>8. CASE Retiring(tasks[t], pc[t], call[t], lag[t], slip[t])
  <2>1. /\ pc[t] = "attempt" /\ slip[t] \in 0 .. LOST
        /\ call[t].op = "delay_until" /\ call[t].timeout \in 1 .. HALF
        /\ tasks[t].state # "SLEEPING"
        /\ Behind(lag[t], slip[t], call[t].timeout)
    BY <1>2, <1>8 DEF Retiring
  <2>2. tasks'[t].state # "SLEEPING"
    BY <1>1, <1>3, <2>1 DEF tick_task, task_wait_end, TCB
  <2>3. slip'[t] = Later(slip[t])
    BY <1>4, <2>1
  <2>4. call[t].timeout \in Nat /\ call[t].timeout >= 1
    BY <2>1, HalfRange
  <2>5. Behind(lag'[t], slip'[t], call[t].timeout)
    BY <1>2, <1>4, <2>1, <2>3, <2>4, BehindTick
  <2>6. slip'[t] >= 0
    BY <2>1, <2>3, HalfRange DEF Later
  <2>7. Retiring(tasks'[t], pc'[t], call'[t], lag'[t], slip'[t])
    BY <1>1, <2>1, <2>2, <2>5, <2>6 DEF Retiring
  <2> QED
    BY <1>5, <2>1, <2>7 DEF Punctual, OnTime, WakesPunctually, Wakes
<1> QED
  BY <1>6, <1>7, <1>8 DEF PeriodInv, Punctual, OnTime

LEMMA ClockTickInv == PeriodInv /\ ClockTick => PeriodInv'
<1> SUFFICES ASSUME PeriodInv, ClockTick
             PROVE  PeriodInv'
  OBVIOUS
<1>1. TaskInv'
  BY SysTickInv DEF PeriodInv, ClockTick
<1>2. ASSUME NEW t \in PeriodicTask
      PROVE  slip'[t] \in -1 .. LOST
  <2>1. slip[t] \in -1 .. LOST /\ Later(slip[t]) \in -1 .. LOST
    BY LaterType DEF PeriodInv, PeriodicTypeOK
  <2>2. slip'[t] = CASE pc[t] = "attempt" -> Later(slip[t])
                     [] pc[t] # "attempt" /\ Wakes(t) -> -1
                     [] OTHER -> slip[t]
    BY DEF ClockTick
  <2>3. -1 \in -1 .. LOST
    BY HalfRange
  <2>4. slip'[t] \in {Later(slip[t]), -1, slip[t]}
    BY <2>2
  <2> QED
    BY <2>1, <2>3, <2>4
<1>3. PeriodicTypeOK'
  <2>1. lag' \in [PeriodicTask -> -HALF .. LOST]
    BY LaterType DEF PeriodInv, PeriodicTypeOK, ClockTick
  <2>2. slip' \in [PeriodicTask -> -1 .. LOST]
    BY <1>2 DEF ClockTick
  <2> QED
    BY <1>1, <2>1, <2>2
       DEF PeriodInv, PeriodicTypeOK, ClockTick, TaskInv
<1> QED
  BY <1>1, <1>3, ClockTickPunctual DEF PeriodInv

(* A call of a periodic task changes its own entries only.                 *)
LEMMA OwnEntries ==
    ASSUME PeriodInv, NEW t \in PeriodicTask, TaskInv', PeriodicTypeOK',
           Punctual(t)', ticks' = ticks,
           \A u \in PeriodicTask \ {t} :
               /\ tasks'[u] = tasks[u] /\ pc'[u] = pc[u] /\ call'[u] = call[u]
               /\ lag'[u] = lag[u] /\ slip'[u] = slip[u]
               /\ previous_wake'[u] = previous_wake[u]
    PROVE  PeriodInv'
<1>1. ASSUME NEW u \in PeriodicTask \ {t}
      PROVE  Punctual(u)'
  BY DEF PeriodInv, Punctual
<1> QED
  BY <1>1 DEF PeriodInv

LEMMA PeriodStartInv ==
    ASSUME PeriodInv, NEW t \in PeriodicTask, PeriodStart(t)
    PROVE  PeriodInv'
<1>1. /\ UNCHANGED <<tasks, current, ticks, pendsv, pc, call, slip>>
      /\ Thread(t) /\ pc[t] = "app"
      /\ lag' = [lag EXCEPT ![t] = 0]
      /\ previous_wake' = [previous_wake EXCEPT ![t] = ticks]
  BY DEF PeriodStart, InApp, taskVars
<1>2. TaskInv'
  BY <1>1
     DEF PeriodInv, TaskInv, TaskTypeOK, ExecutingIsRunning,
         KernelInvariantsHold, NoOverdueWaiter, IdleRunnable
<1>3. /\ previous_wake \in [PeriodicTask -> Tick]
      /\ lag \in [PeriodicTask -> -HALF .. LOST] /\ ticks \in Tick
  BY DEF PeriodInv, PeriodicTypeOK, TaskTypeOK
<1>4. 0 \in -HALF .. LOST /\ 0 # LOST /\ ticks \in Int
  BY <1>3, HalfRange, TickConstants
<1>5. PeriodicTypeOK'
  BY <1>1, <1>2, <1>3, <1>4 DEF PeriodInv, PeriodicTypeOK, TaskInv
<1>6. /\ lag'[t] = 0 /\ previous_wake'[t] = ticks
      /\ \A u \in PeriodicTask \ {t} :
            /\ lag'[u] = lag[u] /\ previous_wake'[u] = previous_wake[u]
  BY <1>1, <1>3
<1>7. LagIsTrue(ticks, ticks, 0)
  BY <1>3, TickDistance DEF LagIsTrue
<1>8. Punctual(t)'
  <2>1. slip[t] = -1
    BY <1>1, RunsOnTime
  <2> QED
    BY <1>1, <1>6, <1>7, <2>1 DEF Punctual, OnTime, Awake
<1> QED
  BY <1>1, <1>2, <1>5, <1>6, <1>8, OwnEntries

LEMMA DelayUntilInv ==
    ASSUME PeriodInv, NEW t \in PeriodicTask, NEW period \in Period,
           DelayUntil(t, period)
    PROVE  PeriodInv'
<1> DEFINE next == TickAdd(previous_wake[t], period)
           after == IF lag[t] = LOST THEN lag[t] ELSE lag[t] - period
           rest == TickSub(next, ticks)
           asked == [NoCall EXCEPT !.op = "delay_until", !.timeout = rest]
<1>1. /\ Thread(t) /\ pc[t] = "app"
      /\ previous_wake' = [previous_wake EXCEPT ![t] = next]
      /\ lag' = [lag EXCEPT ![t] = after]
      /\ UNCHANGED <<tasks, current, ticks, pendsv>>
  BY DEF DelayUntil, InApp, taskVars
<1>2. IF JRT_KernelTickReached(ticks, next)
      THEN UNCHANGED <<pc, call, slip>>
      ELSE /\ pc' = [pc EXCEPT ![t] = "attempt"]
           /\ call' = [call EXCEPT ![t] = asked]
           /\ slip' = [slip EXCEPT ![t] = 0]
  BY DEF DelayUntil, taskVars
<1>3. /\ previous_wake \in [PeriodicTask -> Tick]
      /\ lag \in [PeriodicTask -> -HALF .. LOST]
      /\ slip \in [PeriodicTask -> -1 .. LOST]
      /\ pc \in [Task -> {"app", "attempt", "yield", "woken", "callback"}]
      /\ call \in [Task -> Call] /\ t \in Task /\ ticks \in Tick
  BY HalfRange DEF PeriodInv, PeriodicTypeOK, TaskTypeOK
<1>4. lag[t] >= 0 /\ slip[t] = -1 /\ tasks[t].state = "RUNNING"
  BY <1>1, RunsOnTime
<1>5. /\ next \in Tick /\ after \in -HALF .. LOST
      /\ LagIsTrue(ticks, next, after)
      /\ JRT_KernelTickReached(ticks, next) => after >= 0
      /\ ~JRT_KernelTickReached(ticks, next) =>
            rest \in 1 .. HALF /\ Behind(after, 0, rest)
  <2>1. lag[t] \in 0 .. LOST /\ period \in 0 .. HALF
    BY <1>3, <1>4, HalfRange, PeriodicAssumption
  <2>2. LagIsTrue(ticks, previous_wake[t], lag[t])
    BY DEF PeriodInv, Punctual
  <2> QED
    BY <1>3, <2>1, <2>2, LagAdvances
<1>6. asked.op = "delay_until" /\ asked.timeout = rest
  BY DEF NoCall
<1>7. rest \in 1 .. HALF => asked \in Call
  <2>1. rest \in 1 .. HALF => rest \in Tick
    BY HalfRange DEF Tick
  <2> QED
    BY <2>1, TickConstants DEF NoCall, Call, Operation, Deadline
<1> HIDE DEF next, after, rest, asked
<1>8. TaskInv'
  <2>1. CASE JRT_KernelTickReached(ticks, next)
    BY <1>1, <1>2, <2>1
       DEF PeriodInv, TaskInv, TaskTypeOK, ExecutingIsRunning,
           KernelInvariantsHold, NoOverdueWaiter, IdleRunnable
  <2>2. CASE ~JRT_KernelTickReached(ticks, next)
    BY <1>1, <1>2, <1>3, <1>5, <1>7, <2>2, CallStep DEF PeriodInv
  <2> QED
    BY <2>1, <2>2
<1>9. PeriodicTypeOK'
  <2>1. 0 \in -1 .. LOST
    BY HalfRange
  <2> QED
    BY <1>1, <1>2, <1>3, <1>5, <1>8, <2>1
       DEF PeriodicTypeOK, TaskInv
<1>10. Punctual(t)'
  <2>1. /\ lag'[t] = after /\ previous_wake'[t] = next /\ ticks' = ticks
        /\ tasks'[t] = tasks[t]
    BY <1>1, <1>3
  <2>2. CASE JRT_KernelTickReached(ticks, next)
    BY <1>1, <1>2, <1>4, <1>5, <2>1, <2>2 DEF Punctual, OnTime, Awake
  <2>3. CASE ~JRT_KernelTickReached(ticks, next)
    <3>1. pc'[t] = "attempt" /\ call'[t] = asked /\ slip'[t] = 0
      BY <1>2, <1>3, <2>3
    <3> QED
      BY <1>4, <1>5, <1>6, <2>1, <2>3, <3>1 DEF Punctual, OnTime, Retiring
  <2> QED
    BY <2>2, <2>3
<1>11. ASSUME NEW u \in PeriodicTask \ {t}
       PROVE  /\ tasks'[u] = tasks[u] /\ pc'[u] = pc[u] /\ call'[u] = call[u]
              /\ lag'[u] = lag[u] /\ slip'[u] = slip[u]
              /\ previous_wake'[u] = previous_wake[u]
  BY <1>1, <1>2, <1>3, HalfRange
<1> QED
  BY <1>1, <1>8, <1>9, <1>10, <1>11, OwnEntries

LEMMA DelayUntilSleepInv ==
    ASSUME PeriodInv, NEW t \in PeriodicTask, DelayUntilSleep(t)
    PROVE  PeriodInv'
<1> DEFINE rest == call[t].timeout
           entry == [tasks[t] EXCEPT !.sleep_ticks = rest, !.state = "SLEEPING"]
<1>1. /\ Thread(t) /\ pc[t] = "attempt"
      /\ tasks' = sleep_current(tasks, t, rest)
      /\ pendsv' = 1
      /\ pc' = [pc EXCEPT ![t] = "app"]
      /\ call' = [call EXCEPT ![t] = NoCall]
      /\ UNCHANGED <<current, ticks, previous_wake, lag, slip>>
  BY DEF DelayUntilSleep, Attempt, periodVars
<1>2. /\ t \in Task \ {idle_index} /\ tasks \in [Task -> TCB]
      /\ pc \in [Task -> {"app", "attempt", "yield", "woken", "callback"}]
      /\ call \in [Task -> Call] /\ check_task(tasks[t]) /\ ticks \in Tick
  BY HalfRange
     DEF PeriodInv, TaskInv, TaskTypeOK, KernelInvariantsHold,
         kernel_check_invariants
<1>3. Retiring(tasks[t], pc[t], call[t], lag[t], slip[t])
  BY <1>1 DEF PeriodInv, Punctual, OnTime, Awake, Asleep
<1>4. rest \in Tick /\ rest >= 1 /\ rest # 0
  BY <1>3, HalfRange DEF Retiring, Tick
<1>5. tasks[t].state = "RUNNING"
  BY <1>1, <1>2, ThreadRuns DEF PeriodInv
<1>6. tasks' = [tasks EXCEPT ![t] = entry]
  BY <1>1, <1>2, <1>4 DEF sleep_current
<1>7. entry \in TCB /\ entry.state = "SLEEPING" /\ entry.sleep_ticks = rest
  BY <1>2, <1>4 DEF TCB, State
<1>8. check_task(entry)
  BY <1>2, <1>5, <1>7 DEF check_task, TCB
<1> HIDE DEF entry, rest
<1>9. ~WaitExpired(entry, ticks)
  BY <1>7 DEF WaitExpired
<1>10. /\ tasks' \in [Task -> TCB]
       /\ KernelInvariantsHold' /\ NoOverdueWaiter' /\ IdleRunnable'
  BY <1>1, <1>2, <1>6, <1>7, <1>8, <1>9, EntryUpdate DEF PeriodInv
<1>11. NoCall \in Call
  BY TickConstants DEF NoCall, Call, Deadline
<1>12. TaskTypeOK'
  BY <1>1, <1>2, <1>10, <1>11 DEF PeriodInv, TaskInv, TaskTypeOK
<1>13. ExecutingIsRunning'
  BY <1>1, <1>2, <1>6, <1>7
     DEF PeriodInv, TaskInv, TaskTypeOK, ExecutingIsRunning
<1>14. TaskInv' /\ PeriodicTypeOK'
  BY <1>1, <1>10, <1>12, <1>13 DEF PeriodInv, TaskInv, PeriodicTypeOK
<1>15. tasks'[t] = entry /\ pc'[t] = "app"
  BY <1>1, <1>2, <1>6
<1>16. Punctual(t)'
  <2>1. Asleep(tasks'[t], pc'[t], lag'[t], slip'[t])
    BY <1>1, <1>3, <1>4, <1>7, <1>15 DEF Asleep, Retiring, rest
  <2> QED
    BY <1>1, <2>1 DEF PeriodInv, Punctual, OnTime
<1>17. ASSUME NEW u \in PeriodicTask \ {t}
       PROVE  tasks'[u] = tasks[u] /\ pc'[u] = pc[u] /\ call'[u] = call[u]
  BY <1>1, <1>2, <1>6, HalfRange
<1> QED
  BY <1>1, <1>14, <1>16, <1>17, OwnEntries

(* No call of a periodic task wakes a sleeper.                             *)
LEMMA PeriodicCallWakesNone ==
    ASSUME PeriodInv, NEW t \in PeriodicTask, PeriodicCall(t),
           NEW u \in PeriodicTask
    PROVE  ~Wakes(u)
<1>1. CASE tasks' = tasks
  BY <1>1 DEF Wakes
<1>2. CASE DelayUntilSleep(t)
  <2>1. /\ tasks' = sleep_current(tasks, t, call[t].timeout)
        /\ Thread(t) /\ pc[t] = "attempt" /\ t \in Task /\ u \in Task
        /\ tasks \in [Task -> TCB]
    BY <1>2, HalfRange
       DEF DelayUntilSleep, Attempt, PeriodInv, TaskInv, TaskTypeOK
  <2>2. tasks[t].state = "RUNNING"
    BY <2>1, ThreadRuns DEF PeriodInv
  <2> QED
    BY <2>1, <2>2 DEF Wakes, sleep_current, TCB
<1> QED
  BY <1>1, <1>2 DEF PeriodicCall, PeriodStart, DelayUntil, taskVars

LEMMA PeriodicCallInv ==
    ASSUME PeriodInv, NEW t \in PeriodicTask, PeriodicCall(t)
    PROVE  PeriodInv'
BY PeriodStartInv, DelayUntilInv, DelayUntilSleepInv DEF PeriodicCall

LEMMA PeriodicInitInv == PeriodicInit => PeriodInv
<1> SUFFICES ASSUME PeriodicInit
             PROVE  PeriodInv
  OBVIOUS
<1>1. TaskInv
  BY InitInv DEF PeriodicInit
<1>2. ticks \in Tick /\ 0 \in -HALF .. LOST /\ -1 \in -1 .. LOST
  BY <1>1, HalfRange DEF TaskInv, TaskTypeOK
<1>3. PeriodicTypeOK
  BY <1>1, <1>2 DEF PeriodicInit, PeriodicTypeOK, TaskInv
<1>4. ASSUME NEW t \in PeriodicTask
      PROVE  Punctual(t)
  <2>1. /\ pc[t] = "app" /\ lag[t] = 0 /\ slip[t] = -1
        /\ previous_wake[t] = ticks
    BY HalfRange DEF PeriodicInit, TaskInit
  <2>2. LagIsTrue(ticks, ticks, 0)
    BY <1>2, TickDistance DEF LagIsTrue
  <2> QED
    BY <2>1, <2>2 DEF Punctual, OnTime, Awake
<1> QED
  BY <1>1, <1>3, <1>4 DEF PeriodInv

-----------------------------------------------------------------------------
(* Configurations: each check on addresses that wrap around says of its    *)
(* ranges what the specification says of sets of addresses.                *)

LEMMA QuotientBound ==
    ASSUME NEW a \in Nat, NEW b \in Nat \ {0}, NEW w \in Nat
    PROVE  w <= a \div b <=> w * b <= a
<1> DEFINE q == a \div b
           r == a % b
<1>1. q \in Nat /\ r \in 0 .. b - 1 /\ a = b * q + r
  BY Division
<1> HIDE DEF q, r
<1>2. CASE w <= q
  <2>1. (q - w) * b >= 0
    BY <1>1, <1>2
  <2>2. q * b = (q - w) * b + w * b /\ q * b = b * q /\ w * b \in Nat
    BY <1>1, <1>2
  <2> QED
    BY <1>1, <1>2, <2>1, <2>2 DEF q
<1>3. CASE w > q
  <2>1. b * (w - q) >= b
    BY <1>1, <1>3, Multiple
  <2>2. b * (w - q) = w * b - b * q /\ w * b \in Nat /\ b * q \in Nat
    BY <1>1
  <2>3. ~(w * b <= a)
    BY <1>1, <2>1, <2>2
  <2> QED
    BY <1>1, <1>3, <2>3 DEF q
<1> QED
  BY <1>1, <1>2, <1>3

(* A positive multiple of a size is at least that size.                    *)
LEMMA AlignedAtLeast ==
    ASSUME NEW a \in Nat \ {0}, NEW b \in Nat \ {0}, a % b = 0
    PROVE  b <= a
<1>1. a = b * (a \div b) /\ a \div b \in Nat
  BY Division
<1>2. a \div b # 0
  BY <1>1
<1> QED
  BY <1>1, <1>2, Multiple

(* Between two multiples of a size there is room for it.                   *)
LEMMA AlignedGap ==
    ASSUME NEW a \in Nat, NEW b \in Nat \ {0}, NEW k \in Nat,
           a % b = 0, a < b * k
    PROVE  a + b <= b * k
<1> DEFINE q == a \div b
<1>1. a = b * q /\ q \in Nat
  BY Division
<1> HIDE DEF q
<1>2. CASE q >= k
  <2>1. b * (q - k) >= 0 /\ b * (q - k) = b * q - b * k
    BY <1>1, <1>2
  <2>2. b * q \in Nat /\ b * k \in Nat
    BY <1>1
  <2> QED
    BY <1>1, <2>1, <2>2
<1>3. CASE q < k
  <2>1. k - q \in Nat \ {0}
    BY <1>1, <1>3
  <2>2. b * (k - q) >= b
    BY <2>1, Multiple
  <2>3. b * (k - q) = b * k - b * q /\ b * q \in Nat /\ b * k \in Nat
    BY <1>1
  <2> QED
    BY <1>1, <2>2, <2>3
<1> QED
  BY <1>1, <1>2, <1>3

LEMMA AddressSum ==
    ASSUME NEW a \in Nat, NEW b \in Nat
    PROVE  /\ a + b < ADDR_MOD => AddrAdd(a, b) = a + b
           /\ (a < ADDR_MOD /\ b < ADDR_MOD /\ a + b >= ADDR_MOD) =>
                  AddrAdd(a, b) = a + b - ADDR_MOD
<1>1. ADDR_MOD \in Nat \ {0}
  BY MemoryConstants
<1>2. \A x \in Nat : x < ADDR_MOD => x % ADDR_MOD = x
  BY <1>1
<1>3. \A x \in Nat : ADDR_MOD <= x /\ x < 2 * ADDR_MOD =>
                        x % ADDR_MOD = x - ADDR_MOD
  BY <1>1
<1> QED
  BY <1>1, <1>2, <1>3 DEF AddrAdd

(* ranges_overlap is right about ranges that are not empty.                *)
LEMMA RangesOverlap ==
    ASSUME NEW a \in Nat, NEW ae \in Nat, NEW b \in Nat, NEW be \in Nat,
           a < ae, b < be
    PROVE  ~ranges_overlap(a, ae, b, be) <=> (a .. ae - 1) \cap (b .. be - 1) = {}
<1>1. CASE ranges_overlap(a, ae, b, be)
  <2> DEFINE x == IF a <= b THEN b ELSE a
  <2>1. x \in a .. ae - 1 /\ x \in b .. be - 1
    BY <1>1 DEF ranges_overlap
  <2> QED
    BY <1>1, <2>1
<1>2. CASE ~ranges_overlap(a, ae, b, be)
  <2>1. ASSUME NEW x \in a .. ae - 1, x \in b .. be - 1
        PROVE  FALSE
    BY <1>2, <2>1 DEF ranges_overlap
  <2> QED
    BY <1>2, <2>1
<1> QED
  BY <1>1, <1>2

(* What validate_task_stack and validate_private_region ask of one task.   *)
StackInOrder(d) ==
    /\ d.stack_buffer # 0 /\ d.stack_guard # 0
    /\ d.stack_words >= JRT_MINIMUM_TASK_STACK_WORDS
    /\ d.stack_words % 2 = 0
    /\ d.stack_buffer % STACK_ALIGN = 0
    /\ d.stack_guard % MPU_MIN_SIZE = 0
    /\ AddrAdd(d.stack_guard, GUARD_BYTES) = d.stack_buffer
    /\ d.stack_words <= (ADDR_MOD - 1) \div WORD_BYTES
    /\ stack_end(d) >= d.stack_buffer

RegionInOrder(d) ==
    /\ d.private_data_base # 0
    /\ d.private_data_size \in RegionSize
    /\ d.private_data_base % d.private_data_size = 0
    /\ d.unprivileged = 1
    /\ private_end(d) >= d.private_data_base
    /\ d.private_data_base >= task_private_data.start
    /\ private_end(d) <= task_private_data.end

LEMMA StackOrder ==
    ASSUME NEW d \in JRT_TaskDefinition
    PROVE  StackInOrder(d) <=> SoundStack(d)
<1> DEFINE g == d.stack_guard
           b == d.stack_buffer
           w == d.stack_words
           bytes == w * WORD_BYTES
<1>1. g \in Address /\ b \in Address /\ w \in Nat
  BY DEF JRT_TaskDefinition
<1>2. /\ g \in Nat /\ g < ADDR_MOD /\ b \in Nat /\ b < ADDR_MOD
  BY <1>1, MemoryConstants DEF Address
<1>3. bytes \in Nat
  BY <1>1, MemoryConstants
<1>4. w <= (ADDR_MOD - 1) \div WORD_BYTES <=> bytes < ADDR_MOD
  <2>1. ADDR_MOD - 1 \in Nat
    BY MemoryConstants
  <2>2. w <= (ADDR_MOD - 1) \div WORD_BYTES <=> bytes <= ADDR_MOD - 1
    BY <1>1, <2>1, QuotientBound, MemoryConstants
  <2> QED
    BY <1>3, <2>2, MemoryConstants
<1>5. stack_end(d) = AddrAdd(b, bytes)
  BY DEF stack_end
<1>6. g % MPU_MIN_SIZE = 0 => g + GUARD_BYTES <= ADDR_MOD
  <2>1. PowerOfTwo(REGION_SIZES - 1) \in Nat
    BY Powers, MemoryConstants
  <2>2. ADDR_MOD = GUARD_BYTES * PowerOfTwo(REGION_SIZES - 1)
    BY MemoryAssumption
  <2> QED
    BY <1>2, <2>1, <2>2, AlignedGap, MemoryConstants
<1>7. AddrAdd(g, GUARD_BYTES) =
          IF g + GUARD_BYTES < ADDR_MOD THEN g + GUARD_BYTES
          ELSE AddrAdd(g, GUARD_BYTES)
  BY <1>2, AddressSum, MemoryConstants
<1>8. g + GUARD_BYTES = ADDR_MOD => AddrAdd(g, GUARD_BYTES) = 0
  BY <1>2, MemoryConstants DEF AddrAdd
<1> HIDE DEF bytes
<1>9. ASSUME StackInOrder(d)
      PROVE  SoundStack(d)
  <2>1. /\ b # 0 /\ g # 0 /\ g % MPU_MIN_SIZE = 0
        /\ AddrAdd(g, GUARD_BYTES) = b /\ bytes < ADDR_MOD
        /\ AddrAdd(b, bytes) >= b
    BY <1>4, <1>5, <1>9 DEF StackInOrder
  <2>2. b = g + GUARD_BYTES
    BY <1>2, <1>6, <1>7, <1>8, <2>1, MemoryConstants
  <2>3. b + bytes < ADDR_MOD
    BY <1>2, <1>3, <2>1, AddressSum, MemoryConstants
  <2> QED
    BY <1>2, <1>9, <2>1, <2>2, <2>3 DEF SoundStack, StackInOrder, bytes
<1>10. ASSUME SoundStack(d)
       PROVE  StackInOrder(d)
  <2>1. g > 0 /\ b = g + GUARD_BYTES /\ b + bytes < ADDR_MOD
    BY <1>10 DEF SoundStack, bytes
  <2>2. b # 0 /\ g # 0 /\ bytes < ADDR_MOD
    BY <1>2, <1>3, <2>1, MemoryConstants
  <2>3. AddrAdd(g, GUARD_BYTES) = b /\ AddrAdd(b, bytes) = b + bytes
    BY <1>2, <1>3, <2>1, AddressSum, MemoryConstants
  <2>4. AddrAdd(b, bytes) >= b
    BY <1>2, <1>3, <2>3
  <2> QED
    BY <1>4, <1>5, <1>10, <2>2, <2>3, <2>4 DEF SoundStack, StackInOrder
<1> QED
  BY <1>9, <1>10

LEMMA SectionBounds ==
    /\ task_private_data.start \in Nat /\ task_private_data.end \in Nat
    /\ task_private_data.end < ADDR_MOD
    /\ unprivileged_task_data.start \in Address
    /\ unprivileged_task_data.end \in 0 .. ADDR_MOD
BY KernelAssumption, MemoryConstants DEF Address

LEMMA RegionOrder ==
    ASSUME NEW d \in JRT_TaskDefinition
    PROVE  RegionInOrder(d) <=> SoundRegion(d)
<1> DEFINE base == d.private_data_base
           size == d.private_data_size
<1>1. base \in Address /\ size \in Nat
  BY DEF JRT_TaskDefinition
<1>2. base \in Nat /\ base < ADDR_MOD /\ ADDR_MOD \in Nat
  BY <1>1, MemoryConstants DEF Address
<1>3. private_end(d) = AddrAdd(base, size) /\ PrivateBytes(d) = base .. base + size - 1
  BY DEF private_end, PrivateBytes
<1>4. size \in RegionSize => size # 0
  BY RegionSizes
<1>5. ASSUME RegionInOrder(d)
      PROVE  SoundRegion(d)
  <2>1. /\ base # 0 /\ size \in RegionSize /\ base % size = 0
        /\ d.unprivileged = 1 /\ AddrAdd(base, size) >= base
        /\ base >= task_private_data.start
        /\ AddrAdd(base, size) <= task_private_data.end
    BY <1>3, <1>5 DEF RegionInOrder
  <2>2. size <= base
    BY <1>1, <1>2, <1>4, <2>1, AlignedAtLeast
  <2>3. base + size < ADDR_MOD /\ AddrAdd(base, size) = base + size
    BY <1>1, <1>2, <2>1, <2>2, AddressSum
  <2>4. base .. base + size - 1 \subseteq
            task_private_data.start .. task_private_data.end - 1
    BY <1>1, <1>2, <2>1, <2>3, SectionBounds
  <2> QED
    BY <1>2, <1>3, <2>1, <2>4 DEF SoundRegion
<1>6. ASSUME SoundRegion(d)
      PROVE  RegionInOrder(d)
  <2>1. /\ base > 0 /\ size \in RegionSize /\ base % size = 0
        /\ d.unprivileged = 1
        /\ base .. base + size - 1 \subseteq
               task_private_data.start .. task_private_data.end - 1
    BY <1>3, <1>6 DEF SoundRegion
  <2>2. base \in base .. base + size - 1 /\ base + size - 1 \in base .. base + size - 1
    BY <1>1, <1>2, <1>4, <2>1
  <2>3. base >= task_private_data.start /\ base + size <= task_private_data.end
    BY <1>1, <1>2, <2>1, <2>2, SectionBounds
  <2>4. AddrAdd(base, size) = base + size
    BY <1>1, <1>2, <2>3, AddressSum, SectionBounds
  <2> QED
    BY <1>1, <1>2, <1>3, <2>1, <2>3, <2>4 DEF RegionInOrder
<1> QED
  BY <1>5, <1>6

(* A sound stack is a range of addresses that does not wrap around.        *)
LEMMA StackRange ==
    ASSUME NEW d, d.stack_guard \in Nat, d.stack_words \in Nat,
           d.stack_buffer = d.stack_guard + GUARD_BYTES,
           d.stack_buffer + d.stack_words * WORD_BYTES < ADDR_MOD
    PROVE  /\ stack_end(d) \in Nat /\ d.stack_guard < stack_end(d)
           /\ Footprint(d) = d.stack_guard .. stack_end(d) - 1
<1> DEFINE bytes == d.stack_words * WORD_BYTES
<1>1. bytes \in Nat /\ d.stack_buffer \in Nat
  BY MemoryConstants
<1>2. stack_end(d) = d.stack_buffer + bytes
  BY <1>1, AddressSum DEF stack_end
<1>3. Footprint(d) = d.stack_guard .. d.stack_buffer + bytes - 1
  BY DEF Footprint
<1> HIDE DEF bytes
<1>4. Footprint(d) = d.stack_guard .. stack_end(d) - 1
  BY <1>1, <1>2, <1>3
<1>5. d.stack_guard < d.stack_buffer + bytes
  BY <1>1, MemoryConstants
<1> QED
  BY <1>1, <1>2, <1>4, <1>5

LEMMA TaskStackRange ==
    ASSUME NEW d \in JRT_TaskDefinition, SoundStack(d)
    PROVE  /\ stack_end(d) \in Nat /\ d.stack_guard < stack_end(d)
           /\ d.stack_guard \in Nat
           /\ Footprint(d) = d.stack_guard .. stack_end(d) - 1
<1>1. d.stack_guard \in Nat /\ d.stack_words \in Nat
  BY MemoryConstants DEF JRT_TaskDefinition, Address
<1>2. /\ d.stack_buffer = d.stack_guard + GUARD_BYTES
      /\ d.stack_buffer + d.stack_words * WORD_BYTES < ADDR_MOD
  BY DEF SoundStack
<1> QED
  BY <1>1, <1>2, StackRange

LEMMA KernelStackRange ==
    ASSUME NEW k \in DOMAIN kernel_storage
    PROVE  LET d == kernel_storage[k]
           IN  /\ stack_end(d) \in Nat /\ d.stack_guard < stack_end(d)
               /\ d.stack_guard \in Nat
               /\ Footprint(d) = d.stack_guard .. stack_end(d) - 1
<1> DEFINE d == kernel_storage[k]
<1>1. k \in Task \ ApplicationTask /\ d \in KernelTaskStorage
  BY MemoryAssumption
<1>2. d.stack_guard \in Nat /\ d.stack_words \in Nat
  BY <1>1, MemoryConstants DEF KernelTaskStorage, Address
<1>3. /\ d.stack_buffer = d.stack_guard + GUARD_BYTES
      /\ d.stack_buffer + d.stack_words * WORD_BYTES < ADDR_MOD
  BY <1>1, MemoryAssumption
<1> HIDE DEF d
<1>4. /\ stack_end(d) \in Nat /\ d.stack_guard < stack_end(d)
      /\ Footprint(d) = d.stack_guard .. stack_end(d) - 1
  BY <1>2, <1>3, StackRange
<1> QED
  BY <1>2, <1>4 DEF d

(* So is a sound private region; without one there is nothing to protect.  *)
LEMMA RegionRange ==
    ASSUME NEW d \in JRT_TaskDefinition, HasPrivateData(d) => SoundRegion(d)
    PROVE  /\ HasPrivateData(d) <=> d.private_data_base # 0
           /\ ~HasPrivateData(d) => PrivateBytes(d) = {}
           /\ HasPrivateData(d) =>
                 /\ private_end(d) \in Nat
                 /\ d.private_data_base \in Nat
                 /\ d.private_data_base < private_end(d)
                 /\ PrivateBytes(d) = d.private_data_base .. private_end(d) - 1
<1> DEFINE base == d.private_data_base
           size == d.private_data_size
<1>1. base \in Nat /\ base < ADDR_MOD /\ size \in Nat /\ ADDR_MOD \in Nat
  BY MemoryConstants DEF JRT_TaskDefinition, Address
<1>2. HasPrivateData(d) <=> base # 0 \/ size # 0
  BY DEF HasPrivateData
<1>3. PrivateBytes(d) = base .. base + size - 1
  BY DEF PrivateBytes
<1>4. CASE ~HasPrivateData(d)
  BY <1>1, <1>2, <1>3, <1>4
<1>5. CASE HasPrivateData(d)
  <2>1. RegionInOrder(d) /\ base > 0 /\ size \in RegionSize
    BY <1>5, RegionOrder DEF SoundRegion
  <2>2. base % size = 0 /\ AddrAdd(base, size) >= base
    BY <2>1 DEF RegionInOrder, private_end
  <2>3. size # 0
    BY <2>1, RegionSizes
  <2>4. size <= base
    BY <1>1, <2>1, <2>2, <2>3, AlignedAtLeast
  <2>5. AddrAdd(base, size) = base + size
    BY <1>1, <2>2, <2>4, AddressSum
  <2>6. private_end(d) = base + size
    BY <2>5 DEF private_end
  <2> QED
    BY <1>1, <1>2, <1>3, <1>5, <2>1, <2>3, <2>6
<1> QED
  BY <1>4, <1>5

(* JRT_KernelInit accepts a configuration when it finds nothing wrong with *)
(* any task: the first failing task is one that fails.                     *)
LEMMA AcceptedWhen ==
    ASSUME NEW c \in Candidate \cup Config
    PROVE  KernelInitStatus(c) = "OK" <=>
               /\ c # NULL
               /\ Cardinality(DOMAIN c) \in 1 .. JRT_MAX_APPLICATION_TASKS
               /\ \A i \in DOMAIN c :
                     /\ c[i].entry # NULL
                     /\ ~(c[i].priority > JRT_MAX_TASK_PRIORITY)
                     /\ validate_task_stack(c, i)
                     /\ validate_private_region(c, i)
<1> DEFINE Bad == {i \in DOMAIN c : TaskStatus(c, i) # "OK"}
           Count == Cardinality(DOMAIN c)
<1>1. CASE c = NULL
  BY <1>1 DEF KernelInitStatus
<1>2. CASE c # NULL
  <2>1. IsFiniteSet(DOMAIN c)
    BY <1>2, KernelAssumption
  <2>2. Count \in Nat /\ (Count = 0 <=> DOMAIN c = {})
    BY <2>1, FS_CardinalityType, FS_EmptySet
  <2>3. Count > JRT_MAX_APPLICATION_TASKS \/ Count \in 1 .. JRT_MAX_APPLICATION_TASKS
        \/ Count = 0
    BY <2>2, MemoryConstants
  <2>4. CASE DOMAIN c = {}
    <3>1. Count \notin 1 .. JRT_MAX_APPLICATION_TASKS
      BY <2>2, <2>4, MemoryConstants
    <3> HIDE DEF Count
    <3> QED
      BY <1>2, <2>4, <3>1 DEF KernelInitStatus, Count
  <2>5. CASE DOMAIN c # {} /\ Count > JRT_MAX_APPLICATION_TASKS
    <3>1. Count \notin 1 .. JRT_MAX_APPLICATION_TASKS
      BY <2>2, <2>5, MemoryConstants
    <3>2. KernelInitStatus(c) = "TOO_MANY_TASKS"
      BY <1>2, <2>5 DEF KernelInitStatus
    <3> QED
      BY <3>1, <3>2
  <2>6. CASE DOMAIN c # {} /\ Count \in 1 .. JRT_MAX_APPLICATION_TASKS
    <3>1. ~(Count > JRT_MAX_APPLICATION_TASKS)
      BY <2>2, <2>6, MemoryConstants
    <3>2. KernelInitStatus(c) =
              IF Bad # {} THEN TaskStatus(c, Min(Bad))
              ELSE IF \A i \in DOMAIN c : validate_private_region(c, i)
                   THEN "OK" ELSE "INVALID_MEMORY_REGION"
      BY <1>2, <2>6, <3>1 DEF KernelInitStatus
    <3>3. DOMAIN c = ApplicationTask
      BY <1>2, <2>6, KernelAssumption
    <3>4. Bad \subseteq Nat
      BY <3>3, TaskIndices
    <3>5. Bad # {} => KernelInitStatus(c) # "OK"
      <4>1. Bad # {} => Min(Bad) \in Bad
        BY <3>4, MinOf
      <4> QED
        BY <3>2, <4>1
    <3>6. ASSUME NEW i \in DOMAIN c
          PROVE  TaskStatus(c, i) = "OK" <=>
                    /\ c[i].entry # NULL
                    /\ ~(c[i].priority > JRT_MAX_TASK_PRIORITY)
                    /\ validate_task_stack(c, i)
      BY DEF TaskStatus
    <3> QED
      BY <1>2, <2>6, <3>2, <3>5, <3>6
  <2> QED
    BY <2>2, <2>3, <2>4, <2>5, <2>6
<1> QED
  BY <1>1, <1>2

(* The checks on a task together, when every task is sound by itself.      *)
Sound(c) ==
    \A i \in DOMAIN c : /\ c[i] \in JRT_TaskDefinition
                        /\ SoundStack(c[i])
                        /\ HasPrivateData(c[i]) => SoundRegion(c[i])

LEMMA ValidStack ==
    ASSUME NEW c, DOMAIN c = ApplicationTask, Sound(c), NEW i \in DOMAIN c
    PROVE  validate_task_stack(c, i) <=>
               \A j \in 0 .. i - 1 : Footprint(c[i]) \cap Footprint(c[j]) = {}
<1>1. StackInOrder(c[i])
  BY StackOrder DEF Sound
<1>2. ASSUME NEW j \in 0 .. i - 1
      PROVE  ~ranges_overlap(c[i].stack_guard, stack_end(c[i]),
                             c[j].stack_guard, stack_end(c[j]))
                 <=> Footprint(c[i]) \cap Footprint(c[j]) = {}
  <2>1. j \in DOMAIN c
    BY TaskTableAssumption DEF ApplicationTask
  <2>2. /\ c[i] \in JRT_TaskDefinition /\ SoundStack(c[i])
        /\ c[j] \in JRT_TaskDefinition /\ SoundStack(c[j])
    BY <2>1 DEF Sound
  <2> DEFINE a == c[i].stack_guard
             ae == stack_end(c[i])
             b == c[j].stack_guard
             be == stack_end(c[j])
  <2>3. /\ a \in Nat /\ ae \in Nat /\ a < ae /\ Footprint(c[i]) = a .. ae - 1
        /\ b \in Nat /\ be \in Nat /\ b < be /\ Footprint(c[j]) = b .. be - 1
    BY <2>2, TaskStackRange
  <2> HIDE DEF a, ae, b, be
  <2>4. ~ranges_overlap(a, ae, b, be) <=> Footprint(c[i]) \cap Footprint(c[j]) = {}
    BY <2>3, RangesOverlap
  <2> QED
    BY <2>4 DEF a, ae, b, be
<1>3. validate_task_stack(c, i) <=>
          \A j \in 0 .. i - 1 :
              ~ranges_overlap(c[i].stack_guard, stack_end(c[i]),
                              c[j].stack_guard, stack_end(c[j]))
  BY <1>1 DEF validate_task_stack, StackInOrder
<1> QED
  BY <1>2, <1>3

LEMMA ValidRegion ==
    ASSUME NEW c, DOMAIN c = ApplicationTask, Sound(c), NEW i \in DOMAIN c
    PROVE  validate_private_region(c, i) <=>
               /\ \A j \in DOMAIN c :
                     /\ PrivateBytes(c[i]) \cap Footprint(c[j]) = {}
                     /\ j < i => PrivateBytes(c[i]) \cap PrivateBytes(c[j]) = {}
               /\ \A k \in DOMAIN kernel_storage :
                     PrivateBytes(c[i]) \cap Footprint(kernel_storage[k]) = {}
<1>1. \A j \in DOMAIN c : /\ c[j] \in JRT_TaskDefinition /\ SoundStack(c[j])
                          /\ HasPrivateData(c[j]) => SoundRegion(c[j])
  BY DEF Sound
<1>2. CASE ~HasPrivateData(c[i])
  <2>1. PrivateBytes(c[i]) = {}
    BY <1>1, <1>2, RegionRange
  <2> QED
    BY <1>2, <2>1 DEF validate_private_region
<1>3. CASE HasPrivateData(c[i])
  <2> DEFINE a == c[i].private_data_base
             ae == private_end(c[i])
  <2>1. a \in Nat /\ ae \in Nat /\ a < ae /\ PrivateBytes(c[i]) = a .. ae - 1
    BY <1>1, <1>3, RegionRange
  <2>2. RegionInOrder(c[i])
    BY <1>1, <1>3, RegionOrder
  <2>3. validate_private_region(c, i) <=>
            /\ \A j \in DOMAIN c :
                  /\ ~ranges_overlap(a, ae, c[j].stack_guard, stack_end(c[j]))
                  /\ (j < i /\ c[j].private_data_base # 0) =>
                        ~ranges_overlap(a, ae, c[j].private_data_base,
                                        private_end(c[j]))
            /\ \A k \in DOMAIN kernel_storage :
                  ~ranges_overlap(a, ae, kernel_storage[k].stack_guard,
                                  stack_end(kernel_storage[k]))
    BY <1>3, <2>2 DEF validate_private_region, RegionInOrder
  <2> HIDE DEF a, ae
  <2>4. ASSUME NEW j \in DOMAIN c
        PROVE  ~ranges_overlap(a, ae, c[j].stack_guard, stack_end(c[j]))
                   <=> PrivateBytes(c[i]) \cap Footprint(c[j]) = {}
    <3> DEFINE b == c[j].stack_guard
               be == stack_end(c[j])
    <3>1. b \in Nat /\ be \in Nat /\ b < be /\ Footprint(c[j]) = b .. be - 1
      BY <1>1, TaskStackRange
    <3> HIDE DEF b, be
    <3>2. ~ranges_overlap(a, ae, b, be)
              <=> PrivateBytes(c[i]) \cap Footprint(c[j]) = {}
      BY <2>1, <3>1, RangesOverlap
    <3> QED
      BY <3>2 DEF b, be
  <2>5. ASSUME NEW j \in DOMAIN c
        PROVE  (c[j].private_data_base # 0 =>
                   ~ranges_overlap(a, ae, c[j].private_data_base,
                                   private_end(c[j])))
                   <=> PrivateBytes(c[i]) \cap PrivateBytes(c[j]) = {}
    <3> DEFINE b == c[j].private_data_base
               be == private_end(c[j])
    <3>1. /\ HasPrivateData(c[j]) <=> b # 0
          /\ ~HasPrivateData(c[j]) => PrivateBytes(c[j]) = {}
          /\ HasPrivateData(c[j]) =>
                /\ b \in Nat /\ be \in Nat /\ b < be
                /\ PrivateBytes(c[j]) = b .. be - 1
      BY <1>1, RegionRange
    <3> HIDE DEF b, be
    <3>2. b # 0 => (~ranges_overlap(a, ae, b, be)
              <=> PrivateBytes(c[i]) \cap PrivateBytes(c[j]) = {})
      BY <2>1, <3>1, RangesOverlap
    <3>3. (b # 0 => ~ranges_overlap(a, ae, b, be))
              <=> PrivateBytes(c[i]) \cap PrivateBytes(c[j]) = {}
      BY <3>1, <3>2
    <3> QED
      BY <3>3 DEF b, be
  <2>6. ASSUME NEW k \in DOMAIN kernel_storage
        PROVE  ~ranges_overlap(a, ae, kernel_storage[k].stack_guard,
                               stack_end(kernel_storage[k]))
                   <=> PrivateBytes(c[i]) \cap Footprint(kernel_storage[k]) = {}
    <3> DEFINE b == kernel_storage[k].stack_guard
               be == stack_end(kernel_storage[k])
    <3>1. /\ b \in Nat /\ be \in Nat /\ b < be
          /\ Footprint(kernel_storage[k]) = b .. be - 1
      BY KernelStackRange
    <3> HIDE DEF b, be
    <3>2. ~ranges_overlap(a, ae, b, be)
              <=> PrivateBytes(c[i]) \cap Footprint(kernel_storage[k]) = {}
      BY <2>1, <3>1, RangesOverlap
    <3> QED
      BY <3>2 DEF b, be
  <2> QED
    BY <2>3, <2>4, <2>5, <2>6
<1> QED
  BY <1>2, <1>3

(* What follows for a configuration that was accepted.                     *)
LEMMA AcceptedIsSound ==
    ASSUME NEW c \in Candidate \cup Config, KernelInitStatus(c) = "OK"
    PROVE  c # NULL /\ DOMAIN c = ApplicationTask /\ Sound(c)
<1>1. /\ c # NULL
      /\ Cardinality(DOMAIN c) \in 1 .. JRT_MAX_APPLICATION_TASKS
      /\ \A i \in DOMAIN c :
            validate_task_stack(c, i) /\ validate_private_region(c, i)
  BY AcceptedWhen
<1>2. DOMAIN c = ApplicationTask /\ \A i \in DOMAIN c : c[i] \in JRT_TaskDefinition
  BY <1>1, KernelAssumption
<1>3. ASSUME NEW i \in DOMAIN c
      PROVE  SoundStack(c[i]) /\ (HasPrivateData(c[i]) => SoundRegion(c[i]))
  <2>1. StackInOrder(c[i])
    BY <1>1 DEF validate_task_stack, StackInOrder
  <2>2. HasPrivateData(c[i]) => RegionInOrder(c[i])
    BY <1>1 DEF validate_private_region, RegionInOrder
  <2> QED
    BY <1>2, <2>1, <2>2, StackOrder, RegionOrder
<1> QED
  BY <1>1, <1>2, <1>3 DEF Sound

(* JRT_KernelInit accepts exactly the safe configurations.                 *)
LEMMA AcceptsSafe ==
    ASSUME NEW c \in Candidate \cup Config
    PROVE  KernelInitStatus(c) = "OK" <=> SafeConfig(c)
<1>1. ASSUME KernelInitStatus(c) = "OK"
      PROVE  SafeConfig(c)
  <2>1. c # NULL /\ DOMAIN c = ApplicationTask /\ Sound(c)
    BY <1>1, AcceptedIsSound
  <2>2. /\ Cardinality(DOMAIN c) \in 1 .. JRT_MAX_APPLICATION_TASKS
        /\ \A i \in DOMAIN c :
              /\ c[i].entry # NULL
              /\ ~(c[i].priority > JRT_MAX_TASK_PRIORITY)
              /\ validate_task_stack(c, i)
              /\ validate_private_region(c, i)
    BY <1>1, AcceptedWhen
  <2>3. ASSUME NEW i \in DOMAIN c
        PROVE  /\ c[i].priority <= JRT_MAX_TASK_PRIORITY
               /\ \A j \in 0 .. i - 1 : Footprint(c[i]) \cap Footprint(c[j]) = {}
    <3>1. c[i].priority \in Nat /\ JRT_MAX_TASK_PRIORITY \in Nat
      BY <2>1, TaskTableAssumption DEF Sound, JRT_TaskDefinition
    <3> QED
      BY <2>1, <2>2, <3>1, ValidStack
  <2>4. ASSUME NEW i \in DOMAIN c
        PROVE  /\ \A j \in DOMAIN c :
                     /\ PrivateBytes(c[i]) \cap Footprint(c[j]) = {}
                     /\ j < i => PrivateBytes(c[i]) \cap PrivateBytes(c[j]) = {}
               /\ \A k \in DOMAIN kernel_storage :
                     PrivateBytes(c[i]) \cap Footprint(kernel_storage[k]) = {}
    BY <2>1, <2>2, ValidRegion
  <2>5. ASSUME NEW i \in DOMAIN c, NEW j \in DOMAIN c, i # j
        PROVE  /\ Footprint(c[i]) \cap Footprint(c[j]) = {}
               /\ PrivateBytes(c[i]) \cap PrivateBytes(c[j]) = {}
    <3>1. i \in Nat /\ j \in Nat
      BY <2>1, TaskIndices
    <3>2. CASE j < i
      <4>1. j \in 0 .. i - 1
        BY <3>1, <3>2
      <4> QED
        BY <2>3, <2>4, <3>2, <4>1
    <3>3. CASE i < j
      <4>1. i \in 0 .. j - 1
        BY <3>1, <3>3
      <4>2. /\ Footprint(c[j]) \cap Footprint(c[i]) = {}
            /\ PrivateBytes(c[j]) \cap PrivateBytes(c[i]) = {}
        BY <2>3, <2>4, <3>3, <4>1
      <4> QED
        BY <4>2
    <3> QED
      BY <2>5, <3>1, <3>2, <3>3
  <2> QED
    BY <2>1, <2>2, <2>3, <2>4, <2>5 DEF SafeConfig, Sound
<1>2. ASSUME SafeConfig(c)
      PROVE  KernelInitStatus(c) = "OK"
  <2>1. c # NULL /\ Cardinality(DOMAIN c) \in 1 .. JRT_MAX_APPLICATION_TASKS
    BY <1>2 DEF SafeConfig
  <2>2. /\ DOMAIN c = ApplicationTask
        /\ \A i \in DOMAIN c : c[i] \in JRT_TaskDefinition
    BY <2>1, KernelAssumption
  <2>3. Sound(c)
    BY <1>2, <2>2 DEF SafeConfig, Sound
  <2>4. ASSUME NEW i \in DOMAIN c
        PROVE  /\ c[i].entry # NULL /\ ~(c[i].priority > JRT_MAX_TASK_PRIORITY)
               /\ validate_task_stack(c, i)
               /\ validate_private_region(c, i)
    <3>1. c[i].priority \in Nat /\ JRT_MAX_TASK_PRIORITY \in Nat
      BY <2>2, TaskTableAssumption DEF JRT_TaskDefinition
    <3>2. c[i].entry # NULL /\ c[i].priority <= JRT_MAX_TASK_PRIORITY
      BY <1>2 DEF SafeConfig
    <3>3. \A j \in DOMAIN c :
             /\ PrivateBytes(c[i]) \cap Footprint(c[j]) = {}
             /\ i # j => /\ Footprint(c[i]) \cap Footprint(c[j]) = {}
                         /\ PrivateBytes(c[i]) \cap PrivateBytes(c[j]) = {}
      BY <1>2 DEF SafeConfig
    <3>4. i \in Nat /\ \A j \in 0 .. i - 1 : j \in DOMAIN c /\ i # j
      BY <2>2, TaskTableAssumption DEF ApplicationTask
    <3>5. validate_task_stack(c, i)
      BY <2>2, <2>3, <3>3, <3>4, ValidStack
    <3>6. \A j \in DOMAIN c : j < i => i # j
      <4>1. DOMAIN c \subseteq Nat
        BY <2>2, TaskIndices
      <4>2. \A j \in Nat : j < i => i # j
        BY <3>4
      <4> QED
        BY <4>1, <4>2
    <3>7. \A k \in DOMAIN kernel_storage :
             PrivateBytes(c[i]) \cap Footprint(kernel_storage[k]) = {}
      BY <1>2 DEF SafeConfig
    <3>8. validate_private_region(c, i)
      BY <2>2, <2>3, <3>3, <3>6, <3>7, ValidRegion
    <3> QED
      BY <3>1, <3>2, <3>5, <3>8
  <2> QED
    BY <2>1, <2>4, AcceptedWhen
<1> QED
  BY <1>1, <1>2

-----------------------------------------------------------------------------
(* The MPU: while a configuration is in force its registers, and what the  *)
(* port remembers of them, are those of the task that is current.          *)

MpuOf(c, t) ==
    LET d == Storage(c, t)
    IN  [data |-> configure_region_range(unprivileged_task_data.start,
                                         unprivileged_task_data.end),
         private |-> IF d.private_data_size = 0 THEN Disabled
                     ELSE [base |-> d.private_data_base,
                           size |-> d.private_data_size],
         guard |-> [base |-> d.stack_guard, size |-> MPU_MIN_SIZE],
         private_data_base |-> d.private_data_base,
         private_data_size |-> d.private_data_size,
         stack_guard_base |-> d.stack_guard]

KernelInv ==
    /\ PeriodInv
    /\ config \in Config \cup {NULL}
    /\ started \in {0, 1}
    /\ IF started = 0
       THEN PeriodicInit /\ control = ARCH_LAUNCH_PRIVILEGED
       ELSE config # NULL /\ control = task_current_control(config, current)
    /\ IF config = NULL THEN mpu = ClearedMpu
       ELSE KernelInitStatus(config) = "OK" /\ mpu = MpuOf(config, current)

(* Storage of a task under an accepted configuration.                      *)
LEMMA StorageFacts ==
    ASSUME NEW c \in Config, KernelInitStatus(c) = "OK", NEW t \in Task
    PROVE  LET d == Storage(c, t)
           IN  /\ d.stack_guard \in Address \ {0}
               /\ d.private_data_base \in Address
               /\ d.private_data_size \in Address
               /\ \/ d.private_data_base = 0 /\ d.private_data_size = 0
                  \/ d.private_data_base # 0 /\ d.private_data_size \in RegionSize
               /\ d.unprivileged \in {0, 1}
<1>1. CASE t \in ApplicationTask
  <2> DEFINE d == c[t]
  <2>1. DOMAIN c = ApplicationTask /\ Sound(c)
    BY AcceptedIsSound
  <2>2. /\ d \in JRT_TaskDefinition /\ SoundStack(d)
        /\ HasPrivateData(d) => SoundRegion(d)
    BY <1>1, <2>1 DEF Sound
  <2>3. /\ d.stack_guard \in Address /\ d.private_data_base \in Address
        /\ d.private_data_size \in Nat /\ d.unprivileged \in {0, 1}
    BY <2>2 DEF JRT_TaskDefinition
  <2>4. d.stack_guard > 0
    BY <2>2 DEF SoundStack
  <2>5. d.stack_guard # 0
    BY <2>3, <2>4, MemoryConstants DEF Address
  <2>6. CASE ~HasPrivateData(d)
    <3>1. d.private_data_base = 0 /\ d.private_data_size = 0
      BY <2>6 DEF HasPrivateData
    <3>2. 0 \in Address
      BY MemoryConstants DEF Address
    <3> QED
      BY <1>1, <2>3, <2>5, <3>1, <3>2 DEF Storage
  <2>7. CASE HasPrivateData(d)
    <3>1. /\ d.private_data_base > 0 /\ d.private_data_size \in RegionSize
          /\ d.private_data_base % d.private_data_size = 0
      BY <2>2, <2>7 DEF SoundRegion
    <3>2. d.private_data_base \in Nat \ {0} /\ d.private_data_base < ADDR_MOD
      BY <2>3, <3>1, MemoryConstants DEF Address
    <3>3. d.private_data_size \in Nat \ {0}
      BY <3>1, RegionSizes
    <3>4. d.private_data_size <= d.private_data_base
      BY <3>1, <3>2, <3>3, AlignedAtLeast
    <3>5. d.private_data_size \in Address
      BY <3>2, <3>3, <3>4, MemoryConstants DEF Address
    <3> QED
      BY <1>1, <2>3, <2>5, <3>1, <3>2, <3>5 DEF Storage
  <2> QED
    BY <2>6, <2>7
<1>2. CASE t \notin ApplicationTask
  <2> DEFINE d == kernel_storage[t]
  <2>1. d \in KernelTaskStorage
    BY <1>2, MemoryAssumption
  <2>2. /\ d.stack_guard \in Address \ {0} /\ d.unprivileged \in {0, 1}
        /\ d.private_data_base = 0 /\ d.private_data_size = 0
    BY <2>1 DEF KernelTaskStorage
  <2>3. 0 \in Address
    BY MemoryConstants DEF Address
  <2> QED
    BY <1>2, <2>2, <2>3 DEF Storage
<1> QED
  BY <1>1, <1>2

(* The smallest region size that holds a region size is that size.         *)
LEMMA SmallestSize ==
    ASSUME NEW size \in RegionSize
    PROVE  Min({s \in RegionSize : s >= size}) = size
<1> DEFINE S == {s \in RegionSize : s >= size}
<1>1. RegionSize \subseteq Nat /\ size \in Nat
  BY RegionSizes
<1>2. size \in S /\ S \subseteq Nat
  <2>1. size >= size
    BY <1>1
  <2> QED
    BY <1>1, <2>1
<1>3. Min(S) \in S /\ Min(S) <= size
  BY <1>2, MinOf
<1>4. Min(S) \in Nat /\ Min(S) >= size /\ size \in Nat
  BY <1>1, <1>3
<1> QED
  BY <1>3, <1>4

(* Registers the port believes to be up to date are, so that skipping them *)
(* leaves the regions of the selected task.                                *)
LEMMA SelectsTask ==
    ASSUME NEW c \in Config, KernelInitStatus(c) = "OK", NEW u \in Task,
           NEW m,
           \/ m = [ClearedMpu EXCEPT !.data =
                     configure_region_range(unprivileged_task_data.start,
                                            unprivileged_task_data.end)]
           \/ \E t \in Task : m = MpuOf(c, t)
    PROVE  SelectTask(m, c, u) = MpuOf(c, u)
<1> DEFINE d == Storage(c, u)
           data == configure_region_range(unprivileged_task_data.start,
                                          unprivileged_task_data.end)
           n == arch_set_task_private_data(m, d.private_data_base,
                                           d.private_data_size)
           private == IF d.private_data_size = 0 THEN Disabled
                      ELSE [base |-> d.private_data_base,
                            size |-> d.private_data_size]
<1>1. /\ d.stack_guard # 0
      /\ \/ d.private_data_base = 0 /\ d.private_data_size = 0
         \/ d.private_data_base # 0 /\ d.private_data_size \in RegionSize
  BY StorageFacts
<1>2. d.private_data_size # 0 =>
          Min({s \in RegionSize : s >= d.private_data_size}) = d.private_data_size
  BY <1>1, SmallestSize
<1>3. \E pb, ps, gb, p, g :
         /\ m = [data |-> data, private |-> p, guard |-> g,
                 private_data_base |-> pb, private_data_size |-> ps,
                 stack_guard_base |-> gb]
         /\ p = IF ps = 0 THEN Disabled ELSE [base |-> pb, size |-> ps]
         /\ gb # 0 => g = [base |-> gb, size |-> MPU_MIN_SIZE]
  <2>1. CASE m = [ClearedMpu EXCEPT !.data = data]
    <3>1. m = [data |-> data, private |-> Disabled, guard |-> Disabled,
               private_data_base |-> 0, private_data_size |-> 0,
               stack_guard_base |-> 0]
      BY <2>1 DEF ClearedMpu
    <3> QED
      BY <3>1
  <2>2. ASSUME NEW t \in Task, m = MpuOf(c, t)
        PROVE  m = [data |-> data,
                    private |-> IF Storage(c, t).private_data_size = 0
                                THEN Disabled
                                ELSE [base |-> Storage(c, t).private_data_base,
                                      size |-> Storage(c, t).private_data_size],
                    guard |-> [base |-> Storage(c, t).stack_guard,
                               size |-> MPU_MIN_SIZE],
                    private_data_base |-> Storage(c, t).private_data_base,
                    private_data_size |-> Storage(c, t).private_data_size,
                    stack_guard_base |-> Storage(c, t).stack_guard]
    BY <2>2 DEF MpuOf
  <2> QED
    BY <2>1, <2>2
<1>4. PICK pb, ps, gb, p, g :
         /\ m = [data |-> data, private |-> p, guard |-> g,
                 private_data_base |-> pb, private_data_size |-> ps,
                 stack_guard_base |-> gb]
         /\ p = IF ps = 0 THEN Disabled ELSE [base |-> pb, size |-> ps]
         /\ gb # 0 => g = [base |-> gb, size |-> MPU_MIN_SIZE]
  BY <1>3
<1> HIDE DEF d, data
<1>5. n = [data |-> data, private |-> private, guard |-> g,
           private_data_base |-> d.private_data_base,
           private_data_size |-> d.private_data_size,
           stack_guard_base |-> gb]
  BY <1>2, <1>4 DEF arch_set_task_private_data
<1> HIDE DEF n, private
<1>6. arch_set_task_stack_guard(n, d.stack_guard) =
          [data |-> data, private |-> private,
           guard |-> [base |-> d.stack_guard, size |-> MPU_MIN_SIZE],
           private_data_base |-> d.private_data_base,
           private_data_size |-> d.private_data_size,
           stack_guard_base |-> d.stack_guard]
  BY <1>1, <1>4, <1>5 DEF arch_set_task_stack_guard
<1> QED
  BY <1>6 DEF SelectTask, MpuOf, n, d, data, private

(* Of two sizes the MPU encodes, the smaller divides the larger.           *)
LEMMA PowersDivide ==
    ASSUME NEW k \in Nat, NEW n \in Nat
    PROVE  \E m \in Nat \ {0} : PowerOfTwo(k + n) = PowerOfTwo(k) * m
<1> DEFINE G == {d \in 0 .. n :
                    \E m \in Nat \ {0} : PowerOfTwo(k + d) = PowerOfTwo(k) * m}
<1>1. 0 \in G
  <2>1. k + 0 = k /\ 1 \in Nat \ {0} /\ 0 \in 0 .. n
    OBVIOUS
  <2>2. PowerOfTwo(k) \in Nat
    BY Powers
  <2>3. PowerOfTwo(k) = PowerOfTwo(k) * 1
    BY <2>2
  <2> QED
    BY <2>1, <2>3
<1>2. ASSUME NEW d \in 1 .. n, d - 1 \in G
      PROVE  d \in G
  <2>1. PICK m \in Nat \ {0} : PowerOfTwo(k + (d - 1)) = PowerOfTwo(k) * m
    BY <1>2
  <2>2. k + (d - 1) \in Nat /\ (k + (d - 1)) + 1 = k + d
    OBVIOUS
  <2>3. PowerOfTwo((k + (d - 1)) + 1) = 2 * PowerOfTwo(k + (d - 1))
    BY <2>2, Powers
  <2>4. PowerOfTwo(k) \in Nat
    BY Powers
  <2> DEFINE P == PowerOfTwo(k)
             Q == PowerOfTwo(k + d)
  <2>5. Q = 2 * (P * m) /\ P \in Nat
    BY <2>1, <2>2, <2>3, <2>4
  <2> HIDE DEF P, Q
  <2>6. Q = P * (2 * m) /\ 2 * m \in Nat \ {0}
    BY <2>5
  <2> QED
    BY <2>6 DEF P, Q
<1> HIDE DEF G
<1>3. \A d \in 0 .. n : d \in G
  BY <1>1, <1>2, UpTo
<1> QED
  BY <1>3 DEF G

LEMMA SizesDivide ==
    ASSUME NEW s \in RegionSize, NEW u \in RegionSize, s <= u
    PROVE  \E m \in Nat \ {0} : u = s * m
<1>1. PICK k \in 0 .. REGION_SIZES - 1 : s = MPU_MIN_SIZE * PowerOfTwo(k)
  BY DEF RegionSize
<1>2. PICK j \in 0 .. REGION_SIZES - 1 : u = MPU_MIN_SIZE * PowerOfTwo(j)
  BY DEF RegionSize
<1>3. /\ MPU_MIN_SIZE \in Nat \ {0} /\ s \in Nat \ {0} /\ u \in Nat \ {0}
      /\ k \in Nat /\ j \in Nat
  BY MemoryConstants, RegionSizes
<1>4. PowerOfTwo(k) \in Nat \ {0} /\ PowerOfTwo(j) \in Nat \ {0}
  BY <1>3, Powers
<1>5. CASE k <= j
  <2>1. j - k \in Nat /\ k + (j - k) = j
    BY <1>3, <1>5
  <2>2. PICK m \in Nat \ {0} : PowerOfTwo(j) = PowerOfTwo(k) * m
    BY <1>3, <2>1, PowersDivide
  <2>3. u = s * m
    BY <1>1, <1>2, <1>3, <1>4, <2>2
  <2> QED
    BY <2>3
<1>6. CASE j < k
  <2>1. k - j \in Nat /\ j + (k - j) = k
    BY <1>3, <1>6
  <2>2. PICK m \in Nat \ {0} : PowerOfTwo(k) = PowerOfTwo(j) * m
    BY <1>3, <2>1, PowersDivide
  <2>3. s = u * m
    BY <1>1, <1>2, <1>3, <1>4, <2>2
  <2>4. s >= u
    BY <1>3, <2>3, Multiple
  <2>5. u = s * 1
    BY <1>3, <2>4
  <2> QED
    BY <2>5
<1> QED
  BY <1>3, <1>5, <1>6

(* Blocks that are aligned to their sizes and share an address are nested. *)
LEMMA BlocksNest ==
    ASSUME NEW a \in Nat, NEW s \in Nat \ {0}, NEW m \in Nat \ {0}
    PROVE  /\ s * m \in Nat \ {0}
           /\ AlignDown(a, s * m) <= AlignDown(a, s)
           /\ AlignDown(a, s) + s <= AlignDown(a, s * m) + s * m
<1> DEFINE M == s * m
           A == a \div s
           q == a \div M
           B == m * q
<1>1. M \in Nat \ {0}
  BY Multiple
<1>2. /\ A \in Nat /\ a % s \in 0 .. s - 1 /\ a = s * A + (a % s)
      /\ q \in Nat /\ a % M \in 0 .. M - 1 /\ a = M * q + (a % M)
  <2> HIDE DEF M
  <2> QED
    BY <1>1, Division
<1>3. B \in Nat /\ s * B = M * q /\ B * s = M * q /\ (B + m) * s = M * q + M
      /\ M * q \in Nat /\ s * A \in Nat
  <2>1. q \in Nat /\ A \in Nat
    BY <1>2
  <2> HIDE DEF q, A
  <2> QED
    BY <2>1
<1>4. B <= A <=> B * s <= a
  BY <1>3, QuotientBound
<1>5. B + m <= A <=> (B + m) * s <= a
  <2>1. B + m \in Nat
    BY <1>3
  <2> QED
    BY <2>1, QuotientBound
<1>6. /\ AlignDown(a, s) = s * A /\ AlignDown(a, M) = M * q
  <2> HIDE DEF M, A, q
  <2> QED
    BY <1>1, <1>2, <1>3 DEF AlignDown
<1> HIDE DEF M, A, q, B
<1>7. B <= A /\ A + 1 <= B + m
  BY <1>1, <1>2, <1>3, <1>4, <1>5
<1>8. A - B \in Nat /\ B + m - (A + 1) \in Nat
  BY <1>2, <1>3, <1>7
<1>9. s * (A - B) >= 0 /\ s * (B + m - (A + 1)) >= 0
  BY <1>8
<1>10. /\ s * (A - B) = s * A - s * B
       /\ s * (B + m - (A + 1)) = (B + m) * s - (s * A + s)
  BY <1>2, <1>3
<1>11. s * B <= s * A /\ s * A + s <= (B + m) * s
  <2> DEFINE x == s * A
             y == (B + m) * s
             z == s * B
             v == s * (A - B)
             w == s * (B + m - (A + 1))
  <2>1. x \in Int /\ y \in Int /\ z \in Int
    BY <1>2, <1>3
  <2>2. v >= 0 /\ w >= 0 /\ v = x - z /\ w = y - (x + s)
    BY <1>9, <1>10
  <2> HIDE DEF x, y, z, v, w
  <2>3. z <= x /\ x + s <= y
    BY <2>1, <2>2
  <2> QED
    BY <2>3 DEF x, y, z
<1> QED
  BY <1>1, <1>3, <1>6, <1>11 DEF M

LEMMA RegionTypes ==
    ASSUME NEW r \in MpuRegion
    PROVE  /\ r.base \in Nat /\ r.size \in RegionSize /\ r.size \in Nat \ {0}
           /\ r.base % r.size = 0
<1>1. /\ r \in [base : Address, size : RegionSize]
      /\ r.base % r.size = 0
  BY DEF MpuRegion
<1>2. r.base \in Address /\ r.size \in RegionSize
  BY <1>1
<1>3. Address \subseteq Nat
  BY MemoryConstants DEF Address
<1> QED
  BY <1>1, <1>2, <1>3, RegionSizes

(* The region that holds an address is the block of its size around it.    *)
LEMMA RegionAround ==
    ASSUME NEW r \in MpuRegion, NEW a \in Nat, a \in Bytes(r)
    PROVE  r.base = AlignDown(a, r.size)
<1> DEFINE b == r.base
           s == r.size
           p == b \div s
           o == a - b
<1>1. b \in Nat /\ s \in Nat \ {0} /\ b % s = 0
  BY RegionTypes
<1>2. b <= a /\ a <= b + s - 1
  BY <1>1 DEF Bytes
<1> HIDE DEF b, s
<1>3. p \in Nat /\ b = s * p + (b % s)
  BY <1>1, Division
<1>4. o \in 0 .. s - 1 /\ a = b + o
  BY <1>1, <1>2
<1> HIDE DEF p, o
<1>5. b = s * p
  BY <1>1, <1>3
<1>6. (s * p + o) % s = o
  BY <1>1, <1>3, <1>4, DivisionOf
<1>7. a % s = o
  BY <1>4, <1>5, <1>6
<1>8. b = AlignDown(a, s)
  BY <1>1, <1>4, <1>7 DEF AlignDown
<1> QED
  BY <1>8 DEF b, s

(* configure_region_range finds the smallest window over the shared data:  *)
(* every other region over it contains what this one contains.             *)
LEMMA LeastWindow ==
    LET data == configure_region_range(unprivileged_task_data.start,
                                       unprivileged_task_data.end)
    IN  /\ data \in Region
        /\ Bytes(data) = SharedWindow
        /\ SharedBytes # {} => data \in MpuRegion
<1> DEFINE start == unprivileged_task_data.start
           end == unprivileged_task_data.end
           S == {s \in RegionSize : /\ s >= end - start
                                    /\ AlignDown(start, s) + s >= end}
           size == Min(S)
           base == AlignDown(start, size)
           data == configure_region_range(start, end)
<1>1. /\ start \in Nat /\ start < ADDR_MOD /\ end \in Nat /\ end <= ADDR_MOD
      /\ ADDR_MOD \in Nat \ {0}
  BY SectionBounds, MemoryConstants DEF Address
<1>2. SharedBytes = start .. end - 1
  BY DEF SharedBytes
<1> HIDE DEF start, end
<1>3. 0 \in Address
  BY <1>1 DEF Address
<1>4. CASE end <= start
  <2>1. data = Disabled
    BY <1>4 DEF configure_region_range
  <2>2. SharedBytes = {}
    BY <1>1, <1>2, <1>4
  <2>3. Bytes(Disabled) = {}
    BY DEF Bytes, Disabled
  <2>4. Disabled \in Region
    BY <1>3 DEF Disabled, Region
  <2> QED
    BY <2>1, <2>2, <2>3, <2>4 DEF SharedWindow, start, end
<1>5. CASE ~(end <= start)
  <2>1. start % ADDR_MOD = start
    BY <1>1
  <2>2. ADDR_MOD >= end - start /\ AlignDown(start, ADDR_MOD) + ADDR_MOD >= end
    BY <1>1, <2>1 DEF AlignDown
  <2>3. ADDR_MOD \in S /\ S \subseteq Nat
    BY <2>2, RegionSizes
  <2>4. size \in S /\ \A s \in S : size <= s
    BY <2>3, MinOf
  <2>5. size \in RegionSize /\ size \in Nat \ {0} /\ base + size >= end
    BY <2>4, RegionSizes
  <2>6. data = [base |-> base, size |-> size]
    BY <1>5 DEF configure_region_range
  <2> HIDE DEF size
  <2>7. start % size \in 0 .. size - 1 /\ start % size <= start
    BY <1>1, <2>5
  <2>8. base \in Address /\ base \in Nat /\ base <= start
    BY <1>1, <2>7 DEF AlignDown, Address
  <2>9. base % size = 0
    <3> DEFINE p == start \div size
    <3>1. p \in Nat /\ start = size * p + (start % size)
      BY <1>1, <2>5, Division
    <3> HIDE DEF p
    <3>2. size * p \in Nat
      BY <2>5, <3>1
    <3>3. base = size * p + 0
      BY <2>7, <3>1, <3>2 DEF AlignDown
    <3>4. 0 \in 0 .. size - 1
      BY <2>5
    <3> HIDE DEF base
    <3> QED
      BY <2>5, <3>1, <3>3, <3>4, DivisionOf
  <2> HIDE DEF S, data
  <2>10. data \in Region /\ data \in MpuRegion
    BY <2>5, <2>6, <2>8, <2>9 DEF Region, MpuRegion
  <2>11. Bytes(data) = base .. base + size - 1
    BY <2>6 DEF Bytes
  <2>12. SharedBytes \subseteq Bytes(data) /\ start \in SharedBytes
    BY <1>1, <1>2, <1>5, <2>5, <2>8, <2>11
  <2>13. ASSUME NEW r \in MpuRegion, SharedBytes \subseteq Bytes(r)
         PROVE  Bytes(data) \subseteq Bytes(r)
    <3> DEFINE u == r.size
    <3>1. u \in RegionSize /\ u \in Nat \ {0} /\ r.base \in Nat
      BY RegionTypes
    <3>2. start \in Bytes(r) /\ end - 1 \in Bytes(r)
      BY <1>1, <1>2, <1>5, <2>13
    <3>3. r.base = AlignDown(start, u)
      BY <1>1, <3>2, RegionAround
    <3>4. r.base <= start /\ end - 1 <= r.base + u - 1
      BY <1>1, <3>1, <3>2 DEF Bytes
    <3>5. u >= end - start /\ r.base + u >= end
      BY <1>1, <3>1, <3>4
    <3>6. size <= u
      BY <2>4, <3>1, <3>3, <3>5 DEF S
    <3>7. PICK m \in Nat \ {0} : u = size * m
      BY <2>5, <3>1, <3>6, SizesDivide
    <3>8. AlignDown(start, u) <= base /\ base + size <= AlignDown(start, u) + u
      BY <1>1, <2>5, <3>7, BlocksNest
    <3>9. r.base <= base /\ base + size <= r.base + u
      BY <3>3, <3>8
    <3> DEFINE lower == r.base
    <3>10. Bytes(r) = lower .. lower + u - 1
      BY DEF Bytes
    <3>11. lower \in Nat /\ lower <= base /\ base + size <= lower + u
      BY <3>1, <3>9
    <3> HIDE DEF base, lower, u
    <3>12. base .. base + size - 1 \subseteq lower .. lower + u - 1
      BY <2>5, <2>8, <3>1, <3>11
    <3> QED
      BY <2>11, <3>10, <3>12
  <2>14. Bytes(data) \subseteq Address
    <3> DEFINE all == [base |-> 0, size |-> ADDR_MOD]
    <3>1. 0 % ADDR_MOD = 0
      BY <1>1
    <3>2. all \in MpuRegion
      BY <1>3, <3>1, RegionSizes DEF MpuRegion
    <3>3. Bytes(all) = Address
      BY <1>1 DEF Bytes, Address
    <3>4. SharedBytes \subseteq Address
      BY <1>1, <1>2 DEF Address
    <3> QED
      BY <2>13, <3>2, <3>3, <3>4
  <2>15. SharedBytes # {}
    BY <2>12
  <2>16. Bytes(data) = SharedWindow
    <3>1. Bytes(data) \subseteq SharedWindow
      BY <2>13, <2>14, <2>15 DEF SharedWindow
    <3>2. SharedWindow \subseteq Bytes(data)
      BY <2>10, <2>12 DEF SharedWindow
    <3> QED
      BY <3>1, <3>2
  <2> QED
    BY <2>10, <2>16 DEF data, start, end
<1> QED
  BY <1>4, <1>5

LEMMA MpuType ==
    ASSUME NEW c \in Config, KernelInitStatus(c) = "OK", NEW t \in Task
    PROVE  MpuOf(c, t) \in
              [data : Region, private : Region, guard : Region,
               private_data_base : Address, private_data_size : Address,
               stack_guard_base : Address]
<1> DEFINE d == Storage(c, t)
           private == IF d.private_data_size = 0 THEN Disabled
                      ELSE [base |-> d.private_data_base,
                            size |-> d.private_data_size]
<1>1. /\ d.stack_guard \in Address /\ d.private_data_base \in Address
      /\ d.private_data_size \in Address
      /\ d.private_data_size = 0 \/ d.private_data_size \in RegionSize
  BY StorageFacts
<1>2. 0 \in Address
  BY MemoryConstants DEF Address
<1>3. private \in Region
  BY <1>1, <1>2 DEF Region, Disabled
<1>4. [base |-> d.stack_guard, size |-> MPU_MIN_SIZE] \in Region
  BY <1>1, RegionSizes DEF Region
<1> QED
  BY <1>1, <1>3, <1>4, LeastWindow DEF MpuOf

-----------------------------------------------------------------------------
(* The kernel's invariant.                                                 *)

LEMMA ResetInv == KernelReset => KernelInv
<1> SUFFICES ASSUME KernelReset
             PROVE  KernelInv
  OBVIOUS
<1>1. PeriodInv
  BY PeriodicInitInv DEF KernelReset
<1> QED
  BY <1>1 DEF KernelReset, KernelInv

LEMMA InitialiseInv == KernelInv /\ Initialise => KernelInv'
<1> SUFFICES ASSUME KernelInv, started = 0, NEW c \in Config, KernelInit(c)
             PROVE  KernelInv'
  BY DEF Initialise
<1>1. /\ KernelInitStatus(c) = "OK" /\ config' = c
      /\ tasks' = JRT_KernelInit(ticks) /\ current' = 0
      /\ mpu' = arch_configure_mpu(c)
      /\ UNCHANGED <<ticks, pendsv, pc, call, previous_wake, lag, slip,
                     started, control>>
  BY DEF KernelInit, periodVars
<1>2. PeriodicInit /\ control = ARCH_LAUNCH_PRIVILEGED
  BY DEF KernelInv
<1>3. PeriodicInit'
  BY <1>1, <1>2 DEF PeriodicInit, TaskInit
<1>4. PeriodicInit' => PeriodInv'
  BY PeriodicInitInv, PTL
<1>5. c # NULL
  BY <1>1, AcceptedIsSound
<1>6. mpu' = MpuOf(c, 0)
  <2>1. 0 \in Task
    BY TaskIndices
  <2> QED
    BY <1>1, <2>1, SelectsTask DEF arch_configure_mpu
<1> QED
  BY <1>1, <1>2, <1>3, <1>4, <1>5, <1>6 DEF KernelInv

LEMMA StartInv == KernelInv /\ KernelStart => KernelInv'
<1> SUFFICES ASSUME KernelInv, KernelStart
             PROVE  KernelInv'
  OBVIOUS
<1>1. UNCHANGED <<tasks, current, ticks, pendsv, pc, call, previous_wake, lag,
                  slip, config, mpu>>
  BY DEF KernelStart, taskVars, periodVars
<1>2. PeriodInv'
  BY <1>1
     DEF KernelInv, PeriodInv, PeriodicTypeOK, Punctual, TaskInv, TaskTypeOK,
         ExecutingIsRunning, KernelInvariantsHold, NoOverdueWaiter,
         IdleRunnable
<1> QED
  BY <1>1, <1>2 DEF KernelInv, KernelStart

LEMMA SwitchInv == KernelInv /\ Switch => KernelInv'
<1> SUFFICES ASSUME KernelInv, Switch
             PROVE  KernelInv'
  OBVIOUS
<1>1. /\ started = 1 /\ PendSV /\ UNCHANGED <<config, started>>
      /\ UNCHANGED <<ticks, pc, call, periodVars>>
      /\ mpu' = SelectTask(mpu, config, current')
      /\ control' = task_current_control(config, current')
  BY DEF Switch, PendSV
<1>2. TaskInv /\ PeriodInv
  BY DEF KernelInv, PeriodInv
<1>3. TaskInv'
  BY <1>1, <1>2, PendSVInv
<1>4. PeriodInv'
  BY <1>1, <1>2, <1>3, SwitchKeepsSleepers, SleepersStayInv
<1>5. /\ config # NULL /\ config \in Config
      /\ KernelInitStatus(config) = "OK" /\ mpu = MpuOf(config, current)
  BY <1>1 DEF KernelInv
<1>6. current \in Task /\ current' \in Task
  BY <1>2, <1>3 DEF TaskInv, TaskTypeOK
<1>7. mpu' = MpuOf(config, current')
  BY <1>1, <1>5, <1>6, SelectsTask
<1> QED
  BY <1>1, <1>4, <1>5, <1>7 DEF KernelInv

(* Steps of a running kernel that change neither the task nor the MPU.     *)
LEMMA SameTaskInv ==
    ASSUME KernelInv, started = 1, PeriodInv', UNCHANGED bootVars,
           current' = current
    PROVE  KernelInv'
BY DEF KernelInv, bootVars

LEMMA KernelNextInv == KernelInv /\ [KernelNext]_kernelVars => KernelInv'
<1> SUFFICES ASSUME KernelInv, [KernelNext]_kernelVars
             PROVE  KernelInv'
  OBVIOUS
<1>1. CASE UNCHANGED kernelVars
  <2>1. UNCHANGED <<tasks, current, ticks, pendsv, pc, call, previous_wake,
                    lag, slip, config, started, mpu, control>>
    BY <1>1 DEF kernelVars, taskVars, periodVars, bootVars
  <2>2. PeriodInv'
    BY <2>1
       DEF KernelInv, PeriodInv, PeriodicTypeOK, Punctual, TaskInv, TaskTypeOK,
           ExecutingIsRunning, KernelInvariantsHold, NoOverdueWaiter,
           IdleRunnable
  <2>3. PeriodicInit => PeriodicInit'
    BY <2>1 DEF PeriodicInit, TaskInit
  <2> QED
    BY <2>1, <2>2, <2>3 DEF KernelInv
<1>2. CASE KernelTick
  <2>1. /\ started = 1 /\ ClockTick /\ UNCHANGED bootVars
        /\ current' = current
    BY <1>2 DEF KernelTick, ClockTick, SysTick, SysTickClock
  <2>2. PeriodInv'
    BY <2>1, ClockTickInv DEF KernelInv
  <2> QED
    BY <2>1, <2>2, SameTaskInv
<1>3. CASE started = 1 /\ Services /\ UNCHANGED <<periodVars, bootVars>>
  <2>1. UNCHANGED <<ticks, pc, call, periodVars>> /\ current' = current
    BY <1>3
       DEF Services, TaskYield, TaskDelay, TaskSuspend, TaskResume, Svc
  <2>2. TaskInv /\ PeriodInv
    BY DEF KernelInv, PeriodInv
  <2>3. TaskInv' /\ SleepersStay
    BY <1>3, <2>2, ServicesInv, ServicesKeepSleepers
  <2>4. PeriodInv'
    BY <2>1, <2>2, <2>3, SleepersStayInv
  <2> QED
    BY <1>3, <2>1, <2>4, SameTaskInv
<1>4. ASSUME NEW t \in PeriodicTask, started = 1, PeriodicCall(t),
             UNCHANGED bootVars
      PROVE  KernelInv'
  <2>1. current' = current
    BY <1>4
       DEF PeriodicCall, PeriodStart, DelayUntil, DelayUntilSleep, taskVars
  <2>2. PeriodInv'
    BY <1>4, PeriodicCallInv DEF KernelInv
  <2> QED
    BY <1>4, <2>1, <2>2, SameTaskInv
<1> QED
  BY <1>1, <1>2, <1>3, <1>4, InitialiseInv, StartInv, SwitchInv
     DEF KernelNext

LEMMA KernelInvariant == KernelSpec => []KernelInv
BY ResetInv, KernelNextInv, PTL DEF KernelSpec

-----------------------------------------------------------------------------
(* Theorems about the kernel.                                              *)

(***************************************************************************)
(* From reset on the kernel's state is well-typed, whatever the            *)
(* application configures and however often: the base and the size of      *)
(* every region the port programs are ones the MPU can represent, and the  *)
(* history of the periodic tasks stays in range.                           *)
(***************************************************************************)
THEOREM KernelTypes == KernelSpec => []KernelTypeOK
<1>1. ASSUME KernelInv
      PROVE  KernelTypeOK
  <2>1. PeriodicTypeOK /\ current \in Task
    BY <1>1 DEF KernelInv, PeriodInv, PeriodicTypeOK, TaskTypeOK
  <2>2. mpu \in [data : Region, private : Region, guard : Region,
                 private_data_base : Address, private_data_size : Address,
                 stack_guard_base : Address]
    <3>1. CASE config = NULL
      <4>1. 0 \in Address
        BY MemoryConstants DEF Address
      <4> QED
        BY <1>1, <3>1, <4>1 DEF KernelInv, ClearedMpu, Disabled, Region
    <3>2. CASE config # NULL
      BY <1>1, <2>1, <3>2, MpuType DEF KernelInv
    <3> QED
      BY <3>1, <3>2
  <2>3. control \in {ARCH_LAUNCH_PRIVILEGED, ARCH_LAUNCH_UNPRIVILEGED}
    BY <1>1 DEF KernelInv, task_current_control
  <2> QED
    BY <1>1, <2>1, <2>2, <2>3 DEF KernelInv, KernelTypeOK
<1> QED
  BY <1>1, KernelInvariant, PTL

(***************************************************************************)
(* From reset on, at most one task is marked RUNNING, and it is the one    *)
(* that executes: with periodic tasks, and whatever was initialised before *)
(* JRT_KernelStart.                                                        *)
(***************************************************************************)
THEOREM KernelExecutesRunning == KernelSpec => []ExecutingIsRunning
<1>1. KernelInv => ExecutingIsRunning
  BY DEF KernelInv, PeriodInv, TaskInv
<1> QED
  BY <1>1, KernelInvariant, PTL

(***************************************************************************)
(* The same of scheduling: from reset on, every decision of pendsv_switch  *)
(* gives the core to a task that no READY task outranks.                   *)
(***************************************************************************)
THEOREM KernelSchedulesByPriority == KernelSpec => HighestPriorityRuns
<1>1. ASSUME KernelInv, [KernelNext]_kernelVars
      PROVE  [PicksHighest]_taskVars
  <2>1. CASE Switch
    BY <1>1, <2>1, PendSVPicks DEF Switch, KernelInv, PeriodInv
  <2>2. CASE \/ KernelTick \/ Services \/ Initialise \/ KernelStart
             \/ \E t \in PeriodicTask : PeriodicCall(t)
             \/ UNCHANGED kernelVars
    <3>1. pendsv' = 1 \/ pendsv' = pendsv
      BY <2>2
         DEF KernelTick, ClockTick, SysTick, SysTickClock, Services, TaskYield,
             TaskDelay, TaskSuspend, TaskResume, Svc, Initialise, KernelInit,
             KernelStart, PeriodicCall, PeriodStart, DelayUntil,
             DelayUntilSleep, kernelVars, taskVars
    <3> QED
      BY <3>1 DEF PicksHighest
  <2> QED
    BY <1>1, <2>1, <2>2 DEF KernelNext
<1>2. KernelSpec => [][PicksHighest]_taskVars
  BY <1>1, ResetInv, KernelNextInv, PTL DEF KernelSpec
<1> QED
  BY <1>2 DEF HighestPriorityRuns, PicksHighest

(***************************************************************************)
(* JRT_KernelInit accepts exactly the configurations in which no two tasks *)
(* share memory they must not share, for every layout of the address       *)
(* space: its pairwise comparisons of ranges whose ends wrap around leave  *)
(* no gap and refuse nothing sound.                                        *)
(***************************************************************************)
THEOREM KernelInitIsExact == KernelSpec => []InitAcceptsSafe
<1>1. ASSUME KernelInv
      PROVE  InitAcceptsSafe
  <2>1. config # NULL => config \in Config /\ KernelInitStatus(config) = "OK"
    BY <1>1 DEF KernelInv
  <2>2. config # NULL => SafeConfig(config)
    BY <2>1, AcceptsSafe
  <2> QED
    BY <2>2, AcceptsSafe DEF InitAcceptsSafe
<1> QED
  BY <1>1, KernelInvariant, PTL

(* What the MPU allows while a configuration is in force.                  *)
LEMMA MpuAllows ==
    ASSUME KernelInv, config # NULL
    PROVE  Bytes(mpu.data) = SharedWindow /\ Writable = Due(SharedWindow)
<1> DEFINE d == Storage(config, current)
<1>1. /\ config \in Config /\ KernelInitStatus(config) = "OK"
      /\ mpu = MpuOf(config, current)
  BY DEF KernelInv
<1>2. current \in Task
  BY DEF KernelInv, PeriodInv, PeriodicTypeOK, TaskTypeOK
<1>3. \/ d.private_data_base = 0 /\ d.private_data_size = 0
      \/ d.private_data_base # 0 /\ d.private_data_size \in RegionSize
  BY <1>1, <1>2, StorageFacts
<1>4. Bytes(mpu.data) = SharedWindow
  BY <1>1, LeastWindow DEF MpuOf
<1>5. Bytes(mpu.private) = PrivateBytes(d)
  <2>1. mpu.private = IF d.private_data_size = 0 THEN Disabled
                      ELSE [base |-> d.private_data_base,
                            size |-> d.private_data_size]
    BY <1>1 DEF MpuOf
  <2>2. CASE d.private_data_size = 0
    <3>1. d.private_data_base = 0
      BY <1>3, <2>2, RegionSizes
    <3> HIDE DEF d
    <3> QED
      BY <2>1, <2>2, <3>1 DEF Bytes, PrivateBytes, Disabled
  <2>3. CASE d.private_data_size # 0
    <3> HIDE DEF d
    <3> QED
      BY <2>1, <2>3 DEF Bytes, PrivateBytes
  <2> QED
    BY <2>2, <2>3
<1>6. Bytes(mpu.guard) = d.stack_guard .. d.stack_guard + GUARD_BYTES - 1
  <2>1. mpu.guard = [base |-> d.stack_guard, size |-> MPU_MIN_SIZE]
    BY <1>1 DEF MpuOf
  <2> HIDE DEF d
  <2> QED
    BY <2>1, MemoryConstants DEF Bytes
<1> QED
  BY <1>4, <1>5, <1>6 DEF Writable, Due

(***************************************************************************)
(* Whenever a task executes, the MPU lets unprivileged code write that     *)
(* task's private data, the window of the shared data and nothing else,    *)
(* and the privilege is the one of its definition, for every placement of  *)
(* the sections and every sequence of initialisations and switches: the    *)
(* window configure_region_range finds is the smallest there is, and a     *)
(* register that arch_set_task_private_data and arch_set_task_stack_guard  *)
(* skip already holds the task's region.                                   *)
(***************************************************************************)
THEOREM KernelIsolatesMemory == KernelSpec => []MemoryIsolated
<1>1. ASSUME KernelInv, started = 1
      PROVE  /\ Writable = Due(SharedWindow)
             /\ control = ARCH_LAUNCH_UNPRIVILEGED
                    <=> Storage(config, current).unprivileged = 1
  <2>1. config # NULL /\ control = task_current_control(config, current)
    BY <1>1 DEF KernelInv
  <2>2. control = ARCH_LAUNCH_UNPRIVILEGED
            <=> Storage(config, current).unprivileged = 1
    BY <2>1 DEF task_current_control, ARCH_LAUNCH_UNPRIVILEGED,
                ARCH_LAUNCH_PRIVILEGED
  <2> QED
    BY <1>1, <2>1, <2>2, MpuAllows
<1>2. KernelInv => MemoryIsolated
  BY <1>1 DEF MemoryIsolated
<1> QED
  BY <1>2, KernelInvariant, PTL

(* The shared section fills a region, or is empty.                         *)
SharedDataFits ==
    SharedBytes = {} \/ \E r \in MpuRegion : Bytes(r) = SharedBytes

LEMMA FittingWindow == SharedDataFits <=> SharedWindow = SharedBytes
<1>1. CASE SharedBytes = {}
  BY <1>1 DEF SharedWindow, SharedDataFits
<1>2. CASE SharedBytes # {}
  <2>1. ASSUME SharedDataFits
        PROVE  SharedWindow = SharedBytes
    <3>1. PICK r \in MpuRegion : Bytes(r) = SharedBytes
      BY <1>2, <2>1 DEF SharedDataFits
    <3>2. SharedBytes \subseteq Address
      BY SectionBounds, MemoryConstants DEF SharedBytes, Address
    <3> QED
      BY <1>2, <3>1, <3>2 DEF SharedWindow
  <2>2. ASSUME SharedWindow = SharedBytes
        PROVE  SharedDataFits
    BY <1>2, <2>2, LeastWindow DEF SharedDataFits
  <2> QED
    BY <2>1, <2>2
<1> QED
  BY <1>1, <1>2

(* A section of one alignment unit does.                                   *)
LEMMA OneUnitFits ==
    unprivileged_task_data.end - unprivileged_task_data.start <= SECTION_ALIGN
        => SharedDataFits
<1> DEFINE a == unprivileged_task_data.start
           e == unprivileged_task_data.end
           s == SECTION_ALIGN
           x == a \div s
           y == e \div s
<1>1. /\ a \in Address /\ e \in Nat /\ a \in Nat
      /\ s \in RegionSize /\ a % s = 0 /\ e % s = 0 /\ a <= e
  BY SectionBounds, KernelAssumption, MemoryConstants DEF Address
<1>2. s \in Nat \ {0}
  BY <1>1, RegionSizes
<1>3. SharedBytes = a .. e - 1
  BY DEF SharedBytes
<1> HIDE DEF a, e, s
<1>4. /\ x \in Nat /\ a = s * x + (a % s)
      /\ y \in Nat /\ e = s * y + (e % s)
  BY <1>1, <1>2, Division
<1> HIDE DEF x, y
<1>5. a = s * x /\ e = s * y
  BY <1>1, <1>2, <1>4
<1>6. SUFFICES ASSUME e - a <= s
               PROVE  SharedDataFits
  BY DEF a, e, s
<1>7. CASE e = a
  <2>1. SharedBytes = {}
    BY <1>1, <1>3, <1>7
  <2> QED
    BY <2>1 DEF SharedDataFits
<1>8. CASE e # a
  <2>1. y - x \in Nat \ {0}
    <3>1. CASE y <= x
      <4>1. x - y \in Nat
        BY <1>4, <3>1
      <4>2. s * (x - y) >= 0
        BY <1>2, <4>1
      <4>3. s * (x - y) = a - e
        BY <1>2, <1>4, <1>5
      <4> QED
        BY <1>1, <1>8, <4>2, <4>3
    <3> QED
      BY <1>4, <3>1
  <2>2. s * (y - x) >= s
    BY <1>2, <2>1, Multiple
  <2>3. s * (y - x) = e - a
    BY <1>2, <1>4, <1>5
  <2>4. e = a + s
    BY <1>1, <1>2, <1>6, <2>2, <2>3
  <2> DEFINE r == [base |-> a, size |-> s]
  <2>5. r \in MpuRegion
    BY <1>1 DEF MpuRegion
  <2>6. Bytes(r) = a .. a + s - 1 /\ a + s - 1 = e - 1
    BY <1>1, <1>2, <2>4 DEF Bytes
  <2> QED
    BY <1>3, <2>5, <2>6 DEF SharedDataFits
<1> QED
  BY <1>7, <1>8

(***************************************************************************)
(* The window of configure_region_range is the shared section itself       *)
(* exactly when the section is empty or fills a region of the MPU, and a   *)
(* section of at most one unit of the linker script's alignment does.      *)
(* Every larger section that is not aligned to its size gets a window with *)
(* bytes of its neighbours.                                                *)
(***************************************************************************)
THEOREM WindowIsExactIfItFits ==
    /\ SharedWindow = SharedBytes <=>
           (SharedBytes = {} \/ \E r \in MpuRegion : Bytes(r) = SharedBytes)
    /\ unprivileged_task_data.end - unprivileged_task_data.start
           <= SECTION_ALIGN => SharedWindow = SharedBytes
BY FittingWindow, OneUnitFits DEF SharedDataFits

(* The data region and the section of the tasks' private data are apart.   *)
StaticMapOmitsPrivateData ==
    config # NULL =>
        Bytes(mpu.data) \cap
            (task_private_data.start .. task_private_data.end - 1) = {}

(***************************************************************************)
(* If the window of the shared data is the section, unprivileged code can  *)
(* write the shared section, the running task's private data and nothing   *)
(* else, and the static map leaves all private data out, as docs/RTOS.md   *)
(* says ("deliberately absent from the static unprivileged map").          *)
(***************************************************************************)
THEOREM FittingDataIsIsolatedExactly ==
    SharedWindow = SharedBytes =>
        (KernelSpec => [](/\ started = 1 => Writable = Due(SharedBytes)
                          /\ StaticMapOmitsPrivateData))
<1> SUFFICES ASSUME SharedWindow = SharedBytes
             PROVE  KernelSpec => [](/\ started = 1 => Writable = Due(SharedBytes)
                                     /\ StaticMapOmitsPrivateData)
  OBVIOUS
<1>1. SharedBytes \cap (task_private_data.start .. task_private_data.end - 1) = {}
  <2>1. /\ unprivileged_task_data.start \in Nat /\ unprivileged_task_data.end \in Nat
        /\ task_private_data.start \in Nat /\ task_private_data.end \in Nat
        /\ unprivileged_task_data.end <= task_private_data.start
    BY SectionBounds, KernelAssumption, MemoryConstants DEF Address
  <2> QED
    BY <2>1 DEF SharedBytes
<1>2. KernelInv => /\ started = 1 => Writable = Due(SharedBytes)
                   /\ StaticMapOmitsPrivateData
  <2> SUFFICES ASSUME KernelInv
               PROVE  /\ started = 1 => Writable = Due(SharedBytes)
                      /\ StaticMapOmitsPrivateData
    OBVIOUS
  <2>1. started = 1 => config # NULL
    BY DEF KernelInv
  <2> QED
    BY <1>1, <2>1, MpuAllows DEF StaticMapOmitsPrivateData
<1> QED
  BY <1>2, KernelInvariant, PTL

(***************************************************************************)
(* A periodic task is punctual for every width of the tick counter, every  *)
(* period up to half its range and every interleaving: its code runs again *)
(* only when the wake time has come, and a sleep of JRT_TaskDelayUntil     *)
(* ends late by just the ticks between the clock read and the sleep.       *)
(***************************************************************************)
THEOREM PeriodsDoNotDrift == KernelSpec => DelayUntilPunctual
<1> DEFINE OnPeriod ==
        \A t \in PeriodicTask :
            /\ (current' = t /\ pendsv' = 0 /\ pc'[t] = "app") => lag'[t] >= 0
            /\ (Wakes(t) /\ slip[t] # -1 /\ lag'[t] # LOST) =>
                   lag'[t] = slip[t]
<1> DEFINE RunningOnTime ==
        \A t \in PeriodicTask :
            (current = t /\ pendsv = 0 /\ pc[t] = "app") => lag[t] >= 0
<1>1. PeriodInv => RunningOnTime
  BY RunsOnTime DEF Thread
<1> HIDE DEF RunningOnTime
<1>2. PeriodInv' => RunningOnTime'
  BY <1>1, PTL
<1>3. ASSUME KernelInv, [KernelNext]_kernelVars, NEW t \in PeriodicTask
      PROVE  WakesPunctually(t)
  <2>1. PeriodInv /\ TaskInv
    BY <1>3 DEF KernelInv, PeriodInv
  <2>2. CASE KernelTick
    BY <2>1, <2>2, ClockTickPunctual DEF KernelTick
  <2>3. CASE SleepersStay
    BY <2>3 DEF SleepersStay, WakesPunctually, Wakes
  <2>4. CASE started = 0
    <3>1. slip[t] = -1
      BY <1>3, <2>4 DEF KernelInv, PeriodicInit
    <3> QED
      BY <3>1 DEF WakesPunctually
  <2>5. CASE tasks' = tasks
    BY <2>5 DEF WakesPunctually, Wakes
  <2>6. CASE \E u \in PeriodicTask : PeriodicCall(u)
    BY <2>1, <2>6, PeriodicCallWakesNone DEF WakesPunctually
  <2>7. CASE Switch \/ Services
    BY <2>1, <2>3, <2>7, SwitchKeepsSleepers, ServicesKeepSleepers DEF Switch
  <2>8. CASE Initialise \/ KernelStart
    BY <2>4, <2>8 DEF Initialise, KernelStart
  <2>9. CASE UNCHANGED kernelVars
    BY <2>5, <2>9 DEF kernelVars, taskVars
  <2> QED
    BY <1>3, <2>2, <2>6, <2>7, <2>8, <2>9 DEF KernelNext
<1>4. ASSUME KernelInv, [KernelNext]_kernelVars
      PROVE  [OnPeriod]_<<taskVars, periodVars>>
  <2>1. KernelInv'
    BY <1>4, KernelNextInv
  <2>2. PeriodInv'
    BY <2>1 DEF KernelInv
  <2> QED
    BY <1>2, <1>3, <1>4, <2>2 DEF WakesPunctually, RunningOnTime
<1>5. KernelSpec => [][OnPeriod]_<<taskVars, periodVars>>
  BY <1>4, ResetInv, KernelNextInv, PTL DEF KernelSpec
<1> QED
  BY <1>5 DEF DelayUntilPunctual

-----------------------------------------------------------------------------
(* Conversions of time.                                                    *)

LEMMA WordOf ==
    ASSUME NEW n \in Nat, n <= UINT32_MAX
    PROVE  Word(n) = n
BY ConversionAssumption DEF Word

LEMMA LesserOf ==
    ASSUME NEW x \in Nat, NEW y \in Nat
    PROVE  Min({x, y}) = IF x <= y THEN x ELSE y
<1>1. Min({x, y}) \in {x, y} /\ Min({x, y}) <= x /\ Min({x, y}) <= y
  BY MinOf
<1> QED
  BY <1>1

(* A product grows with its factors.                                       *)
LEMMA ProductOrder ==
    ASSUME NEW a \in Nat, NEW b \in Nat, NEW x \in Nat, NEW y \in Nat,
           a <= b, x <= y
    PROVE  a * x \in Nat /\ b * y \in Nat /\ a * x <= b * y
<1>1. a * x \in Nat /\ b * y \in Nat /\ b * x \in Nat
  OBVIOUS
<1>2. (b - a) * x >= 0 /\ (b - a) * x = b * x - a * x
  OBVIOUS
<1>3. b * (y - x) >= 0 /\ b * (y - x) = b * y - b * x
  OBVIOUS
<1> QED
  BY <1>1, <1>2, <1>3

(* The fraction of a second: nothing is cut off and nothing overflows.     *)
LEMMA FractionExact ==
    ASSUME NEW M \in Nat \ {0}, NEW f \in 0 .. M - 1, NEW a \in Nat,
           NEW b \in 0 .. M - 1
    PROVE  LET c == (f * b + M - 1) \div M
           IN  /\ f * b \in Nat /\ f * a \in Nat /\ c \in Nat
               /\ f * b + M - 1 <= M * M
               /\ f * a + c <= M * a + b
               /\ \A s \in Nat :
                     ((M * s + f) * (M * a + b) + M - 1) \div M =
                         s * (M * a + b) + f * a + c
<1> DEFINE e == f * b + M - 1
           c == e \div M
           r == e % M
<1>1. f * b \in Nat /\ f * a \in Nat /\ M * a \in Nat
  OBVIOUS
<1>2. e \in Nat
  BY <1>1
<1>3. c \in Nat /\ r \in 0 .. M - 1 /\ e = M * c + r
  BY <1>2, Division
<1>4. f * b <= (M - 1) * b /\ f * a <= M * a /\ (M - 1) * b <= (M - 1) * (M - 1)
  <2>1. f \in Nat /\ b \in Nat /\ M - 1 \in Nat /\ M \in Nat
        /\ f <= M - 1 /\ f <= M /\ b <= M - 1 /\ a <= a /\ b <= b
        /\ M - 1 <= M - 1
    OBVIOUS
  <2>2. f * b <= (M - 1) * b
    BY <2>1, ProductOrder
  <2>3. f * a <= M * a
    BY <2>1, ProductOrder
  <2>4. (M - 1) * b <= (M - 1) * (M - 1)
    BY <2>1, ProductOrder
  <2> QED
    BY <2>2, <2>3, <2>4
<1>5. e <= M * M
  <2>1. (M - 1) * (M - 1) = M * M - 2 * M + 1 /\ M * M \in Nat
    OBVIOUS
  <2>2. (M - 1) * b \in Nat
    OBVIOUS
  <2> QED
    BY <1>1, <1>4, <2>1, <2>2
<1>6. c <= b
  <2>1. CASE c > b
    <3>1. M * (b + 1) <= M * c /\ M * c \in Nat /\ M * (b + 1) \in Nat
      <4>1. b + 1 \in Nat /\ b + 1 <= c /\ M \in Nat /\ M <= M
        BY <1>3, <2>1
      <4> QED
        BY <1>3, <4>1, ProductOrder
    <3>2. M * (b + 1) = M * b + M /\ (M - 1) * b = M * b - b /\ M * b \in Nat
      OBVIOUS
    <3> QED
      BY <1>1, <1>3, <1>4, <3>1, <3>2
  <2> QED
    BY <1>3, <2>1
<1>7. f * a + c <= M * a + b
  BY <1>1, <1>3, <1>4, <1>6
<1>8. ASSUME NEW s \in Nat
      PROVE  ((M * s + f) * (M * a + b) + M - 1) \div M =
                 s * (M * a + b) + f * a + c
  <2> DEFINE q == s * (M * a + b) + f * a + c
  <2>1. s * (M * a + b) \in Nat
    BY <1>1
  <2>2. q \in Nat
    BY <1>1, <1>3, <2>1
  <2>3. (M * s + f) * (M * a + b) = M * (s * (M * a + b)) + M * (f * a) + f * b
    OBVIOUS
  <2>4. M * q = M * (s * (M * a + b)) + M * (f * a) + M * c
    BY <1>1, <1>3, <2>1
  <2>5. /\ M * (s * (M * a + b)) \in Nat /\ M * (f * a) \in Nat
        /\ M * c \in Nat /\ M * q \in Nat
    BY <1>1, <1>3, <2>1, <2>2
  <2>6. (M * s + f) * (M * a + b) + M - 1 = M * q + r
    BY <1>1, <1>3, <2>3, <2>4, <2>5
  <2> HIDE DEF q, r
  <2>7. (M * q + r) \div M = q
    BY <1>3, <2>2, DivisionOf
  <2> QED
    BY <2>6, <2>7 DEF q
<1> QED
  BY <1>1, <1>3, <1>5, <1>7, <1>8

LEMMA MillisecondsAreExact == MillisecondsExact
<1> SUFFICES ASSUME NEW ms \in Milliseconds, NEW rate \in TickRate
             PROVE  JRT_MillisecondsToTicks(ms, rate) =
                        Min({Ceiling(ms * rate, MILLI), UINT32_MAX})
  BY DEF MillisecondsExact
<1> DEFINE s == ms \div MILLI
           f == ms % MILLI
           a == rate \div MILLI
           b == rate % MILLI
           c == (f * b + MILLI - 1) \div MILLI
           remaining == f * a + c
           U == UINT32_MAX
<1>1. /\ MILLI \in Nat \ {0} /\ U \in Nat /\ MILLI * MILLI <= U
      /\ ms \in Nat /\ rate \in Nat \ {0} /\ rate <= U
  BY ConversionAssumption
<1>2. s \in Nat /\ f \in 0 .. MILLI - 1 /\ ms = MILLI * s + f
  BY <1>1, Division
<1>3. a \in Nat /\ b \in 0 .. MILLI - 1 /\ rate = MILLI * a + b
  BY <1>1, Division
<1> HIDE DEF s, f, a, b
<1>4. /\ f * b \in Nat /\ f * a \in Nat /\ c \in Nat
      /\ f * b + MILLI - 1 <= MILLI * MILLI
      /\ remaining <= MILLI * a + b
      /\ ((MILLI * s + f) * (MILLI * a + b) + MILLI - 1) \div MILLI =
             s * (MILLI * a + b) + f * a + c
  BY <1>1, <1>2, <1>3, FractionExact
<1>5. f * b <= U /\ f * b + MILLI - 1 <= U /\ f * b + MILLI - 1 \in Nat
  <2>1. MILLI * MILLI \in Nat
    BY <1>1
  <2> QED
    BY <1>1, <1>4, <2>1
<1>6. remaining \in Nat /\ remaining <= U /\ f * a <= U
  BY <1>1, <1>3, <1>4
<1>7. /\ Word(f * b) = f * b
      /\ Word(f * b + MILLI - 1) = f * b + MILLI - 1
      /\ Word(f * a) = f * a
      /\ Word(f * a + c) = f * a + c
  BY <1>4, <1>5, <1>6, WordOf
<1>8. JRT_MillisecondsToTicks(ms, rate) =
          IF s > U \div rate \/ Word(s * rate) > U - remaining
          THEN U ELSE Word(s * rate) + remaining
  <2>1. JRT_MillisecondsToTicks(ms, rate) =
            LET rest == Word(Word(f * a) + Word(Word(f * b) + MILLI - 1) \div MILLI)
            IN  IF s > U \div rate \/ Word(s * rate) > U - rest
                THEN U ELSE Word(s * rate) + rest
    BY DEF JRT_MillisecondsToTicks, s, f, a, b
  <2> QED
    BY <1>7, <2>1
<1>9. s * rate \in Nat /\ U \div rate \in Nat
  BY <1>1, <1>2
<1>10. s > U \div rate <=> s * rate > U
  <2>1. s <= U \div rate <=> s * rate <= U
    BY <1>1, <1>2, QuotientBound
  <2> QED
    BY <1>1, <1>2, <1>9, <2>1
<1> DEFINE exact == s * rate + remaining
<1>11. Ceiling(ms * rate, MILLI) = exact
  <2>1. (ms * rate + MILLI - 1) \div MILLI = s * rate + f * a + c
    BY <1>2, <1>3, <1>4
  <2>2. s * rate + f * a + c = exact
    BY <1>4, <1>9
  <2> QED
    BY <2>1, <2>2 DEF Ceiling
<1>12. exact \in Nat
  BY <1>6, <1>9
<1>13. Min({exact, U}) = IF exact <= U THEN exact ELSE U
  <2> HIDE DEF exact, U
  <2> QED
    BY <1>1, <1>12, LesserOf
<1>14. s * rate <= U => Word(s * rate) = s * rate
  BY <1>9, WordOf
<1> HIDE DEF remaining, U
<1>15. JRT_MillisecondsToTicks(ms, rate) = IF exact <= U THEN exact ELSE U
  <2>1. CASE s * rate > U
    <3>1. JRT_MillisecondsToTicks(ms, rate) = U
      BY <1>8, <1>10, <2>1
    <3>2. ~(exact <= U)
      BY <1>1, <1>6, <1>9, <2>1
    <3> QED
      BY <3>1, <3>2
  <2>2. CASE ~(s * rate > U)
    <3>1. Word(s * rate) = s * rate
      BY <1>1, <1>9, <1>14, <2>2
    <3>2. JRT_MillisecondsToTicks(ms, rate) =
              IF s * rate > U - remaining THEN U ELSE exact
      BY <1>8, <1>10, <2>2, <3>1
    <3>3. s * rate > U - remaining <=> ~(exact <= U)
      BY <1>1, <1>6, <1>9
    <3> QED
      BY <3>2, <3>3
  <2> QED
    BY <2>1, <2>2
<1> QED
  BY <1>11, <1>13, <1>15 DEF U

-----------------------------------------------------------------------------
(* The long division of kernel/benchmark.c.                                *)

(* Halving a quotient is dividing by twice the divisor.                    *)
LEMMA HalfQuotient ==
    ASSUME NEW N \in Nat, NEW P \in Nat \ {0}
    PROVE  /\ N \div P \in Nat /\ (N \div P) % 2 \in {0, 1}
           /\ N \div P = 2 * (N \div (2 * P)) + ((N \div P) % 2)
<1> DEFINE X == N \div P
           r == N % P
<1>1. X \in Nat /\ r \in 0 .. P - 1 /\ N = P * X + r
  BY Division
<1> HIDE DEF X, r
<1> DEFINE Y == X \div 2
           b == X % 2
<1>2. Y \in Nat /\ b \in {0, 1} /\ X = 2 * Y + b
  BY <1>1
<1> HIDE DEF Y, b
<1>3. P * X = (2 * P) * Y + P * b
  BY <1>1, <1>2
<1>4. P * b + r \in 0 .. (2 * P) - 1 /\ 2 * P \in Nat \ {0}
  <2>1. P * b \in {0, P}
    BY <1>2
  <2> QED
    BY <1>1, <2>1
<1>5. (2 * P) * Y \in Nat /\ P * b \in Nat
  BY <1>2
<1>6. N = (2 * P) * Y + (P * b + r)
  BY <1>1, <1>3, <1>5
<1>7. ((2 * P) * Y + (P * b + r)) \div (2 * P) = Y
  BY <1>2, <1>4, DivisionOf
<1>8. N \div (2 * P) = Y
  BY <1>6, <1>7
<1> QED
  BY <1>1, <1>2, <1>8 DEF X, b

(* After some turns of the loop: the quotient and the remainder of the     *)
(* leading bits of the numerator; P is the place of the last one.          *)
Divided(N, den, P, r) ==
    /\ r.quotient = ((N \div P) \div den) * P
    /\ r.remainder = (N \div P) % den

LEMMA DivideTurn ==
    ASSUME NEW N \in Nat, NEW den \in 1 .. UINT32_MAX, NEW bit \in Nat \ {0},
           NEW r \in [quotient : Nat, remainder : Nat],
           Divided(N, den, PowerOfTwo(bit), r)
    PROVE  Divided(N, den, PowerOfTwo(bit - 1), DivideStep(N, den, bit, r))
<1> DEFINE P == PowerOfTwo(bit - 1)
           X == N \div P
           Y == N \div (2 * P)
           b == X % 2
           U == UINT32_MAX
           W == PowerOfTwo(WIDE_BITS)
           y == Y \div den
           z == Y % den
           sum == 2 * z + b
<1>1. /\ P \in Nat \ {0} /\ PowerOfTwo(bit) = 2 * P
  <2>1. bit - 1 \in Nat /\ (bit - 1) + 1 = bit
    OBVIOUS
  <2> QED
    BY <2>1, Powers
<1>2. U \in Nat /\ den \in Nat \ {0} /\ den <= U /\ U * U < W /\ W \in Nat \ {0}
  <2>1. U \in Nat /\ WIDE_BITS \in Nat /\ U * U < W
    BY ConversionAssumption
  <2>2. W \in Nat \ {0}
    BY <2>1, Powers
  <2> QED
    BY <2>1, <2>2
<1> HIDE DEF P, U, W
<1>3. Y \in Nat
  BY <1>1
<1>4. X \in Nat /\ b \in {0, 1} /\ X = 2 * Y + b
  BY <1>1, HalfQuotient
<1> HIDE DEF X, Y, b
<1>5. y \in Nat /\ z \in 0 .. den - 1 /\ Y = den * y + z
  BY <1>2, <1>3, Division
<1> HIDE DEF y, z
<1>6. r.quotient = y * (2 * P) /\ r.remainder = z
  BY <1>1 DEF Divided, Y, y, z
<1>7. sum \in Nat /\ sum < 2 * den
  BY <1>2, <1>4, <1>5
<1>8. sum % W = sum
  <2>1. U * U >= 2 * U - 1
    <3>1. (U - 1) * (U - 1) >= 0 /\ (U - 1) * (U - 1) = U * U - 2 * U + 1
      BY <1>2
    <3> QED
      BY <1>2, <3>1
  <2>2. U * U \in Nat
    BY <1>2
  <2>3. sum < W
    BY <1>2, <1>7, <2>1, <2>2
  <2> QED
    BY <1>2, <1>7, <2>3
<1>9. DivideStep(N, den, bit, r) =
          IF sum >= den
          THEN [quotient |-> r.quotient + P, remainder |-> sum - den]
          ELSE [quotient |-> r.quotient, remainder |-> sum]
  <2>1. (2 * r.remainder + ((N \div P) % 2)) % W = sum
    BY <1>6, <1>8 DEF X, b
  <2> QED
    BY <2>1 DEF DivideStep, P, W
<1>10. X = den * (2 * y) + sum
  <2>1. 2 * (den * y) = den * (2 * y) /\ den * y \in Nat
    BY <1>2, <1>5
  <2> QED
    BY <1>4, <1>5, <2>1
<1> HIDE DEF sum
<1>11. CASE sum >= den
  <2>1. X = den * (2 * y + 1) + (sum - den)
    <3>1. den * (2 * y + 1) = den * (2 * y) + den /\ den * (2 * y) \in Nat
      BY <1>2, <1>5
    <3> QED
      BY <1>2, <1>7, <1>10, <3>1
  <2>2. sum - den \in 0 .. den - 1 /\ 2 * y + 1 \in Nat
    BY <1>2, <1>5, <1>7, <1>11
  <2>3. X \div den = 2 * y + 1 /\ X % den = sum - den
    BY <1>2, <2>1, <2>2, DivisionOf
  <2>4. y * (2 * P) + P = (2 * y + 1) * P
    BY <1>1, <1>5
  <2> QED
    BY <1>6, <1>9, <1>11, <2>3, <2>4 DEF Divided, X, P
<1>12. CASE ~(sum >= den)
  <2>1. sum \in 0 .. den - 1 /\ 2 * y \in Nat
    BY <1>2, <1>5, <1>7, <1>12
  <2>2. X \div den = 2 * y /\ X % den = sum
    BY <1>2, <1>10, <2>1, DivisionOf
  <2>3. y * (2 * P) = (2 * y) * P
    BY <1>1, <1>5
  <2> QED
    BY <1>6, <1>9, <1>12, <2>2, <2>3 DEF Divided, X, P
<1> QED
  BY <1>11, <1>12

LEMMA DivideStepType ==
    ASSUME NEW N \in Nat, NEW den \in Nat, NEW bit \in Nat \ {0},
           NEW r \in [quotient : Nat, remainder : Nat]
    PROVE  DivideStep(N, den, bit, r) \in [quotient : Nat, remainder : Nat]
<1> DEFINE P == PowerOfTwo(bit - 1)
           W == PowerOfTwo(WIDE_BITS)
           shifted == (2 * r.remainder + ((N \div P) % 2)) % W
<1>1. P \in Nat \ {0} /\ W \in Nat \ {0}
  <2>1. bit - 1 \in Nat /\ WIDE_BITS \in Nat
    BY ConversionAssumption
  <2> QED
    BY <2>1, Powers
<1> HIDE DEF P, W
<1>2. r.quotient \in Nat /\ r.remainder \in Nat
  OBVIOUS
<1>3. shifted \in Nat
  <2>1. (N \div P) % 2 \in Nat
    BY <1>1, HalfQuotient
  <2>2. 2 * r.remainder + ((N \div P) % 2) \in Nat
    BY <1>2, <2>1
  <2> QED
    BY <1>1, <2>2
<1>4. DivideStep(N, den, bit, r) =
          IF shifted >= den
          THEN [quotient |-> r.quotient + P, remainder |-> shifted - den]
          ELSE [quotient |-> r.quotient, remainder |-> shifted]
  BY DEF DivideStep, P, W
<1> HIDE DEF shifted
<1> QED
  BY <1>1, <1>2, <1>3, <1>4

(* divide_u64_u32 divides, for every numerator of the wide type.           *)
LEMMA LongDivision ==
    ASSUME NEW N \in Nat, N < PowerOfTwo(WIDE_BITS), NEW den \in 1 .. UINT32_MAX
    PROVE  divide_u64_u32(N, den) = N \div den
<1> DEFINE W == WIDE_BITS
           S == [quotient : Nat, remainder : Nat]
           start == [quotient |-> 0, remainder |-> 0]
           step == [n \in 1 .. W |->
                       [r \in S |-> DivideStep(N, den, W - n + 1, r)]]
           Loop(f) == f = [n \in 0 .. W |->
                              IF n = 0 THEN [quotient |-> 0, remainder |-> 0]
                              ELSE DivideStep(N, den, W - n + 1, f[n - 1])]
           loop == CHOOSE f : Loop(f)
<1>1. W \in Nat /\ den \in Nat \ {0} /\ UINT32_MAX \in Nat
  BY ConversionAssumption
<1> HIDE DEF W
<1>2. start \in S
  OBVIOUS
<1>3. step \in [1 .. W -> [S -> S]]
  <2>1. ASSUME NEW n \in 1 .. W, NEW r \in S
        PROVE  DivideStep(N, den, W - n + 1, r) \in S
    <3>1. W - n + 1 \in Nat \ {0}
      BY <1>1
    <3> QED
      BY <1>1, <3>1, DivideStepType
  <2> HIDE DEF S
  <2> QED
    BY <2>1
<1> HIDE DEF S, start, step
<1>4. PICK f : Iterates(f, W, S, start, step)
  BY <1>1, <1>2, <1>3, IterationExists
<1>5. /\ f \in [0 .. W -> S] /\ f[0] = start
      /\ \A n \in 1 .. W : f[n] = step[n][f[n - 1]]
  BY <1>4 DEF Iterates
<1>6. ASSUME NEW n \in 1 .. W
      PROVE  n - 1 \in 0 .. W /\ f[n] = DivideStep(N, den, W - n + 1, f[n - 1])
  <2>1. n - 1 \in 0 .. W
    BY <1>1
  <2>2. f[n - 1] \in S
    BY <1>5, <2>1
  <2> QED
    BY <1>5, <2>1, <2>2 DEF step
<1>7. Loop(f)
  <2>1. ASSUME NEW n \in 0 .. W
        PROVE  f[n] = IF n = 0 THEN [quotient |-> 0, remainder |-> 0]
                      ELSE DivideStep(N, den, W - n + 1, f[n - 1])
    <3>1. CASE n = 0
      BY <1>5, <3>1 DEF start
    <3>2. CASE n # 0
      <4>1. n \in 1 .. W
        BY <1>1, <3>2
      <4> QED
        BY <1>6, <3>2, <4>1
    <3> QED
      BY <3>1, <3>2
  <2> QED
    BY <1>5, <2>1
<1>8. Loop(loop)
  <2> HIDE DEF Loop
  <2> QED
    BY <1>7
<1>9. divide_u64_u32(N, den) = loop[W].quotient
  BY DEF divide_u64_u32, W
<1> HIDE DEF loop
<1>10. \A n \in 0 .. W : loop[n] = f[n]
  <2> DEFINE G == {n \in 0 .. W : loop[n] = f[n]}
  <2>1. 0 \in G
    BY <1>1, <1>5, <1>8 DEF start
  <2>2. ASSUME NEW n \in 1 .. W, n - 1 \in G
        PROVE  n \in G
    <3>1. n \in 0 .. W /\ n # 0
      BY <1>1
    <3>2. loop[n] = DivideStep(N, den, W - n + 1, loop[n - 1])
      BY <1>8, <3>1
    <3> QED
      BY <1>6, <2>2, <3>1, <3>2
  <2> HIDE DEF G
  <2>3. \A n \in 0 .. W : n \in G
    BY <1>1, <2>1, <2>2, UpTo
  <2> QED
    BY <2>3 DEF G
<1> DEFINE D == {n \in 0 .. W : Divided(N, den, PowerOfTwo(W - n), f[n])}
<1>11. 0 \in D
  <2>1. PowerOfTwo(W - 0) = PowerOfTwo(W) /\ PowerOfTwo(W) \in Nat \ {0}
    <3>1. W - 0 = W
      BY <1>1
    <3> QED
      BY <1>1, <3>1, Powers
  <2> DEFINE P == PowerOfTwo(W)
  <2>2. N \div P = 0
    <3>1. N < P
      BY DEF W
    <3> HIDE DEF P
    <3>2. P \in Nat \ {0}
      BY <2>1 DEF P
    <3> QED
      BY <3>1, <3>2
  <2>3. 0 \div den = 0 /\ 0 % den = 0 /\ 0 * P = 0
    BY <1>1, <2>1
  <2>4. f[0].quotient = 0 /\ f[0].remainder = 0
    BY <1>5 DEF start
  <2>5. Divided(N, den, P, f[0])
    BY <2>2, <2>3, <2>4 DEF Divided
  <2> QED
    BY <1>1, <2>1, <2>5
<1>12. ASSUME NEW n \in 1 .. W, n - 1 \in D
       PROVE  n \in D
  <2> DEFINE bit == W - n + 1
  <2>1. /\ bit \in Nat \ {0} /\ bit = W - (n - 1) /\ bit - 1 = W - n
        /\ n \in 0 .. W
    BY <1>1
  <2>2. f[n - 1] \in [quotient : Nat, remainder : Nat]
    BY <1>5, <1>6 DEF S
  <2>3. Divided(N, den, PowerOfTwo(bit), f[n - 1])
    BY <1>12, <2>1
  <2>4. f[n] = DivideStep(N, den, bit, f[n - 1])
    BY <1>6
  <2> HIDE DEF bit
  <2>5. Divided(N, den, PowerOfTwo(bit - 1), f[n])
    BY <2>1, <2>2, <2>3, <2>4, DivideTurn
  <2> QED
    BY <2>1, <2>5
<1> HIDE DEF D
<1>13. \A n \in 0 .. W : n \in D
  BY <1>1, <1>11, <1>12, UpTo
<1>14. W \in 0 .. W /\ W - W = 0
  BY <1>1
<1>15. Divided(N, den, 1, f[W])
  BY <1>13, <1>14, Powers DEF D
<1>16. N \div 1 = N /\ N \div den \in Nat
  BY <1>1
<1>17. f[W].quotient = N \div den
  BY <1>15, <1>16 DEF Divided
<1> QED
  BY <1>9, <1>10, <1>14, <1>17

LEMMA PeriodsAreExact == PeriodsExact
<1> SUFFICES ASSUME NEW p \in PeriodTicks, NEW clock \in CoreClock,
                    NEW rate \in TickRate
             PROVE  period_to_cycles(p, clock, rate) =
                        IF (p * clock) \div rate > UINT32_MAX THEN 0
                        ELSE (p * clock) \div rate
  BY DEF PeriodsExact
<1> DEFINE N == p * clock
           U == UINT32_MAX
<1>1. /\ U \in Nat /\ p \in Nat /\ p <= U /\ clock \in Nat /\ clock <= U
      /\ rate \in 1 .. UINT32_MAX /\ WIDE_BITS \in Nat
      /\ U * U < PowerOfTwo(WIDE_BITS)
  BY ConversionAssumption
<1>2. N \in Nat /\ U * U \in Nat /\ N <= U * U
  BY <1>1, ProductOrder
<1>3. PowerOfTwo(WIDE_BITS) \in Nat
  BY <1>1, Powers
<1> HIDE DEF N
<1>4. N < PowerOfTwo(WIDE_BITS)
  BY <1>1, <1>2, <1>3
<1>5. divide_u64_u32(N, rate) = N \div rate
  BY <1>1, <1>2, <1>4, LongDivision
<1>6. N \div rate \in Nat
  BY <1>1, <1>2
<1>7. N \div rate <= U <=> ~(N \div rate > U)
  BY <1>1, <1>6
<1>8. period_to_cycles(p, clock, rate) =
          IF N \div rate <= U THEN N \div rate ELSE 0
  BY <1>5 DEF period_to_cycles, N
<1> QED
  BY <1>7, <1>8 DEF N

(***************************************************************************)
(* The conversions of time are exact for every width of a word and every   *)
(* rate: JRT_MillisecondsToTicks never shortens a delay, no product in it  *)
(* overflows, and the shift-and-subtract division behind period_to_cycles  *)
(* returns the quotient.                                                   *)
(***************************************************************************)
THEOREM TimesAreExact == KernelSpec => []ConversionsExact
<1>1. ConversionsExact
  BY MillisecondsAreExact, PeriodsAreExact DEF ConversionsExact
<1> QED
  BY <1>1, PTL
=============================================================================
