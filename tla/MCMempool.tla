----------------------------- MODULE MCMempool ------------------------------
(***************************************************************************)
(* Three clients on a pool of five blocks over words of two bits, and bad *)
(* frees of every address from NULL to behind the pool.                    *)
(***************************************************************************)
EXTENDS Mempool

MCBadAddress == 0 .. storage + block_size * block_count + 1
=============================================================================
