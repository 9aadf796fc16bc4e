--------------------------- MODULE GrowBufProofs ---------------------------
(***************************************************************************)
(* Proofs about one pam_buf_t driven by bufAppendSubstring and rewinds.    *)
(* The buffer overflows (GrowBuf_bigchunk, GrowBuf_allocfail) only because *)
(* of a chunk larger than the current allocation or a failed realloc; with *)
(* neither, the single doubling always makes room.                         *)
(***************************************************************************)
EXTENDS GrowBuf, BufUtilsProofs, TLAPS

\* No chunk is larger than the first allocation, and allocation never fails.
SmallChunks == (\A s \in Sizes : s <= BUF_MIN) /\ ~AllocCanFail

\* The strengthening of NoOverflow: an unallocated buffer is empty, and an
\* allocated one owns exactly "alloc" bytes, at least BUF_MIN, with room for
\* the terminator after the bytes in use.
IInv ==
  /\ TypeOK
  /\ buf.real = 0 => buf.used = 0
  /\ buf.real # 0 => /\ buf.real = buf.alloc
                     /\ buf.alloc >= BUF_MIN
                     /\ buf.used + 1 <= buf.alloc

(***************************************************************************)
(* With chunks no larger than BUF_MIN and no failed allocation, no call of *)
(* bufAppendSubstring writes past the storage it owns (the invariant       *)
(* NoOverflow that run GrowBuf_small checks, for every BUF_MIN and Sizes). *)
(***************************************************************************)
THEOREM SmallChunksNoOverflow == SmallChunks => (Spec => []NoOverflow)
<1> SUFFICES ASSUME SmallChunks PROVE Spec => []NoOverflow
  OBVIOUS
<1>1. Init => IInv
  BY BufAssumption DEF Init, IInv, TypeOK, BufInit, Buf
<1>2. IInv /\ [Next]_buf => IInv'
  <2> SUFFICES ASSUME IInv, [Next]_buf PROVE IInv'
    OBVIOUS
  <2>1. CASE Append
    <3>1. PICK sz \in Sizes, mOk \in AllocOutcomes, rRes \in ReallocOutcomes :
                buf' = BufAppendSubstring(buf, sz, mOk, rRes).buf
      BY <2>1 DEF Append
    <3>2. mOk = TRUE /\ rRes \in {"inplace", "moved"}
      BY <3>1 DEF SmallChunks, AllocOutcomes, ReallocOutcomes
    <3>3. sz \in Nat \ {0} /\ sz <= BUF_MIN
      BY <3>1, GrowBufAssumption DEF SmallChunks
    <3>4. buf \in Buf
      BY DEF IInv, TypeOK
    <3>5. QED
      BY <3>1, <3>2, <3>3, <3>4, AppendKeepsIInv DEF IInv, TypeOK
  <2>2. CASE Rewind
    BY <2>2, BufAssumption DEF Rewind, BufRewind, IInv, TypeOK, Buf
  <2>3. CASE UNCHANGED buf
    BY <2>3 DEF IInv, TypeOK
  <2>4. QED
    BY <2>1, <2>2, <2>3 DEF Next
<1>3. IInv => NoOverflow
  BY DEF IInv, NoOverflow, BufNoOverflow
<1>4. QED
  BY <1>1, <1>2, <1>3, PTL DEF Spec
=============================================================================
