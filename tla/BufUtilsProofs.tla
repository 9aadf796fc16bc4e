--------------------------- MODULE BufUtilsProofs ---------------------------
(***************************************************************************)
(* Facts about the operators of BufUtils (bufAppendSubstring and the       *)
(* rewind of performSession), cited by the proofs of the modules that use  *)
(* a pam_buf_t.                                                            *)
(***************************************************************************)
EXTENDS BufUtils, TLAPS

(***************************************************************************)
(* One successful bufAppendSubstring of a chunk that is no larger than     *)
(* BUF_MIN keeps the strengthened invariant: the one doubling suffices.    *)
(***************************************************************************)
LEMMA AppendKeepsIInv ==
  ASSUME NEW b \in Buf, NEW sz \in Nat \ {0}, sz <= BUF_MIN,
         NEW rr \in {"inplace", "moved"},
         b.real = 0 => b.used = 0,
         b.real # 0 => /\ b.real = b.alloc /\ b.alloc >= BUF_MIN
                       /\ b.used + 1 <= b.alloc
  PROVE  LET nb == BufAppendSubstring(b, sz, TRUE, rr).buf
         IN  /\ nb \in Buf
             /\ nb.real # 0
             /\ nb.real = nb.alloc /\ nb.alloc >= BUF_MIN
             /\ nb.used + 1 <= nb.alloc
<1> DEFINE nb == BufAppendSubstring(b, sz, TRUE, rr).buf
<1> SUFFICES /\ nb \in Buf
             /\ nb.real # 0
             /\ nb.real = nb.alloc /\ nb.alloc >= BUF_MIN
             /\ nb.used + 1 <= nb.alloc
  OBVIOUS
<1> DEFINE epn == IF rr = "moved" THEN b.ep + 1 ELSE b.ep
<1> HIDE DEF nb
<1>1. BUF_MIN \in Nat \ {0} /\ b.used \in Nat /\ b.alloc \in Nat /\ epn \in Nat
  BY BufAssumption DEF Buf
<1>2. CASE b.real = 0
  <2>1. BufMaxOf(sz, BUF_MIN) = BUF_MIN
    BY <1>1 DEF BufMaxOf
  <2>2. nb = IF 0 + sz + 1 > BUF_MIN
               THEN [alloc |-> 2 * BUF_MIN, used |-> 0 + sz, real |-> 2 * BUF_MIN,
                     ep |-> epn]
               ELSE [alloc |-> BUF_MIN, used |-> 0 + sz, real |-> BUF_MIN, ep |-> b.ep]
    BY <1>2, <2>1, Zenon DEF BufAppendSubstring, nb
  <2>3. CASE 0 + sz + 1 > BUF_MIN
    BY <1>1, <2>2, <2>3 DEF Buf
  <2>4. CASE ~(0 + sz + 1 > BUF_MIN)
    BY <1>1, <2>2, <2>4 DEF Buf
  <2>5. QED
    BY <2>3, <2>4
<1>3. CASE b.real # 0
  <2>1. nb = IF b.used + sz + 1 > b.alloc
               THEN [alloc |-> 2 * b.alloc, used |-> b.used + sz, real |-> 2 * b.alloc,
                     ep |-> epn]
               ELSE [alloc |-> b.alloc, used |-> b.used + sz, real |-> b.real, ep |-> b.ep]
    BY <1>3, Zenon DEF BufAppendSubstring, nb
  <2>2. CASE b.used + sz + 1 > b.alloc
    BY <1>1, <1>3, <2>1, <2>2 DEF Buf
  <2>3. CASE ~(b.used + sz + 1 > b.alloc)
    BY <1>1, <1>3, <2>1, <2>3 DEF Buf
  <2>4. QED
    BY <2>2, <2>3
<1>4. QED
  BY <1>2, <1>3

(***************************************************************************)
(* bufAppendSubstring, whatever malloc and realloc return, leaves a        *)
(* buffer, returns 0 or the chunk's size, keeps an unallocated buffer      *)
(* empty (start == NULL implies end == start) and an allocated one with a  *)
(* non-zero "alloc".                                                       *)
(***************************************************************************)
LEMMA BufAppendType ==
  ASSUME NEW b \in Buf, NEW sz \in Nat, NEW m \in BOOLEAN,
         NEW r \in {"failed", "inplace", "moved"},
         b.real = 0 => b.used = 0,
         b.real # 0 => b.alloc # 0
  PROVE  LET res == BufAppendSubstring(b, sz, m, r)
         IN  /\ res.buf \in Buf
             /\ res.ret \in {0, sz}
             /\ res.buf.real = 0 => res.buf.used = 0
             /\ res.buf.real # 0 => res.buf.alloc # 0
<1> DEFINE res == BufAppendSubstring(b, sz, m, r)
           a0  == IF b.real = 0 THEN BufMaxOf(sz, BUF_MIN) ELSE b.alloc
           epn == IF r = "moved" THEN b.ep + 1 ELSE b.ep
<1> SUFFICES /\ res.buf \in Buf
             /\ res.ret \in {0, sz}
             /\ res.buf.real = 0 => res.buf.used = 0
             /\ res.buf.real # 0 => res.buf.alloc # 0
  OBVIOUS
<1> HIDE DEF res, a0, epn
<1>1. /\ BUF_MIN \in Nat \ {0}
      /\ b.used \in Nat /\ b.alloc \in Nat /\ b.ep \in Nat /\ a0 \in Nat /\ epn \in Nat
      /\ b.real = 0 => a0 # 0
  BY BufAssumption DEF BufMaxOf, Buf, a0, epn
<1>2. CASE b.real = 0 /\ ~m
  <2>1. res = [buf |-> [alloc |-> a0, used |-> b.used, real |-> 0, ep |-> b.ep], ret |-> 0]
    BY <1>2 DEF BufAppendSubstring, res, a0, epn
  <2>2. QED
    BY <1>1, <1>2, <2>1 DEF Buf
<1>3. CASE b.real = 0 /\ m
  <2>1. CASE 0 + sz + 1 > a0 /\ r = "failed"
    <3>1. res = [buf |-> [alloc |-> 2 * a0, used |-> 0, real |-> a0, ep |-> b.ep], ret |-> 0]
      BY <1>3, <2>1 DEF BufAppendSubstring, res, a0, epn
    <3>2. QED
      BY <1>1, <1>3, <3>1 DEF Buf
  <2>2. CASE 0 + sz + 1 > a0 /\ r # "failed"
    <3>1. res = [buf |-> [alloc |-> 2 * a0, used |-> 0 + sz, real |-> 2 * a0,
                          ep |-> epn], ret |-> sz]
      BY <1>3, <2>2 DEF BufAppendSubstring, res, a0, epn
    <3>2. QED
      BY <1>1, <1>3, <3>1 DEF Buf
  <2>3. CASE ~(0 + sz + 1 > a0)
    <3>1. res = [buf |-> [alloc |-> a0, used |-> 0 + sz, real |-> a0, ep |-> b.ep], ret |-> sz]
      BY <1>3, <2>3 DEF BufAppendSubstring, res, a0, epn
    <3>2. QED
      BY <1>1, <1>3, <3>1 DEF Buf
  <2>4. QED
    BY <2>1, <2>2, <2>3
<1>4. CASE b.real # 0
  <2>1. CASE b.used + sz + 1 > b.alloc /\ r = "failed"
    <3>1. res = [buf |-> [alloc |-> 2 * b.alloc, used |-> b.used, real |-> b.real,
                          ep |-> b.ep], ret |-> 0]
      BY <1>4, <2>1 DEF BufAppendSubstring, res, epn
    <3>2. QED
      BY <1>1, <1>4, <3>1 DEF Buf
  <2>2. CASE b.used + sz + 1 > b.alloc /\ r # "failed"
    <3>1. res = [buf |-> [alloc |-> 2 * b.alloc, used |-> b.used + sz, real |-> 2 * b.alloc,
                          ep |-> epn], ret |-> sz]
      BY <1>4, <2>2 DEF BufAppendSubstring, res, epn
    <3>2. QED
      BY <1>1, <1>4, <3>1 DEF Buf
  <2>3. CASE ~(b.used + sz + 1 > b.alloc)
    <3>1. res = [buf |-> [alloc |-> b.alloc, used |-> b.used + sz, real |-> b.real,
                          ep |-> b.ep], ret |-> sz]
      BY <1>4, <2>3 DEF BufAppendSubstring, res, epn
    <3>2. QED
      BY <1>1, <1>4, <3>1 DEF Buf
  <2>4. QED
    BY <2>1, <2>2, <2>3
<1>5. QED
  BY <1>2, <1>3, <1>4

\* performSession's rewind keeps the storage and empties the buffer.
LEMMA BufRewindType ==
  ASSUME NEW b \in Buf
  PROVE  /\ BufRewind(b) \in Buf
         /\ BufRewind(b).used = 0
         /\ BufRewind(b).real = b.real
         /\ BufRewind(b).ep = b.ep
BY DEF BufRewind, Buf

=============================================================================
