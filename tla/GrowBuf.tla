------------------------------ MODULE GrowBuf ------------------------------
(***************************************************************************)
(* One pam_buf_t driven by its callers: onCurlWrite and onCurlHeader       *)
(* append chunks with bufAppendSubstring, performSession rewinds it before *)
(* each exchange.  The operators are those of BufUtils.                    *)
(***************************************************************************)
EXTENDS BufUtils

CONSTANTS
  Sizes,         \* byte counts a caller may append in one call
  MaxBytes       \* bound: bytes held before a rewind (model size only)

ASSUME GrowBufAssumption ==
  /\ Sizes \subseteq Nat \ {0}
  /\ MaxBytes \in Nat

VARIABLE buf

Init == buf = BufInit

Append ==
  \E sz \in Sizes, mOk \in AllocOutcomes, rRes \in ReallocOutcomes :
    /\ buf.used + sz <= MaxBytes
    /\ buf' = BufAppendSubstring(buf, sz, mOk, rRes).buf

Rewind ==
  /\ buf.used # 0
  /\ buf' = BufRewind(buf)

Next == Append \/ Rewind

Spec == Init /\ [][Next]_buf

TypeOK == buf \in Buf

(***************************************************************************)
(* The heap stays intact: no call of bufAppendSubstring ever writes the    *)
(* chunk or its terminator past the storage malloc/realloc returned.       *)
(***************************************************************************)
NoOverflow == BufNoOverflow(buf)

=============================================================================
