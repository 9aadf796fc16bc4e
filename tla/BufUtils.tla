------------------------------ MODULE BufUtils -----------------------------
(***************************************************************************)
(* The growable byte buffer pam_buf_t of bufUtils.c.                       *)
(*                                                                         *)
(* The bytes themselves are abstracted away: a buffer is its "alloc" field *)
(* (what the code believes it owns), "used" (end - start), "real" (what    *)
(* malloc/realloc really handed out, 0 while start is NULL) and "ep", an   *)
(* epoch bumped whenever realloc may have moved the storage, so that a     *)
(* pointer taken into the buffer can be told stale.  Keeping "alloc" and   *)
(* "real" apart is what lets the model see a failed realloc that has       *)
(* already doubled "alloc".  A realloc may fail, grow the block in place,  *)
(* or move it (only then do pointers into the old block dangle).          *)
(***************************************************************************)
EXTENDS Naturals

CONSTANTS
  BUF_MIN,       \* the first allocation's floor (1024 in bufAppendSubstring)
  AllocCanFail   \* whether malloc and realloc may return NULL

ASSUME BufAssumption ==
  /\ BUF_MIN \in Nat \ {0}
  /\ AllocCanFail \in BOOLEAN

Buf == [alloc : Nat, used : Nat, real : Nat, ep : Nat]

\* bufInit: start = end = NULL, alloc = 0.
BufInit == [alloc |-> 0, used |-> 0, real |-> 0, ep |-> 0]

\* Outcomes of one malloc call (TRUE: it returned storage).
AllocOutcomes == IF AllocCanFail THEN BOOLEAN ELSE {TRUE}

\* Outcomes of one realloc call.
ReallocOutcomes ==
  IF AllocCanFail THEN {"failed", "inplace", "moved"} ELSE {"inplace", "moved"}

BufMaxOf(a, b) == IF a < b THEN b ELSE a

(***************************************************************************)
(* bufAppendSubstring(buf, s, sz) with mOk / rRes the outcomes of its      *)
(* malloc and realloc calls.  Returns the new buffer and the return value. *)
(* A first call allocates max(sz, BUF_MIN); a call that does not fit       *)
(* doubles "alloc" once (an "if", not a loop) and reallocs; on a failed    *)
(* malloc or realloc the field "alloc" has already been updated and the    *)
(* call returns 0.  Otherwise sz bytes and a terminator are written at     *)
(* end, whether or not they fit in what was really allocated.              *)
(***************************************************************************)
BufAppendNoTerm(b, sz, mOk, rRes) ==
  LET fresh == b.real = 0
      a0    == IF fresh THEN BufMaxOf(sz, BUF_MIN) ELSE b.alloc
      b1    == IF fresh THEN [alloc |-> a0, used |-> 0, real |-> a0, ep |-> b.ep]
                        ELSE b
      grow  == b1.used + sz > b1.alloc
  IN IF fresh /\ ~mOk
       THEN [buf |-> [alloc |-> a0, used |-> b.used, real |-> 0, ep |-> b.ep], ret |-> 0]
     ELSE IF ~grow
       THEN [buf |-> [alloc |-> a0, used |-> b1.used + sz, real |-> b1.real, ep |-> b.ep],
             ret |-> sz]
     ELSE IF rRes = "failed"
       THEN [buf |-> [alloc |-> 2 * a0, used |-> b1.used, real |-> b1.real, ep |-> b.ep],
             ret |-> 0]
     ELSE [buf |-> [alloc |-> 2 * a0, used |-> b1.used + sz, real |-> 2 * a0,
                    ep |-> IF rRes = "moved" THEN b.ep + 1 ELSE b.ep],
           ret |-> sz]

BufAppendSubstring(b, sz, mOk, rRes) ==
  LET fresh == b.real = 0
      a0    == IF fresh THEN BufMaxOf(sz, BUF_MIN) ELSE b.alloc
      b1    == IF fresh THEN [alloc |-> a0, used |-> 0, real |-> a0, ep |-> b.ep]
                        ELSE b
      grow  == b1.used + sz + 1 > b1.alloc
  IN IF fresh /\ ~mOk
       THEN [buf |-> [alloc |-> a0, used |-> b.used, real |-> 0, ep |-> b.ep], ret |-> 0]
     ELSE IF ~grow
       THEN [buf |-> [alloc |-> a0, used |-> b1.used + sz, real |-> b1.real, ep |-> b.ep],
             ret |-> sz]
     ELSE IF rRes = "failed"
       THEN [buf |-> [alloc |-> 2 * a0, used |-> b1.used, real |-> b1.real, ep |-> b.ep],
             ret |-> 0]
     ELSE [buf |-> [alloc |-> 2 * a0, used |-> b1.used + sz, real |-> 2 * a0,
                    ep |-> IF rRes = "moved" THEN b.ep + 1 ELSE b.ep],
           ret |-> sz]

\* performSession: "data->head.end = data->head.start" (storage kept).
BufRewind(b) == [alloc |-> b.alloc, used |-> 0, real |-> b.real, ep |-> b.ep]

(***************************************************************************)
(* Every byte bufAppendSubstring writes, the terminator included, lies in  *)
(* storage the buffer really owns: end + 1 <= start + allocated size.      *)
(***************************************************************************)
BufNoOverflow(b) == b.real # 0 => b.used + 1 <= b.real

=============================================================================
