--------------------------- MODULE NssRemoteUser ---------------------------
(***************************************************************************)
(* A caller of libnss-remoteuser and the module's entry points.  The       *)
(* caller is glibc's getpwnam/getpwuid (nss/getXXbyYY.c, not part of this  *)
(* repository): it calls the _r function with a buffer and, while the      *)
(* answer is TRYAGAIN with errno ERANGE, doubles the buffer and calls      *)
(* again, until realloc fails (modelled as reaching MaxBuf).  One call is  *)
(* one step: the module keeps no state between calls and each p_search     *)
(* opens the file afresh, so concurrent lookups cannot interfere.          *)
(***************************************************************************)
EXTENDS NssPasswd

CONSTANTS
  Requests,      \* what callers ask: [fn, name, uid]
  InitBufs,      \* buffer lengths a caller starts with
  MaxBuf,        \* bound: the largest buffer the caller's realloc obtains
  BIG            \* a buffer larger than any line and name (the reference)

NoRequest == [fn |-> "none", name |-> "-", uid |-> 0]

ASSUME NssRemoteUserAssumption ==
  /\ NoRequest \notin Requests
  /\ \A q \in Requests : NameLen(q.name) \in Nat
  /\ MaxBuf \in Nat
  /\ InitBufs \subseteq 1..MaxBuf
  /\ BIG \in Nat /\ MaxBuf <= BIG


VARIABLES
  file,      \* /etc/passwd
  phase,     \* "idle", "call" (the _r function is to run), "returned"
  req,       \* the request being served, or the last one served
  buflen,    \* the caller's buffer length
  opens,     \* whether each fopen of the last call worked
  ret,       \* what the last call returned
  outcome    \* "none", "answer" (delivered) or "nomem" (caller gave up)

vars == <<file, phase, req, buflen, opens, ret, outcome>>

Init ==
  /\ file \in Files
  /\ phase = "idle"
  /\ req = NoRequest
  /\ buflen = 0
  /\ opens = <<TRUE, TRUE>>
  /\ ret = Res("NOTFOUND", "0")
  /\ outcome = "none"

\* An application asks (getpwnam, getpwuid, or an enumeration).
Request ==
  /\ phase = "idle"
  /\ \E q \in Requests, b \in InitBufs :
       /\ req' = q
       /\ buflen' = b
  /\ phase' = "call"
  /\ outcome' = "none"
  /\ UNCHANGED <<file, opens, ret>>

\* The _r entry point runs to completion.
Call ==
  /\ phase = "call"
  /\ \E o1, o2 \in BOOLEAN :
       /\ opens' = <<o1, o2>>
       /\ ret' = Lookup(file, req, buflen, o1, o2)
  /\ phase' = "returned"
  /\ UNCHANGED <<file, req, buflen, outcome>>

NeedsRoom == ret.status = "TRYAGAIN" /\ ret.errno = "ERANGE"

\* The caller doubles the buffer and calls again.
Retry ==
  /\ phase = "returned"
  /\ NeedsRoom
  /\ 2 * buflen <= MaxBuf
  /\ buflen' = 2 * buflen
  /\ phase' = "call"
  /\ UNCHANGED <<file, req, opens, ret, outcome>>

\* realloc fails: the caller returns NULL with ENOMEM.
GiveUp ==
  /\ phase = "returned"
  /\ NeedsRoom
  /\ 2 * buflen > MaxBuf
  /\ phase' = "idle"
  /\ outcome' = "nomem"
  /\ UNCHANGED <<file, req, buflen, opens, ret>>

\* Any other status is handed to the application.
Deliver ==
  /\ phase = "returned"
  /\ ~NeedsRoom
  /\ phase' = "idle"
  /\ outcome' = "answer"
  /\ UNCHANGED <<file, req, buflen, opens, ret>>

Next == Request \/ Call \/ Retry \/ GiveUp \/ Deliver

\* glibc's loop takes each of its steps without waiting on anyone; the
\* application need not ask anything.
Fairness == WF_vars(Call) /\ WF_vars(Retry) /\ WF_vars(GiveUp) /\ WF_vars(Deliver)

Spec == Init /\ [][Next]_vars /\ Fairness

TypeOK ==
  /\ file \in Files
  /\ phase \in {"idle", "call", "returned"}
  /\ buflen \in Nat
  /\ opens \in BOOLEAN \X BOOLEAN
  /\ ret.status \in Status
  /\ outcome \in {"none", "answer", "nomem"}

-----------------------------------------------------------------------------
(***************************************************************************)
(* The caller's view is the abstract lookup: a request is pending from     *)
(* Request until the caller delivers or gives up (a NULL result, which     *)
(* nsswitch treats like UNAVAIL); Call and Retry are internal.             *)
(***************************************************************************)
AbsAnswer ==
  IF outcome = "answer" THEN [status |-> ret.status, uid |-> ret.uid, at |-> ret.at]
  ELSE IF outcome = "nomem" THEN [status |-> "UNAVAIL", uid |-> 0, at |-> 0]
  ELSE [status |-> "none", uid |-> 0, at |-> 0]

Abs == INSTANCE NssLookup
         WITH Ref     <- LAMBDA f, q : Lookup(f, q, BIG, TRUE, TRUE),
              pending <- IF phase = "idle" THEN NoRequest ELSE req,
              answer  <- AbsAnswer

(***************************************************************************)
(* The safety half of the lookup contract: each step of _nss_remoteuser_   *)
(* getpwnam_r and of glibc's grow-and-retry loop maps to an abstract step  *)
(* or a stutter, so whatever buffer the caller started with and however    *)
(* often it had to grow it, a SUCCESS or NOTFOUND is the answer a large    *)
(* buffer gives, and UNAVAIL or the caller's nomem is the only other end.  *)
(* (That a request is answered at all is LookupAnswered.)                  *)
(***************************************************************************)
NssRefinesLookup == Abs!Safety

(***************************************************************************)
(* getpwnam_r never hands out the shared remote identity for a name that   *)
(* has an entry in /etc/passwd: a local account is never shadowed by the   *)
(* remote uid (the "user exists locally" check of getpwnam_r).             *)
(***************************************************************************)
NoLocalShadowing ==
  (outcome = "answer" /\ req.fn = "getpwnam" /\ ret.status = "SUCCESS") =>
    \A i \in DOMAIN file :
      file[i].kind \in {"entry", "badfield"} => file[i].name # req.name

(***************************************************************************)
(* Spec (errors): a line longer than the buffer is reported as the         *)
(* retryable "try again with more space" signal, never as another failure: *)
(* a delivered answer is the one a large buffer gives with the same fopen  *)
(* outcomes.                                                               *)
(***************************************************************************)
AnswerIndependentOfBuffer ==
  outcome = "answer" =>
    ret.status = Lookup(file, req, BIG, opens[1], opens[2]).status

(***************************************************************************)
(* Every lookup ends with an answer: the caller does not grow its buffer   *)
(* until memory runs out.                                                  *)
(***************************************************************************)
LookupAnswered == phase = "call" ~> outcome = "answer"

=============================================================================
