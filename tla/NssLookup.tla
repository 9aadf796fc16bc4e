----------------------------- MODULE NssLookup -----------------------------
(***************************************************************************)
(* What libnss-remoteuser promises a caller of getpwnam/getpwuid: each     *)
(* request is eventually answered, and the answer is the one the file      *)
(* gives when the buffer is large enough (Ref), or UNAVAIL, which NSS      *)
(* lets any service return and which makes the caller try the next one.   *)
(* Buffer sizes, ERANGE and retries are invisible at this level.           *)
(***************************************************************************)
CONSTANTS
  Files,         \* the contents /etc/passwd may have
  Requests,      \* what callers ask
  Ref(_, _)      \* Ref(f, q): the answer to q from file f, given room enough

\* What an answer may be: Ref's, unless Ref asks for more room, or UNAVAIL.
Allowed(f, q) ==
  {[status |-> a.status, uid |-> a.uid, at |-> a.at] :
     a \in {r \in {Ref(f, q)} : r.status # "TRYAGAIN"}}
  \cup {[status |-> "UNAVAIL", uid |-> 0, at |-> 0]}

NoAnswer == [status |-> "none", uid |-> 0, at |-> 0]
NoRequest == [fn |-> "none", name |-> "-", uid |-> 0]

VARIABLES file, pending, answer

Init ==
  /\ file \in Files
  /\ pending = NoRequest
  /\ answer = NoAnswer

Ask ==
  /\ pending = NoRequest
  /\ \E q \in Requests : pending' = q
  /\ answer' = NoAnswer
  /\ UNCHANGED file

Answer ==
  /\ pending # NoRequest
  /\ answer' \in Allowed(file, pending)
  /\ pending' = NoRequest
  /\ UNCHANGED file

Next == Ask \/ Answer

vars == <<file, pending, answer>>

\* Every answer is an allowed one ...
Safety == Init /\ [][Next]_vars

\* ... and every request is answered.
Spec == Safety /\ WF_vars(Answer)

=============================================================================
