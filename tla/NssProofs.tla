----------------------------- MODULE NssProofs -----------------------------
(***************************************************************************)
(* Proofs about libnss-remoteuser for every file, every buffer length and  *)
(* every value of the constants.                                           *)
(***************************************************************************)
EXTENDS NssRemoteUser, WellFoundedInduction, TLAPS

\* A non-empty set of naturals has a least element, so the first line on
\* which p_search's loop returns is well defined.
LEMMA NatSetHasMin ==
  ASSUME NEW T \in SUBSET Nat, T # {}
  PROVE  \E x \in T : \A y \in T : x <= y
<1>1. \E x \in T : \A y \in T : ~(<<y, x>> \in OpToRel(<, Nat))
  BY WFMin, NatLessThanWellFounded
<1>2. PICK x \in T : \A y \in T : ~(<<y, x>> \in OpToRel(<, Nat))
  BY <1>1
<1>3. \A y \in T : ~(y < x)
  <2>. SUFFICES ASSUME NEW y \in T, y < x PROVE FALSE
    OBVIOUS
  <2>1. <<y, x>> \in OpToRel(<, Nat)
    BY DEF OpToRel
  <2>. QED  BY <2>1, <1>2
<1>. QED  BY <1>3

\* p_search answers NOTFOUND only when its loop returns on no line: it
\* reached the end of the file.
LEMMA PSearchNotFound ==
  ASSUME NEW f, NEW t, NEW B, NEW o,
         PSearch(f, t, B, o).status = "NOTFOUND"
  PROVE  \A i \in DOMAIN f : ~Returns(f[i], t, B)
<1>. DEFINE S == {i \in DOMAIN f : Returns(f[i], t, B)}
<1>1. S = {}
  <2>. SUFFICES ASSUME S # {} PROVE FALSE
    OBVIOUS
  <2>. DEFINE first == CHOOSE i \in S : \A j \in S : i <= j
  <2>1. LineResult(f[first], first, B).status # "NOTFOUND"
    BY DEF LineResult, TryAgain, Res
  <2>. QED  BY <2>1 DEF PSearch, Res, TryAgain
<1>. QED  BY <1>1

(***************************************************************************)
(* getpwnam_r gives the remote identity to a name only when the search for *)
(* that name ran to the end of the file: no entry of the file, well formed *)
(* or not, has the name.                                                   *)
(***************************************************************************)
LEMMA GetPwNamNoShadow ==
  ASSUME NEW f, NEW n, NEW B, NEW o1, NEW o2,
         GetPwNam(f, n, B, o1, o2).status = "SUCCESS"
  PROVE  \A i \in DOMAIN f :
           f[i].kind \in {"entry", "badfield"} => f[i].name # n
<1>. DEFINE own == PSearch(f, n, B - (NameLen(n) + 1), o1)
<1>1. own.status = "NOTFOUND"
  BY DEF GetPwNam, TryAgain, Res
<1>. HIDE DEF own
<1>2. \A i \in DOMAIN f : ~Returns(f[i], n, B - (NameLen(n) + 1))
  BY <1>1, PSearchNotFound DEF own
<1>. QED  BY <1>2 DEF Returns

\* The file's lines are numbered by naturals and have natural lengths.
LEMMA FileType ==
  ASSUME NEW f \in Files
  PROVE  /\ DOMAIN f \subseteq Nat
         /\ \A i \in DOMAIN f : f[i].len \in Nat
<1>1. PICK n \in 0..MaxFileLines : f \in [1..n -> Lines]
  BY DEF Files
<1>2. \A i \in 1..n : f[i].len \in Nat
  BY <1>1, NssPasswdAssumption DEF Lines
<1>. QED  BY <1>1, <1>2

\* A line on which the loop returns with a buffer of B2 bytes makes it
\* return with a smaller buffer too.
LEMMA ReturnsMono ==
  ASSUME NEW l, NEW t, NEW B \in Nat, NEW B2 \in Nat, B <= B2, l.len \in Nat,
         Returns(l, t, B2)
  PROVE  Returns(l, t, B)
  BY DEF Returns

(***************************************************************************)
(* A line that fits is read the same way whatever the buffer: when         *)
(* p_search finds the entry or reaches the end of the file with B bytes,   *)
(* it gives the same answer with any larger buffer.                        *)
(***************************************************************************)
LEMMA PSearchMono ==
  \A f \in Files : \A t, o : \A B, B2 \in Nat :
    B <= B2 /\ PSearch(f, t, B, o).status \in {"SUCCESS", "NOTFOUND"}
      => PSearch(f, t, B, o) = PSearch(f, t, B2, TRUE)
<1>. SUFFICES ASSUME NEW f \in Files, NEW t, NEW o, NEW B \in Nat, NEW B2 \in Nat,
                    B <= B2, PSearch(f, t, B, o).status \in {"SUCCESS", "NOTFOUND"}
              PROVE  PSearch(f, t, B, o) = PSearch(f, t, B2, TRUE)
  OBVIOUS
<1>. DEFINE S1 == {i \in DOMAIN f : Returns(f[i], t, B)}
            S2 == {i \in DOMAIN f : Returns(f[i], t, B2)}
            m1 == CHOOSE i \in S1 : \A j \in S1 : i <= j
            m2 == CHOOSE i \in S2 : \A j \in S2 : i <= j
<1>1. o /\ B # 0 /\ B # 1 /\ B2 # 0 /\ B2 # 1
  BY DEF PSearch, Res, TryAgain
<1>2. S2 \subseteq S1
  BY FileType, ReturnsMono
<1>3. CASE S1 = {}
  <2>1. S2 = {}
    BY <1>2, <1>3
  <2>. QED  BY <1>1, <1>3, <2>1 DEF PSearch
<1>4. CASE S1 # {}
  <2>1. m1 \in S1 /\ \A j \in S1 : m1 <= j
    BY <1>4, NatSetHasMin, FileType
  <2>2. PSearch(f, t, B, o) = LineResult(f[m1], m1, B)
    BY <1>1, <1>4 DEF PSearch
  <2>3. LineResult(f[m1], m1, B).status = "SUCCESS"
    BY <2>2 DEF LineResult, TryAgain, Res
  <2>4. /\ ~(f[m1].len + 1 >= B)
        /\ f[m1].nl
        /\ f[m1].kind \notin {"nocolon", "badfield"}
    BY <2>3 DEF LineResult, TryAgain, Res
  <2>5. f[m1].kind \in {"entry", "badfield"} /\ f[m1].name = t
    BY <2>1, <2>4 DEF Returns
  <2>6. m1 \in S2 /\ \A j \in S2 : m1 <= j
    BY <2>1, <2>5, <1>2 DEF Returns
  <2>7. m2 = m1
    <3>1. m2 \in S2 /\ \A j \in S2 : m2 <= j
      BY <2>6
    <3>2. DOMAIN f \subseteq Nat
      BY FileType
    <3>3. m1 \in Nat /\ m2 \in Nat
      BY <2>6, <3>1, <3>2
    <3>4. m1 <= m2 /\ m2 <= m1
      BY <2>6, <3>1
    <3>. HIDE DEF m1, m2
    <3>. QED  BY <3>3, <3>4
  <2>8. LineResult(f[m1], m1, B2) = LineResult(f[m1], m1, B)
    BY <2>1, <2>4, FileType DEF LineResult
  <2>. QED  BY <1>1, <2>2, <2>6, <2>7, <2>8 DEF PSearch
<1>. QED  BY <1>3, <1>4

\* getpwnam_r's answers SUCCESS and NOTFOUND do not depend on the buffer.
SameNam(f, n, B, B2, o1, o2) ==
  GetPwNam(f, n, B, o1, o2) = GetPwNam(f, n, B2, TRUE, TRUE)

LEMMA GetPwNamMono ==
  ASSUME NEW f \in Files, NEW n, NEW o1, NEW o2, NEW B \in Nat, NEW B2 \in Nat,
         B <= B2, NameLen(n) \in Nat,
         GetPwNam(f, n, B, o1, o2).status \in {"SUCCESS", "NOTFOUND"}
  PROVE  SameNam(f, n, B, B2, o1, o2)
<1>. USE DEF SameNam
<1>. DEFINE C1 == B - (NameLen(n) + 1)
            C2 == B2 - (NameLen(n) + 1)
            own1 == PSearch(f, n, C1, o1)
            own2 == PSearch(f, n, C2, TRUE)
            tm1 == PSearch(f, LOCALUSER, C1, o2)
            tm2 == PSearch(f, LOCALUSER, C2, TRUE)
<1>1. ~(NameLen(n) >= B) /\ ~(NameLen(n) >= B2)
  BY DEF GetPwNam, TryAgain, Res
<1>2. C1 \in Nat /\ C2 \in Nat /\ C1 <= C2
  BY <1>1
<1>. HIDE DEF C1, C2
<1>3. own1.status \in {"SUCCESS", "NOTFOUND"}
  BY <1>1 DEF GetPwNam, C1
<1>4. own1 = own2
  BY <1>2, <1>3, PSearchMono
<1>5. CASE own1.status = "SUCCESS"
  <2>1. own2.status = "SUCCESS"
    BY <1>4, <1>5
  <2>2. GetPwNam(f, n, B, o1, o2) = Res("NOTFOUND", "0")
    BY <1>1, <1>5 DEF GetPwNam, C1
  <2>3. GetPwNam(f, n, B2, TRUE, TRUE) = Res("NOTFOUND", "0")
    BY <1>1, <2>1 DEF GetPwNam, C2
  <2>. QED  BY <2>2, <2>3
<1>6. CASE own1.status = "NOTFOUND"
  <2>1. tm1.status \in {"SUCCESS", "NOTFOUND"}
    BY <1>1, <1>6 DEF GetPwNam, C1
  <2>2. tm1 = tm2
    BY <1>2, <2>1, PSearchMono
  <2>. QED  BY <1>1, <1>4, <1>6, <2>2 DEF GetPwNam, C1, C2
<1>. QED  BY <1>3, <1>5, <1>6

\* So are getpwuid_r's.
LEMMA GetPwUidMono ==
  \A f \in Files : \A u, o : \A B, B2 \in Nat :
    B <= B2 /\ GetPwUid(f, u, B, o).status \in {"SUCCESS", "NOTFOUND"}
      => GetPwUid(f, u, B, o) = GetPwUid(f, u, B2, TRUE)
<1>. SUFFICES ASSUME NEW f \in Files, NEW u, NEW o, NEW B \in Nat, NEW B2 \in Nat,
                    B <= B2, GetPwUid(f, u, B, o).status \in {"SUCCESS", "NOTFOUND"}
              PROVE  GetPwUid(f, u, B, o) = GetPwUid(f, u, B2, TRUE)
  OBVIOUS
<1>. DEFINE C1 == B - (NameLen(REMOTEUSER) + 1)
            C2 == B2 - (NameLen(REMOTEUSER) + 1)
            tm1 == PSearch(f, LOCALUSER, C1, o)
            tm2 == PSearch(f, LOCALUSER, C2, TRUE)
<1>1. ~(NameLen(REMOTEUSER) >= B) /\ ~(NameLen(REMOTEUSER) >= B2)
  BY NssPasswdAssumption DEF GetPwUid, TryAgain, Res
<1>2. C1 \in Nat /\ C2 \in Nat /\ C1 <= C2
  BY <1>1, NssPasswdAssumption
<1>. HIDE DEF C1, C2
<1>3. CASE u # REMOTEUID
  BY <1>1, <1>3 DEF GetPwUid, C1, C2
<1>4. CASE u = REMOTEUID
  <2>1. tm1.status \in {"SUCCESS", "NOTFOUND"}
    BY <1>1, <1>4 DEF GetPwUid, C1
  <2>2. tm1 = tm2
    BY <1>2, <2>1, PSearchMono
  <2>. QED  BY <1>1, <1>4, <2>2 DEF GetPwUid, C1, C2
<1>. QED  BY <1>3, <1>4

\* A lookup answered SUCCESS or NOTFOUND is the reference answer.
SameLookup(f, q, B, B2, o1, o2) ==
  Lookup(f, q, B, o1, o2) = Lookup(f, q, B2, TRUE, TRUE)

LEMMA LookupMono ==
  ASSUME NEW f \in Files, NEW q, NameLen(q.name) \in Nat, NEW B \in Nat,
         NEW B2 \in Nat, B <= B2, NEW o1, NEW o2,
         Lookup(f, q, B, o1, o2).status \in {"SUCCESS", "NOTFOUND"}
  PROVE  SameLookup(f, q, B, B2, o1, o2)
<1>. USE DEF SameLookup
<1>1. CASE q.fn = "getpwnam"
  <2>1. GetPwNam(f, q.name, B, o1, o2).status \in {"SUCCESS", "NOTFOUND"}
    BY <1>1 DEF Lookup
  <2>2. GetPwNam(f, q.name, B, o1, o2) = GetPwNam(f, q.name, B2, TRUE, TRUE)
    <3>1. SameNam(f, q.name, B, B2, o1, o2)
      BY <2>1, GetPwNamMono
    <3>. QED  BY <3>1 DEF SameNam
  <2>. QED  BY <1>1, <2>2 DEF Lookup
<1>2. CASE q.fn = "getpwuid"
  BY <1>2, GetPwUidMono DEF Lookup
<1>3. CASE q.fn \notin {"getpwnam", "getpwuid"}
  BY <1>3 DEF Lookup
<1>. QED  BY <1>1, <1>2, <1>3

\* Every answer has an nss_status; TRYAGAIN always comes with ERANGE, and
\* only SUCCESS carries a uid and a line.
Shaped(r) ==
  /\ r.status \in Status
  /\ r.status = "TRYAGAIN" => r.errno = "ERANGE"
  /\ r.status # "SUCCESS" => r.uid = 0 /\ r.at = 0

LEMMA PSearchShape ==
  ASSUME NEW f, NEW t, NEW B, NEW o
  PROVE  Shaped(PSearch(f, t, B, o))
  BY DEF PSearch, LineResult, TryAgain, Res, Shaped, Status

LEMMA LookupShape ==
  ASSUME NEW f, NEW q, NEW B, NEW o1, NEW o2
  PROVE  Shaped(Lookup(f, q, B, o1, o2))
<1>1. \A n, C, p1, p2 : Shaped(GetPwNam(f, n, C, p1, p2))
  BY PSearchShape DEF GetPwNam, TryAgain, Res, Shaped, Status
<1>2. \A u, C, p : Shaped(GetPwUid(f, u, C, p))
  BY PSearchShape DEF GetPwUid, TryAgain, Res, Shaped, Status
<1>3. Shaped(Enumerate)
  BY DEF Enumerate, Res, Shaped, Status
<1>. QED  BY <1>1, <1>2, <1>3 DEF Lookup

-----------------------------------------------------------------------------
(***************************************************************************)
(* The inductive invariant: while a call is in progress no outcome is      *)
(* recorded and the request is a real one; once the _r function returned,  *)
(* ret is what it computed for the file, request, buffer and fopen         *)
(* outcomes, and Deliver hands that on unchanged.                          *)
(***************************************************************************)
IInv ==
  /\ file \in Files
  /\ buflen \in Nat /\ buflen <= MaxBuf
  /\ phase \in {"idle", "call", "returned"}
  /\ phase # "idle" => outcome = "none" /\ req \in Requests
  /\ (phase = "returned" \/ outcome = "answer") =>
       ret = Lookup(file, req, buflen, opens[1], opens[2])

LEMMA IInvInit == Init => IInv
  BY NssRemoteUserAssumption DEF Init, IInv

LEMMA IInvNext == IInv /\ [Next]_vars => IInv'
<1>. SUFFICES ASSUME IInv, [Next]_vars PROVE IInv'
  OBVIOUS
<1>1. CASE Request
  BY <1>1, NssRemoteUserAssumption DEF Request, IInv
<1>2. CASE Call
  BY <1>2 DEF Call, IInv
<1>3. CASE Retry
  BY <1>3 DEF Retry, IInv
<1>4. CASE GiveUp
  BY <1>4 DEF GiveUp, IInv
<1>5. CASE Deliver
  BY <1>5 DEF Deliver, IInv
<1>6. CASE UNCHANGED vars
  BY <1>6 DEF vars, IInv
<1>. QED  BY <1>1, <1>2, <1>3, <1>4, <1>5, <1>6 DEF Next

(***************************************************************************)
(* For every file, every request and buffer and every fopen outcome, a     *)
(* getpwnam answer that the caller receives as SUCCESS is never for a name *)
(* that has an entry in /etc/passwd (getpwnam_r's "user exists locally"    *)
(* check, passwd.c:255-265).                                               *)
(***************************************************************************)
THEOREM NoShadowing == Spec => []NoLocalShadowing
<1>1. IInv => NoLocalShadowing
  <2>. SUFFICES ASSUME IInv, outcome = "answer", req.fn = "getpwnam",
                       ret.status = "SUCCESS"
                PROVE  \A i \in DOMAIN file :
                         file[i].kind \in {"entry", "badfield"} => file[i].name # req.name
    BY DEF NoLocalShadowing
  <2>1. ret = GetPwNam(file, req.name, buflen, opens[1], opens[2])
    BY DEF IInv, Lookup
  <2>. QED  BY <2>1, GetPwNamNoShadow
<1>. QED  BY <1>1, IInvInit, IInvNext, PTL DEF Spec

-----------------------------------------------------------------------------
\* What the caller finally receives from a call that returned something other
\* than TRYAGAIN/ERANGE is an answer the abstract lookup allows.
LEMMA DeliveredAllowed ==
  ASSUME IInv, phase = "returned", ~NeedsRoom
  PROVE  [status |-> ret.status, uid |-> ret.uid, at |-> ret.at] \in Abs!Allowed(file, req)
<1>1. ret = Lookup(file, req, buflen, opens[1], opens[2])
  BY DEF IInv
<1>2. Shaped(ret)
  BY <1>1, LookupShape
<1>3. ret.status # "TRYAGAIN"
  BY <1>2 DEF NeedsRoom, Shaped
<1>4. CASE ret.status \in {"SUCCESS", "NOTFOUND"}
  <2>1. req \in Requests /\ NameLen(req.name) \in Nat
    BY NssRemoteUserAssumption DEF IInv
  <2>2. buflen \in Nat /\ buflen <= BIG /\ BIG \in Nat /\ file \in Files
    BY NssRemoteUserAssumption DEF IInv
  <2>3. SameLookup(file, req, buflen, BIG, opens[1], opens[2])
    BY <1>1, <1>4, <2>1, <2>2, LookupMono
  <2>. QED  BY <1>1, <1>3, <2>3 DEF Abs!Allowed, SameLookup
<1>5. CASE ret.status = "UNAVAIL"
  BY <1>2, <1>5 DEF Shaped, Abs!Allowed
<1>. QED  BY <1>2, <1>3, <1>4, <1>5 DEF Shaped, Status

\* Every step of the caller and the module is a step of the abstract lookup
\* or leaves the caller's view unchanged.
LEMMA RefineStep == IInv /\ [Next]_vars => [Abs!Next]_Abs!vars
<1>. SUFFICES ASSUME IInv, [Next]_vars PROVE [Abs!Next]_Abs!vars
  OBVIOUS
<1>1. CASE Request
  <2>1. Abs!Ask
    BY <1>1, NssRemoteUserAssumption DEF Request, Abs!Ask, IInv, AbsAnswer, Abs!NoAnswer,
       Abs!NoRequest, NoRequest
  <2>. QED  BY <2>1 DEF Abs!Next
<1>2. CASE Call \/ Retry
  BY <1>2 DEF Call, Retry, IInv, AbsAnswer, Abs!vars
<1>3. CASE GiveUp
  <2>1. Abs!Answer
    BY <1>3, NssRemoteUserAssumption DEF GiveUp, Abs!Answer, Abs!Allowed, IInv,
       AbsAnswer, Abs!NoRequest, NoRequest
  <2>. QED  BY <2>1 DEF Abs!Next
<1>4. CASE Deliver
  <2>1. [status |-> ret.status, uid |-> ret.uid, at |-> ret.at] \in Abs!Allowed(file, req)
    BY <1>4, DeliveredAllowed DEF Deliver
  <2>2. Abs!Answer
    BY <1>4, <2>1, NssRemoteUserAssumption DEF Deliver, Abs!Answer, IInv,
       AbsAnswer, Abs!NoRequest, NoRequest
  <2>. QED  BY <2>2 DEF Abs!Next
<1>5. CASE UNCHANGED vars
  BY <1>5 DEF vars, Abs!vars, AbsAnswer
<1>. QED  BY <1>1, <1>2, <1>3, <1>4, <1>5 DEF Next

(***************************************************************************)
(* libnss-remoteuser with glibc's grow-and-retry caller implements the     *)
(* abstract lookup's safety part, for every file, buffer sizes and         *)
(* constants: whatever buffer the caller starts with and however often it  *)
(* grows it, what it receives is the answer a large buffer gives, or       *)
(* UNAVAIL.  (That every request is answered, LookupAnswered, is left to TLC.)*)
(***************************************************************************)
THEOREM RefinesLookupSafety == Spec => NssRefinesLookup
<1>1. Init => Abs!Init
  BY DEF Init, Abs!Init, AbsAnswer, Abs!NoAnswer, Abs!NoRequest, NoRequest
<1>. QED  BY <1>1, RefineStep, IInvInit, IInvNext, PTL DEF Spec, NssRefinesLookup, Abs!Safety
=============================================================================
