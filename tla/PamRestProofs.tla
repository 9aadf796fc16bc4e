--------------------------- MODULE PamRestProofs ---------------------------
(***************************************************************************)
(* Proofs about PamRest for every value of its constants: the type         *)
(* invariant, and that pam_sm_authenticate reports PAM_SUCCESS only for an *)
(* exchange the server approved (SuccessRequiresApproval).                 *)
(***************************************************************************)
EXTENDS PamRest, BufUtilsProofs, TLAPS

\* What bufAppendSubstring keeps of a pam_buf_t (lemma BufAppendType).
BufWF(b) == /\ b.real = 0 => b.used = 0
            /\ b.real # 0 => b.alloc # 0

-----------------------------------------------------------------------------
(***************************************************************************)
(* The helpers of parseHeaders, parseJson and the publication of the       *)
(* token yield values of the right kind.                                   *)
(***************************************************************************)
\* Reading a session pointer yields a token, other bytes, or nothing.
LEMMA ReadsType ==
  ASSUME NEW p \in Sessions
  PROVE  Reads(p) \subseteq Tokens \cup {Garbage, "none"}
BY DEF Sessions, NoSession, Reads

\* The entry parseHeaders picks becomes a session pointer.
LEMMA ParseHeadersType ==
  ASSUME TypeOK, NEW r \in ReadChoices, NEW i \in 0..Len(headers), FirstMatch(r, i)
  PROVE  ParseHeaders(r, i) \in Sessions
<1>1. CASE i = 0
  BY <1>1 DEF ParseHeaders, TypeOK
<1>2. CASE i # 0
  <2>1. i \in 1..Len(headers) /\ r[i] # "none"
    BY <1>2 DEF FirstMatch
  <2>2. r[i] \in Tokens \cup {Garbage}
    BY <2>1 DEF ReadChoices
  <2>3. headers[i] \in Entries
    BY <2>1 DEF TypeOK
  <2>4. headers[i].ex \in Nat /\ headers[i].ep \in Nat
    BY <2>3 DEF Entries
  <2>5. QED
    BY <1>2, <2>2, <2>4 DEF ParseHeaders, Sessions
<1>3. QED
  BY <1>1, <1>2

\* parseJson returns SUCCESS or AUTH_ERR and leaves a session pointer.
LEMMA ParseJsonType ==
  ASSUME NEW j \in Replies \cup {NoReply}, NEW s \in Sessions, NEW v, ex \in Nat
  PROVE  /\ ParseJson(j, s, v).sess \in Sessions
         /\ ParseJson(j, s, v).code \in {"PAM_SUCCESS", "PAM_AUTH_ERR"}
BY DEF ParseJson, Sessions

\* What setenv publishes is a token, other bytes, or nothing.
LEMMA PublishReadsType ==
  ASSUME NEW p \in Sessions, NEW v \in Tokens \cup {Garbage, "none"}
  PROVE  PublishReads(p, v) \subseteq Tokens \cup {Garbage, "none"}
<1>1. p.tok \in Tokens \cup {Garbage, "none"}
  BY DEF Sessions, NoSession
<1>2. CASE p.src = "cookie" /\ p.ep # head.ep
  BY <1>2, ReadsType DEF PublishReads
<1>3. CASE ~(p.src = "cookie" /\ p.ep # head.ep) /\ p.src = "json"
  BY <1>1, <1>3 DEF PublishReads
<1>4. CASE ~(p.src = "cookie" /\ p.ep # head.ep) /\ p.src # "json"
  BY <1>4 DEF PublishReads
<1>5. QED
  BY <1>2, <1>3, <1>4

-----------------------------------------------------------------------------
\* The type invariant with the buffer facts its proof needs.
TInv == TypeOK /\ BufWF(head) /\ BufWF(body)

LEMMA InitTInv == Init => TInv
<1> SUFFICES ASSUME Init PROVE TInv
  OBVIOUS
<1>1. head \in Buf /\ body \in Buf /\ BufWF(head) /\ BufWF(body)
  BY DEF Init, BufInit, Buf, BufWF
<1>2. session \in Sessions /\ reply \in Replies \cup {NoReply}
  BY DEF Init, Sessions
<1>3. headers \in Seq(Entries) /\ cookies \in Seq(Tokens)
  BY DEF Init
<1>4. hstate \in HeaderStates /\ status \in Statuses \cup {0} /\ cc \in CurlCodes \cup {"none"}
      /\ result \in Results \cup {"none"}
  BY DEF Init, HeaderStates
<1>5. attempts \in 0..MaxAttempts /\ nlines \in 0..MaxLines /\ nchunks \in 0..MaxChunks
  BY PamRestAssumption DEF Init
<1>6. QED
  BY <1>1, <1>2, <1>3, <1>4, <1>5 DEF Init, TInv, TypeOK

\* pam_sm_authenticate's steps up to curl_easy_perform keep the types.
LEMMA AuthenticateTInv ==
  ASSUME TInv, Authenticate
  PROVE  TInv'
<1> USE DEF TInv, TypeOK
<1>1. PICK disallow \in BOOLEAN, hostOk \in BOOLEAN, input \in PasswordInputs,
           setupOk \in BOOLEAN :
         LET allow == allowNull /\ ~disallow
             pass  == GetPassword(input, allow)
             code  == RequestSetupCode(setupOk)
         IN /\ allowNull' = allow
            /\ \/ /\ ~hostOk \/ pass = "fail"
                  /\ result' = "PAM_AUTHINFO_UNAVAIL"
                  /\ UNCHANGED <<warned, head, body, pc, ex, wire, status, nlines,
                                 nchunks, cookies, reply>>
               \/ /\ hostOk /\ pass # "fail"
                  /\ code # "PAM_SUCCESS"
                  /\ result' = code
                  /\ WarnOnce(code)
                  /\ UNCHANGED <<head, body, pc, ex, wire, status, nlines,
                                 nchunks, cookies, reply>>
               \/ /\ hostOk /\ pass # "fail"
                  /\ code = "PAM_SUCCESS"
                  /\ PerformSession
  BY DEF Authenticate
<1>2. /\ attempts' \in 0..MaxAttempts /\ cc' = "none" /\ acct' = "none"
      /\ UNCHANGED <<session, headers, hstate, env>>
      /\ allowNull' \in BOOLEAN
  BY <1>1, PamRestAssumption DEF Authenticate
<1>3. RequestSetupCode(setupOk) \in Results
  BY DEF RequestSetupCode, GetSessionCode, PostSessionCode, Results
<1>4. CASE ~hostOk \/ GetPassword(input, allowNull /\ ~disallow) = "fail"
  BY <1>1, <1>2, <1>4 DEF Results, BufWF
<1>5. CASE hostOk /\ GetPassword(input, allowNull /\ ~disallow) # "fail"
           /\ RequestSetupCode(setupOk) # "PAM_SUCCESS"
  BY <1>1, <1>2, <1>3, <1>5 DEF WarnOnce, BufWF
<1>6. CASE hostOk /\ GetPassword(input, allowNull /\ ~disallow) # "fail"
           /\ RequestSetupCode(setupOk) = "PAM_SUCCESS"
  <2>1. PerformSession
    BY <1>1, <1>6
  <2>2. /\ head' = BufRewind(head) /\ body' = BufRewind(body)
        /\ ex' = ex + 1 /\ pc' = "perform" /\ result' = "none" /\ wire' = "status"
        /\ status' = 0 /\ nlines' = 0 /\ nchunks' = 0 /\ cookies' = << >>
        /\ reply' = NoReply /\ warned' = warned
    BY <2>1 DEF PerformSession
  <2>3. /\ BufRewind(head) \in Buf /\ BufRewind(head).used = 0
        /\ BufRewind(head).real = head.real /\ BufRewind(head).alloc = head.alloc
        /\ BufRewind(body) \in Buf /\ BufRewind(body).used = 0
        /\ BufRewind(body).real = body.real /\ BufRewind(body).alloc = body.alloc
    BY BufRewindType DEF BufRewind
  <2>4. QED
    BY <1>2, <2>2, <2>3, PamRestAssumption DEF BufWF, Statuses, Replies
<1>7. QED
  BY <1>4, <1>5, <1>6

\* bufAppendSubstring keeps a well-formed buffer well-formed.
LEMMA AppendWF ==
  ASSUME NEW b \in Buf, BufWF(b), NEW s \in Nat, NEW m \in BOOLEAN,
         NEW r \in {"failed", "inplace", "moved"}
  PROVE  /\ BufAppendSubstring(b, s, m, r).buf \in Buf
         /\ BufWF(BufAppendSubstring(b, s, m, r).buf)
  BY BufAppendType DEF BufWF

\* onCurlHeader keeps the types, whatever malloc and realloc return.
LEMMA HeaderLineTInv ==
  ASSUME TInv, HeaderLine
  PROVE  TInv'
<1> USE DEF TInv, TypeOK
<1>1. PICK line \in Lines, sz \in LineSizes, mOk \in AllocOutcomes, rRes \in ReallocOutcomes :
         /\ OnCurlHeader(line, IF line.kind = "blank" THEN 2 ELSE sz, mOk, rRes)
         /\ status' = IF line.kind = "status" THEN line.code ELSE status
         /\ cookies' = IF line.kind = "cookie" THEN Append(cookies, line.tok) ELSE cookies
  BY DEF HeaderLine
<1> DEFINE n == IF line.kind = "blank" THEN 2 ELSE sz
           a == BufAppendSubstring(head, n, mOk, rRes)
<1>2. n \in Nat /\ mOk \in BOOLEAN /\ rRes \in {"failed", "inplace", "moved"}
  BY PamRestAssumption, BufAssumption DEF AllocOutcomes, ReallocOutcomes
<1>3. a.buf \in Buf /\ BufWF(a.buf)
  BY <1>2, AppendWF DEF a
<1> HIDE DEF n, a
<1> DEFINE e == [kind |-> IF Parsable(line) THEN line.kind ELSE "other",
                 tok  |-> IF Parsable(line) THEN line.tok ELSE "none",
                 ex   |-> ex,
                 ep   |-> IF head.real = 0 THEN a.buf.ep ELSE head.ep]
           moved == head.real # 0 /\ a.buf.ep # head.ep
<1>4. /\ head' = a.buf
      /\ IF a.ret # n
           THEN UNCHANGED <<hstate, headers>>
           ELSE \/ /\ ~moved
                   /\ hstate' = HeaderStep(hstate, line)
                   /\ headers' = IF hstate = "HEADER_HEADERS" /\ Parsable(line)
                                   THEN HeaderInsert(e, headers) ELSE headers
                \/ /\ moved
                   /\ hstate' = IF hstate = "HEADER_START" THEN "HEADER_HEADERS" ELSE hstate
                   /\ headers' \in IF hstate = "HEADER_HEADERS"
                                    THEN {headers, HeaderInsert(e, headers)} ELSE {headers}
  BY <1>1 DEF OnCurlHeader, n, a
<1>4a. /\ hstate' \in {HeaderStep(hstate, line), "HEADER_HEADERS", hstate}
       /\ headers' \in {headers, HeaderInsert(e, headers)}
  BY <1>4
<1>5. e \in Entries
  <2>1. a.buf.ep \in Nat /\ head.ep \in Nat
    BY <1>3 DEF Buf
  <2>2. QED
    BY <2>1 DEF Parsable, Lines, Entries
<1>6. HeaderStep(hstate, line) \in HeaderStates
  BY DEF HeaderStep, HeaderStates
<1>7. HeaderInsert(e, headers) \in Seq(Entries)
  BY <1>5 DEF HeaderInsert
<1>8. status' \in Statuses \cup {0} /\ cookies' \in Seq(Tokens)
  BY <1>1 DEF Lines
<1>9. UNCHANGED <<allowNull, warned, session, body, pc, attempts, result, env,
                   acct, ex, nchunks, cc, reply>> /\ nlines' \in 0..MaxLines
  BY PamRestAssumption DEF HeaderLine
<1>10. wire' \in {"none", "status", "headers", "body", "aborted"}
  BY <1>1 DEF OnCurlHeader
<1>11. QED
  BY <1>3, <1>4, <1>4a, <1>6, <1>7, <1>8, <1>9, <1>10 DEF BufWF, HeaderStates

\* onCurlWrite keeps the types, whatever malloc and realloc return.
LEMMA BodyChunkTInv ==
  ASSUME TInv, BodyChunk
  PROVE  TInv'
<1> USE DEF TInv, TypeOK
<1>1. PICK sz \in ChunkSizes, mOk \in AllocOutcomes, rRes \in ReallocOutcomes :
         OnCurlWrite(sz, mOk, rRes)
  BY DEF BodyChunk
<1>2. sz \in Nat /\ mOk \in BOOLEAN /\ rRes \in {"failed", "inplace", "moved"}
  BY PamRestAssumption, BufAssumption DEF AllocOutcomes, ReallocOutcomes
<1>3. body' \in Buf /\ BufWF(body') /\ wire' \in {"aborted", "body"}
  BY <1>1, <1>2, BufAppendType DEF OnCurlWrite, BufWF
<1>4. UNCHANGED <<allowNull, warned, session, headers, hstate, head, pc, attempts,
                   result, env, acct, ex, status, nlines, cc, cookies, reply>>
      /\ nchunks' \in 0..MaxChunks
  BY PamRestAssumption DEF BodyChunk
<1>5. QED
  BY <1>3, <1>4 DEF BufWF

\* parseHeaders, parseJson and the publication keep the types.
LEMMA InterpretTInv ==
  ASSUME TInv, Interpret
  PROVE  /\ session' \in Sessions
         /\ reply' \in Replies \cup {NoReply}
         /\ result' \in Results
         /\ env' \in Tokens \cup {Garbage, "none"}
<1> USE DEF TInv, TypeOK
<1>1. CASE status = 401 \/ status \notin {200, 401}
  BY <1>1 DEF Interpret, Results
<1>2. CASE status = 200
  <2>1. PICK r \in ReadChoices, i \in 0..Len(headers), j \in BodyReplies :
           /\ FirstMatch(r, i)
           /\ \E v \in Reads(ParseHeaders(r, i)) :
                LET out == ParseJson(j, ParseHeaders(r, i), v)
                IN /\ session' = out.sess
                   /\ reply' = j
                   /\ \/ /\ out.code # "PAM_SUCCESS"
                         /\ result' = out.code
                         /\ UNCHANGED env
                      \/ /\ out.code = "PAM_SUCCESS"
                         /\ out.sess = NoSession
                         /\ result' = "PAM_AUTH_ERR"
                         /\ UNCHANGED env
                      \/ /\ out.code = "PAM_SUCCESS"
                         /\ out.sess # NoSession
                         /\ result' = "PAM_SUCCESS"
                         /\ env' \in PublishReads(out.sess, v)
    BY <1>2 DEF Interpret
  <2> DEFINE s1 == ParseHeaders(r, i)
  <2>2. s1 \in Sessions
    BY <2>1, ParseHeadersType
  <2>3. PICK v \in Reads(s1) :
           LET out == ParseJson(j, s1, v)
           IN /\ session' = out.sess
              /\ reply' = j
              /\ \/ /\ out.code # "PAM_SUCCESS"
                    /\ result' = out.code
                    /\ UNCHANGED env
                 \/ /\ out.code = "PAM_SUCCESS"
                    /\ out.sess = NoSession
                    /\ result' = "PAM_AUTH_ERR"
                    /\ UNCHANGED env
                 \/ /\ out.code = "PAM_SUCCESS"
                    /\ out.sess # NoSession
                    /\ result' = "PAM_SUCCESS"
                    /\ env' \in PublishReads(out.sess, v)
    BY <2>1
  <2> DEFINE out == ParseJson(j, s1, v)
  <2>4. v \in Tokens \cup {Garbage, "none"}
    BY <2>2, ReadsType
  <2>5. j \in Replies \cup {NoReply}
    BY DEF BodyReplies
  <2>6. out.sess \in Sessions /\ out.code \in {"PAM_SUCCESS", "PAM_AUTH_ERR"}
    BY <2>2, <2>5, ParseJsonType
  <2>7. PublishReads(out.sess, v) \subseteq Tokens \cup {Garbage, "none"}
    BY <2>4, <2>6, PublishReadsType
  <2>8. /\ session' = out.sess
        /\ reply' = j
        /\ \/ result' = out.code /\ out.code # "PAM_SUCCESS" /\ env' = env
           \/ result' = "PAM_AUTH_ERR" /\ env' = env
           \/ result' = "PAM_SUCCESS" /\ env' \in PublishReads(out.sess, v)
    BY <2>3
  <2> HIDE DEF out, s1
  <2>9. result' \in Results
    BY <2>6, <2>8 DEF Results
  <2>10. env' \in Tokens \cup {Garbage, "none"}
    BY <2>7, <2>8
  <2>11. QED
    BY <2>5, <2>6, <2>8, <2>9, <2>10
<1>3. QED
  BY <1>1, <1>2

\* curl_easy_perform's return and the rest of pam_sm_authenticate keep the types.
LEMMA PerformDoneTInv ==
  ASSUME TInv, PerformDone
  PROVE  TInv'
<1> USE DEF TInv, TypeOK
<1>1. PICK c \in CurlResults(wire) :
         /\ cc' = c
         /\ \/ /\ PerformCode(c) # "PAM_SUCCESS"
               /\ result' = PerformCode(c)
               /\ WarnOnce(PerformCode(c))
               /\ UNCHANGED <<session, env, reply>>
            \/ /\ PerformCode(c) = "PAM_SUCCESS"
               /\ UNCHANGED warned
               /\ Interpret
  BY DEF PerformDone
<1>2. c \in CurlCodes /\ PerformCode(c) \in Results
  BY DEF CurlResults, CurlCodes, PerformCode, Results
<1>3. UNCHANGED <<allowNull, headers, hstate, head, body, attempts, acct, ex, wire,
                   status, nlines, nchunks, cookies>> /\ pc' = "idle"
  BY DEF PerformDone
<1>4. /\ session' \in Sessions /\ reply' \in Replies \cup {NoReply}
      /\ result' \in Results /\ env' \in Tokens \cup {Garbage, "none"}
      /\ warned' \in BOOLEAN
  BY <1>1, <1>2, InterpretTInv DEF WarnOnce
<1>5. QED
  BY <1>1, <1>2, <1>3, <1>4 DEF BufWF

\* pam_sm_acct_mgmt keeps the types.
LEMMA AcctMgmtTInv ==
  ASSUME TInv, AcctMgmt
  PROVE  TInv'
BY DEF AcctMgmt, TInv, TypeOK, BufWF, dataVars, xVars

\* Every step of the handle keeps TInv.
LEMMA TypeCorrectStep == TInv /\ [Next]_vars => TInv'
<1> SUFFICES ASSUME TInv, [Next]_vars PROVE TInv'
  OBVIOUS
<1>1. CASE Authenticate
  BY <1>1, AuthenticateTInv
<1>2. CASE HeaderLine
  BY <1>2, HeaderLineTInv
<1>3. CASE BodyChunk
  BY <1>3, BodyChunkTInv
<1>4. CASE PerformDone
  BY <1>4, PerformDoneTInv
<1>5. CASE AcctMgmt
  BY <1>5, AcctMgmtTInv
<1>6. CASE UNCHANGED vars
  BY <1>6 DEF vars, dataVars, hostVars, xVars, TInv, TypeOK, BufWF
<1>7. QED
  BY <1>1, <1>2, <1>3, <1>4, <1>5, <1>6 DEF Next

(***************************************************************************)
(* Every state pam_rest can reach on a handle, whatever the server sends,  *)
(* the network does and malloc returns, is well typed.                     *)
(***************************************************************************)
THEOREM TypeCorrect == Spec => []TypeOK
<1>1. Init => TInv
  BY InitTInv
<1>2. TInv /\ [Next]_vars => TInv'
  BY TypeCorrectStep
<1>3. TInv => TypeOK
  BY DEF TInv
<1>4. QED
  BY <1>1, <1>2, <1>3, PTL DEF Spec

-----------------------------------------------------------------------------
(***************************************************************************)
(* parseJson returns PAM_SUCCESS only for a reply the server approved.     *)
(* The empty-body case rests on BufWF: a body buffer that was never        *)
(* allocated holds no bytes, so no reply was received.                     *)
(***************************************************************************)
LEMMA ParseJsonApproval ==
  ASSUME NEW j \in BodyReplies, NEW s, NEW v, BufWF(body),
         ParseJson(j, s, v).code = "PAM_SUCCESS"
  PROVE  /\ j.shape \in {"none", "object"}
         /\ j.success \in {"absent", "true"}
         /\ j.msgs = "ok"
         /\ j.sess # "null"
<1>1. CASE body.real = 0
  <2>1. body.used = 0
    BY <1>1 DEF BufWF
  <2>2. j = NoReply
    BY <2>1 DEF BodyReplies
  <2>3. QED
    BY <2>2 DEF NoReply
<1>2. CASE body.real # 0
  <2>1. body.used # 0 /\ j.shape = "object" /\ ~JsonInvalid(j, s, v)
    BY <1>2 DEF ParseJson
  <2>2. j \in Replies
    BY <2>1 DEF BodyReplies
  <2>3. QED
    BY <2>1, <2>2 DEF JsonInvalid, Replies, NoReply
<1>3. QED
  BY <1>1, <1>2

\* The strengthening of SuccessRequiresApproval: while curl runs, the
\* result of the call is still open, so the callbacks that change the
\* status and the bodies cannot falsify a result already returned.
SInv ==
  /\ TInv
  /\ pc = "perform" => result = "none"
  /\ SuccessRequiresApproval

LEMMA NextSInv == SInv /\ [Next]_vars => SInv'
<1> SUFFICES ASSUME SInv, [Next]_vars PROVE SInv'
  OBVIOUS
<1>1. TInv'
  BY TypeCorrectStep DEF SInv
<1>2. CASE Authenticate
  <2>1. result' # "PAM_SUCCESS" /\ (pc' = "perform" => result' = "none")
    <3>1. PICK disallow \in BOOLEAN, hostOk \in BOOLEAN, input \in PasswordInputs,
               setupOk \in BOOLEAN :
             \/ result' = "PAM_AUTHINFO_UNAVAIL" /\ pc' = pc
             \/ result' = RequestSetupCode(setupOk)
                /\ RequestSetupCode(setupOk) # "PAM_SUCCESS" /\ pc' = pc
             \/ PerformSession
      BY <1>2 DEF Authenticate
    <3>2. QED
      BY <1>2, <3>1 DEF Authenticate, PerformSession
  <2>2. QED
    BY <1>1, <2>1 DEF SInv, SuccessRequiresApproval
<1>3. CASE HeaderLine \/ BodyChunk
  BY <1>1, <1>3 DEF HeaderLine, BodyChunk, SInv, SuccessRequiresApproval
<1>4. CASE PerformDone
  <2>1. PICK c \in CurlResults(wire) :
           /\ cc' = c
           /\ \/ /\ PerformCode(c) # "PAM_SUCCESS"
                 /\ result' = PerformCode(c)
              \/ /\ PerformCode(c) = "PAM_SUCCESS"
                 /\ Interpret
    BY <1>4 DEF PerformDone
  <2>2. pc' = "idle" /\ status' = status /\ body' = body
    BY <1>4 DEF PerformDone
  <2>3. SUFFICES ASSUME result' = "PAM_SUCCESS"
                 PROVE  SuccessRequiresApproval'
    BY <1>1, <2>2 DEF SInv, SuccessRequiresApproval
  <2>4. PerformCode(c) = "PAM_SUCCESS" /\ Interpret
    BY <2>1, <2>3
  <2>5. cc' = "CURLE_OK"
    BY <2>1, <2>4 DEF PerformCode
  <2>6. status = 200
    BY <2>3, <2>4 DEF Interpret
  <2>7. PICK r \in ReadChoices, i \in 0..Len(headers), j \in BodyReplies :
           \E v \in Reads(ParseHeaders(r, i)) :
              LET out == ParseJson(j, ParseHeaders(r, i), v)
              IN /\ reply' = j
                 /\ \/ /\ out.code # "PAM_SUCCESS"
                       /\ result' = out.code
                    \/ /\ out.code = "PAM_SUCCESS"
                       /\ result' = "PAM_AUTH_ERR"
                    \/ /\ out.code = "PAM_SUCCESS"
    BY <2>4, <2>6 DEF Interpret
  <2>10. PICK v \in Reads(ParseHeaders(r, i)) :
            /\ reply' = j
            /\ ParseJson(j, ParseHeaders(r, i), v).code = "PAM_SUCCESS"
    BY <2>3, <2>7
  <2>8. BufWF(body)
    BY DEF SInv, TInv
  <2>9. QED
    BY <2>2, <2>5, <2>6, <2>8, <2>10, ParseJsonApproval DEF SuccessRequiresApproval
<1>5. CASE AcctMgmt
  BY <1>1, <1>5 DEF AcctMgmt, SInv, SuccessRequiresApproval, dataVars, xVars
<1>6. CASE UNCHANGED vars
  BY <1>1, <1>6 DEF vars, dataVars, hostVars, xVars, SInv, SuccessRequiresApproval
<1>7. QED
  BY <1>2, <1>3, <1>4, <1>5, <1>6 DEF Next

(***************************************************************************)
(* For every configuration and every server: pam_sm_authenticate returns   *)
(* PAM_SUCCESS only when curl completed the exchange, the HTTP status was  *)
(* 200 and the JSON reply, if any, was an object that did not say          *)
(* "success": false and had no mistyped message or null session field.     *)
(***************************************************************************)
THEOREM ApprovalRequired == Spec => []SuccessRequiresApproval
<1>1. Init => SInv
  BY InitTInv DEF Init, SInv, SuccessRequiresApproval
<1>2. SInv /\ [Next]_vars => SInv'
  BY NextSInv
<1>3. SInv => SuccessRequiresApproval
  BY DEF SInv
<1>4. QED
  BY <1>1, <1>2, <1>3, PTL DEF Spec



=============================================================================
