------------------------- MODULE PamRestTokenProofs -------------------------
(***************************************************************************)
(* The token pam_sm_authenticate publishes on the first authentication of  *)
(* a handle is the one the server issued in that exchange, for every       *)
(* configuration in which the head buffer never has to grow (run           *)
(* pamrest_first).  The runs pamrest_retry and pamrest_realloc show that   *)
(* neither condition can be dropped: a second attempt sees the session of  *)
(* the first, and a realloc that moves the head buffer leaves the header   *)
(* entries pointing into freed storage.                                    *)
(***************************************************************************)
EXTENDS PamRestProofs, SequenceTheorems

\* One attempt on the handle, and L bounds every header line (the blank one
\* is 2 bytes) so that MaxLines of them and the terminator fit in BUF_MIN.
FirstAuthNoGrowth(L) ==
  /\ MaxAttempts <= 1
  /\ L \in Nat
  /\ \A s \in LineSizes \cup {2} : s <= L
  /\ MaxLines * L + 1 <= BUF_MIN

\* parseHeaders' view of the list against the Set-Cookie lines received:
\* there is a cookie entry iff a cookie arrived, and the first one (the
\* newest, since onCurlHeader inserts at the head) carries the last token.
CookiesMatchOf(hs, cs) ==
  /\ cs = << >> <=> \A k \in 1..Len(hs) : hs[k].kind # "cookie"
  /\ \A k \in 1..Len(hs) :
       (hs[k].kind = "cookie" /\ \A m \in 1..(k - 1) : hs[m].kind # "cookie")
         => hs[k].tok = cs[Len(cs)]

CookiesMatch == CookiesMatchOf(headers, cookies)

\* While curl runs the first exchange: the session is unset, every entry
\* points into the head buffer as it is now, the bytes held fit the lines
\* received, and the header state machine follows the wire.
PerformInv(L) ==
  /\ attempts = 1
  /\ result = "none"
  /\ session = NoSession
  /\ head.used <= nlines * L
  /\ \A k \in 1..Len(headers) : headers[k].ex = ex /\ headers[k].ep = head.ep
  /\ wire = "status" => hstate = "HEADER_START" /\ headers = << >> /\ cookies = << >>
  /\ wire = "headers" => hstate = "HEADER_HEADERS"
  /\ wire \in {"status", "headers", "body"} => CookiesMatch

\* The strengthening of PublishedTokenAsSpecified.
TokInv(L) ==
  /\ TInv
  /\ head.real # 0 => head.alloc >= BUF_MIN
  /\ attempts = 0 => /\ pc = "idle" /\ session = NoSession
                     /\ headers = << >> /\ hstate = "HEADER_START"
  /\ pc = "perform" => PerformInv(L)
  /\ PublishedTokenAsSpecified

-----------------------------------------------------------------------------
(***************************************************************************)
(* bufAppendSubstring on a buffer with room for the chunk and its          *)
(* terminator in BUF_MIN does not grow it: the storage stays where it is   *)
(* (the epoch is kept) whatever malloc returns, and a full append adds the *)
(* chunk's bytes.                                                          *)
(***************************************************************************)
LEMMA AppendNoGrow ==
  ASSUME NEW b \in Buf, b.real = 0 => b.used = 0, b.real # 0 => b.alloc >= BUF_MIN,
         NEW n \in Nat, b.used + n + 1 <= BUF_MIN,
         NEW m \in BOOLEAN, NEW r \in {"failed", "inplace", "moved"}
  PROVE  /\ BufAppendSubstring(b, n, m, r).buf.ep = b.ep
         /\ BufAppendSubstring(b, n, m, r).buf.used \in {b.used, b.used + n}
         /\ BufAppendSubstring(b, n, m, r).ret = n =>
              BufAppendSubstring(b, n, m, r).buf.used = b.used + n
         /\ BufAppendSubstring(b, n, m, r).buf.real # 0 =>
              BufAppendSubstring(b, n, m, r).buf.alloc >= BUF_MIN
<1>1. BUF_MIN \in Nat \ {0} /\ b.used \in Nat /\ b.alloc \in Nat
  BY BufAssumption DEF Buf
<1>2. CASE b.real = 0
  <2>1. BufMaxOf(n, BUF_MIN) = BUF_MIN
    BY <1>1, <1>2 DEF BufMaxOf
  <2>2. ~(0 + n + 1 > BUF_MIN)
    BY <1>1, <1>2
  <2>3. QED
    BY <1>1, <1>2, <2>1, <2>2 DEF BufAppendSubstring
<1>3. CASE b.real # 0
  <2>1. ~(b.used + n + 1 > b.alloc)
    BY <1>1, <1>3
  <2>2. QED
    BY <1>1, <1>3, <2>1 DEF BufAppendSubstring
<1>4. QED
  BY <1>2, <1>3

\* Inserting an entry at the head of the list (onCurlHeader), and appending
\* its token to the cookies received when it is a cookie, keeps the match.
LEMMA CookiesMatchCons ==
  ASSUME NEW hs \in Seq(Entries), NEW cs \in Seq(Tokens), CookiesMatchOf(hs, cs),
         NEW e \in Entries
  PROVE  /\ e.kind = "cookie" => CookiesMatchOf(<<e>> \o hs, Append(cs, e.tok))
         /\ e.kind # "cookie" => CookiesMatchOf(<<e>> \o hs, cs)
<1> DEFINE ns == <<e>> \o hs
<1>1. /\ ns \in Seq(Entries) /\ Len(ns) = Len(hs) + 1
      /\ ns[1] = e
      /\ \A k \in 2..Len(ns) : ns[k] = hs[k - 1]
  BY ConcatProperties
<1>2. ASSUME e.kind = "cookie" PROVE CookiesMatchOf(ns, Append(cs, e.tok))
  <2>1. Append(cs, e.tok) # << >> /\ Append(cs, e.tok)[Len(Append(cs, e.tok))] = e.tok
    BY AppendProperties
  <2>2. \A k \in 1..Len(ns) :
          (ns[k].kind = "cookie" /\ \A j \in 1..(k - 1) : ns[j].kind # "cookie") => k = 1
    BY <1>1, <1>2
  <2>3. QED
    BY <1>1, <1>2, <2>1, <2>2 DEF CookiesMatchOf
<1>3. ASSUME e.kind # "cookie" PROVE CookiesMatchOf(ns, cs)
  <2>1. (\A k \in 1..Len(ns) : ns[k].kind # "cookie") <=>
          \A k \in 1..Len(hs) : hs[k].kind # "cookie"
    <3> HIDE DEF ns
    <3>1. \A k \in 1..Len(hs) : k + 1 \in 1..Len(ns) /\ ns[k + 1] = hs[k]
      BY <1>1
    <3>2. ASSUME \A k \in 1..Len(ns) : ns[k].kind # "cookie"
          PROVE  \A k \in 1..Len(hs) : hs[k].kind # "cookie"
      BY <3>1, <3>2
    <3>3. ASSUME \A k \in 1..Len(hs) : hs[k].kind # "cookie"
          PROVE  \A k \in 1..Len(ns) : ns[k].kind # "cookie"
      <4> TAKE k \in 1..Len(ns)
      <4>1. CASE k = 1
        BY <1>1, <1>3, <4>1
      <4>2. CASE k # 1
        <5>1. k - 1 \in 1..Len(hs) /\ ns[k] = hs[k - 1]
          BY <1>1, <4>2
        <5>2. QED
          BY <3>3, <5>1
      <4>3. QED
        BY <4>1, <4>2
    <3>4. QED
      BY <3>2, <3>3
  <2>2. ASSUME NEW k \in 1..Len(ns), ns[k].kind = "cookie",
               \A j \in 1..(k - 1) : ns[j].kind # "cookie"
        PROVE  ns[k].tok = cs[Len(cs)]
    <3>1. k # 1 /\ k - 1 \in 1..Len(hs) /\ ns[k] = hs[k - 1]
      BY <1>1, <1>3, <2>2
    <3>2. \A j \in 1..(k - 2) : hs[j].kind # "cookie"
      <4>1. \A j \in 1..(k - 2) : j + 1 \in 1..(k - 1) /\ ns[j + 1] = hs[j]
        BY <1>1, <3>1
      <4>2. QED
        BY <2>2, <4>1
    <3>3. hs[k - 1].kind = "cookie"
      BY <2>2, <3>1
    <3>4. QED
      BY <3>1, <3>2, <3>3 DEF CookiesMatchOf
  <2>3. QED
    BY <2>1, <2>2 DEF CookiesMatchOf
<1>4. QED
  BY <1>2, <1>3


\* The list grows at its head, with entries of this exchange and epoch.
LEMMA InsertLive ==
  ASSUME NEW hs \in Seq(Entries), NEW e \in Entries, NEW x, NEW p,
         \A k \in 1..Len(hs) : hs[k].ex = x /\ hs[k].ep = p,
         e.ex = x, e.ep = p
  PROVE  /\ HeaderInsert(e, hs) \in Seq(Entries)
         /\ \A k \in 1..Len(HeaderInsert(e, hs)) :
              HeaderInsert(e, hs)[k].ex = x /\ HeaderInsert(e, hs)[k].ep = p
<1>1. /\ <<e>> \o hs \in Seq(Entries) /\ Len(<<e>> \o hs) = Len(hs) + 1
      /\ (<<e>> \o hs)[1] = e
      /\ \A k \in 2..Len(<<e>> \o hs) : (<<e>> \o hs)[k] = hs[k - 1]
  BY ConcatProperties
<1>2. QED
  BY <1>1 DEF HeaderInsert

\* (n + 1) lines of at most L bytes, then the terminator, fit in BUF_MIN.
LEMMA LineRoom ==
  ASSUME NEW L, FirstAuthNoGrowth(L), NEW u \in Nat, NEW k \in Nat, NEW n \in Nat,
         u <= k * L, k < MaxLines, n <= L
  PROVE  /\ u + n + 1 <= BUF_MIN
         /\ u + n <= (k + 1) * L
<1>1. L \in Nat /\ MaxLines \in Nat /\ MaxLines * L + 1 <= BUF_MIN
  BY PamRestAssumption DEF FirstAuthNoGrowth
<1>2. (k + 1) * L <= MaxLines * L
  BY <1>1
<1>3. (k + 1) * L = k * L + L
  BY <1>1
<1>4. u + n <= k * L + L
  BY <1>1
<1>5. u + n <= MaxLines * L
  BY <1>1, <1>2, <1>3, <1>4
<1>6. QED
  BY <1>1, <1>3, <1>4, <1>5, BufAssumption

\* onCurlHeader during the first exchange keeps TokInv: the line fits, so
\* the head buffer does not move, and the entry it inserts is live.
LEMMA HeaderLineTok ==
  ASSUME NEW L, FirstAuthNoGrowth(L), TokInv(L), HeaderLine
  PROVE  TokInv(L)'
<1>1. TInv'
  BY TypeCorrectStep DEF TokInv, Next
<1>2. /\ pc = "perform" /\ PerformInv(L) /\ TInv
      /\ head.real # 0 => head.alloc >= BUF_MIN
      /\ nlines \in Nat /\ nlines < MaxLines /\ nlines' = nlines + 1
      /\ wire \in {"status", "headers"} /\ ex \in Nat
      /\ UNCHANGED <<session, pc, attempts, result, env, ex, reply>>
  BY DEF HeaderLine, TokInv, TInv, TypeOK
<1>3. PICK line \in Lines, sz \in LineSizes, mOk \in AllocOutcomes, rRes \in ReallocOutcomes :
         /\ (line.kind = "status") = (wire = "status")
         /\ OnCurlHeader(line, IF line.kind = "blank" THEN 2 ELSE sz, mOk, rRes)
         /\ cookies' = IF line.kind = "cookie" THEN Append(cookies, line.tok) ELSE cookies
  BY DEF HeaderLine
<1> DEFINE n == IF line.kind = "blank" THEN 2 ELSE sz
           a == BufAppendSubstring(head, n, mOk, rRes)
<1>4. n \in Nat /\ n <= L /\ mOk \in BOOLEAN /\ rRes \in {"failed", "inplace", "moved"}
  BY PamRestAssumption, BufAssumption DEF FirstAuthNoGrowth, AllocOutcomes, ReallocOutcomes
<1>5. head \in Buf /\ (head.real = 0 => head.used = 0) /\ head.used \in Nat
      /\ head.used <= nlines * L
  BY <1>2 DEF TInv, TypeOK, BufWF, PerformInv, Buf
<1>6. head.used + n + 1 <= BUF_MIN /\ head.used + n <= (nlines + 1) * L
  BY <1>2, <1>4, <1>5, LineRoom
<1>7. /\ a.buf.ep = head.ep
      /\ a.buf.used \in {head.used, head.used + n}
      /\ a.ret = n => a.buf.used = head.used + n
      /\ a.buf.real # 0 => a.buf.alloc >= BUF_MIN
  BY <1>2, <1>4, <1>5, <1>6, AppendNoGrow DEF a
<1> HIDE DEF n, a
<1> DEFINE e == [kind |-> IF Parsable(line) THEN line.kind ELSE "other",
                 tok  |-> IF Parsable(line) THEN line.tok ELSE "none",
                 ex   |-> ex,
                 ep   |-> IF head.real = 0 THEN a.buf.ep ELSE head.ep]
<1>8. /\ head' = a.buf
      /\ a.ret # n => wire' = "aborted" /\ UNCHANGED <<hstate, headers>>
      /\ a.ret = n => /\ wire' = IF line.kind = "blank" THEN "body" ELSE "headers"
                      /\ hstate' = HeaderStep(hstate, line)
                      /\ headers' = IF hstate = "HEADER_HEADERS" /\ Parsable(line)
                                      THEN HeaderInsert(e, headers) ELSE headers
  BY <1>3, <1>7 DEF OnCurlHeader, n, a
<1>9. e \in Entries /\ e.ex = ex /\ e.ep = head.ep
      /\ (line.kind = "cookie" => e.kind = "cookie" /\ e.tok = line.tok)
      /\ (line.kind = "other" => e.kind = "other")
  <2>1. head.ep \in Nat
    BY <1>5 DEF Buf
  <2>2. e.ex = ex /\ e.ep = head.ep
    BY <1>7
  <2>3. e \in Entries
    BY <1>2, <2>1, <2>2 DEF Parsable, Lines, Entries
  <2>4. QED
    BY <2>2, <2>3 DEF Parsable
<1> HIDE DEF e
<1>10. head'.real # 0 => head'.alloc >= BUF_MIN
  BY <1>7, <1>8
<1>11. head'.used <= nlines' * L /\ head'.ep = head.ep
  <2>1. nlines' * L = (nlines + 1) * L
    BY <1>2
  <2>2. head'.used \in {head.used, head.used + n}
    BY <1>7, <1>8
  <2>4. head.used <= head.used + n /\ head.used + n <= (nlines + 1) * L
    BY <1>4, <1>5, <1>6
  <2>5. head'.used <= (nlines + 1) * L
    BY <1>2, <1>4, <1>5, <2>2, <2>4 DEF FirstAuthNoGrowth
  <2>6. head'.ep = head.ep
    BY <1>7, <1>8
  <2>3. QED
    BY <2>1, <2>5, <2>6
<1>12. headers \in Seq(Entries) /\ cookies \in Seq(Tokens)
       /\ \A k \in 1..Len(headers) : headers[k].ex = ex /\ headers[k].ep = head.ep
  BY <1>2 DEF TInv, TypeOK, PerformInv
<1>13. /\ wire' # "status"
       /\ wire' = "headers" => hstate' = "HEADER_HEADERS"
       /\ \A k \in 1..Len(headers') : headers'[k].ex = ex' /\ headers'[k].ep = head'.ep
       /\ wire' \in {"status", "headers", "body"} => CookiesMatch'
  <2>1. CASE a.ret # n
    BY <1>2, <1>8, <1>11, <1>12, <2>1
  <2>2. CASE a.ret = n /\ wire = "status"
    <3>1. line.kind = "status" /\ ~Parsable(line) /\ line.kind # "blank"
      BY <1>3, <2>2 DEF Parsable
    <3>2. hstate = "HEADER_START" /\ headers = << >> /\ cookies = << >>
      BY <1>2, <2>2 DEF PerformInv
    <3>3. /\ wire' = "headers" /\ hstate' = "HEADER_HEADERS"
           /\ headers' = << >> /\ cookies' = << >>
      BY <1>3, <1>8, <2>2, <3>1, <3>2 DEF HeaderStep
    <3>4. QED
      BY <1>2, <3>3 DEF CookiesMatch, CookiesMatchOf
  <2>3. CASE a.ret = n /\ wire = "headers"
    <3>1. hstate = "HEADER_HEADERS" /\ line.kind # "status" /\ CookiesMatch
      BY <1>2, <1>3, <2>3 DEF PerformInv
    <3>2. wire' = "headers" => hstate' = "HEADER_HEADERS"
      BY <1>8, <2>3, <3>1 DEF HeaderStep
    <3>3. headers' \in {headers, HeaderInsert(e, headers)}
      BY <1>8, <2>3
    <3>4. \A k \in 1..Len(headers') : headers'[k].ex = ex' /\ headers'[k].ep = head'.ep
      <4>1. CASE headers' = headers
        BY <1>2, <1>11, <1>12, <4>1
      <4>2. CASE headers' = HeaderInsert(e, headers)
        BY <1>2, <1>9, <1>11, <1>12, <4>2, InsertLive
      <4>3. QED
        BY <3>3, <4>1, <4>2
    <3>5. CookiesMatch'
      <4>1. CASE line.kind = "cookie"
        <5>1. headers' = <<e>> \o headers /\ cookies' = Append(cookies, e.tok)
          BY <1>3, <1>8, <1>9, <2>3, <3>1, <4>1 DEF Parsable, HeaderInsert
        <5>2. QED
          BY <1>9, <1>12, <3>1, <4>1, <5>1, CookiesMatchCons DEF CookiesMatch
      <4>2. CASE line.kind = "other"
        <5>1. headers' = <<e>> \o headers /\ cookies' = cookies
          BY <1>3, <1>8, <2>3, <3>1, <4>2 DEF Parsable, HeaderInsert
        <5>2. QED
          BY <1>9, <1>12, <3>1, <4>2, <5>1, CookiesMatchCons DEF CookiesMatch
      <4>3. CASE line.kind \in {"blank", "junk"}
        <5>1. headers' = headers /\ cookies' = cookies
          BY <1>3, <1>8, <2>3, <4>3 DEF Parsable
        <5>2. QED
          BY <3>1, <5>1 DEF CookiesMatch
      <4>4. QED
        BY <3>1, <4>1, <4>2, <4>3 DEF Lines
    <3>6. QED
      BY <1>2, <1>8, <2>3, <3>2, <3>4, <3>5
  <2>4. QED
    BY <1>2, <2>1, <2>2, <2>3
<1>14. QED
  BY <1>1, <1>2, <1>10, <1>11, <1>13 DEF TokInv, PerformInv, PublishedTokenAsSpecified


(***************************************************************************)
(* parseHeaders, parseJson and setenv at the end of the first exchange:    *)
(* every entry is live, so parseHeaders reads exactly the newest cookie    *)
(* entry, whose token is the last one received; with no cookie the session *)
(* can only come from the JSON reply.                                      *)
(***************************************************************************)
LEMMA PublishTok ==
  ASSUME NEW L, TokInv(L), pc = "perform", PerformDone, result' = "PAM_SUCCESS"
  PROVE  PublishedTokenAsSpecified'
<1>1. PerformInv(L) /\ TInv
  BY DEF TokInv
<1>2. PICK c \in CurlResults(wire) :
         /\ cc' = c
         /\ PerformCode(c) = "PAM_SUCCESS"
         /\ Interpret
  <2>1. PICK c \in CurlResults(wire) :
           /\ cc' = c
           /\ \/ /\ PerformCode(c) # "PAM_SUCCESS"
                 /\ result' = PerformCode(c)
              \/ /\ PerformCode(c) = "PAM_SUCCESS"
                 /\ Interpret
    BY DEF PerformDone
  <2>2. QED
    BY <2>1
<1>3. wire = "body" /\ status = 200 /\ cookies' = cookies
  <2>1. c = "CURLE_OK"
    BY <1>2 DEF PerformCode
  <2>2. wire = "body"
    BY <1>2, <2>1 DEF CurlResults, CurlCodes
  <2>3. status = 200
    BY <1>2 DEF Interpret
  <2>4. QED
    BY <2>2, <2>3 DEF PerformDone
<1>4. /\ CookiesMatch /\ session = NoSession
      /\ headers \in Seq(Entries) /\ cookies \in Seq(Tokens)
      /\ \A k \in 1..Len(headers) : Live(headers[k])
      /\ body.real = 0 => body.used = 0
  BY <1>1, <1>3 DEF PerformInv, Live, TInv, TypeOK, BufWF
<1>5. PICK r \in ReadChoices, i \in 0..Len(headers), j \in BodyReplies :
         /\ FirstMatch(r, i)
         /\ \E v \in Reads(ParseHeaders(r, i)) :
              LET out == ParseJson(j, ParseHeaders(r, i), v)
              IN /\ reply' = j
                 /\ out.code = "PAM_SUCCESS"
                 /\ out.sess # NoSession
                 /\ env' \in PublishReads(out.sess, v)
  BY <1>2, <1>3 DEF Interpret
<1>6. \A k \in 1..Len(headers) : r[k] = EntryMatch(headers[k])
  BY <1>4 DEF ReadChoices, EntryReads
<1>7. \A k \in 1..Len(headers) : (r[k] = "none") <=> headers[k].kind # "cookie"
  <2>1. \A k \in 1..Len(headers) : headers[k].kind = "cookie" => headers[k].tok \in Tokens
    BY <1>4 DEF Entries
  <2>2. QED
    BY <1>6, <2>1, PamRestAssumption DEF EntryMatch
<1>8. j \in Replies \cup {NoReply} /\ (body.used = 0 => j = NoReply)
  BY DEF BodyReplies
<1>9. CASE cookies # << >>
  <2>1. i # 0
    BY <1>4, <1>5, <1>7, <1>9 DEF FirstMatch, CookiesMatch, CookiesMatchOf
  <2>2. /\ i \in 1..Len(headers) /\ headers[i].kind = "cookie"
        /\ \A m \in 1..(i - 1) : headers[m].kind # "cookie"
    BY <1>5, <1>7, <2>1 DEF FirstMatch
  <2> DEFINE T == cookies[Len(cookies)]
  <2>3. headers[i].tok = T /\ T \in Tokens /\ r[i] = T
    BY <1>4, <1>6, <1>9, <2>2 DEF CookiesMatch, CookiesMatchOf, EntryMatch
  <2> DEFINE s1 == [src |-> "cookie", tok |-> T, ex |-> headers[i].ex, ep |-> headers[i].ep]
  <2>4. ParseHeaders(r, i) = s1 /\ Live(s1) /\ s1 # NoSession
    BY <1>4, <2>1, <2>2, <2>3 DEF ParseHeaders, Live, NoSession
  <2>5. Reads(s1) = {T}
    BY <2>4 DEF Reads
  <2>6. /\ reply' = j
        /\ ParseJson(j, s1, T).code = "PAM_SUCCESS"
        /\ env' \in PublishReads(ParseJson(j, s1, T).sess, T)
    BY <1>5, <2>4, <2>5
  <2>7. ParseJson(j, s1, T).sess = s1
    BY <2>4 DEF ParseJson
  <2>8. PublishReads(s1, T) = {T}
    BY <2>4 DEF PublishReads, Live
  <2>9. env' = T
    BY <2>6, <2>7, <2>8
  <2>10. j.sess \in Tokens => j.sess = T
    <3>1. CASE body.real = 0
      BY <1>4, <1>8, <3>1, PamRestAssumption DEF NoReply
    <3>2. CASE body.real # 0
      <4>1. body.used # 0 /\ j.shape = "object" /\ ~JsonInvalid(j, s1, T)
        BY <2>6, <3>2 DEF ParseJson
      <4>2. QED
        BY <2>4, <4>1 DEF JsonInvalid
    <3>3. QED
      BY <3>1, <3>2
  <2>11. QED
    BY <1>3, <1>9, <2>6, <2>9, <2>10 DEF PublishedTokenAsSpecified, SpecToken
<1>10. CASE cookies = << >>
  <2>1. \A k \in 1..Len(headers) : r[k] = "none"
    BY <1>4, <1>7, <1>10 DEF CookiesMatch, CookiesMatchOf
  <2>2. i = 0
    BY <1>5, <2>1 DEF FirstMatch
  <2>3. ParseHeaders(r, i) = NoSession /\ Reads(NoSession) = {"none"}
    BY <1>4, <2>2 DEF ParseHeaders, Reads, NoSession
  <2>4. /\ reply' = j
        /\ ParseJson(j, NoSession, "none").code = "PAM_SUCCESS"
        /\ ParseJson(j, NoSession, "none").sess # NoSession
        /\ env' \in PublishReads(ParseJson(j, NoSession, "none").sess, "none")
    BY <1>5, <2>3
  <2>5. /\ j.sess \in Tokens
        /\ ParseJson(j, NoSession, "none").sess = [src |-> "json", tok |-> j.sess,
                                                    ex |-> ex, ep |-> 0]
    BY <2>4 DEF ParseJson
  <2>6. env' = j.sess
    BY <2>4, <2>5 DEF PublishReads
  <2>7. QED
    BY <1>3, <1>10, <2>4, <2>6 DEF PublishedTokenAsSpecified, SpecToken
<1>11. QED
  BY <1>9, <1>10


\* onCurlWrite leaves the head buffer and the header list alone.
LEMMA BodyChunkTok ==
  ASSUME NEW L, TokInv(L), BodyChunk
  PROVE  TokInv(L)'
<1>1. TInv'
  BY TypeCorrectStep DEF TokInv, Next
<1>2. /\ pc = "perform" /\ PerformInv(L) /\ wire = "body"
      /\ wire' \in {"body", "aborted"}
      /\ UNCHANGED <<session, headers, hstate, head, pc, attempts, result, env,
                     ex, status, nlines, cookies, reply>>
  BY DEF BodyChunk, OnCurlWrite, TokInv
<1>3. QED
  BY <1>1, <1>2 DEF TokInv, PerformInv, CookiesMatch, PublishedTokenAsSpecified, SpecToken

\* pam_sm_authenticate is called once: it starts the first exchange on an
\* empty list and an unset session, or fails before curl runs.
LEMMA AuthenticateTok ==
  ASSUME NEW L, FirstAuthNoGrowth(L), TokInv(L), Authenticate
  PROVE  TokInv(L)'
<1>1. TInv'
  BY TypeCorrectStep DEF TokInv, Next
<1>2. attempts = 0 /\ attempts' = 1
  BY PamRestAssumption DEF Authenticate, FirstAuthNoGrowth, TokInv, TInv, TypeOK
<1>3. /\ pc = "idle" /\ session = NoSession /\ headers = << >> /\ hstate = "HEADER_START"
      /\ head.real # 0 => head.alloc >= BUF_MIN
  BY <1>2 DEF TokInv
<1>4. UNCHANGED <<session, headers, hstate>>
  BY DEF Authenticate
<1>5. PICK disallow \in BOOLEAN, hostOk \in BOOLEAN, input \in PasswordInputs,
           setupOk \in BOOLEAN :
         \/ result' = "PAM_AUTHINFO_UNAVAIL" /\ UNCHANGED <<head, pc>>
         \/ result' = RequestSetupCode(setupOk)
            /\ RequestSetupCode(setupOk) # "PAM_SUCCESS" /\ UNCHANGED <<head, pc>>
         \/ PerformSession
  BY DEF Authenticate
<1>6. CASE UNCHANGED <<head, pc>> /\ result' # "PAM_SUCCESS"
  BY <1>1, <1>2, <1>3, <1>6 DEF TokInv, PublishedTokenAsSpecified
<1>7. CASE PerformSession
  <2>1. /\ head' = BufRewind(head) /\ pc' = "perform" /\ result' = "none"
        /\ wire' = "status" /\ nlines' = 0 /\ cookies' = << >>
    BY <1>7 DEF PerformSession
  <2>2. head \in Buf
    BY DEF TokInv, TInv, TypeOK
  <2>3. head'.used = 0 /\ head'.real = head.real /\ head'.alloc = head.alloc
    BY <2>1, <2>2 DEF BufRewind
  <2>4. head'.used <= nlines' * L
    BY <2>1, <2>3 DEF FirstAuthNoGrowth
  <2>5. CookiesMatch'
    BY <1>3, <1>4, <2>1 DEF CookiesMatch, CookiesMatchOf
  <2>6. QED
    BY <1>1, <1>2, <1>3, <1>4, <2>1, <2>3, <2>4, <2>5
       DEF TokInv, PerformInv, PublishedTokenAsSpecified
<1>8. QED
  BY <1>5, <1>6, <1>7

\* curl_easy_perform returns and pam_sm_authenticate finishes.
LEMMA PerformDoneTok ==
  ASSUME NEW L, TokInv(L), PerformDone
  PROVE  TokInv(L)'
<1>1. TInv'
  BY TypeCorrectStep DEF TokInv, Next
<1>2. pc = "perform" /\ pc' = "idle" /\ attempts = 1 /\ UNCHANGED <<attempts, head>>
  BY DEF PerformDone, TokInv, PerformInv
<1>3. result' = "PAM_SUCCESS" => PublishedTokenAsSpecified'
  BY <1>2, PublishTok
<1>4. QED
  BY <1>1, <1>2, <1>3 DEF TokInv, PublishedTokenAsSpecified

\* pam_sm_acct_mgmt only sets its own return value.
LEMMA AcctMgmtTok ==
  ASSUME NEW L, TokInv(L), AcctMgmt
  PROVE  TokInv(L)'
<1>1. TInv'
  BY TypeCorrectStep DEF TokInv, Next
<1>2. UNCHANGED <<dataVars, pc, attempts, result, env, xVars>>
  BY DEF AcctMgmt
<1>3. QED
  BY <1>1, <1>2 DEF TokInv, PerformInv, CookiesMatch, PublishedTokenAsSpecified,
                    SpecToken, dataVars, xVars

(***************************************************************************)
(* On the first authentication of a handle, for every configuration whose  *)
(* header lines fit in the first allocation of the head buffer, whatever   *)
(* the server sends and malloc returns: a PAM_SUCCESS publishes the token  *)
(* of the last Set-Cookie of the configured cookie, with which the JSON    *)
(* session field agrees, or else the JSON session field (the invariant run *)
(* pamrest_first checks).                                                  *)
(***************************************************************************)
THEOREM FirstTokenAsSpecified ==
  ASSUME NEW L, FirstAuthNoGrowth(L)
  PROVE  Spec => []PublishedTokenAsSpecified
<1>1. Init => TokInv(L)
  <2> SUFFICES ASSUME Init PROVE TokInv(L)
    OBVIOUS
  <2>1. TInv
    BY InitTInv
  <2>2. head.real = 0 /\ pc = "idle" /\ result = "none" /\ session = NoSession
        /\ headers = << >> /\ hstate = "HEADER_START"
    BY DEF Init, BufInit
  <2>3. QED
    BY <2>1, <2>2 DEF TokInv, PublishedTokenAsSpecified
<1>2. TokInv(L) /\ [Next]_vars => TokInv(L)'
  <2> SUFFICES ASSUME TokInv(L), [Next]_vars PROVE TokInv(L)'
    OBVIOUS
  <2>1. CASE Authenticate
    BY <2>1, AuthenticateTok
  <2>2. CASE HeaderLine
    BY <2>2, HeaderLineTok
  <2>3. CASE BodyChunk
    BY <2>3, BodyChunkTok
  <2>4. CASE PerformDone
    BY <2>4, PerformDoneTok
  <2>5. CASE AcctMgmt
    BY <2>5, AcctMgmtTok
  <2>6. CASE UNCHANGED vars
    <3>1. TInv'
      BY <2>6, TypeCorrectStep DEF TokInv
    <3>2. QED
      BY <2>6, <3>1 DEF vars, dataVars, hostVars, xVars, TokInv, PerformInv,
                        CookiesMatch, PublishedTokenAsSpecified, SpecToken, Live
  <2>7. QED
    BY <2>1, <2>2, <2>3, <2>4, <2>5, <2>6 DEF Next
<1>3. TokInv(L) => PublishedTokenAsSpecified
  BY DEF TokInv
<1>4. QED
  BY <1>1, <1>2, <1>3, PTL DEF Spec

=============================================================================
