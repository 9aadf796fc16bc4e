------------------------------ MODULE PamRest ------------------------------
(***************************************************************************)
(* The authentication path of pam_rest on one PAM handle: the module data  *)
(* pam_rest_t that getModuleData keeps for the life of the handle, the     *)
(* entry points pam_sm_authenticate and pam_sm_acct_mgmt, and, inside one  *)
(* blocking curl_easy_perform, the callbacks onCurlHeader and onCurlWrite. *)
(*                                                                         *)
(* Data is abstracted: a header line is its kind (status line, blank line, *)
(* a Set-Cookie for the configured cookie carrying a token, any other      *)
(* "Key: value" line, an unparsable line) and its length; a JSON           *)
(* body is the handful of facts parseJson tests.  Pointers into the head   *)
(* buffer (header entries, the session) carry the exchange and buffer      *)
(* epoch they were taken in; reading one that is stale yields the bytes it *)
(* was taken from or other bytes (Garbage).                                *)
(*                                                                         *)
(* The web server and the network are the environment: they choose the     *)
(* lines, chunks, status code, JSON reply and the curl result.             *)
(***************************************************************************)
EXTENDS BufUtils, Sequences

CONSTANTS
  Tokens,        \* session tokens a server can issue (model values)
  Garbage,       \* what a read through a stale pointer may return
  METHOD,        \* "GET" or "POST" (parseOpts "method="; form and JSON
                 \* bodies differ only in data)
  URI_SET,       \* whether a "uri=" option is configured
  LineSizes,     \* byte lengths of a non-blank header line
  ChunkSizes,    \* byte lengths of a body chunk handed to onCurlWrite
  MaxAttempts,   \* bound: pam_sm_authenticate calls on one handle
  MaxLines,      \* bound: header lines delivered in one exchange
  MaxChunks      \* bound: body chunks delivered in one exchange

ASSUME PamRestAssumption ==
  /\ Garbage \notin Tokens
  /\ Tokens \cap {"none", "absent", "null", "other"} = {}
  /\ METHOD \in {"GET", "POST"}
  /\ URI_SET \in BOOLEAN
  /\ LineSizes \subseteq Nat \ {0}
  /\ ChunkSizes \subseteq Nat \ {0}
  /\ MaxAttempts \in Nat /\ MaxLines \in Nat /\ MaxChunks \in Nat

HeaderStates == {"HEADER_START", "HEADER_HEADERS", "HEADER_END"}
Results == {"PAM_SUCCESS", "PAM_AUTH_ERR", "PAM_AUTHINFO_UNAVAIL",
            "PAM_CRED_INSUFFICIENT"}
CurlCodes == {"CURLE_OK", "CURLE_REMOTE_ACCESS_DENIED",
              "CURLE_ABORTED_BY_CALLBACK", "CURLE_COULDNT_CONNECT",
              "CURLE_GOT_NOTHING", "CURLE_OTHER"}
Statuses == {200, 401, 500}

\* A header line as onCurlHeader sees it; "code" is the status of a status line.
Lines ==
  [kind : {"status"}, tok : {"none"}, code : Statuses]
  \cup [kind : {"blank", "other", "junk"}, tok : {"none"}, code : {0}]
  \cup [kind : {"cookie"}, tok : Tokens, code : {0}]

\* struct pam_header_list_t: key and value pointers into the head buffer.
Entries ==
  [kind : {"cookie"}, tok : Tokens, ex : Nat, ep : Nat]
  \cup [kind : {"other"}, tok : {"none"}, ex : Nat, ep : Nat]

\* data->session: NULL, a pointer into the head buffer, or into a JSON object.
NoSession == [src |-> "none", tok |-> "none", ex |-> 0, ep |-> 0]
Sessions ==
  {NoSession} \cup [src : {"cookie", "json"}, tok : Tokens \cup {Garbage},
                    ex : Nat, ep : Nat]

\* The JSON reply: text that does not parse to an object ("invalid": not
\* JSON, truncated, or another type), or an object and the keys parseJson
\* looks at.
NoReply == [shape |-> "none", success |-> "absent", sess |-> "absent", msgs |-> "ok"]
Replies ==
  {[NoReply EXCEPT !.shape = "invalid"]}
  \cup [shape : {"object"}, success : {"absent", "true", "false", "other"},
        sess : Tokens \cup {"absent", "null", "other"}, msgs : {"ok", "bad"}]

\* What pam_get_item(PAM_AUTHTOK) or the password prompt yields.
PasswordInputs == {"secret", "empty", "convfail"}

VARIABLES
  \* pam_rest_t, kept by pam_set_data for the life of the handle
  allowNull, warned, session, headers, hstate, head, body,
  \* the host: where the handle is, and what the entry points returned
  pc, attempts, result, env, acct,
  \* the current exchange, chosen by the server and the network
  ex, wire, status, nlines, nchunks, cc, cookies, reply

dataVars == <<allowNull, warned, session, headers, hstate, head, body>>
hostVars == <<pc, attempts, result, env, acct>>
xVars == <<ex, wire, status, nlines, nchunks, cc, cookies, reply>>
vars == <<dataVars, hostVars, xVars>>

-----------------------------------------------------------------------------
(***************************************************************************)
(* Pointers and what reading them yields.                                  *)
(***************************************************************************)
\* Taken in this exchange and no realloc of the head buffer since.
Live(p) == p.ex = ex /\ p.ep = head.ep

Reads(p) ==
  IF p.src = "none" THEN {"none"}
  ELSE IF p.src = "json" \/ Live(p) THEN {p.tok}
  ELSE {p.tok, Garbage}

\* parseHeaders on one entry: its token if key is "Set-Cookie" and the value
\* starts with COOKIE_NAME "=", else "none".
EntryMatch(e) == IF e.kind = "cookie" THEN e.tok ELSE "none"

EntryReads(e) ==
  IF Live(e) THEN {EntryMatch(e)} ELSE {EntryMatch(e), "none", Garbage}


-----------------------------------------------------------------------------
(***************************************************************************)
(* Helpers translated from pamUtils.c and pam_rest.c.                      *)
(***************************************************************************)
\* getPassword: a non-empty PAM_AUTHTOK or prompt answer is used; an empty
\* answer only while allowNullAuthtok is set; a failed conversation fails.
GetPassword(input, allow) ==
  CASE input = "secret"         -> "secret"
    [] input = "empty" /\ allow -> "empty"
    [] OTHER                    -> "fail"

\* getSession up to performSession: a NULL uri, or a failing
\* curl_easy_setopt, returns AUTHINFO_UNAVAIL.
GetSessionCode(setupOk) ==
  IF ~URI_SET \/ ~setupOk THEN "PAM_AUTHINFO_UNAVAIL" ELSE "PAM_SUCCESS"

\* postSessionForm and postSessionJson up to performSession: a NULL uri
\* returns AUTH_ERR, a failing setopt or curl_slist_append AUTHINFO_UNAVAIL.
PostSessionCode(setupOk) ==
  CASE ~URI_SET  -> "PAM_AUTH_ERR"
    [] ~setupOk  -> "PAM_AUTHINFO_UNAVAIL"
    [] OTHER     -> "PAM_SUCCESS"

\* pam_sm_authenticate's "switch (data->method)".
RequestSetupCode(setupOk) ==
  IF METHOD = "GET" THEN GetSessionCode(setupOk) ELSE PostSessionCode(setupOk)

\* performSession: the mapping of curl_easy_perform's result.
PerformCode(c) ==
  CASE c = "CURLE_OK" -> "PAM_SUCCESS"
    [] c \in {"CURLE_REMOTE_ACCESS_DENIED", "CURLE_ABORTED_BY_CALLBACK"} ->
          "PAM_CRED_INSUFFICIENT"
    [] OTHER -> "PAM_AUTHINFO_UNAVAIL"

\* The results curl_easy_perform can return after the transfer got this far
\* ("CURLE_OTHER" is CURLE_WRITE_ERROR after a short callback, a timeout, a
\* receive error ...).
CurlResults(w) ==
  CASE w = "status" -> CurlCodes \ {"CURLE_OK"}
    [] w = "body"   -> {"CURLE_OK", "CURLE_OTHER"}
    [] OTHER        -> {"CURLE_OTHER"}

\* pam_sm_authenticate: the request step's first AUTHINFO_UNAVAIL warns once.
WarnOnce(code) == warned' = (warned \/ code = "PAM_AUTHINFO_UNAVAIL")

\* onCurlHeader's state machine.
HeaderStep(s, line) ==
  CASE s = "HEADER_START"                           -> "HEADER_HEADERS"
    [] s = "HEADER_HEADERS" /\ line.kind = "blank"  -> "HEADER_END"
    [] OTHER                                        -> s

\* A line with a colon after its first byte is split into key and value.
Parsable(line) == line.kind \in {"cookie", "other"}

HeaderAppendLast(e, hs) == Append(hs, e)

\* "el->next = data->headers; data->headers = el": newest entry first.
HeaderInsert(e, hs) == <<e>> \o hs

\* onCurlHeader(buf, size, nmemb): save the line in the head buffer; a short
\* save makes curl abort the transfer.  "start" is taken before the append:
\* when realloc moved the block, the line is read through the freed one,
\* where "start == end" never holds and strstr may or may not find a colon;
\* the entry made from it points into the freed block.
OnCurlHeader(line, sz, mOk, rRes) ==
  LET a     == BufAppendSubstring(head, sz, mOk, rRes)
      moved == head.real # 0 /\ a.buf.ep # head.ep
      e     == [kind |-> IF Parsable(line) THEN line.kind ELSE "other",
                tok  |-> IF Parsable(line) THEN line.tok ELSE "none",
                ex   |-> ex,
                ep   |-> IF head.real = 0 THEN a.buf.ep ELSE head.ep]
  IN /\ head' = a.buf
     /\ IF a.ret # sz
          THEN /\ wire' = "aborted"
               /\ UNCHANGED <<hstate, headers>>
          ELSE /\ wire' = IF line.kind = "blank" THEN "body" ELSE "headers"
               /\ \/ /\ ~moved
                     /\ hstate' = HeaderStep(hstate, line)
                     /\ headers' = IF hstate = "HEADER_HEADERS" /\ Parsable(line)
                                     THEN HeaderInsert(e, headers) ELSE headers
                  \/ /\ moved
                     /\ hstate' = IF hstate = "HEADER_START" THEN "HEADER_HEADERS" ELSE hstate
                     /\ headers' \in IF hstate = "HEADER_HEADERS"
                                      THEN {headers, HeaderInsert(e, headers)} ELSE {headers}

\* onCurlWrite: append the chunk to the body buffer.
OnCurlWrite(sz, mOk, rRes) ==
  LET a == BufAppendSubstring(body, sz, mOk, rRes)
  IN /\ body' = a.buf
     /\ wire' = IF a.ret # sz THEN "aborted" ELSE "body"

(***************************************************************************)
(* parseHeaders' loop over the list, newest entry first.  r[k] is what     *)
(* reading entry k yields; i is the first k with a match, 0 if none.       *)
(***************************************************************************)
ReadChoices ==
  {r \in [1..Len(headers) -> Tokens \cup {Garbage, "none"}] :
     \A k \in 1..Len(headers) : r[k] \in EntryReads(headers[k])}

FirstMatch(r, i) ==
  /\ \A k \in 1..(i - 1) : r[k] = "none"
  /\ IF i = 0 THEN \A k \in 1..Len(headers) : r[k] = "none"
              ELSE r[i] # "none"

ParseHeaders(r, i) ==
  IF i = 0 THEN session
  ELSE [src |-> "cookie", tok |-> r[i], ex |-> headers[i].ex, ep |-> headers[i].ep]

\* The JSON reply a body of this exchange may carry.
BodyReplies == IF body.used = 0 THEN {NoReply} ELSE Replies

\* parseJson's loop over the object's keys; v is what reading the session
\* set so far yields.
JsonInvalidNoFalse(j, s, v) ==
  \/ j.msgs = "bad"
  \/ j.success = "other"
  \/ j.sess = "null"
  \/ j.sess \in Tokens /\ s # NoSession /\ v # j.sess

JsonInvalid(j, s, v) ==
  \/ j.msgs = "bad"
  \/ j.success \in {"false", "other"}
  \/ j.sess = "null"
  \/ j.sess \in Tokens /\ s # NoSession /\ v # j.sess

\* parseJson: no body buffer passes; zero bytes ("continue"), a malformed
\* text or a non-object fail; else the keys decide, and a session string
\* is adopted when none is set.
ParseJson(j, s, v) ==
  CASE body.real = 0 -> [code |-> "PAM_SUCCESS", sess |-> s]
    [] body.used = 0 \/ j.shape # "object" -> [code |-> "PAM_AUTH_ERR", sess |-> s]
    [] OTHER ->
         [code |-> IF JsonInvalid(j, s, v) THEN "PAM_AUTH_ERR" ELSE "PAM_SUCCESS",
          sess |-> IF j.sess \in Tokens /\ s = NoSession
                     THEN [src |-> "json", tok |-> j.sess, ex |-> ex, ep |-> 0]
                     ELSE s]

\* setenv(ENV_NAME, data->session): what reading the session yields now.
\* Storage freed by a realloc may have been reused since it was read.
PublishReads(p, v) ==
  IF p.src = "cookie" /\ p.ep # head.ep THEN Reads(p)
  ELSE IF p.src = "json" THEN {p.tok}
  ELSE {v}

-----------------------------------------------------------------------------
(***************************************************************************)
(* The specification.                                                      *)
(***************************************************************************)
Init ==
  /\ allowNull = TRUE
  /\ warned = FALSE
  /\ session = NoSession
  /\ headers = << >>
  /\ hstate = "HEADER_START"
  /\ head = BufInit
  /\ body = BufInit
  /\ pc = "idle"
  /\ attempts = 0
  /\ result = "none"
  /\ env = "none"
  /\ acct = "none"
  /\ ex = 0
  /\ wire = "none"
  /\ status = 0
  /\ nlines = 0
  /\ nchunks = 0
  /\ cc = "none"
  /\ cookies = << >>
  /\ reply = NoReply

\* performSession: rewind head and body, then curl_easy_perform starts.
PerformSession ==
  /\ head' = BufRewind(head)
  /\ body' = BufRewind(body)
  /\ ex' = ex + 1
  /\ pc' = "perform"
  /\ result' = "none"
  /\ wire' = "status"
  /\ status' = 0
  /\ nlines' = 0
  /\ nchunks' = 0
  /\ cookies' = << >>
  /\ reply' = NoReply
  /\ UNCHANGED warned

(***************************************************************************)
(* pam_sm_authenticate up to curl_easy_perform: the PAM_SILENT and         *)
(* PAM_DISALLOW_NULL_AUTHTOK flags, parseOpts, pam_get_user, getPassword,  *)
(* pam_set_item(PAM_AUTHTOK), getPort, getHost and the request builder of  *)
(* the configured method.  hostOk is FALSE when parseOpts, pam_get_user or *)
(* pam_set_item fails; all of these return AUTHINFO_UNAVAIL unwarned.      *)
(***************************************************************************)
\* (acct is what pam_sm_acct_mgmt returned since the last authentication.)
Authenticate ==
  /\ pc = "idle"
  /\ attempts < MaxAttempts
  /\ attempts' = attempts + 1
  /\ cc' = "none"
  /\ \E disallow \in BOOLEAN, hostOk \in BOOLEAN, input \in PasswordInputs,
        setupOk \in BOOLEAN :
       LET allow == allowNull /\ ~disallow
           pass  == GetPassword(input, allow)
           code  == RequestSetupCode(setupOk)
       IN /\ allowNull' = allow
          /\ \/ /\ ~hostOk \/ pass = "fail"
                /\ result' = "PAM_AUTHINFO_UNAVAIL"
                /\ UNCHANGED <<warned, head, body, pc, ex, wire, status, nlines,
                               nchunks, cookies, reply>>
             \/ /\ hostOk /\ pass # "fail"
                /\ code # "PAM_SUCCESS"
                /\ result' = code
                /\ WarnOnce(code)
                /\ UNCHANGED <<head, body, pc, ex, wire, status, nlines,
                               nchunks, cookies, reply>>
             \/ /\ hostOk /\ pass # "fail"
                /\ code = "PAM_SUCCESS"
                /\ PerformSession
  /\ acct' = "none"
  /\ UNCHANGED <<session, headers, hstate, env>>

\* curl calls onCurlHeader for the status line, each header and the blank line.
HeaderLine ==
  /\ pc = "perform"
  /\ wire \in {"status", "headers"}
  /\ nlines < MaxLines
  /\ nlines' = nlines + 1
  /\ \E line \in Lines, sz \in LineSizes, mOk \in AllocOutcomes, rRes \in ReallocOutcomes :
       /\ (line.kind = "status") = (wire = "status")
       /\ OnCurlHeader(line, IF line.kind = "blank" THEN 2 ELSE sz, mOk, rRes)
       /\ status' = IF line.kind = "status" THEN line.code ELSE status
       /\ cookies' = IF line.kind = "cookie" THEN Append(cookies, line.tok) ELSE cookies
  /\ UNCHANGED <<allowNull, warned, session, body, pc, attempts, result, env,
                 acct, ex, nchunks, cc, reply>>

\* curl calls onCurlWrite for each chunk of the body.
BodyChunk ==
  /\ pc = "perform"
  /\ wire = "body"
  /\ nchunks < MaxChunks
  /\ nchunks' = nchunks + 1
  /\ \E sz \in ChunkSizes, mOk \in AllocOutcomes, rRes \in ReallocOutcomes :
       OnCurlWrite(sz, mOk, rRes)
  /\ UNCHANGED <<allowNull, warned, session, headers, hstate, head, pc, attempts,
                 result, env, acct, ex, status, nlines, cc, cookies, reply>>

(***************************************************************************)
(* pam_sm_authenticate after parseResponse's status check: parseHeaders    *)
(* (whose AUTH_ERR is ignored), parseJson, the final session check and the *)
(* publication of the token with setenv and pam_misc_setenv.               *)
(***************************************************************************)
Interpret ==
  \/ /\ status = 401
     /\ result' = "PAM_AUTH_ERR"
     /\ UNCHANGED <<session, env, reply>>
  \/ /\ status \notin {200, 401}
     /\ result' = "PAM_AUTHINFO_UNAVAIL"
     /\ UNCHANGED <<session, env, reply>>
  \/ /\ status = 200
     \* parseHeaders' "head.start == NULL" return cannot happen here: the
     \* status line was saved in the head buffer before curl reported 200.
     /\ \E r \in ReadChoices, i \in 0..Len(headers), j \in BodyReplies :
          /\ FirstMatch(r, i)
          /\ \E v \in Reads(ParseHeaders(r, i)) :
               LET out == ParseJson(j, ParseHeaders(r, i), v)
               IN /\ session' = out.sess
                  /\ reply' = j
                  /\ \/ /\ out.code # "PAM_SUCCESS"
                        /\ result' = out.code
                        /\ UNCHANGED env
                     \/ /\ out.code = "PAM_SUCCESS"
                        /\ out.sess = NoSession
                        /\ result' = "PAM_AUTH_ERR"
                        /\ UNCHANGED env
                     \/ /\ out.code = "PAM_SUCCESS"
                        /\ out.sess # NoSession
                        /\ result' = "PAM_SUCCESS"
                        /\ env' \in PublishReads(out.sess, v)

\* curl_easy_perform returns; performSession maps its result, then the rest
\* of pam_sm_authenticate runs.
PerformDone ==
  /\ pc = "perform"
  /\ pc' = "idle"
  /\ \E c \in CurlResults(wire) :
       /\ cc' = c
       /\ \/ /\ PerformCode(c) # "PAM_SUCCESS"
             /\ result' = PerformCode(c)
             /\ WarnOnce(PerformCode(c))
             /\ UNCHANGED <<session, env, reply>>
          \/ /\ PerformCode(c) = "PAM_SUCCESS"
             /\ UNCHANGED warned
             /\ Interpret
  /\ UNCHANGED <<allowNull, headers, hstate, head, body, attempts, acct, ex, wire,
                 status, nlines, nchunks, cookies>>

\* pam_sm_acct_mgmt: PAM_SUCCESS iff data->session is set.
AcctMgmt ==
  /\ pc = "idle"
  /\ acct' = IF session = NoSession THEN "PAM_USER_UNKNOWN" ELSE "PAM_SUCCESS"
  /\ UNCHANGED <<dataVars, pc, attempts, result, env, xVars>>

Next ==
  \/ Authenticate
  \/ HeaderLine
  \/ BodyChunk
  \/ PerformDone
  \/ AcctMgmt

Spec == Init /\ [][Next]_vars

-----------------------------------------------------------------------------
TypeOK ==
  /\ allowNull \in BOOLEAN
  /\ warned \in BOOLEAN
  /\ session \in Sessions
  /\ headers \in Seq(Entries)
  /\ hstate \in HeaderStates
  /\ head \in Buf
  /\ body \in Buf
  /\ pc \in {"idle", "perform"}
  /\ attempts \in 0..MaxAttempts
  /\ result \in Results \cup {"none"}
  /\ env \in Tokens \cup {Garbage, "none"}
  /\ acct \in {"none", "PAM_SUCCESS", "PAM_USER_UNKNOWN"}
  /\ ex \in Nat
  /\ wire \in {"none", "status", "headers", "body", "aborted"}
  /\ status \in Statuses \cup {0}
  /\ nlines \in 0..MaxLines
  /\ nchunks \in 0..MaxChunks
  /\ cc \in CurlCodes \cup {"none"}
  /\ cookies \in Seq(Tokens)
  /\ reply \in Replies \cup {NoReply}

(***************************************************************************)
(* pam_sm_authenticate returns PAM_SUCCESS only for an exchange curl       *)
(* completed with HTTP status 200 whose body, if any, was a JSON object    *)
(* that did not report "success": false and had no mistyped message or     *)
(* null session field (spec 4.5, 4.6).                                     *)
(***************************************************************************)
SuccessRequiresApproval ==
  result = "PAM_SUCCESS" =>
    /\ cc = "CURLE_OK"
    /\ status = 200
    /\ reply.shape \in {"none", "object"}
    /\ reply.success \in {"absent", "true"}
    /\ reply.msgs = "ok"
    /\ reply.sess # "null"

(***************************************************************************)
(* The token a successful pam_sm_authenticate publishes is the one this    *)
(* exchange's server issued: the last Set-Cookie for the configured cookie *)
(* (parseHeaders scans the list newest first), with which a JSON session   *)
(* field must agree, or else the JSON session field (spec 4.4-4.6).        *)
(***************************************************************************)
SpecToken == IF cookies # << >> THEN cookies[Len(cookies)] ELSE reply.sess

PublishedTokenAsSpecified ==
  result = "PAM_SUCCESS" =>
    /\ env = SpecToken
    /\ (cookies # << >> /\ reply.sess \in Tokens) => reply.sess = cookies[Len(cookies)]

(***************************************************************************)
(* pam_sm_acct_mgmt's comment: a user without a valid cookie from this     *)
(* authentication is unknown to REST.  Account management succeeds only    *)
(* when the last pam_sm_authenticate on the handle succeeded.              *)
(***************************************************************************)
AcctRequiresAuth == acct = "PAM_SUCCESS" => result = "PAM_SUCCESS"

(***************************************************************************)
(* Spec 4.6 step 10 and 5: an availability error (a transport failure, or  *)
(* an HTTP status other than 200 and 401) is surfaced to the user with the *)
(* one-time warning; once pam_sm_authenticate has returned                 *)
(* AUTHINFO_UNAVAIL for an exchange, the warning has been issued.          *)
(***************************************************************************)
WarnedOnAvailabilityError ==
  (pc = "idle" /\ result = "PAM_AUTHINFO_UNAVAIL" /\ cc # "none") => warned

=============================================================================
